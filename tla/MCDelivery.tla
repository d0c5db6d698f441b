----------------------------- MODULE MCDelivery -----------------------------
(***************************************************************************)
(* Delivery for TLC: two messages captured earlier, one of them without    *)
(* its author snapshot, and two updates of every kind.                     *)
(***************************************************************************)
EXTENDS Delivery, TLC

CONSTANTS
    ShortText, LongText,  \* lengths: within Cap, and of several parts
    u1, u2                \* the updates to come

Plain(kinds, lengths, limits) == [kind : kinds, length : lengths, limit : limits]

EarlierTexts == Plain({"draft"}, {LongText}, {0}) \union Plain({"note"}, {ShortText}, {0})

\* /drafts with nothing usable, without a number, and with one beyond the cap.
AnyContents ==
    Plain(Captures, {ShortText}, {0})
    \union Plain({"drafts"}, {0}, {-1, 0, 3})
    \union Plain({"question", "sources", "export"}, {0}, {0})

\* The two are interchangeable, and the earlier ones are alike.
Turn(u) ==
    LET kinds == <<"note", "draft", "question", "sources", "export", "drafts">>
    IN  CHOOSE i \in DOMAIN kinds : kinds[i] = content[u].kind

RepresentativeInit ==
    /\ Init
    /\ Turn(u1) <= Turn(u2)
    /\ \A e, f \in Earlier : content[e] = content[f]

Representative == RepresentativeInit /\ [][Next]_vars /\ Fairness
=============================================================================
