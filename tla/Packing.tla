------------------------------- MODULE Packing -------------------------------
(***************************************************************************)
(* pack_drafts_into_messages: a header and an ordered list of blocks as    *)
(* messages of at most Cap characters.  A text is reduced to its length;   *)
(* the header is block 0.  A message is the sequence of its pieces and its *)
(* length; a piece is a block, or a stretch of an oversized one.  What the *)
(* code returns for no header and no block, which no caller passes, is     *)
(* left out, and so is the ValueError of a Cap too small for a footer.     *)
(***************************************************************************)
EXTENDS Integers, FiniteSets, SequencesExt

CONSTANTS
    Cap,        \* Telegram's limit for one message
    Separator   \* length of what is put between blocks and before a footer

ASSUME PackingAssumption == Cap \in Nat \ {0} /\ Separator \in Nat \ {0}

\* The bound on the parts of a text, far beyond what Telegram lets one be.
MostParts == 999

\* Decimal digits of the number of a part.
Digits(n) == IF n < 10 THEN 1 ELSE IF n < 100 THEN 2 ELSE 3

\* "(part k/n)" after a separator.
Footer(k, n) == Separator + 8 + Digits(k) + Digits(n)

\* Defect: the digits of the footer are not counted.
BodyCapRoughly(n) == Cap - Separator - 8

\* Characters of the block in each part, sized for the widest footer.
BodyCap(n) == Cap - Footer(n, n)

\* The first n the loop of _split_oversized stops at.
IsPartCount(n, size) ==
    /\ n \in Nat \ {0}
    /\ \A k \in 1..n : BodyCap(k) >= 1
    /\ BodyCap(n) * n >= size
    /\ \A k \in 1..(n - 1) : BodyCap(k) * k < size

PartCount(size) == CHOOSE n \in 1..MostParts : IsPartCount(n, size)

\* block[start:start + length]
Piece(block, start, length) == [block |-> block, start |-> start, length |-> length]

Split(block, size) ==
    LET n == PartCount(size)
        Part(k) == LET start == (k - 1) * BodyCap(n)
                   IN  Piece(block, start, Min({BodyCap(n), size - start}))
    IN  [k \in 1..n |-> [pieces |-> <<Part(k)>>, length |-> Part(k).length + Footer(k, n)]]

-----------------------------------------------------------------------------
(***************************************************************************)
(* The loop over the blocks: the messages so far, and the one being        *)
(* filled.  An empty one is never sent.                                    *)
(***************************************************************************)
Whole(block, size) == [pieces |-> <<Piece(block, 0, size)>>, length |-> size]

Empty == [pieces |-> <<>>, length |-> 0]

Flushed(state) ==
    IF state.current.length = 0 THEN state.messages ELSE Append(state.messages, state.current)

Joined(message, block, size) ==
    [pieces |-> Append(message.pieces, Piece(block, 0, size)),
     length |-> message.length + Separator + size]

\* One turn of the loop.
Take(state, block, size) ==
    IF size > Cap
    THEN [messages |-> Flushed(state) \o Split(block, size), current |-> Empty]
    ELSE IF state.current.length = 0
    THEN [state EXCEPT !.current = Whole(block, size)]
    ELSE IF state.current.length + Separator + size <= Cap
    THEN [state EXCEPT !.current = Joined(state.current, block, size)]
    ELSE [messages |-> Flushed(state), current |-> Whole(block, size)]

\* After each block, the header being before the first.
Loop(header, blocks) ==
    LET state[b \in 0..Len(blocks)] ==
            IF b = 0 THEN [messages |-> <<>>, current |-> Whole(0, header)]
            ELSE Take(state[b - 1], b, blocks[b])
    IN  state

Pack(header, blocks) == Flushed(Loop(header, blocks)[Len(blocks)])

-----------------------------------------------------------------------------
(***************************************************************************)
(* What a reader of the messages can put together again.                   *)
(***************************************************************************)
Sizes(header, blocks) == [b \in 0..Len(blocks) |-> IF b = 0 THEN header ELSE blocks[b]]

Opening(message) == message.pieces[1]
Closing(message) == message.pieces[Len(message.pieces)]

Begins(piece) == piece.start = 0
Ends(piece, size) == piece.start + piece.length = size[piece.block]

\* The text of q is what comes after that of p.
Follows(q, p, size) ==
    \/ q.block = p.block /\ q.start = p.start + p.length
    \/ q.block = p.block + 1 /\ Begins(q) /\ Ends(p, size)

\* A block that fits into one message is not split, and one that does not
\* shares none of its messages.
IsSound(message, size) ==
    /\ message.length <= Cap
    /\ message.pieces # <<>>
    /\ \A i \in DOMAIN message.pieces :
          LET p == message.pieces[i]
          IN  /\ p.block \in DOMAIN size /\ p.length > 0
              /\ IF size[p.block] <= Cap THEN Begins(p) /\ Ends(p, size)
                 ELSE Len(message.pieces) = 1
              /\ i > 1 => Follows(p, message.pieces[i - 1], size)

\* D-030: every block is there, in order and to its last character, and no
\* message is longer than Cap.
IsFaithful(messages, header, blocks) ==
    LET size == Sizes(header, blocks)
    IN  /\ messages # <<>>
        /\ \A i \in DOMAIN messages :
              /\ IsSound(messages[i], size)
              /\ i > 1 => Follows(Opening(messages[i]), Closing(messages[i - 1]), size)
        /\ Opening(messages[1]).block = (IF header = 0 THEN 1 ELSE 0)
        /\ Begins(Opening(messages[1]))
        /\ LET last == Closing(messages[Len(messages)])
           IN  last.block = Len(blocks) /\ Ends(last, size)
=============================================================================
