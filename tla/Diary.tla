------------------------------- MODULE Diary --------------------------------
(***************************************************************************)
(* What the capture side promises its user: for each channel message the   *)
(* diary holds the text of at most one of the states the message has had,  *)
(* a later state only ever replaces an earlier one, a removed text never   *)
(* comes back, and "saved" is only ever said of a text that was captured.  *)
(***************************************************************************)
EXTENDS Naturals

CONSTANTS Ids,    \* what the user sent, numbered in sending order
          Things  \* the messages it was sent about

VARIABLES
    held,      \* message -> the text a search can find, or 0
    captured,  \* message -> the texts that were ever captured
    told       \* the texts the user was told are saved

diaryVars == <<held, captured, told>>

Nothing == 0

DiaryInit ==
    /\ held = [m \in Things |-> Nothing]
    /\ captured = [m \in Things |-> {}]
    /\ told = {}

Capture(m, id) ==
    /\ \A older \in captured[m] : older < id
    /\ held' = [held EXCEPT ![m] = id]
    /\ captured' = [captured EXCEPT ![m] = @ \union {id}]
    /\ UNCHANGED told

Forget(m) ==
    /\ held[m] # Nothing
    /\ held' = [held EXCEPT ![m] = Nothing]
    /\ UNCHANGED <<captured, told>>

Confirm(m, id) ==
    /\ id \in captured[m]
    /\ told' = told \union {id}
    /\ UNCHANGED <<held, captured>>

DiaryNext ==
    \E m \in Things : Forget(m) \/ \E id \in Ids : Capture(m, id) \/ Confirm(m, id)

DiarySpec == DiaryInit /\ [][DiaryNext]_diaryVars
=============================================================================
