--------------------------- MODULE MCConversation ---------------------------
(***************************************************************************)
(* Conversation for TLC: two communities, the chunks all in the first, so  *)
(* that whatever the second is shown has leaked.  Chunks are               *)
(* interchangeable; calls are numbered in starting order.                  *)
(***************************************************************************)
EXTENDS Conversation, TLC

CONSTANTS home, away

\* Deployments.
OnPostgres == [store : {"postgres"}, knowledge : {FALSE}]
NoKnowledge == [store : {"postgres", "sqlite"}, knowledge : {FALSE}]
Anywhere == OnPostgres \union [store : {"postgres", "sqlite"}, knowledge : {TRUE}]

AllAtHome == [k \in Chunks |-> home]

Interchangeable == Permutations(Chunks)
=============================================================================
