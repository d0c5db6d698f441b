------------------------------ MODULE MCDiary -------------------------------
(***************************************************************************)
(* DiarySystem for TLC.  Operators and messages are interchangeable; the   *)
(* runs and updates are not, their numbers order them in time.             *)
(***************************************************************************)
EXTENDS DiarySystem, TLC

Interchangeable == Permutations(Messages) \union Permutations(Operators)
=============================================================================
