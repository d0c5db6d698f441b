------------------------------- MODULE Faults -------------------------------
(***************************************************************************)
(* The faults the other modules may suffer, each counted against a budget  *)
(* so that the state space stays finite.                                   *)
(*                                                                         *)
(*   failures  store calls that raise (pool timeout, lost connection) and  *)
(*             processes killed between two store transactions             *)
(*   outages   provider calls that raise after their bounded retries       *)
(*   lostAcks  HTTP 200 answers that Telegram never receives               *)
(*                                                                         *)
(* None of the three exists in the code: they are the environment.         *)
(***************************************************************************)
EXTENDS Naturals

CONSTANTS MaxFailures, MaxOutages, MaxLostAcks

ASSUME FaultBudgets ==
    /\ MaxFailures \in Nat
    /\ MaxOutages \in Nat
    /\ MaxLostAcks \in Nat

VARIABLES failures, outages, lostAcks

faultVars == <<failures, outages, lostAcks>>

FaultsTypeOK ==
    /\ failures \in 0..MaxFailures
    /\ outages \in 0..MaxOutages
    /\ lostAcks \in 0..MaxLostAcks

FaultsInit == failures = 0 /\ outages = 0 /\ lostAcks = 0

NoFault == UNCHANGED faultVars

StoreFault ==
    /\ failures < MaxFailures
    /\ failures' = failures + 1
    /\ UNCHANGED <<outages, lostAcks>>

ProviderFault ==
    /\ outages < MaxOutages
    /\ outages' = outages + 1
    /\ UNCHANGED <<failures, lostAcks>>

AckLost ==
    /\ lostAcks < MaxLostAcks
    /\ lostAcks' = lostAcks + 1
    /\ UNCHANGED <<failures, outages>>
=============================================================================
