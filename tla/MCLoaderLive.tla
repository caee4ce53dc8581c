---------------------------- MODULE MCLoaderLive ----------------------------
(* Loader under a bounded number of API calls, for the liveness runs: with   *)
(* finitely many calls no caller can be overtaken forever, so weak fairness  *)
(* of every thread is all that is assumed.                                   *)
EXTENDS Loader

CONSTANT MaxCalls   \* calls of the API in a behaviour

ASSUME MaxCallsAssumption == MaxCalls \in Nat

VARIABLE calls

LiveVars == <<vars, calls>>

LiveInit == Init /\ calls = 0

LiveNext ==
    \/ UserStep /\ calls < MaxCalls /\ calls' = calls + 1
    \/ SystemStep /\ UNCHANGED calls

LiveSpec == LiveInit /\ [][LiveNext]_LiveVars /\ Fairness
=============================================================================
