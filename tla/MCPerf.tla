------------------------------- MODULE MCPerf -------------------------------
(***************************************************************************)
(* Instances of P4rtPerfTest for TLC.                                      *)
(***************************************************************************)
EXTENDS P4rtPerfTest

Threads2 == 0 .. 1
Ids2 == [t \in Threads2 |-> t + 1]
=============================================================================
