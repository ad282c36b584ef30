------------------------------ MODULE MCFdbOdd ------------------------------
(***************************************************************************)
(* Odd calls: one thread with every kind of learn_info, in one second (its *)
(* sessions are the primary in any); or two threads that learn and forget  *)
(* one MAC address, in the same second or not, and whose sessions must not *)
(* get each other stuck.                                                   *)
(***************************************************************************)
EXTENDS MCFdb

VARIABLE callers   \* the threads that make calls

Calls(t) == pc[t] = "idle" /\ pc'[t] # "idle"

MCInit == FdbInit /\ callers \in {{1}, {1, 2}}
MCNext ==
  /\ Next
  /\ UNCHANGED callers
  /\ \A t \in Threads : Calls(t) => t \in callers
  /\ IF callers = {1} THEN UNCHANGED clock
     ELSE \A t \in Threads : Calls(t) => info'[t] \in {Vlan(1, 1, 17)} \cup Forget1

MCSpec == MCInit /\ [][MCNext]_<<vars, callers>> /\ Fairness
=============================================================================
