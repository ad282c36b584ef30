---------------------------- MODULE Daemon_proofs ----------------------------
(***************************************************************************)
(* Proofs about Daemon.                                                    *)
(***************************************************************************)
EXTENDS Daemon, TLAPS

Labels == {"none", "start", "pipe", "fork", "close", "read", "blocked", "waitpid",
           "complete", "main", "serving", "gone"}

(* Before the fork, and where there is none, the child does not exist; the *)
(* parent that waits never runs the switch.  A failure is reported by a    *)
(* process that has ended, and its child has ended before or never was.    *)
ControlInv ==
  /\ pc \in [Processes -> Labels]
  /\ exit \in [Processes -> {"none", "0", "error", "aborted", "killed"}]
  /\ pc["child"] \in {"none", "close", "complete", "main", "serving", "gone"}
  /\ pc["parent"] \in {"start", "pipe", "fork", "complete", "main", "serving"}
       => pc["child"] = "none"
  /\ exit["parent"] # "none" => pc["parent"] = "gone"
  /\ FailureMeansNoDaemon

(* Who holds which end of the pipe: a process that has ended holds none,   *)
(* the parent that reads is no writer, and the child's byte is in the pipe *)
(* once it has got past daemonize_complete while the parent reads.         *)
PipeInv ==
  /\ readers \subseteq Processes /\ writers \subseteq Processes
  /\ pc["parent"] \in {"start", "pipe"} => writers = {}
  /\ pc["parent"] \in {"start", "pipe", "fork"} => forked = "no"
  /\ pc["child"] # "none" => forked = "yes"
  /\ pc["child"] = "none" => "child" \notin writers
  /\ \A p \in Processes : pc[p] = "gone" => p \notin writers
  /\ pc["parent"] \in {"read", "waitpid"} => "parent" \notin writers
  /\ pc["parent"] \in {"close", "read"} /\ pipeOk => "parent" \in readers
  /\ pc["parent"] = "fork" /\ pipeOk => "parent" \in readers
  /\ pc["parent"] \in {"close", "read"} => pc["child"] # "none"
  /\ pc["parent"] \in {"close", "read"} /\ pipeOk /\ pc["child"] \in {"main", "serving"} => byte

DaemonInv == ControlInv /\ PipeInv

-----------------------------------------------------------------------------
(* A freshly started infrap4d satisfies the invariant.                     *)
LEMMA InvInit == Init => DaemonInv
BY DEF Init, DaemonInv, ControlInv, PipeInv, Processes, Labels, FailureMeansNoDaemon

(* The end of a process that is not in the way of the invariant.           *)
LEMMA ExitStep ==
  ASSUME DaemonInv, NEW p \in Processes, NEW how \in {"0", "error", "aborted", "killed"},
         Alive(p), Exit(p, how),
         p = "parent" /\ how \in {"error", "aborted"} => ~Alive("child")
  PROVE  DaemonInv'
<1>1. ControlInv'
  BY DEF DaemonInv, ControlInv, Exit, Goto, Alive, FailureMeansNoDaemon, Processes, Labels
<1>2. PipeInv'
  BY DEF DaemonInv, ControlInv, PipeInv, Exit, Goto, Alive, Processes, Labels
<1>3. QED
  BY <1>1, <1>2 DEF DaemonInv

(* Every step of parent, child and krnlmon preserves it.                   *)
LEMMA InvStep == DaemonInv /\ [Next]_vars => DaemonInv'
<1> SUFFICES ASSUME DaemonInv, [Next]_vars PROVE DaemonInv'
  OBVIOUS
<1> USE DEF DaemonInv, Processes, Labels
<1>1. CASE Start
  BY <1>1 DEF ControlInv, PipeInv, FailureMeansNoDaemon, Alive, Start, Goto
<1>2. CASE Pipe
  BY <1>2 DEF ControlInv, PipeInv, FailureMeansNoDaemon, Alive, Pipe, Goto
<1>3. CASE fork_and_clean_up
  BY <1>3 DEF ControlInv, PipeInv, FailureMeansNoDaemon, Alive, fork_and_clean_up
<1>4. CASE ForkFails
  BY <1>4 DEF ControlInv, PipeInv, FailureMeansNoDaemon, Alive, ForkFails, Goto
<1>5. CASE read_fully
  <2>1. CASE Exit("parent", "0")
    BY <1>5, <2>1, ExitStep DEF read_fully, Alive
  <2>2. ASSUME NEW label \in {"waitpid", "blocked"}, Goto("parent", label),
               UNCHANGED <<exit, detach, krnlmon, pipeOk, forked, readers, writers, byte, ready>>
        PROVE  DaemonInv'
    BY <1>5, <2>2 DEF ControlInv, PipeInv, FailureMeansNoDaemon, Alive, read_fully, Goto
  <2>3. QED
    BY <1>5, <2>1, <2>2 DEF read_fully
<1>6. CASE waitpid
  BY <1>6, ExitStep DEF waitpid, Alive
<1>7. CASE KrnlmonStarts
  BY <1>7 DEF ControlInv, PipeInv, FailureMeansNoDaemon, Alive, KrnlmonStarts
<1>8. ASSUME NEW p \in Processes, CloseOtherEnd(p)
      PROVE  DaemonInv'
  <2>1. /\ pc[p] = "close" /\ pc' = [pc EXCEPT ![p] = IF p = "parent" THEN "read" ELSE "complete"]
        /\ readers' = IF p = "parent" THEN readers ELSE readers \ {p}
        /\ writers' = IF p = "parent" THEN writers \ {p} ELSE writers
        /\ UNCHANGED <<exit, pipeOk, forked, byte>>
    BY <1>8 DEF CloseOtherEnd, Goto
  <2>2. ControlInv'
    BY <2>1 DEF ControlInv, FailureMeansNoDaemon, Alive
  <2>3. PipeInv'
    <3>1. CASE p = "parent"
      BY <2>1, <3>1 DEF PipeInv, ControlInv
    <3>2. CASE p = "child"
      BY <2>1, <3>2 DEF PipeInv, ControlInv
    <3>3. QED
      BY <3>1, <3>2
  <2>4. QED
    BY <2>2, <2>3
<1>9. ASSUME NEW p \in Processes, daemonize_complete(p)
      PROVE  DaemonInv'
  <2>1. CASE Exit(p, "killed")
    BY <1>9, <2>1, ExitStep DEF daemonize_complete, Alive
  <2>2. CASE ~Exit(p, "killed")
    <3>1. /\ pc[p] = "complete" /\ pc' = [pc EXCEPT ![p] = "main"]
          /\ byte' = (forked = "yes" /\ readers # {})
          /\ UNCHANGED <<exit, pipeOk, forked, readers, writers>>
      BY <1>9, <2>2 DEF daemonize_complete, Goto
    <3>2. ControlInv'
      BY <3>1 DEF ControlInv, FailureMeansNoDaemon, Alive
    <3>3. PipeInv'
      <4>1. p = "child" /\ pc["parent"] \in {"close", "read"} /\ pipeOk => byte'
        BY <3>1 DEF PipeInv
      <4>2. QED
        BY <3>1, <4>1 DEF PipeInv, ControlInv
    <3>4. QED
      BY <3>2, <3>3
  <2>3. QED
    BY <2>1, <2>2
<1>10. ASSUME NEW p \in Processes, Main(p)
       PROVE  DaemonInv'
  <2>1. CASE Exit(p, "error")
    BY <1>10, <2>1, ExitStep DEF Main, Alive, ControlInv
  <2>2. CASE ~Exit(p, "error")
    <3>1. /\ pc[p] = "main" /\ pc' = [pc EXCEPT ![p] = "serving"]
          /\ UNCHANGED <<exit, pipeOk, forked, readers, writers, byte>>
      BY <1>10, <2>2 DEF Main, Goto
    <3>2. QED
      BY <3>1 DEF ControlInv, PipeInv, FailureMeansNoDaemon, Alive
  <2>3. QED
    BY <2>1, <2>2
<1>11. ASSUME NEW p \in Processes, MainReturns(p)
       PROVE  DaemonInv'
  BY <1>11, ExitStep DEF MainReturns, Alive, ControlInv
<1>12. ASSUME NEW p \in Processes, Killed(p)
       PROVE  DaemonInv'
  BY <1>12, ExitStep DEF Killed
<1>13. CASE UNCHANGED vars
  BY <1>13 DEF ControlInv, PipeInv, FailureMeansNoDaemon, Alive, vars
<1>14. QED
  BY <1>1, <1>2, <1>3, <1>4, <1>5, <1>6, <1>7, <1>8, <1>9, <1>10, <1>11, <1>12, <1>13
     DEF Next, ParentStep, Step

(* The inductive invariant of the start-up.                                *)
THEOREM DaemonInvariant == Spec => []DaemonInv
BY InvInit, InvStep, PTL DEF Spec

(* A failure is final: a parent that exited with an error, or aborted,     *)
(* leaves no daemon behind.                                                *)
THEOREM FailureIsFinal == Spec => []FailureMeansNoDaemon
<1>1. DaemonInv => FailureMeansNoDaemon
  BY DEF DaemonInv, ControlInv
<1>2. QED
  BY <1>1, DaemonInvariant, PTL

(* A parent that reads from the pipe can go on once the child has ended or *)
(* has notified: the safety half of ForegroundReturns.                     *)
THEOREM ReaderIsReleased == Spec => []ReaderReleased
<1>1. DaemonInv => ReaderReleased
  BY DEF DaemonInv, ControlInv, PipeInv, ReaderReleased, Processes
<1>2. QED
  BY <1>1, DaemonInvariant, PTL
=============================================================================
