------------------------------- MODULE Daemon -------------------------------
(***************************************************************************)
(* Start-up of infrap4d: the process the user starts makes a pipe and      *)
(* forks; the child writes a byte into the pipe when daemonize_complete    *)
(* tells it to, and runs the switch; the parent waits for the byte, or for *)
(* the end of the child, and exits with the result.                        *)
(*                                                                         *)
(* Stratum's Main, which initialises the switch and serves until it is     *)
(* told to stop, and the krnlmon threads, which wait for its notification, *)
(* are external.  Any process can be killed by a signal at any time.       *)
(***************************************************************************)
EXTENDS Naturals

Processes == {"parent", "child"}   \* parent: the process the user started

VARIABLES
  pc,       \* per process: "none" before the fork, "gone" after its end
  exit,     \* per process: how it ended
  detach,   \* FLAGS_detach
  krnlmon,  \* the krnlmon thread: "disabled", "off", "waiting" or "running"
  pipeOk,   \* pipe(fds) succeeded
  forked,   \* result of fork(): "no", "yes" or "failed"
  readers,  \* processes that hold the read end of the pipe
  writers,  \* processes that hold the write end
  byte,     \* the byte is in the pipe
  ready     \* ready_sync: Stratum has been initialised

vars == <<pc, exit, detach, krnlmon, pipeOk, forked, readers, writers, byte, ready>>

Alive(p)   == pc[p] \notin {"none", "gone"}
RunsMain(p) == pc[p] \in {"main", "serving"}

-----------------------------------------------------------------------------
Init ==
  /\ pc = [p \in Processes |-> IF p = "parent" THEN "start" ELSE "none"]
  /\ exit = [p \in Processes |-> "none"]
  /\ detach \in BOOLEAN
  /\ krnlmon \in {"disabled", "off"}
  /\ pipeOk = FALSE
  /\ forked = "no"
  /\ readers = {}
  /\ writers = {}
  /\ byte = FALSE
  /\ ready = FALSE

Goto(p, label) == pc' = [pc EXCEPT ![p] = label]

(* The end of a process closes its ends of the pipe and its threads.       *)
Exit(p, how) ==
  /\ Goto(p, "gone")
  /\ exit' = [exit EXCEPT ![p] = how]
  /\ readers' = readers \ {p}
  /\ writers' = writers \ {p}
  /\ krnlmon' = IF RunsMain(p) /\ krnlmon # "disabled" THEN "off" ELSE krnlmon
  /\ UNCHANGED <<detach, pipeOk, forked, byte, ready>>

Killed(p) == Alive(p) /\ Exit(p, "killed")

(* main: without --detach go straight to the switch.                       *)
Start ==
  /\ pc["parent"] = "start"
  /\ Goto("parent", IF detach THEN "pipe" ELSE "main")
  /\ UNCHANGED <<exit, detach, krnlmon, pipeOk, forked, readers, writers, byte, ready>>

(* A failure is only printed: fds stays uninitialised.                     *)
Pipe ==
  /\ pc["parent"] = "pipe"
  /\ pipeOk' \in BOOLEAN
  /\ readers' = IF pipeOk' THEN {"parent"} ELSE {}
  /\ writers' = readers'
  /\ Goto("parent", "fork")
  /\ UNCHANGED <<exit, detach, krnlmon, forked, byte, ready>>

fork_and_clean_up ==
  /\ pc["parent"] = "fork"
  /\ forked' = "yes"
  /\ pc' = [parent |-> "close", child |-> "close"]
  /\ readers' = IF pipeOk THEN Processes ELSE {}
  /\ writers' = readers'
  /\ UNCHANGED <<exit, detach, krnlmon, pipeOk, byte, ready>>

(* A failed fork is only printed, too.  pid is not positive, so the        *)
(* process goes the way of the child, with daemonize_fd = -1.              *)
ForkFails ==
  /\ pc["parent"] = "fork"
  /\ forked' = "failed"
  /\ Goto("parent", "complete")
  /\ UNCHANGED <<exit, detach, krnlmon, pipeOk, readers, writers, byte, ready>>

(* Mutant of CloseOtherEnd: the parent keeps its write end open.           *)
CloseOtherEnd_KeepsWriter(p) ==
  /\ pc[p] = "close"
  /\ IF p = "parent"
       THEN UNCHANGED <<readers, writers>> /\ Goto(p, "read")
       ELSE readers' = readers \ {p} /\ UNCHANGED writers /\ Goto(p, "complete")
  /\ UNCHANGED <<exit, detach, krnlmon, pipeOk, forked, byte, ready>>

(* Each process closes the end it does not use.                            *)
CloseOtherEnd(p) ==
  /\ pc[p] = "close"
  /\ IF p = "parent"
       THEN writers' = writers \ {p} /\ UNCHANGED readers /\ Goto(p, "read")
       ELSE readers' = readers \ {p} /\ UNCHANGED writers /\ Goto(p, "complete")
  /\ UNCHANGED <<exit, detach, krnlmon, pipeOk, forked, byte, ready>>

(* Mutant of read_fully: end of file is an error to exit with at once.     *)
read_fully_ExitsAtOnce ==
  /\ pc["parent"] = "read"
  /\ \/ (byte \/ ~pipeOk) /\ Exit("parent", "0")
     \/ (writers = {} \/ ~pipeOk) /\ Exit("parent", "error")

(* The parent blocks until there is a byte or no writer is left.  Without  *)
(* a pipe it reads from whatever number is in fds[0]: it gets a byte, gets *)
(* an error, or waits for input that never comes.                          *)
read_fully ==
  /\ pc["parent"] = "read"
  /\ \/ (byte \/ ~pipeOk) /\ Exit("parent", "0")
     \/ /\ (~byte /\ writers = {}) \/ ~pipeOk
        /\ Goto("parent", "waitpid")
        /\ UNCHANGED <<exit, detach, krnlmon, pipeOk, forked, readers, writers, byte, ready>>
     \/ /\ ~pipeOk
        /\ Goto("parent", "blocked")
        /\ UNCHANGED <<exit, detach, krnlmon, pipeOk, forked, readers, writers, byte, ready>>

(* The child has ended: pass its error on.  For a child that was killed or *)
(* exited with 0 the parent prints that it could not detach, and exits     *)
(* with 0 all the same.  Where SIGCHLD is ignored there is no status to    *)
(* collect.                                                                *)
waitpid ==
  /\ pc["parent"] = "waitpid"
  /\ pc["child"] = "gone"
  /\ \/ Exit("parent", IF exit["child"] = "error" THEN "error" ELSE "0")
     \/ Exit("parent", "aborted")

(* daemonize_complete: write the byte.  A write into a pipe that nobody    *)
(* reads kills the process, or fails where SIGPIPE is ignored; a failure   *)
(* is printed.                                                             *)
daemonize_complete(p) ==
  /\ pc[p] = "complete"
  /\ \/ /\ byte' = (forked = "yes" /\ readers # {})
        /\ Goto(p, "main")
        /\ UNCHANGED <<exit, detach, krnlmon, pipeOk, forked, readers, writers, ready>>
     \/ forked = "yes" /\ readers = {} /\ Exit(p, "killed")

(* Create the krnlmon thread, initialise Stratum, notify.                  *)
Main(p) ==
  /\ pc[p] = "main"
  /\ \/ /\ Goto(p, "serving")
        /\ ready' = TRUE
        /\ krnlmon' = IF krnlmon = "off" THEN "waiting" ELSE krnlmon
        /\ UNCHANGED <<exit, detach, pipeOk, forked, readers, writers, byte>>
     \/ Exit(p, "error")

(* The server is shut down or fails.                                       *)
MainReturns(p) ==
  /\ pc[p] = "serving"
  /\ Exit(p, "0") \/ Exit(p, "error")

KrnlmonStarts ==
  /\ krnlmon = "waiting" /\ ready
  /\ krnlmon' = "running"
  /\ UNCHANGED <<pc, exit, detach, pipeOk, forked, readers, writers, byte, ready>>

-----------------------------------------------------------------------------
ParentStep == Start \/ Pipe \/ fork_and_clean_up \/ ForkFails \/ read_fully \/ waitpid

Step(p) == CloseOtherEnd(p) \/ daemonize_complete(p) \/ Main(p)

Next ==
  \/ ParentStep
  \/ KrnlmonStarts
  \/ \E p \in Processes : Step(p) \/ MainReturns(p) \/ Killed(p)

(* A process that can go on does.  Nothing makes a server stop, or a       *)
(* signal arrive.                                                          *)
Fairness ==
  /\ WF_vars(ParentStep)
  /\ \A p \in Processes : WF_vars(Step(p))

Spec == Init /\ [][Next]_vars /\ Fairness

-----------------------------------------------------------------------------
(***************************************************************************)
(* Properties.                                                             *)
(***************************************************************************)

(* The shell gets its prompt back: if the pipe could be made, the parent   *)
(* that waits in fork_and_wait_for_startup ends, whether the child         *)
(* notifies it, fails or is killed at any point.  It rests on each process *)
(* closing the end it does not use.                                        *)
ForegroundReturns == (forked = "yes" /\ pipeOk) ~> (pc["parent"] = "gone")

(* A failure is final: when the parent has exited with an error or has     *)
(* aborted, no daemon is left behind -- also when the pipe failed and the  *)
(* two processes could not talk.                                           *)
FailureMeansNoDaemon ==
  exit["parent"] \in {"error", "aborted"} => ~Alive("child")

(* Nobody waits for a byte that never comes: once the child has ended, or  *)
(* has gone past daemonize_complete, a parent that reads from the pipe     *)
(* finds the byte in it, or the end of file because no writer is left.     *)
ReaderReleased ==
  pc["parent"] = "read" /\ pipeOk /\ pc["child"] \in {"main", "serving", "gone"} =>
    byte \/ writers = {}

(* What the comment of daemonize_start promises: the parent that was       *)
(* notified exits with 0 after the child has completed its startup.        *)
SuccessMeansStarted == exit["parent"] = "0" /\ byte => ready
=============================================================================
