---------------------------- MODULE P4rtPerfTest ----------------------------
(***************************************************************************)
(* p4rt_perf_test: a client that fills or empties one table of the switch. *)
(* main divides the entries among its threads; each thread opens a session *)
(* and sends its share in one Write request; main joins the threads, looks *)
(* at their status and exits.                                              *)
(*                                                                         *)
(* The program has its own copy of the session code of ovs-p4rt, so the    *)
(* sessions are those of OvsP4rtSession.                                   *)
(***************************************************************************)
EXTENDS OvsP4rtSession, FiniteSets

CONSTANTS
  TotNumEntries,   \* test_params.tot_num_entries
  MaxRuns          \* bound on the number of times the program is started

(* ValidateInput refuses more than 8 threads; none at all is a division by *)
(* zero in PopulateThreadInfo.                                             *)
ASSUME PerfAssumption ==
  /\ TotNumEntries \in Nat
  /\ MaxRuns \in Nat
  /\ Threads = 0 .. Cardinality(Threads) - 1
  /\ Cardinality(Threads) \in 1 .. 8

VARIABLES
  runs,          \* how many times the program was started
  oper,          \* test_params.oper: "ADD" or "DEL"
  started,       \* threads that main has created
  finished,      \* threads that have ended
  threadStatus,  \* thread_data[].status
  exitStatus,    \* status of the program; "none" while it runs
  sent,          \* history: threads that sent their request in this run
  failed         \* history: threads whose request was not done completely

perfVars == <<runs, oper, started, finished, threadStatus, exitStatus, sent, failed>>
vars     == <<sessionVars, perfVars>>

-----------------------------------------------------------------------------
(* SimpleL2DemoTest: entry number n has n as its source address and n + 1  *)
(* as its destination address.  (The 48 bits never overflow: the number of *)
(* entries comes from atoi.)                                               *)
PrepareSimpleL2DemoTableEntry(n) ==
  Entry("my_control.e_fwd", <<n + 1, n>>, "my_control.send", <<1>>)

EntriesPerThread == TotNumEntries \div Cardinality(Threads)
RemRules         == TotNumEntries % Cardinality(Threads)

(* Mutant of PopulateThreadInfo: the remaining entries are left out.       *)
PopulateThreadInfo_NoRest(t) ==
  [start |-> t * EntriesPerThread, num_entries |-> EntriesPerThread]

(* The last thread gets the remaining entries as well.                     *)
PopulateThreadInfo(t) ==
  [start |-> t * EntriesPerThread,
   num_entries |-> EntriesPerThread + (IF t = Cardinality(Threads) - 1 THEN RemRules ELSE 0)]

(* The updates of the request of thread t.                                 *)
Batch(t) ==
  LET data == PopulateThreadInfo(t) IN
  {PrepareSimpleL2DemoTableEntry(n) : n \in data.start + 1 .. data.start + data.num_entries}

-----------------------------------------------------------------------------
PerfInit ==
  /\ SessionInit
  /\ runs = 0
  /\ oper = "ADD"
  /\ started = {}
  /\ finished = {}
  /\ threadStatus = [t \in Threads |-> "SUCCESS"]
  /\ exitStatus = "SUCCESS"
  /\ sent = {}
  /\ failed = {}

(* The user starts the program.                                            *)
Run(o) ==
  /\ exitStatus # "none"
  /\ runs < MaxRuns
  /\ runs' = runs + 1
  /\ oper' = o
  /\ started' = {} /\ finished' = {} /\ sent' = {} /\ failed' = {}
  /\ threadStatus' = [t \in Threads |-> "SUCCESS"]
  /\ exitStatus' = "none"
  /\ UNCHANGED sessionVars

(* main creates thread t, which first opens a session.                     *)
StartThread(t) ==
  /\ exitStatus = "none"
  /\ t = Cardinality(started) /\ t \notin started
  /\ started' = started \cup {t}
  /\ UNCHANGED <<sessionVars, runs, oper, finished, threadStatus, exitStatus, sent, failed>>

RunPerfTest(t) ==
  /\ t \in started \ finished
  /\ BeginSession(t)
  /\ UNCHANGED perfVars

FetchP4Info(t) ==
  /\ GetPipelineConfig(t, "write")
  /\ UNCHANGED perfVars

(* One request with many updates: the server does the ones it can, and     *)
(* reports an error if it could not do all of them.  The thread drops the  *)
(* status.                                                                 *)
SimpleL2DemoTest(t) ==
  /\ pc[t] = "write"
  /\ \E done \in SUBSET Batch(t), ok \in BOOLEAN :
       /\ \A e \in done : CanWrite(t) /\ Accepts(entries, e, oper = "ADD")
       /\ ok => done = Batch(t)
       /\ entries' = IF oper = "ADD" THEN entries \cup done
                     ELSE {e \in entries : ~HasKey(done, e)}
       /\ failed' = IF ok THEN failed ELSE failed \cup {t}
  /\ sent' = sent \cup {t}
  /\ Return(t, "ok")
  /\ UNCHANGED <<clock, electionId, p4info, streams, highest,
                 runs, oper, started, finished, threadStatus, exitStatus>>

(* The thread ends; a session that could not be opened is its error.       *)
EndThread(t) ==
  /\ EndSession(t)
  /\ finished' = finished \cup {t}
  /\ threadStatus' = [threadStatus EXCEPT ![t] = IF status[t] = "ok" THEN "SUCCESS" ELSE "INTERNAL_ERR"]
  /\ UNCHANGED <<runs, oper, started, exitStatus, sent, failed>>

(* Mutant of JoinThreads: the status of the last thread counts.            *)
JoinThreads_LastCounts ==
  /\ exitStatus = "none"
  /\ finished = Threads
  /\ exitStatus' = threadStatus[Cardinality(Threads) - 1]
  /\ UNCHANGED <<sessionVars, runs, oper, started, finished, threadStatus, sent, failed>>

(* main has joined all threads: one with an error makes the program fail.  *)
JoinThreads ==
  /\ exitStatus = "none"
  /\ finished = Threads
  /\ exitStatus' = IF \A t \in Threads : threadStatus[t] = "SUCCESS" THEN "SUCCESS" ELSE "INTERNAL_ERR"
  /\ UNCHANGED <<sessionVars, runs, oper, started, finished, threadStatus, sent, failed>>

-----------------------------------------------------------------------------
ThreadStep(t) ==
  \/ RunPerfTest(t)
  \/ SessionStep(t) /\ UNCHANGED perfVars
  \/ FetchP4Info(t)
  \/ SimpleL2DemoTest(t)
  \/ EndThread(t)

Next ==
  \/ \E o \in {"ADD", "DEL"} : Run(o)
  \/ \E t \in Threads : StartThread(t) \/ ThreadStep(t)
  \/ JoinThreads
  \/ Environment /\ UNCHANGED perfVars

Spec == PerfInit /\ [][Next]_vars

(* main goes on, and so does a thread while the server owes it an answer.  *)
(* Nothing forces the server to answer a duplicate election id, nor the    *)
(* user to start the program.                                              *)
FairSpec ==
  /\ Spec
  /\ \A t \in Threads : WF_vars(StartThread(t)) /\ WF_vars(ThreadStep(t) /\ Answered(t))
  /\ WF_vars(JoinThreads)

-----------------------------------------------------------------------------
(***************************************************************************)
(* Properties.                                                             *)
(***************************************************************************)
AllEntries == {PrepareSimpleL2DemoTableEntry(n) : n \in 1 .. TotNumEntries}

(* The shares of the threads neither overlap nor leave a gap: a run in     *)
(* which every thread sent its request and every request was done leaves   *)
(* the table with exactly the entries 1 to tot_num_entries, or with none   *)
(* after DEL -- whatever earlier runs that failed half-way left there.     *)
SharesCover ==
  exitStatus # "none" /\ sent = Threads /\ failed = {} =>
    entries = IF oper = "ADD" THEN AllEntries ELSE {}

(* main passes on the error of any thread: it exits with SUCCESS only when *)
(* every thread of the run got as far as sending its request.              *)
SuccessMeansSent ==
  exitStatus = "SUCCESS" /\ runs > 0 => sent = Threads

(* The threads of a run never get each other stuck: a run that starts when *)
(* the server has closed the streams of the earlier ones ends, main does   *)
(* not wait for ever in pthread_join, although all threads may compute     *)
(* their election ids in the same second (P4rtSession::Create adds the     *)
(* thread id).                                                             *)
RunEnds == exitStatus = "none" /\ started = {} /\ streams = {} ~> exitStatus # "none"
=============================================================================
