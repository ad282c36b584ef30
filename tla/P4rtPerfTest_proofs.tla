------------------------- MODULE P4rtPerfTest_proofs -------------------------
(***************************************************************************)
(* Proofs about P4rtPerfTest, for any number of entries and runs and any   *)
(* number of threads that ValidateInput lets through.                      *)
(***************************************************************************)
EXTENDS P4rtPerfTest, TLAPS

(* Which threads are at work, and what the outcome of each says: a thread  *)
(* that returns without an error has sent its request.                     *)
ControlInv ==
  /\ pc \in [Threads -> {"idle", "arbitrate", "pipeline", "write", "return"}]
  /\ status \in [Threads -> {"ok", "error"}]
  /\ threadStatus \in [Threads -> {"SUCCESS", "INTERNAL_ERR"}]
  /\ oper \in {"ADD", "DEL"}
  /\ sent \subseteq Threads
  /\ \A t \in Threads : pc[t] # "idle" => t \in started \ finished
  /\ exitStatus # "none" => started \subseteq finished
  /\ started \subseteq Threads
  /\ \A t \in Threads :
       /\ pc[t] \notin {"idle", "return"} => status[t] = "ok"
       /\ pc[t] = "return" /\ status[t] = "ok" => t \in sent
       /\ t \in finished /\ threadStatus[t] = "SUCCESS" => t \in sent
  /\ SuccessMeansSent

(* What the requests of this run that were done completely left: the       *)
(* entries of the thread's share, or none of them.                         *)
TableInv ==
  /\ entries \subseteq AllEntries
  /\ \A t \in sent \ failed :
       IF oper = "ADD" THEN Batch(t) \subseteq entries ELSE Batch(t) \cap entries = {}

PerfInv == ControlInv /\ TableInv

-----------------------------------------------------------------------------
(***************************************************************************)
(* The arithmetic of PopulateThreadInfo.                                   *)
(***************************************************************************)
(* The numbers of thread t, of n threads, when each gets e and r are left. *)
Share(t, n, e, r) == t * e + 1 .. t * e + (e + (IF t = n - 1 THEN r ELSE 0))

(* The shares of up to 8 threads are the numbers from 1 to n * e + r.      *)
LEMMA SharesArithmetic ==
  ASSUME NEW N \in 1 .. 8, NEW e \in Nat, NEW r \in Nat
  PROVE  /\ \A t \in 0 .. N - 1 : Share(t, N, e, r) \subseteq 1 .. N * e + r
         /\ \A k \in 1 .. N * e + r : \E t \in 0 .. N - 1 : k \in Share(t, N, e, r)
<1>1. CASE N = 1
  BY <1>1 DEF Share
<1>2. CASE N = 2
  BY <1>2 DEF Share
<1>3. CASE N = 3
  BY <1>3 DEF Share
<1>4. CASE N = 4
  BY <1>4 DEF Share
<1>5. CASE N = 5
  BY <1>5 DEF Share
<1>6. CASE N = 6
  BY <1>6 DEF Share
<1>7. CASE N = 7
  BY <1>7 DEF Share
<1>8. CASE N = 8
  BY <1>8 DEF Share
<1>9. QED
  BY <1>1, <1>2, <1>3, <1>4, <1>5, <1>6, <1>7, <1>8

(* Quotient and remainder.                                                 *)
LEMMA DivMod ==
  ASSUME NEW N \in 1 .. 8, NEW T \in Nat
  PROVE  /\ T \div N \in Nat /\ T % N \in Nat
         /\ T = N * (T \div N) + (T % N)
<1>1. CASE N = 1
  BY <1>1
<1>2. CASE N = 2
  BY <1>2
<1>3. CASE N = 3
  BY <1>3
<1>4. CASE N = 4
  BY <1>4
<1>5. CASE N = 5
  BY <1>5
<1>6. CASE N = 6
  BY <1>6
<1>7. CASE N = 7
  BY <1>7
<1>8. CASE N = 8
  BY <1>8
<1>9. QED
  BY <1>1, <1>2, <1>3, <1>4, <1>5, <1>6, <1>7, <1>8

(* The shares of the threads are all entries, and nothing else.            *)
LEMMA BatchesCover ==
  /\ \A t \in Threads : Batch(t) \subseteq AllEntries
  /\ \A e \in AllEntries : \E t \in Threads : e \in Batch(t)
<1> DEFINE N == Cardinality(Threads)
           T == TotNumEntries
<1>1. N \in 1 .. 8 /\ Threads = 0 .. N - 1 /\ T \in Nat
  BY PerfAssumption
<1>2. EntriesPerThread \in Nat /\ RemRules \in Nat /\ T = N * EntriesPerThread + RemRules
  BY <1>1, DivMod DEF EntriesPerThread, RemRules
<1>3. ASSUME NEW t \in Threads
      PROVE  Batch(t) = {PrepareSimpleL2DemoTableEntry(n) :
                           n \in Share(t, N, EntriesPerThread, RemRules)}
  BY DEF Batch, PopulateThreadInfo, Share
<1> HIDE DEF N, T
<1>4. /\ \A t \in Threads : Share(t, N, EntriesPerThread, RemRules) \subseteq 1 .. T
      /\ \A k \in 1 .. T : \E t \in Threads : k \in Share(t, N, EntriesPerThread, RemRules)
  BY <1>1, <1>2, SharesArithmetic
<1>5. AllEntries = {PrepareSimpleL2DemoTableEntry(n) : n \in 1 .. T}
  BY DEF AllEntries, T
<1>6. QED
  BY <1>3, <1>4, <1>5

-----------------------------------------------------------------------------
(* A freshly started test satisfies the invariant.                         *)
LEMMA InvInit == PerfInit => PerfInv
BY DEF PerfInit, SessionInit, PerfInv, ControlInv, TableInv, SuccessMeansSent

(* A step that leaves the entries and the history of the requests alone.   *)
LEMMA TableFrame ==
  ASSUME TableInv, UNCHANGED <<entries, oper, sent, failed>>
  PROVE  TableInv'
BY DEF TableInv

(* A completed request leaves exactly its share in the table.              *)
LEMMA RequestStep ==
  ASSUME PerfInv, NEW t \in Threads, SimpleL2DemoTest(t)
  PROVE  PerfInv'
<1>1. ControlInv'
  BY DEF PerfInv, ControlInv, SimpleL2DemoTest, Return, Goto, SuccessMeansSent
<1>2. PICK done \in SUBSET Batch(t), ok \in BOOLEAN :
        /\ ok => done = Batch(t)
        /\ entries' = IF oper = "ADD" THEN entries \cup done
                      ELSE {e \in entries : ~HasKey(done, e)}
        /\ failed' = IF ok THEN failed ELSE failed \cup {t}
  BY DEF SimpleL2DemoTest
<1>3. oper' = oper /\ sent' = sent \cup {t}
  BY DEF SimpleL2DemoTest
<1>4. entries' \subseteq AllEntries
  BY <1>2, BatchesCover DEF PerfInv, TableInv
<1>5. ASSUME NEW u \in sent' \ failed'
      PROVE  IF oper = "ADD" THEN Batch(u) \subseteq entries' ELSE Batch(u) \cap entries' = {}
  <2>1. CASE u = t /\ ok
    BY <1>2, <2>1 DEF HasKey, SameKey
  <2>2. CASE u # t
    BY <1>2, <1>3, <1>5, <2>2 DEF PerfInv, TableInv
  <2>3. QED
    BY <1>2, <1>5, <2>1, <2>2
<1>6. TableInv'
  BY <1>3, <1>4, <1>5 DEF TableInv, AllEntries, Batch
<1>7. QED
  BY <1>1, <1>6 DEF PerfInv

(* Every step of main and of the threads preserves the invariant.          *)
LEMMA InvStep == PerfInv /\ [Next]_vars => PerfInv'
<1> SUFFICES ASSUME PerfInv, [Next]_vars PROVE PerfInv'
  OBVIOUS
<1> USE DEF PerfInv
<1>1. ASSUME NEW o \in {"ADD", "DEL"}, Run(o)
      PROVE  PerfInv'
  <2>1. \A t \in Threads : pc[t] = "idle"
    BY <1>1 DEF ControlInv, Run
  <2>2. ControlInv'
    BY <1>1, <2>1 DEF ControlInv, Run, sessionVars, SuccessMeansSent
  <2>3. TableInv'
    BY <1>1 DEF TableInv, Run, sessionVars
  <2>4. QED
    BY <2>2, <2>3
<1>2. ASSUME NEW t \in Threads, StartThread(t)
      PROVE  PerfInv'
  <2>1. ControlInv'
    BY <1>2 DEF ControlInv, StartThread, sessionVars, SuccessMeansSent
  <2>2. QED
    BY <1>2, <2>1, TableFrame DEF StartThread, sessionVars
<1>3. ASSUME NEW t \in Threads, RunPerfTest(t)
      PROVE  PerfInv'
  <2>1. ControlInv'
    BY <1>3 DEF ControlInv, RunPerfTest, BeginSession, Goto, perfVars, SuccessMeansSent
  <2>2. QED
    BY <1>3, <2>1, TableFrame DEF RunPerfTest, BeginSession, perfVars
<1>4. ASSUME NEW t \in Threads, SessionStep(t), UNCHANGED perfVars
      PROVE  PerfInv'
  <2>1. ControlInv'
    BY <1>4 DEF ControlInv, SessionStep, Arbitrate, ArbitrationFails, Return, Goto, perfVars,
                SuccessMeansSent
  <2>2. QED
    BY <1>4, <2>1, TableFrame DEF SessionStep, Arbitrate, ArbitrationFails, perfVars
<1>5. ASSUME NEW t \in Threads, FetchP4Info(t)
      PROVE  PerfInv'
  <2>1. ControlInv'
    BY <1>5 DEF ControlInv, FetchP4Info, GetPipelineConfig, Goto, perfVars, SuccessMeansSent
  <2>2. QED
    BY <1>5, <2>1, TableFrame DEF FetchP4Info, GetPipelineConfig, perfVars
<1>6. ASSUME NEW t \in Threads, EndThread(t)
      PROVE  PerfInv'
  <2>1. ControlInv'
    BY <1>6 DEF ControlInv, EndThread, EndSession, Goto, SuccessMeansSent
  <2>2. QED
    BY <1>6, <2>1, TableFrame DEF EndThread, EndSession
<1>7. CASE JoinThreads
  <2>1. ControlInv'
    BY <1>7 DEF ControlInv, JoinThreads, sessionVars, SuccessMeansSent
  <2>2. QED
    BY <1>7, <2>1, TableFrame DEF JoinThreads, sessionVars
<1>8. CASE Environment /\ UNCHANGED perfVars
  <2>1. ControlInv'
    BY <1>8 DEF ControlInv, Environment, Tick, StreamClosed, perfVars, SuccessMeansSent
  <2>2. QED
    BY <1>8, <2>1, TableFrame DEF Environment, Tick, StreamClosed, perfVars
<1>9. CASE UNCHANGED vars
  <2>1. ControlInv'
    BY <1>9 DEF ControlInv, vars, sessionVars, perfVars, SuccessMeansSent
  <2>2. QED
    BY <1>9, <2>1, TableFrame DEF vars, sessionVars, perfVars
<1>10. QED
  BY <1>1, <1>2, <1>3, <1>4, <1>5, <1>6, <1>7, <1>8, <1>9, RequestStep DEF Next, ThreadStep

(* The inductive invariant: which threads are at work, and what the        *)
(* completed requests of a run left in the table.                          *)
THEOREM PerfInvariant == Spec => []PerfInv
BY InvInit, InvStep, PTL DEF Spec

(* The shares of the threads neither overlap nor leave a gap, for any      *)
(* number of entries and threads and whatever earlier runs left.           *)
THEOREM SharesDoCover == Spec => []SharesCover
<1>1. ASSUME PerfInv, sent = Threads, failed = {}
      PROVE  entries = IF oper = "ADD" THEN AllEntries ELSE {}
  <2>1. CASE oper = "ADD"
    <3>1. \A t \in Threads : Batch(t) \subseteq entries
      BY <1>1, <2>1 DEF PerfInv, TableInv
    <3>2. QED
      BY <1>1, <2>1, <3>1, BatchesCover DEF PerfInv, TableInv
  <2>2. CASE oper # "ADD"
    <3>1. \A t \in Threads : Batch(t) \cap entries = {}
      BY <1>1, <2>2 DEF PerfInv, TableInv
    <3>2. QED
      BY <1>1, <2>2, <3>1, BatchesCover DEF PerfInv, TableInv
  <2>3. QED
    BY <2>1, <2>2
<1>2. PerfInv => SharesCover
  BY <1>1 DEF SharesCover
<1>3. QED
  BY <1>2, PerfInvariant, PTL

(* main exits with SUCCESS only when every thread has sent its request.    *)
THEOREM SuccessIsSent == Spec => []SuccessMeansSent
<1>1. PerfInv => SuccessMeansSent
  BY DEF PerfInv, ControlInv
<1>2. QED
  BY <1>1, PerfInvariant, PTL
=============================================================================
