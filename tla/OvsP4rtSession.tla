--------------------------- MODULE OvsP4rtSession ---------------------------
(***************************************************************************)
(* A P4Runtime session of ovs-p4rt, shared by every API of the library:    *)
(* each call opens a session of its own (an arbitration stream with an     *)
(* election id), fetches the pipeline's P4Info, reads and writes table     *)
(* entries, and closes the session when it returns.                        *)
(*                                                                         *)
(* OVS calls the library from several handler and revalidator threads, so  *)
(* the calls of different threads interleave between any two RPCs.  The    *)
(* arbitration of the P4Runtime server (Stratum, in infrap4d) is external: *)
(* it refuses an election id that an open stream of the role uses, and     *)
(* the primary is the holder of the highest id it has ever seen.           *)
(*                                                                         *)
(* The modules of the APIs extend this one: they start a call with         *)
(* BeginSession and use SendReadRequest and SendWriteRequest for its RPCs. *)
(***************************************************************************)
EXTENDS P4rtTables

CONSTANTS
  Threads,    \* threads of ovs-vswitchd that call ovs-p4rt
  ThreadId,   \* pthread_self() of each thread
  MaxClock    \* bound on the clock (unix seconds)

ASSUME ThreadIdAssumption ==
  /\ ThreadId \in [Threads -> Nat]
  /\ \A t, u \in Threads : ThreadId[t] = ThreadId[u] => t = u

ASSUME MaxClockAssumption == MaxClock \in Nat \ {0}

VARIABLES
  clock,       \* the current second
  pc,          \* per thread: the next step of its call, "idle" between calls
  electionId,  \* per thread: the election id of its session
  p4info,      \* per thread: TRUE iff its call obtained the pipeline's P4Info
  status,      \* per thread: the status its call returns
  streams,     \* server: election ids of the streams it holds open
  highest,     \* server: the highest election id ever seen
  entries      \* server: the table entries

sessionVars == <<clock, pc, electionId, p4info, status, streams, highest, entries>>

-----------------------------------------------------------------------------
(* Election ids are 128 bits: the seconds in the upper half, the thread id *)
(* added into the lower half, which is 0 before.                           *)
ElectionIds == Nat \X Nat

Higher(a, b) == a[1] > b[1] \/ (a[1] = b[1] /\ a[2] > b[2])

TimeBasedElectionId(now) == <<now, 0>>

(* Mutants of NewElectionId: without the thread id; with it subtracted.  *)
NewElectionId_NoThread(t) == TimeBasedElectionId(clock)
NewElectionId_Subtracts(t) == <<clock, 0 - ThreadId[t]>>

(* The election id of a session that thread t creates.                     *)
NewElectionId(t) ==
  LET id == TimeBasedElectionId(clock) IN <<id[1], id[2] + ThreadId[t]>>

NoElectionId == <<0, 0>>

(* The server takes a Write only from the primary, and finds no table when *)
(* the table id was looked up in an empty P4Info.                          *)
CanWrite(t) == p4info[t] /\ electionId[t] = highest

(* pcs of a thread whose stream the client has not closed yet.             *)
HoldsStream(t) == pc[t] \notin {"idle", "arbitrate", "return"}

-----------------------------------------------------------------------------
SessionInit ==
  /\ clock = 1
  /\ pc = [t \in Threads |-> "idle"]
  /\ electionId = [t \in Threads |-> NoElectionId]
  /\ p4info = [t \in Threads |-> FALSE]
  /\ status = [t \in Threads |-> "ok"]
  /\ streams = {}
  /\ highest = NoElectionId
  /\ entries = {}

Goto(t, label) == pc' = [pc EXCEPT ![t] = label]

Return(t, st) ==
  /\ Goto(t, "return")
  /\ status' = [status EXCEPT ![t] = st]

Tick ==
  /\ clock < MaxClock
  /\ clock' = clock + 1
  /\ UNCHANGED <<pc, electionId, p4info, status, streams, highest, entries>>

(* Client::connect: compute the election id; the stream is opened next.    *)
BeginSession(t) ==
  /\ pc[t] = "idle"
  /\ Goto(t, "arbitrate")
  /\ electionId' = [electionId EXCEPT ![t] = NewElectionId(t)]
  /\ p4info' = [p4info EXCEPT ![t] = FALSE]
  /\ status' = [status EXCEPT ![t] = "ok"]
  /\ UNCHANGED <<clock, streams, highest, entries>>

(* The server's side of an arbitration request.                            *)
OpenStream(id) ==
  /\ id \notin streams
  /\ streams' = streams \cup {id}
  /\ highest' = IF Higher(highest, id) THEN highest ELSE id

(* The client takes any arbitration response for an accepted session, also *)
(* the one that tells it that it is not the primary.                       *)
Arbitrate(t) ==
  /\ pc[t] = "arbitrate"
  /\ OpenStream(electionId[t])
  /\ Goto(t, "pipeline")
  /\ UNCHANGED <<clock, electionId, p4info, status, entries>>

(* Create fails: the id is in use (the server closes the stream), the      *)
(* channel is down, the role file is bad, or the response is lost -- the   *)
(* server may have processed the request in the last case.                 *)
ArbitrationFails(t) ==
  /\ pc[t] = "arbitrate"
  /\ \/ OpenStream(electionId[t])
     \/ UNCHANGED <<streams, highest>>
  /\ Return(t, "error")
  /\ UNCHANGED <<clock, electionId, p4info, entries>>

(* GetForwardingPipelineConfig drops the status of the RPC: when it fails, *)
(* the call goes on with an empty P4Info.                                  *)
GetPipelineConfig(t, label) ==
  /\ pc[t] = "pipeline"
  /\ \E ok \in BOOLEAN : p4info' = [p4info EXCEPT ![t] = ok]
  /\ Goto(t, label)
  /\ UNCHANGED <<clock, electionId, status, streams, highest, entries>>

(* The status of reading entry e: an exact read succeeds iff the key       *)
(* exists, any read may fail.  A request that names no table is a wildcard *)
(* read of whatever the server makes of it.                                *)
SendReadRequest(t, e, ok) ==
  \/ ~ok
  \/ ok /\ p4info[t] /\ HasKey(entries, e)
  \/ ok /\ e.table = "none"

(* One Write RPC with one update.  It is refused, applied, lost on the way *)
(* to the server, or applied with its response lost.                       *)
SendWriteRequest(t, e, insert, ok) ==
  \/ /\ CanWrite(t)
     /\ Accepts(entries, e, insert)
     /\ entries' = Apply(entries, e, insert)
  \/ ~ok /\ UNCHANGED entries

(* The session object is destroyed when the call returns; the server       *)
(* notices the closed stream some time later.                              *)
EndSession(t) ==
  /\ pc[t] = "return"
  /\ Goto(t, "idle")
  /\ electionId' = [electionId EXCEPT ![t] = NoElectionId]
  /\ p4info' = [p4info EXCEPT ![t] = FALSE]
  /\ status' = [status EXCEPT ![t] = "ok"]
  /\ UNCHANGED <<clock, streams, highest, entries>>

StreamClosed(id) ==
  /\ id \in streams
  /\ \A t \in Threads : HoldsStream(t) => electionId[t] # id
  /\ streams' = streams \ {id}
  /\ UNCHANGED <<clock, pc, electionId, p4info, status, highest, entries>>

(* The steps of a session that are the same for every API.                 *)
SessionStep(t) == Arbitrate(t) \/ ArbitrationFails(t)

(* Whether the server owes thread t an answer (external).  A session that  *)
(* asks for the election id of an open stream gets an error or, as Create  *)
(* says of duplicate ids, gets stuck: the client waits without a deadline. *)
Answered(t) == pc[t] = "arbitrate" => electionId[t] \notin streams

Environment == Tick \/ \E id \in streams : StreamClosed(id)
=============================================================================
