-------------------------- MODULE DpdkConfig_proofs --------------------------
(***************************************************************************)
(* Proofs about DpdkConfig, for any set of threads and any arguments.      *)
(***************************************************************************)
EXTENDS DpdkConfig, TLAPS

Macs == {i.mac_addr : i \in LearnInfos}

TX == "L2_FWD_TX_TABLE"
RX == "L2_FWD_RX_WITH_TUNNEL_TABLE"

(* Which steps belong to which call.                                       *)
ControlInv ==
  \A t \in Threads :
    /\ pc[t] \in {"writeTx", "writeRx"} =>
         api[t] = "fdb" /\ ~info[t].is_tunnel /\ info[t].is_vlan
    /\ pc[t] = "writeTunnel" => api[t] = "fdb" /\ info[t].is_tunnel
    /\ pc[t] \in {"encap", "term"} => api[t] = "tunnel"
    /\ pc[t] \notin {"idle", "return"} => status[t] = "ok"

(* Where the RX entries of the switch come from.                           *)
EntriesInv ==
  \A e \in entries :
    e.table = RX => \E i \in LearnInfos : ~i.is_tunnel /\ e = EncodeFdbRxVlanTableEntry(i)

(* The entries that a call has dealt with when it is at a given step.      *)
BehindAt(label, st, a, i) ==
  IF label = "writeRx" THEN {EncodeFdbTxVlanTableEntry(i)}
  ELSE IF label = "term" THEN {EncodeVxlanEncapTableEntry(i)}
  ELSE IF label = "return" /\ st = "ok" THEN CallEntries(a, i)
  ELSE {}

Behind(t) == BehindAt(pc[t], status[t], api[t], info[t])

Done(e, ins) == IF ins THEN e \in entries ELSE ~HasKey(entries, e)

(* A call whose entries nobody touched finds them as it left them.         *)
DoneInv == \A t \in Threads : ~touched[t] => \A e \in Behind(t) : Done(e, insert[t])

(* A MAC address on which no calls overlapped has one call at a time, and  *)
(* what that call needs to know of the TX table does not depend on touched.*)
AloneInv ==
  \A t, u \in Threads : \A m \in Macs \ broken : OnMac(m, t) /\ OnMac(m, u) => t = u

TxInv ==
  \A t \in Threads :
    pc[t] = "writeRx" /\ info[t].mac_addr \notin broken =>
      Done(EncodeFdbTxVlanTableEntry(info[t]), insert[t])

(* The RX entries of a MAC address have a TX entry with the same port.     *)
Matched(m) ==
  \A rx \in entries :
    rx.table = RX /\ rx.key = <<m>> =>
      \E tx \in entries : tx.table = TX /\ tx.key = <<m>> /\ tx.action = rx.action

(* A delete of m between its two writes.                                   *)
HalfDeleted(m) == \E t \in Threads : OnMac(m, t) /\ ~insert[t] /\ pc[t] = "writeRx"

MatchInv == \A m \in Macs \ broken : Matched(m) \/ HalfDeleted(m)

DpdkInv ==
  /\ DpdkTypeOK
  /\ ControlInv
  /\ EntriesInv
  /\ DoneInv
  /\ AloneInv
  /\ TxInv
  /\ MatchInv

-----------------------------------------------------------------------------
(***************************************************************************)
(* Tables, keys and types.                                                 *)
(***************************************************************************)
(* A write does not concern entries with another key.                      *)
LEMMA ApplyFrame ==
  ASSUME NEW es, NEW e, NEW f, NEW ins \in BOOLEAN, ~SameKey(e, f)
  PROVE  /\ f \in Apply(es, e, ins) <=> f \in es
         /\ HasKey(Apply(es, e, ins), f) <=> HasKey(es, f)
BY DEF Apply, HasKey, SameKey

(* A write that was applied did what it is for.                            *)
LEMMA ApplyEffect ==
  ASSUME NEW es, NEW e
  PROVE  e \in Apply(es, e, TRUE) /\ ~HasKey(Apply(es, e, FALSE), e)
BY DEF Apply, HasKey, SameKey

(* The tables and keys of the encoders.                                    *)
LEMMA EncodedKeys ==
  ASSUME NEW i
  PROVE  /\ EncodeFdbTxVlanTableEntry(i).table = TX
         /\ EncodeFdbTxVlanTableEntry(i).key = <<i.mac_addr>>
         /\ EncodeFdbRxVlanTableEntry(i).table = RX
         /\ EncodeFdbRxVlanTableEntry(i).key = <<i.mac_addr>>
         /\ EncodeFdbRxVlanTableEntry(i).action = EncodeFdbTxVlanTableEntry(i).action
         /\ EncodeFdbTableEntryforV4VxlanTunnel(i).table = TX
         /\ EncodeFdbTableEntryforV4VxlanTunnel(i).key = <<i.mac_addr>>
         /\ EncodeVxlanEncapTableEntry(i).table = "VXLAN_ENCAP_MOD_TABLE"
         /\ EncodeTunnelTermTableEntry(i).table = "IPV4_TUNNEL_TERM_TABLE"
BY DEF EncodeFdbTxVlanTableEntry, EncodeFdbRxVlanTableEntry, EncodeFdbTableEntryforV4VxlanTunnel,
       EncodeVxlanEncapTableEntry, EncodeTunnelTermTableEntry, EncodeL2FwdTxTablePrologue, Entry,
       TX, RX

(* What a call writes at each of its steps, and where it goes from there.  *)
WriteAt(t) ==
  CASE pc[t] = "writeTunnel" -> EncodeFdbTableEntryforV4VxlanTunnel(info[t])
    [] pc[t] = "writeTx"     -> EncodeFdbTxVlanTableEntry(info[t])
    [] pc[t] = "writeRx"     -> EncodeFdbRxVlanTableEntry(info[t])
    [] pc[t] = "encap"       -> EncodeVxlanEncapTableEntry(info[t])
    [] pc[t] = "term"        -> EncodeTunnelTermTableEntry(info[t])

LabelAfter(label) ==
  CASE label = "writeTx" -> "writeRx" [] label = "encap" -> "term" [] OTHER -> "return"

Writes == {"writeTunnel", "writeTx", "writeRx", "encap", "term"}

(* Every write of a call has this form.                                    *)
WriteStep(t) == pc[t] \in Writes /\ Write(t, WriteAt(t), LabelAfter(pc[t]))

(* Every write of either call is a WriteStep.                              *)
LEMMA CallWrites ==
  ASSUME NEW t \in Threads, ConfigFdbEntry(t) \/ ConfigTunnelEntry(t)
  PROVE  WriteStep(t)
BY DEF ConfigFdbEntry, ConfigTunnelEntry, WriteFdbTunnelTableEntry, WriteFdbTxVlanTableEntry,
       WriteFdbRxVlanTableEntry, WriteEncapTableEntry, WriteTunnelTermTableEntry,
       WriteStep, WriteAt, LabelAfter, Writes

(* What a write changes: the tables as the server does it, or nothing, and *)
(* the write counts as done only in the former case.                       *)
LEMMA WriteOutcome ==
  ASSUME NEW t \in Threads, DpdkTypeOK, WriteStep(t)
  PROVE  /\ entries' = entries \/ entries' = Apply(entries, WriteAt(t), insert[t])
         /\ \/ /\ entries' = Apply(entries, WriteAt(t), insert[t])
               /\ pc' = [pc EXCEPT ![t] = LabelAfter(pc[t])] /\ status' = status
               /\ broken' = broken
            \/ /\ pc' = [pc EXCEPT ![t] = "return"]
               /\ status' = [status EXCEPT ![t] = "error"]
               /\ broken' = IF api[t] = "fdb" /\ ~insert[t] /\ Orphaned(entries', info[t].mac_addr)
                              THEN broken \cup {info[t].mac_addr} ELSE broken
         /\ UNCHANGED <<clock, electionId, p4info, streams, highest, api, insert, info>>
         /\ touched' = [u \in Threads |->
              touched[u] \/ (/\ u # t /\ pc[u] # "idle"
                             /\ entries' # entries
                             /\ HasKey(CallEntries(api[u], info[u]), WriteAt(t)))]
<1> DEFINE e == WriteAt(t)
           label == LabelAfter(pc[t])
<1>1. PICK ok \in BOOLEAN :
        /\ SendWriteRequest(t, e, insert[t], ok)
        /\ IF ok THEN Goto(t, label) /\ UNCHANGED status ELSE Return(t, "error")
        /\ WriteHistory(t, e, ok)
  BY DEF WriteStep, Write
<1>2. UNCHANGED <<clock, electionId, p4info, streams, highest, api, insert, info>>
  BY DEF WriteStep, Write
<1> HIDE DEF e, label
<1>3. CASE ok
  BY <1>1, <1>2, <1>3 DEF SendWriteRequest, Goto, WriteHistory, e, label
<1>4. CASE ~ok
  BY <1>1, <1>2, <1>4 DEF SendWriteRequest, Return, Goto, WriteHistory, e
<1>5. QED
  BY <1>3, <1>4

-----------------------------------------------------------------------------
(***************************************************************************)
(* Type correctness.                                                       *)
(***************************************************************************)
LEMMA TypeInit == DpdkInit => DpdkTypeOK
BY DEF DpdkInit, SessionInit, DpdkTypeOK, ElectionIds, NoElectionId, NoInfo

(* Every step keeps the variables well typed.                              *)
LEMMA TypeStep == DpdkTypeOK /\ [Next]_vars => DpdkTypeOK'
<1> SUFFICES ASSUME DpdkTypeOK, [Next]_vars PROVE DpdkTypeOK'
  OBVIOUS
<1> USE DEF DpdkTypeOK
<1>1. ASSUME NEW t \in Threads, NEW a \in {"fdb", "tunnel"}, NEW ins \in BOOLEAN,
             NEW i \in (IF a = "fdb" THEN LearnInfos ELSE TunnelInfos), DoConfig(t, a, ins, i)
      PROVE  DpdkTypeOK'
  <2>1. NewElectionId(t) \in ElectionIds
    BY ThreadIdAssumption DEF NewElectionId, TimeBasedElectionId, ElectionIds
  <2>2. broken' \subseteq {j.mac_addr : j \in LearnInfos}
    BY <1>1 DEF DoConfig, StartHistory
  <2>3. QED
    BY <1>1, <2>1, <2>2 DEF DoConfig, BeginSession, Goto, StartHistory
<1>2. ASSUME NEW t \in Threads, SessionStep(t), UNCHANGED dpdkVars PROVE DpdkTypeOK'
  BY <1>2 DEF SessionStep, Arbitrate, ArbitrationFails, OpenStream, Goto, Return, dpdkVars
<1>3. ASSUME NEW t \in Threads, FetchP4Info(t) PROVE DpdkTypeOK'
  BY <1>3 DEF FetchP4Info, GetPipelineConfig, FirstLabel, Goto, dpdkVars
<1>4. ASSUME NEW t \in Threads, WriteStep(t) PROVE DpdkTypeOK'
  <2>1. api[t] = "fdb" => info[t].mac_addr \in {j.mac_addr : j \in LearnInfos}
    BY <1>4 DEF WriteStep, Writes
  <2>2. touched' \in [Threads -> BOOLEAN]
    <3>1. touched \in [Threads -> BOOLEAN]
      OBVIOUS
    <3> HIDE DEF DpdkTypeOK
    <3>2. QED
      BY <1>4, <3>1, WriteOutcome
  <2>3. LabelAfter(pc[t]) \in {"writeRx", "term", "return"}
    BY <1>4 DEF WriteStep, Writes, LabelAfter
  <2>4. pc[t] # "idle"
    BY <1>4 DEF WriteStep, Writes
  <2>5. QED
    BY <1>4, <2>1, <2>2, <2>3, <2>4, WriteOutcome
<1>5. ASSUME NEW t \in Threads, EndCall(t) PROVE DpdkTypeOK'
  BY <1>5 DEF EndCall, EndSession, Goto, NoElectionId, ElectionIds
<1>6. CASE Environment /\ UNCHANGED dpdkVars
  BY <1>6 DEF Environment, Tick, StreamClosed, dpdkVars
<1>7. CASE UNCHANGED vars
  BY <1>7 DEF vars, sessionVars, dpdkVars
<1>8. ASSUME NEW t \in Threads, NEW ins \in BOOLEAN,
             DoConfigFdbEntry(t, ins) \/ DoConfigTunnelEntry(t, ins)
      PROVE  DpdkTypeOK'
  BY <1>1, <1>8 DEF DoConfigFdbEntry, DoConfigTunnelEntry
<1>9. QED
  BY <1>2, <1>3, <1>4, <1>5, <1>6, <1>7, <1>8, CallWrites DEF Next, CallStep

(* Type correctness of the DPDK calls.                                     *)
THEOREM DpdkTypeCorrect == Spec => []DpdkTypeOK
BY TypeInit, TypeStep, PTL DEF Spec
-----------------------------------------------------------------------------
(***************************************************************************)
(* The inductive invariant: steps that leave the tables alone.             *)
(***************************************************************************)
LEMMA InvInit == DpdkInit => DpdkInv
<1> SUFFICES ASSUME DpdkInit PROVE DpdkInv
  OBVIOUS
<1>1. /\ entries = {}
      /\ \A t \in Threads : pc[t] = "idle"
  BY DEF DpdkInit, SessionInit
<1>2. ControlInv /\ EntriesInv /\ AloneInv /\ TxInv
  BY <1>1 DEF ControlInv, EntriesInv, AloneInv, TxInv, OnMac
<1>3. DoneInv
  BY <1>1 DEF DoneInv, Behind, BehindAt
<1>4. MatchInv
  BY <1>1 DEF MatchInv, Matched
<1>5. QED
  BY <1>2, <1>3, <1>4, TypeInit DEF DpdkInv

(* A step of a session before the first write of its call: to the next     *)
(* step, or to the return of a call that failed or has nothing to write.   *)
LEMMA QuietStep ==
  ASSUME DpdkInv, DpdkTypeOK', NEW t \in Threads, pc[t] \in {"arbitrate", "pipeline"},
         NEW label \in {"pipeline", "writeTunnel", "writeTx", "encap", "return"},
         NEW st \in {"ok", "error"},
         pc' = [pc EXCEPT ![t] = label], status' = [status EXCEPT ![t] = st],
         UNCHANGED <<entries, dpdkVars>>,
         label = "pipeline" \/ label = FirstLabel(api[t], info[t]) \/ st = "error",
         st = "error" => label = "return"
  PROVE  DpdkInv'
<1> USE DEF dpdkVars
<1>1. /\ pc \in [Threads -> {"idle", "arbitrate", "pipeline", "writeTunnel", "writeTx", "writeRx",
                             "encap", "term", "return"}]
      /\ status \in [Threads -> {"ok", "error"}]
  BY DEF DpdkInv, DpdkTypeOK
<1>2. ControlInv'
  <2>1. api[t] \in {"fdb", "tunnel"}
    BY DEF DpdkInv, DpdkTypeOK
  <2>2. QED
    BY <1>1, <2>1 DEF DpdkInv, ControlInv, FirstLabel
<1>3. EntriesInv'
  BY DEF DpdkInv, EntriesInv
<1>4. DoneInv'
  <2>1. Behind(t)' = {}
    BY <1>1 DEF Behind, BehindAt, FirstLabel, CallEntries
  <2>2. \A u \in Threads : u # t => Behind(u)' = Behind(u)
    BY <1>1 DEF Behind
  <2>3. QED
    BY <2>1, <2>2 DEF DpdkInv, DoneInv, Done
<1>5. \A u \in Threads : \A m : OnMac(m, u)' <=> OnMac(m, u)
  BY <1>1 DEF OnMac
<1>6. AloneInv' /\ TxInv'
  BY <1>1, <1>5 DEF DpdkInv, AloneInv, TxInv, Done
<1>7. MatchInv'
  BY <1>1, <1>5 DEF DpdkInv, MatchInv, Matched, HalfDeleted
<1>8. QED
  BY <1>2, <1>3, <1>4, <1>6, <1>7 DEF DpdkInv

(* Starting a call preserves the invariant: it has nothing behind it.      *)
LEMMA StartStep ==
  ASSUME DpdkInv, DpdkTypeOK', NEW t \in Threads, NEW a \in {"fdb", "tunnel"}, NEW ins \in BOOLEAN,
         NEW i, DoConfig(t, a, ins, i)
  PROVE  DpdkInv'
<1> USE DEF DoConfig, BeginSession, Goto, StartHistory
<1>1. /\ pc \in [Threads -> {"idle", "arbitrate", "pipeline", "writeTunnel", "writeTx", "writeRx",
                             "encap", "term", "return"}]
      /\ status \in [Threads -> {"ok", "error"}]
      /\ api \in [Threads -> {"fdb", "tunnel"}] /\ insert \in [Threads -> BOOLEAN]
      /\ touched \in [Threads -> BOOLEAN]
      /\ info = [u \in Threads |-> info[u]]
  BY DEF DpdkInv, DpdkTypeOK
<1>2. /\ pc[t] = "idle" /\ pc'[t] = "arbitrate" /\ status'[t] = "ok"
      /\ api'[t] = a /\ insert'[t] = ins /\ info'[t] = i
      /\ \A u \in Threads \ {t} : /\ pc'[u] = pc[u] /\ status'[u] = status[u] /\ api'[u] = api[u]
                                  /\ insert'[u] = insert[u] /\ info'[u] = info[u]
                                  /\ touched'[u] = touched[u]
      /\ entries' = entries /\ broken \subseteq broken'
  BY <1>1
<1>3. ControlInv'
  BY <1>2 DEF DpdkInv, ControlInv
<1>4. EntriesInv'
  BY <1>2 DEF DpdkInv, EntriesInv
<1>5. DoneInv'
  <2>1. Behind(t)' = {}
    BY <1>2 DEF Behind, BehindAt
  <2>2. \A u \in Threads \ {t} : Behind(u)' = Behind(u)
    BY <1>2 DEF Behind
  <2>3. QED
    BY <1>2, <2>1, <2>2 DEF DpdkInv, DoneInv, Done
<1>6. \A u \in Threads \ {t} : \A m : OnMac(m, u)' <=> OnMac(m, u)
  BY <1>2 DEF OnMac
<1>7. AloneInv'
  <2>1. \A m : OnMac(m, t)' => a = "fdb" /\ m = i.mac_addr
    BY <1>2 DEF OnMac
  <2>2. \A m \in Macs \ broken', u \in Threads \ {t} : ~(OnMac(m, t)' /\ OnMac(m, u)')
    BY <1>2, <1>6, <2>1
  <2>3. QED
    BY <1>2, <1>6, <2>2 DEF DpdkInv, AloneInv, Macs
<1>8. TxInv'
  BY <1>2 DEF DpdkInv, TxInv, Done
<1>9. MatchInv'
  <2>1. \A m : HalfDeleted(m) => HalfDeleted(m)'
    BY <1>2, <1>6 DEF HalfDeleted
  <2>2. \A m : Matched(m) => Matched(m)'
    BY <1>2 DEF Matched
  <2>3. QED
    BY <1>2, <2>1, <2>2 DEF DpdkInv, MatchInv, Macs
<1>10. QED
  BY <1>3, <1>4, <1>5, <1>7, <1>8, <1>9 DEF DpdkInv

(* Closing the session preserves it: no entry changes.                     *)
LEMMA EndStep ==
  ASSUME DpdkInv, DpdkTypeOK', NEW t \in Threads, EndCall(t)
  PROVE  DpdkInv'
<1> USE DEF EndCall, EndSession, Goto
<1>1. /\ pc \in [Threads -> {"idle", "arbitrate", "pipeline", "writeTunnel", "writeTx", "writeRx",
                             "encap", "term", "return"}]
      /\ status \in [Threads -> {"ok", "error"}]
      /\ api \in [Threads -> {"fdb", "tunnel"}] /\ insert \in [Threads -> BOOLEAN]
      /\ touched \in [Threads -> BOOLEAN]
      /\ info = [u \in Threads |-> info[u]]
  BY DEF DpdkInv, DpdkTypeOK
<1>2. /\ pc[t] = "return" /\ pc'[t] = "idle"
      /\ \A u \in Threads \ {t} : /\ pc'[u] = pc[u] /\ status'[u] = status[u] /\ api'[u] = api[u]
                                  /\ insert'[u] = insert[u] /\ info'[u] = info[u]
                                  /\ touched'[u] = touched[u]
      /\ entries' = entries /\ broken' = broken
  BY <1>1
<1>3. ControlInv'
  BY <1>2 DEF DpdkInv, ControlInv
<1>4. EntriesInv'
  BY <1>2 DEF DpdkInv, EntriesInv
<1>5. DoneInv'
  <2>1. Behind(t)' = {}
    BY <1>2 DEF Behind, BehindAt
  <2>2. \A u \in Threads \ {t} : Behind(u)' = Behind(u)
    BY <1>2 DEF Behind
  <2>3. QED
    BY <1>2, <2>1, <2>2 DEF DpdkInv, DoneInv, Done
<1>6. \A u \in Threads : \A m : OnMac(m, u)' => OnMac(m, u) /\ u # t
  BY <1>2 DEF OnMac
<1>7. AloneInv' /\ TxInv'
  BY <1>2, <1>6 DEF DpdkInv, AloneInv, TxInv, Done, Macs
<1>8. MatchInv'
  <2>1. \A m : HalfDeleted(m) => HalfDeleted(m)'
    BY <1>2 DEF HalfDeleted, OnMac
  <2>2. QED
    BY <1>2, <2>1 DEF DpdkInv, MatchInv, Matched, Macs
<1>9. QED
  BY <1>3, <1>4, <1>5, <1>7, <1>8 DEF DpdkInv

(* Steps in which no call takes part.                                      *)
LEMMA OtherStep ==
  ASSUME DpdkInv, DpdkTypeOK', UNCHANGED <<pc, status, entries, dpdkVars>>
  PROVE  DpdkInv'
<1> USE DEF DpdkInv, dpdkVars
<1>1. ControlInv' /\ EntriesInv'
  BY DEF ControlInv, EntriesInv
<1>2. DoneInv' /\ TxInv'
  BY DEF DoneInv, Behind, Done, TxInv
<1>3. AloneInv'
  BY DEF AloneInv, OnMac
<1>4. MatchInv'
  BY DEF MatchInv, Matched, HalfDeleted, OnMac
<1>5. QED
  BY <1>1, <1>2, <1>3, <1>4
-----------------------------------------------------------------------------
(***************************************************************************)
(* The inductive invariant: the writes.                                    *)
(***************************************************************************)
(* The arguments of a call at a write, and the entry it writes.            *)
LEMMA WriteFacts ==
  ASSUME DpdkInv, NEW t \in Threads, WriteStep(t)
  PROVE  /\ insert[t] \in BOOLEAN /\ pc[t] \in Writes
         /\ WriteAt(t) \in CallEntries(api[t], info[t])
         /\ pc[t] = "writeTunnel" => WriteAt(t) = EncodeFdbTableEntryforV4VxlanTunnel(info[t])
         /\ pc[t] = "writeTx" => WriteAt(t) = EncodeFdbTxVlanTableEntry(info[t])
         /\ pc[t] = "writeRx" => WriteAt(t) = EncodeFdbRxVlanTableEntry(info[t])
         /\ pc[t] = "encap" => WriteAt(t) = EncodeVxlanEncapTableEntry(info[t])
         /\ pc[t] = "term" => WriteAt(t) = EncodeTunnelTermTableEntry(info[t])
         /\ IF pc[t] \in {"encap", "term"}
              THEN /\ api[t] = "tunnel" /\ info[t] \in TunnelInfos
                   /\ WriteAt(t).table \notin {TX, RX}
              ELSE /\ api[t] = "fdb" /\ info[t] \in LearnInfos
                   /\ WriteAt(t).table = IF pc[t] = "writeRx" THEN RX ELSE TX
                   /\ WriteAt(t).key = <<info[t].mac_addr>>
                   /\ OnMac(info[t].mac_addr, t) /\ info[t].mac_addr \in Macs
<1>1. pc[t] \in Writes /\ insert[t] \in BOOLEAN
  BY DEF WriteStep, DpdkInv, DpdkTypeOK
<1>2. /\ pc[t] = "writeTunnel" => WriteAt(t) = EncodeFdbTableEntryforV4VxlanTunnel(info[t])
      /\ pc[t] = "writeTx" => WriteAt(t) = EncodeFdbTxVlanTableEntry(info[t])
      /\ pc[t] = "writeRx" => WriteAt(t) = EncodeFdbRxVlanTableEntry(info[t])
      /\ pc[t] = "encap" => WriteAt(t) = EncodeVxlanEncapTableEntry(info[t])
      /\ pc[t] = "term" => WriteAt(t) = EncodeTunnelTermTableEntry(info[t])
  BY <1>1 DEF WriteAt, Writes
<1>3. IF pc[t] \in {"encap", "term"} THEN api[t] = "tunnel" /\ info[t] \in TunnelInfos
      ELSE /\ api[t] = "fdb" /\ info[t] \in LearnInfos
           /\ OnMac(info[t].mac_addr, t) /\ info[t].mac_addr \in Macs
  BY <1>1 DEF DpdkInv, DpdkTypeOK, ControlInv, Writes, OnMac, Macs
<1>4. WriteAt(t) \in CallEntries(api[t], info[t])
  BY <1>1, <1>2, <1>3 DEF DpdkInv, ControlInv, Writes, CallEntries
<1>5. CASE pc[t] = "writeRx"
  BY <1>1, <1>2, <1>3, <1>4, <1>5, EncodedKeys
<1>6. CASE pc[t] \in {"writeTx", "writeTunnel"}
  BY <1>1, <1>2, <1>3, <1>4, <1>6, EncodedKeys
<1>7. CASE pc[t] \in {"encap", "term"}
  BY <1>1, <1>2, <1>3, <1>4, <1>7, EncodedKeys DEF TX, RX
<1>8. QED
  BY <1>1, <1>5, <1>6, <1>7 DEF Writes

(* A write leaves each call with the arguments that go with its step, and  *)
(* writes an entry of a call.                                              *)
LEMMA WriteControl ==
  ASSUME DpdkInv, NEW t \in Threads, WriteStep(t)
  PROVE  ControlInv' /\ EntriesInv'
<1>1. pc \in [Threads -> {"idle", "arbitrate", "pipeline", "writeTunnel", "writeTx", "writeRx",
                             "encap", "term", "return"}]
      /\ status \in [Threads -> {"ok", "error"}]
  BY DEF DpdkInv, DpdkTypeOK
<1>2. ControlInv'
  BY <1>1, WriteOutcome, WriteFacts DEF DpdkInv, ControlInv, LabelAfter, Writes
<1>3. ASSUME NEW e \in entries'
      PROVE  e.table = RX => \E i \in LearnInfos : ~i.is_tunnel /\ e = EncodeFdbRxVlanTableEntry(i)
  <2>1. e \in entries \/ e = WriteAt(t)
    BY <1>3, WriteOutcome DEF DpdkInv, Apply
  <2>2. CASE e = WriteAt(t)
    <3>1. CASE pc[t] = "writeRx"
      <4>1. e = EncodeFdbRxVlanTableEntry(info[t]) /\ info[t] \in LearnInfos /\ ~info[t].is_tunnel
        BY <2>2, <3>1, WriteFacts DEF DpdkInv, ControlInv
      <4>2. QED
        BY <4>1, EncodedKeys DEF RX
    <3>2. CASE pc[t] \in {"writeTx", "writeTunnel"}
      <4>1. e.table = TX
        BY <2>2, <3>2, WriteFacts
      <4>2. QED
        BY <4>1 DEF TX, RX
    <3>3. CASE pc[t] = "encap"
      <4>1. e = EncodeVxlanEncapTableEntry(info[t]) /\ info[t] \in TunnelInfos
        BY <2>2, <3>3, WriteFacts
      <4>2. QED
        BY <4>1, EncodedKeys DEF RX
    <3>4. CASE pc[t] = "term"
      <4>1. e = EncodeTunnelTermTableEntry(info[t])
        BY <2>2, <3>4, WriteFacts
      <4>2. QED
        BY <4>1, EncodedKeys DEF RX
    <3>5. QED
      BY <3>1, <3>2, <3>3, <3>4, WriteFacts DEF Writes
  <2>3. QED
    BY <2>1, <2>2 DEF DpdkInv, EntriesInv
<1>4. QED
  BY <1>2, <1>3 DEF EntriesInv

(* A write keeps done what is behind any call on an untouched key.         *)
LEMMA WriteDone ==
  ASSUME DpdkInv, NEW t \in Threads, WriteStep(t)
  PROVE  DoneInv'
<1> DEFINE e == WriteAt(t)
<1>1. /\ pc \in [Threads -> {"idle", "arbitrate", "pipeline", "writeTunnel", "writeTx", "writeRx",
                             "encap", "term", "return"}]
      /\ status \in [Threads -> {"ok", "error"}]
      /\ touched \in [Threads -> BOOLEAN] /\ insert \in [Threads -> BOOLEAN]
  BY DEF DpdkInv, DpdkTypeOK
<1>2. DpdkTypeOK
  BY DEF DpdkInv
<1>3. ASSUME NEW f, ~SameKey(e, f), NEW ins \in BOOLEAN, Done(f, ins)
      PROVE  Done(f, ins)'
  BY <1>2, <1>3, WriteOutcome, WriteFacts, ApplyFrame DEF Done
<1>4. UNCHANGED <<api, insert, info>>
  BY <1>2, WriteOutcome
<1>5. ASSUME NEW u \in Threads \ {t}, ~touched'[u], NEW f \in Behind(u)'
      PROVE  Done(f, insert[u])'
  <2>1. Behind(u)' = Behind(u)
    BY <1>1, <1>2, <1>4, WriteOutcome DEF Behind
  <2>2. /\ ~touched[u]
        /\ pc[u] = "idle" \/ entries' = entries \/ ~HasKey(CallEntries(api[u], info[u]), e)
    BY <1>1, <1>2, <1>5, WriteOutcome
  <2>3. pc[u] # "idle"
    BY <1>5, <2>1 DEF Behind, BehindAt
  <2>4. f \in CallEntries(api[u], info[u])
    <3>1. f \in Behind(u)
      BY <1>5, <2>1
    <3>2. QED
      BY <3>1 DEF Behind, BehindAt, CallEntries, DpdkInv, ControlInv
  <2>5. Done(f, insert[u])
    BY <1>5, <2>1, <2>2 DEF DpdkInv, DoneInv
  <2>6. CASE entries' = entries
    BY <1>4, <2>5, <2>6 DEF Done
  <2>7. CASE ~HasKey(CallEntries(api[u], info[u]), e)
    <3>1. ~SameKey(e, f)
      BY <2>4, <2>7 DEF HasKey
    <3>2. insert[u] \in BOOLEAN
      BY <1>1
    <3> HIDE DEF e
    <3>3. QED
      BY <1>3, <1>4, <2>5, <3>1, <3>2 DEF Done
  <2>8. QED
    BY <2>2, <2>3, <2>6, <2>7
<1>6. ASSUME ~touched'[t], NEW f \in Behind(t)'
      PROVE  Done(f, insert[t])'
  <2>1. ~touched[t] /\ insert[t] \in BOOLEAN
    BY <1>1, <1>2, <1>6, WriteOutcome
  <2>2. pc[t] \in Writes /\ status[t] = "ok"
    BY WriteFacts DEF DpdkInv, ControlInv, Writes
  <2>3. /\ entries' = Apply(entries, e, insert[t])
        /\ pc'[t] = LabelAfter(pc[t]) /\ status'[t] = "ok"
    <3>1. ~(pc'[t] = "return" /\ status'[t] = "error")
      BY <1>6 DEF Behind, BehindAt
    <3>2. QED
      BY <1>1, <1>2, <2>2, <3>1, WriteOutcome
  <2>4. Behind(t)' = BehindAt(LabelAfter(pc[t]), "ok", api[t], info[t])
    BY <1>4, <2>3 DEF Behind
  <2>5. f \in Behind(t) \cup {e}
    <3>1. CASE pc[t] = "writeTx"
      BY <1>6, <2>4, <3>1, WriteFacts DEF BehindAt, LabelAfter
    <3>2. CASE pc[t] = "writeRx"
      <4>1. f \in CallEntries(api[t], info[t])
        BY <1>6, <2>4, <3>2 DEF BehindAt, LabelAfter
      <4>2. api[t] = "fdb" /\ ~info[t].is_tunnel
        BY <3>2 DEF DpdkInv, ControlInv
      <4>3. QED
        BY <3>2, <4>1, <4>2, WriteFacts DEF Behind, BehindAt, CallEntries
    <3>3. CASE pc[t] = "writeTunnel"
      <4>1. f \in CallEntries(api[t], info[t])
        BY <1>6, <2>4, <3>3 DEF BehindAt, LabelAfter
      <4>2. api[t] = "fdb" /\ info[t].is_tunnel
        BY <3>3 DEF DpdkInv, ControlInv
      <4>3. QED
        BY <3>3, <4>1, <4>2, WriteFacts DEF CallEntries
    <3>4. CASE pc[t] = "encap"
      BY <1>6, <2>4, <3>4, WriteFacts DEF BehindAt, LabelAfter
    <3>5. CASE pc[t] = "term"
      <4>1. f \in CallEntries(api[t], info[t])
        BY <1>6, <2>4, <3>5 DEF BehindAt, LabelAfter
      <4>2. api[t] = "tunnel"
        BY <3>5 DEF DpdkInv, ControlInv
      <4>3. QED
        BY <3>5, <4>1, <4>2, WriteFacts DEF Behind, BehindAt, CallEntries
    <3>6. QED
      BY <2>2, <3>1, <3>2, <3>3, <3>4, <3>5 DEF Writes
  <2>6. CASE f = e
    BY <1>4, <2>1, <2>3, <2>6, ApplyEffect DEF Done
  <2>7. CASE f \in Behind(t)
    <3>1. Done(f, insert[t])
      BY <2>1, <2>7 DEF DpdkInv, DoneInv
    <3>2. ~SameKey(e, f)
      <4>1. CASE pc[t] = "writeRx"
        <5>1. f = EncodeFdbTxVlanTableEntry(info[t]) /\ e = EncodeFdbRxVlanTableEntry(info[t])
          BY <2>7, <4>1, WriteFacts DEF Behind, BehindAt
        <5>2. f.table = TX /\ e.table = RX
          BY <5>1, EncodedKeys
        <5>3. QED
          BY <5>2 DEF SameKey, TX, RX
      <4>2. CASE pc[t] = "term"
        <5>1. f = EncodeVxlanEncapTableEntry(info[t]) /\ e = EncodeTunnelTermTableEntry(info[t])
          BY <2>7, <4>2, WriteFacts DEF Behind, BehindAt
        <5>2. QED
          BY <5>1, EncodedKeys DEF SameKey
      <4>3. QED
        BY <2>2, <2>7, <4>1, <4>2 DEF Behind, BehindAt, Writes
    <3> HIDE DEF e
    <3>3. QED
      BY <1>3, <1>4, <2>1, <3>1, <3>2 DEF Done
  <2>8. QED
    BY <2>5, <2>6, <2>7
<1>7. QED
  BY <1>5, <1>6 DEF DoneInv

(* A failed delete that leaves an RX entry alone marks its address, so an  *)
(* address that is still unmarked has been left complete or empty.         *)
LEMMA WriteAlone ==
  ASSUME DpdkInv, NEW t \in Threads, WriteStep(t)
  PROVE  /\ AloneInv'
         /\ broken \subseteq broken'
         /\ \A u \in Threads : \A m : OnMac(m, u)' <=> OnMac(m, u)
<1>1. DpdkTypeOK
  BY DEF DpdkInv
<1>2. pc \in [Threads -> {"idle", "arbitrate", "pipeline", "writeTunnel", "writeTx", "writeRx",
                          "encap", "term", "return"}]
  BY <1>1 DEF DpdkTypeOK
<1>3. \A u \in Threads : pc'[u] = "idle" <=> pc[u] = "idle"
  BY <1>1, <1>2, WriteOutcome, WriteFacts DEF LabelAfter, Writes
<1>4. UNCHANGED <<api, info>> /\ broken \subseteq broken'
  BY <1>1, WriteOutcome
<1>5. \A u \in Threads : \A m : OnMac(m, u)' <=> OnMac(m, u)
  BY <1>3, <1>4 DEF OnMac
<1>6. QED
  BY <1>4, <1>5 DEF DpdkInv, AloneInv

(* What the writes of other calls leave of the FDB entries of an address.  *)
LEMMA WriteElsewhere ==
  ASSUME DpdkInv, NEW t \in Threads, WriteStep(t), NEW m \in Macs \ broken, ~OnMac(m, t),
         NEW f, f.table \in {TX, RX}, f.key = <<m>>
  PROVE  /\ f \in entries' <=> f \in entries
         /\ HasKey(entries', f) <=> HasKey(entries, f)
<1>1. DpdkTypeOK
  BY DEF DpdkInv
<1>2. ~SameKey(WriteAt(t), f)
  <2>1. CASE pc[t] \in {"encap", "term"}
    BY <2>1, WriteFacts DEF SameKey
  <2>2. CASE pc[t] \notin {"encap", "term"}
    BY <2>2, WriteFacts DEF SameKey
  <2>3. QED
    BY <2>1, <2>2
<1>3. insert[t] \in BOOLEAN
  BY WriteFacts
<1>4. QED
  BY <1>1, <1>2, <1>3, WriteOutcome, ApplyFrame

(* A write keeps the TX entry of a MAC address that has passed it.         *)
LEMMA WriteTx ==
  ASSUME DpdkInv, NEW t \in Threads, WriteStep(t)
  PROVE  TxInv'
<1>1. DpdkTypeOK
  BY DEF DpdkInv
<1>2. /\ pc \in [Threads -> {"idle", "arbitrate", "pipeline", "writeTunnel", "writeTx", "writeRx",
                             "encap", "term", "return"}]
      /\ insert \in [Threads -> BOOLEAN]
  BY <1>1 DEF DpdkTypeOK
<1>3. UNCHANGED <<api, insert, info>>
  BY <1>1, WriteOutcome
<1> SUFFICES ASSUME NEW u \in Threads, pc'[u] = "writeRx", info[u].mac_addr \notin broken'
             PROVE  Done(EncodeFdbTxVlanTableEntry(info[u]), insert[u])'
  BY <1>3 DEF TxInv
<1> DEFINE f == EncodeFdbTxVlanTableEntry(info[u])
           m == info[u].mac_addr
<1>4. m \notin broken
  BY WriteAlone
<1>5. f.table = TX /\ f.key = <<m>>
  BY EncodedKeys
<1>6. CASE u = t
  <2>1. pc[t] = "writeTx" /\ entries' = Apply(entries, WriteAt(t), insert[t])
    BY <1>1, <1>2, <1>6, WriteOutcome, WriteFacts DEF LabelAfter, Writes
  <2>2. WriteAt(t) = f
    BY <1>6, <2>1, WriteFacts
  <2> HIDE DEF f
  <2>3. QED
    BY <1>2, <1>3, <1>6, <2>1, <2>2, ApplyEffect DEF Done, f
<1>7. CASE u # t
  <2>1. pc[u] = "writeRx"
    BY <1>1, <1>2, <1>7, WriteOutcome
  <2>2. OnMac(m, u) /\ m \in Macs
    BY <2>1, <1>1 DEF OnMac, DpdkInv, ControlInv, DpdkTypeOK, Macs
  <2>3. ~OnMac(m, t)
    BY <1>4, <1>7, <2>2 DEF DpdkInv, AloneInv
  <2>4. Done(f, insert[u])
    BY <1>4, <2>1 DEF DpdkInv, TxInv
  <2> HIDE DEF f, m
  <2>5. /\ f \in entries' <=> f \in entries
        /\ HasKey(entries', f) <=> HasKey(entries, f)
    BY <1>4, <1>5, <2>2, <2>3, WriteElsewhere
  <2>6. QED
    BY <1>3, <2>4, <2>5 DEF Done, f
<1>8. QED
  BY <1>6, <1>7

(* A write keeps RX and TX entry together, outside a half-done delete.     *)
LEMMA WriteMatch ==
  ASSUME DpdkInv, NEW t \in Threads, WriteStep(t)
  PROVE  MatchInv'
<1>1. DpdkTypeOK
  BY DEF DpdkInv
<1>2. /\ pc \in [Threads -> {"idle", "arbitrate", "pipeline", "writeTunnel", "writeTx", "writeRx",
                             "encap", "term", "return"}]
      /\ insert \in [Threads -> BOOLEAN]
  BY <1>1 DEF DpdkTypeOK
<1>3. UNCHANGED <<api, insert, info>>
  BY <1>1, WriteOutcome
<1> SUFFICES ASSUME NEW m \in Macs, m \notin broken'
             PROVE  Matched(m)' \/ HalfDeleted(m)'
  BY DEF MatchInv, Macs
<1>4. m \notin broken
  BY WriteAlone
<1>5. Matched(m) \/ HalfDeleted(m)
  BY <1>4 DEF DpdkInv, MatchInv
<1>6. CASE ~OnMac(m, t)
  <2>1. \A f : f.table \in {TX, RX} /\ f.key = <<m>> => (f \in entries' <=> f \in entries)
    BY <1>4, <1>6, WriteElsewhere
  <2>2. Matched(m) => Matched(m)'
    BY <2>1 DEF Matched
  <2>3. HalfDeleted(m) => HalfDeleted(m)'
    <3>1. \A u \in Threads \ {t} : pc'[u] = pc[u]
      BY <1>1, <1>2, WriteOutcome
    <3>2. QED
      BY <1>3, <1>6, <3>1, WriteAlone DEF HalfDeleted
  <2>4. QED
    BY <1>5, <2>2, <2>3
<1>7. CASE OnMac(m, t)
  <2> DEFINE e == WriteAt(t)
  <2>1. /\ api[t] = "fdb" /\ info[t].mac_addr = m /\ info[t] \in LearnInfos
        /\ pc[t] \in {"writeTunnel", "writeTx", "writeRx"}
    BY <1>7, WriteFacts DEF OnMac, Writes
  <2>2. \A u \in Threads : OnMac(m, u) => u = t
    BY <1>4, <1>7 DEF DpdkInv, AloneInv
  <2>3. HalfDeleted(m) => pc[t] = "writeRx" /\ ~insert[t]
    BY <2>2 DEF HalfDeleted
  <2>4. \/ entries' = Apply(entries, e, insert[t])
        \/ insert[t] /\ entries' = entries
        \/ entries' = entries /\ ~Orphaned(entries, m)
    BY <1>1, <2>1, WriteOutcome
  <2>5. /\ entries' \subseteq entries \cup {e}
        /\ insert[t] => entries \subseteq entries'
    BY <1>1, WriteOutcome DEF Apply
  <2>6. CASE pc[t] = "writeTunnel"
    <3>1. e.table = TX
      BY <2>6, WriteFacts
    <3>2. ASSUME NEW rx \in entries', rx.table = RX, rx.key = <<m>> PROVE FALSE
      <4>1. rx \in entries
        BY <2>5, <3>1, <3>2 DEF TX, RX
      <4>2. PICK i \in LearnInfos : ~i.is_tunnel /\ rx = EncodeFdbRxVlanTableEntry(i)
        BY <3>2, <4>1 DEF DpdkInv, EntriesInv
      <4>3. i.mac_addr = m
        <5>1. rx.key = <<i.mac_addr>>
          BY <4>2, EncodedKeys
        <5>2. QED
          BY <3>2, <5>1
      <4>4. info[t].is_tunnel
        BY <2>6 DEF DpdkInv, ControlInv
      <4>5. QED
        BY <2>1, <4>2, <4>3, <4>4, DpdkInfosAssumption
    <3>3. QED
      BY <3>2 DEF Matched
  <2>7. CASE pc[t] = "writeTx"
    <3>1. e.table = TX /\ e.key = <<m>>
      BY <2>1, <2>7, WriteFacts
    <3>2. Matched(m)
      BY <1>5, <2>3, <2>7
    <3>3. CASE insert[t]
      BY <2>5, <3>1, <3>2, <3>3 DEF Matched, TX, RX
    <3>4. CASE ~insert[t]
      <4>1. CASE entries' = entries
        BY <3>2, <4>1 DEF Matched
      <4>2. CASE pc'[t] = "writeRx"
        BY <1>3, <1>7, <3>4, <4>2, WriteAlone DEF HalfDeleted
      <4>3. CASE entries' = Apply(entries, e, FALSE) /\ pc'[t] # "writeRx"
        <5>1. ~Orphaned(entries', m)
          BY <1>1, <1>2, <2>1, <2>7, <3>4, <4>3, WriteOutcome DEF LabelAfter
        <5>2. ~\E f \in entries' : f.table = TX /\ f.key = <<m>>
          BY <3>1, <4>3 DEF Apply, SameKey
        <5>3. QED
          BY <5>1, <5>2 DEF Orphaned, Matched, TX, RX
      <4>4. entries' = entries \/ entries' = Apply(entries, e, FALSE)
        BY <1>2, <2>4, <3>4
      <4>5. QED
        BY <4>1, <4>2, <4>3, <4>4
    <3>5. QED
      BY <3>3, <3>4
  <2>8. CASE pc[t] = "writeRx"
    <3>1. e.table = RX /\ e.key = <<m>> /\ e = EncodeFdbRxVlanTableEntry(info[t])
      BY <2>1, <2>8, WriteFacts
    <3> DEFINE tx == EncodeFdbTxVlanTableEntry(info[t])
    <3>2. Done(tx, insert[t])
      BY <1>4, <2>1, <2>8 DEF DpdkInv, TxInv
    <3>3. tx.table = TX /\ tx.key = <<m>> /\ tx.action = e.action
      BY <2>1, <3>1, EncodedKeys
    <3> HIDE DEF tx, e
    <3>4. CASE insert[t]
      <4>1. tx \in entries /\ Matched(m)
        BY <1>5, <2>3, <3>2, <3>4 DEF Done
      <4>2. QED
        BY <2>5, <3>1, <3>3, <3>4, <4>1 DEF Matched
    <3>5. CASE ~insert[t]
      <4>1. ASSUME NEW rx \in entries', rx.table = RX, rx.key = <<m>> PROVE FALSE
        <5>1. CASE entries' = Apply(entries, e, FALSE)
          BY <3>1, <4>1, <5>1 DEF Apply, SameKey
        <5>2. CASE entries' = entries /\ ~Orphaned(entries, m)
          <6>1. PICK f \in entries : f.table = TX /\ f.key = <<m>>
            BY <4>1, <5>2 DEF Orphaned, TX, RX
          <6>2. QED
            BY <3>2, <3>3, <3>5, <6>1 DEF Done, HasKey, SameKey
        <5>3. QED
          BY <1>2, <2>4, <3>5, <5>1, <5>2
      <4>2. QED
        BY <4>1 DEF Matched
    <3>6. QED
      BY <3>4, <3>5
  <2>9. QED
    BY <2>1, <2>6, <2>7, <2>8
<1>8. QED
  BY <1>6, <1>7

-----------------------------------------------------------------------------
(***************************************************************************)
(* The theorems.                                                           *)
(***************************************************************************)
LEMMA InvStep == DpdkInv /\ [Next]_vars => DpdkInv'
<1> SUFFICES ASSUME DpdkInv, [Next]_vars PROVE DpdkInv'
  OBVIOUS
<1>1. DpdkTypeOK'
  BY TypeStep DEF DpdkInv
<1>2. ASSUME NEW t \in Threads, NEW ins \in BOOLEAN,
             DoConfigFdbEntry(t, ins) \/ DoConfigTunnelEntry(t, ins)
      PROVE  DpdkInv'
  BY <1>1, <1>2, StartStep DEF DoConfigFdbEntry, DoConfigTunnelEntry
<1>3. ASSUME NEW t \in Threads, SessionStep(t), UNCHANGED dpdkVars PROVE DpdkInv'
  <2>1. UNCHANGED entries /\ pc[t] = "arbitrate" /\ status \in [Threads -> {"ok", "error"}]
    BY <1>3 DEF SessionStep, Arbitrate, ArbitrationFails, DpdkInv, DpdkTypeOK
  <2>2. CASE Arbitrate(t)
    <3>1. pc' = [pc EXCEPT ![t] = "pipeline"]
      BY <2>2 DEF Arbitrate, Goto
    <3>2. status' = [status EXCEPT ![t] = "ok"]
      BY <2>1, <2>2 DEF Arbitrate, DpdkInv, ControlInv
    <3>3. QED
      BY <1>1, <1>3, <2>1, <3>1, <3>2, QuietStep
  <2>3. CASE ArbitrationFails(t)
    <3>1. pc' = [pc EXCEPT ![t] = "return"] /\ status' = [status EXCEPT ![t] = "error"]
      BY <2>3 DEF ArbitrationFails, Return, Goto
    <3>2. QED
      BY <1>1, <1>3, <2>1, <3>1, QuietStep
  <2>4. QED
    BY <1>3, <2>2, <2>3 DEF SessionStep
<1>4. ASSUME NEW t \in Threads, FetchP4Info(t) PROVE DpdkInv'
  <2>1. UNCHANGED <<entries, dpdkVars>> /\ pc[t] = "pipeline"
    BY <1>4 DEF FetchP4Info, GetPipelineConfig
  <2>2. pc' = [pc EXCEPT ![t] = FirstLabel(api[t], info[t])]
    BY <1>4 DEF FetchP4Info, GetPipelineConfig, Goto
  <2>3. status' = [status EXCEPT ![t] = "ok"]
    BY <1>4, <2>1 DEF FetchP4Info, GetPipelineConfig, DpdkInv, ControlInv, DpdkTypeOK
  <2>4. FirstLabel(api[t], info[t]) \in {"writeTunnel", "writeTx", "encap", "return"}
    BY DEF FirstLabel
  <2>5. QED
    BY <1>1, <2>1, <2>2, <2>3, <2>4, QuietStep
<1>5. ASSUME NEW t \in Threads, ConfigFdbEntry(t) \/ ConfigTunnelEntry(t) PROVE DpdkInv'
  BY <1>1, <1>5, CallWrites, WriteControl, WriteDone, WriteAlone, WriteTx, WriteMatch DEF DpdkInv
<1>6. ASSUME NEW t \in Threads, EndCall(t) PROVE DpdkInv'
  BY <1>1, <1>6, EndStep
<1>7. CASE Environment /\ UNCHANGED dpdkVars
  BY <1>1, <1>7, OtherStep DEF Environment, Tick, StreamClosed
<1>8. CASE UNCHANGED vars
  BY <1>1, <1>8, OtherStep DEF vars, sessionVars
<1>9. QED
  BY <1>2, <1>3, <1>4, <1>5, <1>6, <1>7, <1>8 DEF Next, CallStep

(* The inductive invariant of the DPDK calls.                              *)
THEOREM DpdkInvariant == Spec => []DpdkInv
BY InvInit, InvStep, PTL DEF Spec

(* ConfigFdbEntry and ConfigTunnelEntry return OK only for complete work.  *)
THEOREM DpdkStatusIsTruthful == Spec => []DpdkStatusTruthful
<1>1. DpdkInv => DpdkStatusTruthful
  BY DEF DpdkInv, DoneInv, Done, Behind, BehindAt, DpdkStatusTruthful
<1>2. QED
  BY <1>1, DpdkInvariant, PTL

(* The RX entry of a VLAN MAC address has a TX entry with the same port    *)
(* while no delete of the address is in progress and none failed half-way. *)
THEOREM RxMatches == Spec => []RxMatchesTx
<1>1. ASSUME DpdkInv PROVE RxMatchesTx
  <2> SUFFICES ASSUME NEW rx \in entries, rx.table = RX, rx.key[1] \notin broken,
                      \A t \in Threads : OnMac(rx.key[1], t) => insert[t]
               PROVE  \E tx \in Lookup(TX, rx.key) : tx.action = rx.action
    BY DEF RxMatchesTx, TX, RX
  <2>1. PICK i \in LearnInfos : rx = EncodeFdbRxVlanTableEntry(i)
    BY <1>1 DEF DpdkInv, EntriesInv
  <2>2. rx.key = <<i.mac_addr>> /\ i.mac_addr \in Macs
    BY <2>1, EncodedKeys DEF Macs
  <2>3. Matched(i.mac_addr)
    BY <1>1, <2>2 DEF DpdkInv, MatchInv, HalfDeleted
  <2>4. QED
    BY <2>2, <2>3 DEF Matched, Lookup
<1>2. QED
  BY <1>1, DpdkInvariant, PTL
=============================================================================
