------------------------ MODULE Es2kConfigPorts_proofs ------------------------
(***************************************************************************)
(* Proofs about Es2kConfigPorts, for any set of threads and any arguments. *)
(***************************************************************************)
EXTENDS Es2kConfigPorts, TLAPS

Labels ==
  {"idle", "arbitrate", "pipeline", "push", "pop", "readTxAcc", "writeVsiPort",
   "writeTunnelPort", "writeRx", "readSrc", "writeSrc", "readDst", "writeDst", "return"}
Writes ==
  {"push", "pop", "writeVsiPort", "writeTunnelPort", "writeRx", "writeSrc", "writeDst"}

(* Which steps belong to which call.                                       *)
ControlInv ==
  \A t \in Threads :
    /\ pc[t] \in {"push", "pop"} => api[t] = "vlan"
    /\ pc[t] \in {"readTxAcc", "writeVsiPort"} => api[t] = "srcPort"
    /\ pc[t] = "writeTunnelPort" => api[t] = "tunnelSrcPort"
    /\ pc[t] = "writeRx" => api[t] = "rxTunnel"
    /\ pc[t] \in {"readSrc", "writeSrc", "readDst", "writeDst"} => api[t] = "ipMacMap"
    /\ pc[t] \in {"readSrc", "readDst"} => insert[t]
    /\ pc[t] \notin {"idle", "return"} => status[t] = "ok"

(* A session with a P4Info saw the highest election id of its time.        *)
IdInv ==
  \A t \in Threads : p4info[t] \/ pc[t] = "pipeline" => ~Higher(electionId[t], highest)

(* The entries that a call with a status has dealt with.                   *)
BehindAt(label, st, a, i) ==
  IF label = "pop" THEN {EncodeVlanPushTableEntry(i)}
  ELSE IF label = "return" /\ st = "ok" /\ a # "ipMacMap" THEN CallEntries(a, i)
  ELSE {}

Behind(t) == BehindAt(pc[t], status[t], api[t], info[t])

(* A call whose entries nobody touched finds them as it left them.         *)
DoneInv == \A t \in Threads : ~touched[t] => \A e \in Behind(t) : Done(t, e)

(* ConfigIpMacMapEntry as the primary, when no write was lost.             *)
Undisturbed(t) ==
  /\ api[t] = "ipMacMap" /\ status[t] = "ok" /\ CanWrite(t)
  /\ ~touched[t] /\ ~lost[t] /\ ValidIpAddr(info[t].src_ip)

MapDone(t) ==
  Undisturbed(t) =>
    /\ pc[t] \in {"readDst", "writeDst", "return"} =>
         (HasKey(entries, EncodeSrcIpMacMapTableEntry(info[t])) <=> insert[t])
    /\ pc[t] = "return" =>
         (HasKey(entries, EncodeDstIpMacMapTableEntry(info[t])) <=> insert[t])

MapInv == \A t \in Threads : MapDone(t)

(* A VLAN key that is not broken has one call at a time, and what that     *)
(* call needs to know of the push table does not depend on touched.        *)
Keys == 0 .. 255

AloneInv ==
  \A t, u \in Threads : \A k \in Keys \ broken : OnVlan(k, t) /\ OnVlan(k, u) => t = u

HasPush(k) == \E e \in entries : e.table = "VLAN_PUSH_MOD_TABLE" /\ e.key = <<k>>
HasPop(k)  == \E e \in entries : e.table = "VLAN_POP_MOD_TABLE" /\ e.key = <<k>>

PushInv ==
  \A t \in Threads :
    pc[t] = "pop" /\ Byte(info[t]) \notin broken => (HasPush(Byte(info[t])) <=> insert[t])

(* A pop entry has its push entry, or a delete is between the two.         *)
HalfDeleted(k) == \E t \in Threads : OnVlan(k, t) /\ ~insert[t] /\ pc[t] = "pop"

BackedInv == \A k \in Keys \ broken : (HasPop(k) => HasPush(k)) \/ HalfDeleted(k)

VlanInv == AloneInv /\ PushInv /\ BackedInv

PortsInv ==
  /\ PortsTypeOK
  /\ ControlInv
  /\ IdInv
  /\ DoneInv
  /\ MapInv
  /\ VlanInv

-----------------------------------------------------------------------------
(***************************************************************************)
(* Tables, keys, election ids.                                             *)
(***************************************************************************)
(* A write does not concern entries with another key.                      *)
LEMMA ApplyFrame ==
  ASSUME NEW es, NEW e, NEW f, NEW ins \in BOOLEAN, ~SameKey(e, f)
  PROVE  /\ f \in Apply(es, e, ins) <=> f \in es
         /\ HasKey(Apply(es, e, ins), f) <=> HasKey(es, f)
BY DEF Apply, HasKey, SameKey

(* A write that was applied did what it is for.                            *)
LEMMA ApplyEffect ==
  ASSUME NEW es, NEW e
  PROVE  /\ e \in Apply(es, e, TRUE) /\ HasKey(Apply(es, e, TRUE), e)
         /\ ~HasKey(Apply(es, e, FALSE), e)
BY DEF Apply, HasKey, SameKey

(* The tables and keys of the encoders.                                    *)
LEMMA EncodedKeys ==
  ASSUME NEW i
  PROVE  /\ EncodeVlanPushTableEntry(i).table = "VLAN_PUSH_MOD_TABLE"
         /\ EncodeVlanPushTableEntry(i).key = <<Byte(i)>>
         /\ EncodeVlanPopTableEntry(i).table = "VLAN_POP_MOD_TABLE"
         /\ EncodeVlanPopTableEntry(i).key = <<Byte(i)>>
         /\ EncodeSrcPortTableEntry(i).table = "SOURCE_PORT_TO_BRIDGE_MAP_TABLE"
         /\ PrepareRxTunnelSrcPortTableEntry(i).table \in
              {"RX_IPV4_TUNNEL_SOURCE_PORT_TABLE", "RX_IPV6_TUNNEL_SOURCE_PORT_TABLE", "none"}
         /\ EncodeSrcIpMacMapTableEntry(i).table = "SRC_IP_MAC_MAP_TABLE"
         /\ EncodeSrcIpMacMapTableEntry(i).action.name = "SMAC_MAP"
         /\ EncodeDstIpMacMapTableEntry(i).table = "DST_IP_MAC_MAP_TABLE"
         /\ EncodeDstIpMacMapTableEntry(i).action.name = "DMAC_MAP"
BY DEF EncodeVlanPushTableEntry, EncodeVlanPopTableEntry, EncodeSrcPortTableEntry,
       PrepareRxTunnelSrcPortTableEntry, EncodeRxTunnelTableEntry, EncodeV6RxTunnelTableEntry,
       EmptyEntry, EncodeSrcIpMacMapTableEntry, EncodeDstIpMacMapTableEntry, Entry

(* A VLAN's key is the byte its encoder sends.                             *)
LEMMA VlanKey == ASSUME NEW v \in Vlans PROVE Byte(v) \in Keys
BY PortsAssumption DEF Byte, Keys

(* Election ids are ordered.                                               *)
LEMMA HigherTransitive ==
  ASSUME NEW a \in ElectionIds, NEW b \in ElectionIds, NEW c \in ElectionIds,
         ~Higher(a, b), c = b \/ Higher(c, b)
  PROVE  ~Higher(a, c) /\ (a = c => a = b)
BY DEF Higher, ElectionIds

(* A new stream never lowers the highest id, and is not above it.          *)
LEMMA HighestGrows ==
  ASSUME NEW id \in ElectionIds, highest \in ElectionIds, OpenStream(id)
  PROVE  /\ highest' = highest \/ Higher(highest', highest)
         /\ ~Higher(id, highest')
<1>1. \A a, b \in Nat \X Nat : a[1] = b[1] /\ a[2] = b[2] => a = b
  OBVIOUS
<1>2. \A a \in Nat \X Nat : a[1] \in Nat /\ a[2] \in Nat
  OBVIOUS
<1>3. QED
  BY <1>1, <1>2 DEF OpenStream, Higher, ElectionIds

(* A session that is not the primary never becomes it again.               *)
LEMMA PrimacyLost ==
  ASSUME NEW t \in Threads, IdInv, electionId[t] \in ElectionIds, highest \in ElectionIds,
         highest' \in ElectionIds, highest' = highest \/ Higher(highest', highest),
         p4info'[t] = p4info[t], electionId'[t] = electionId[t], CanWrite(t)'
  PROVE  CanWrite(t)
BY HigherTransitive DEF CanWrite, IdInv

-----------------------------------------------------------------------------
(***************************************************************************)
(* The forms that the steps of a call have.                                *)
(***************************************************************************)
(* What a call writes at each of its steps, and where it goes from there.  *)
WriteAt(t) ==
  CASE pc[t] = "push" -> EncodeVlanPushTableEntry(info[t])
    [] pc[t] = "pop" -> EncodeVlanPopTableEntry(info[t])
    [] pc[t] \in {"writeVsiPort", "writeTunnelPort"} -> EncodeSrcPortTableEntry(info[t])
    [] pc[t] = "writeRx" -> PrepareRxTunnelSrcPortTableEntry(info[t])
    [] pc[t] = "writeSrc" -> EncodeSrcIpMacMapTableEntry(info[t])
    [] pc[t] = "writeDst" -> EncodeDstIpMacMapTableEntry(info[t])

LabelAfter(t, ok) ==
  IF pc[t] = "push" /\ ok THEN "pop"
  ELSE IF pc[t] = "writeSrc" THEN DstLabel(insert[t], info[t])
  ELSE "return"

(* Every write of a call has this form: only ConfigIpMacMapEntry ignores   *)
(* the status of the write.                                                *)
WriteStep(t, ok) ==
  /\ pc[t] \in Writes
  /\ Write(t, WriteAt(t), ok)
  /\ pc' = [pc EXCEPT ![t] = LabelAfter(t, ok)]
  /\ status' = [status EXCEPT ![t] = IF ok \/ pc[t] \in {"writeSrc", "writeDst"}
                                       THEN "ok" ELSE "error"]

(* Every write of the five calls is a WriteStep, with or without regard to *)
(* the status.                                                             *)
LEMMA CallWrites ==
  ASSUME NEW t \in Threads, PortsTypeOK, ControlInv,
         \/ ConfigVlanEntry(t) \/ WriteVsiSrcPortTableEntry(t) \/ WriteTunnelSrcPortEntry(t)
         \/ WriteRxTunnelSrcPortTableEntry(t) \/ WriteSrcIpMacMapTableEntry(t)
         \/ WriteDstIpMacMapTableEntry(t)
  PROVE  \E ok \in BOOLEAN : WriteStep(t, ok)
<1>1. /\ status \in [Threads -> {"ok", "error"}]
      /\ pc[t] \in Writes => status = [status EXCEPT ![t] = "ok"]
  BY DEF PortsTypeOK, ControlInv, Writes
<1>2. CASE WriteVlanPushTableEntry(t)
  BY <1>1, <1>2 DEF WriteVlanPushTableEntry, Return, Goto, WriteStep, WriteAt, LabelAfter, Writes
<1>3. CASE WriteVlanPopTableEntry(t)
  BY <1>1, <1>3 DEF WriteVlanPopTableEntry, WriteLast, Return, Goto, WriteStep, WriteAt,
                    LabelAfter, Writes
<1>4. CASE WriteVsiSrcPortTableEntry(t) \/ WriteTunnelSrcPortEntry(t)
  BY <1>1, <1>4 DEF WriteVsiSrcPortTableEntry, WriteTunnelSrcPortEntry, WriteLast, Return, Goto,
                    WriteStep, WriteAt, LabelAfter, Writes
<1>5. CASE WriteRxTunnelSrcPortTableEntry(t)
  BY <1>1, <1>5 DEF WriteRxTunnelSrcPortTableEntry, WriteLast, Return, Goto,
                    WriteStep, WriteAt, LabelAfter, Writes
<1>6. CASE WriteSrcIpMacMapTableEntry(t)
  BY <1>1, <1>6 DEF WriteSrcIpMacMapTableEntry, Goto, WriteStep, WriteAt, LabelAfter, Writes
<1>7. CASE WriteDstIpMacMapTableEntry(t)
  BY <1>1, <1>7 DEF WriteDstIpMacMapTableEntry, Goto, WriteStep, WriteAt, LabelAfter, Writes
<1>8. QED
  BY <1>2, <1>3, <1>4, <1>5, <1>6, <1>7 DEF ConfigVlanEntry

(* What a write changes.                                                   *)
LEMMA WriteOutcome ==
  ASSUME NEW t \in Threads, NEW ok \in BOOLEAN, WriteStep(t, ok)
  PROVE  /\ entries' = entries \/ entries' = Apply(entries, WriteAt(t), insert[t])
         /\ ok => entries' = Apply(entries, WriteAt(t), insert[t])
         /\ UNCHANGED <<clock, electionId, p4info, streams, highest, api, insert, info>>
         /\ touched' = [u \in Threads |->
              touched[u] \/ (/\ u # t /\ pc[u] # "idle"
                             /\ entries' # entries
                             /\ HasKey(CallEntries(api[u], info[u]), WriteAt(t)))]
         /\ broken' = IF /\ api[t] = "vlan" /\ ~insert[t] /\ ~ok
                         /\ pc[t] = "pop" \/ entries' # entries
                        THEN broken \cup {Byte(info[t])} ELSE broken
BY DEF WriteStep, Write, SendWriteRequest, WriteHistory

(* A write that the server had no reason to refuse and that changed        *)
(* nothing is lost.                                                        *)
LEMMA WriteLoss ==
  ASSUME NEW t \in Threads, NEW ok \in BOOLEAN, WriteStep(t, ok), lost \in [Threads -> BOOLEAN]
  PROVE  /\ lost' \in [Threads -> BOOLEAN]
         /\ \A u \in Threads \ {t} : lost'[u] = lost[u]
         /\ ~lost'[t] => /\ ~lost[t]
                         /\ \/ ~CanWrite(t)
                            \/ ~Accepts(entries, WriteAt(t), insert[t])
                            \/ entries' = Apply(entries, WriteAt(t), insert[t])
<1> DEFINE e == WriteAt(t)
<1>1. lost' = [lost EXCEPT ![t] =
        @ \/ (CanWrite(t) /\ Accepts(entries, e, insert[t]) /\ entries' = entries)]
  BY DEF WriteStep, Write, WriteHistory
<1>2. entries' = entries \/ entries' = Apply(entries, e, insert[t])
  BY WriteOutcome
<1> HIDE DEF e
<1>3. QED
  BY <1>1, <1>2 DEF e

(* The steps before the first write, between the writes and after a read:  *)
(* the tables stay, the call goes on to another step.                      *)
QuietStep(t, label, st) ==
  /\ pc[t] \in {"arbitrate", "pipeline", "readTxAcc", "readSrc", "readDst"}
  /\ label \in Labels \ {"idle", "pop"} /\ st \in {"ok", "error"}
  /\ pc' = [pc EXCEPT ![t] = label] /\ status' = [status EXCEPT ![t] = st]
  /\ UNCHANGED <<entries, api, insert, touched, lost, broken>>
  /\ \A u \in Threads : u # t \/ api[t] # "srcPort" => info'[u] = info[u]
  /\ label = "return" => st = "error" \/ api[t] = "ipMacMap"
  /\ label # "return" => st = "ok"

-----------------------------------------------------------------------------
(***************************************************************************)
(* Type correctness.                                                       *)
(***************************************************************************)
LEMMA TypeInit == PortsInit => PortsTypeOK
BY DEF PortsInit, SessionInit, PortsTypeOK, Apis, ElectionIds, NoElectionId

(* Starting a call keeps the variables well typed.                         *)
LEMMA TypeStart ==
  ASSUME PortsTypeOK, NEW t \in Threads, NEW a \in Apis, NEW ins \in BOOLEAN, NEW i \in Arguments(a),
         DoConfig(t, a, ins, i)
  PROVE  PortsTypeOK'
<1> USE DEF PortsTypeOK
<1>1. NewElectionId(t) \in ElectionIds
  BY ThreadIdAssumption DEF NewElectionId, TimeBasedElectionId, ElectionIds
<1>2. broken' \subseteq 0 .. 255
  BY VlanKey DEF DoConfig, StartHistory, Arguments, Keys
<1>3. \A u \in Threads : pc'[u] # "idle" => info'[u] \in Arguments(api'[u])
  BY DEF DoConfig, BeginSession, Goto
<1>4. QED
  BY <1>1, <1>2, <1>3 DEF DoConfig, BeginSession, Goto, StartHistory

(* Every start of a call is a DoConfig with arguments of that call.        *)
LEMMA StartForms ==
  ASSUME NEW t \in Threads, StartCall(t)
  PROVE  \E a \in Apis, ins \in BOOLEAN : \E i \in Arguments(a) : DoConfig(t, a, ins, i)
BY PortsAssumption
   DEF StartCall, DoConfigVlanEntry, DoConfigSrcPortEntry, DoConfigTunnelSrcPortEntry,
       DoConfigRxTunnelSrcEntry, DoConfigIpMacMapEntry, Apis, Arguments

(* A write keeps the variables well typed.                                 *)
LEMMA TypeWrite ==
  ASSUME PortsTypeOK, ControlInv, NEW t \in Threads, NEW ok \in BOOLEAN, WriteStep(t, ok)
  PROVE  PortsTypeOK'
<1>1. /\ pc \in [Threads -> Labels] /\ status \in [Threads -> {"ok", "error"}]
      /\ touched \in [Threads -> BOOLEAN] /\ lost \in [Threads -> BOOLEAN]
      /\ broken \subseteq 0 .. 255
  BY DEF PortsTypeOK, Labels
<1>2. UNCHANGED <<clock, electionId, p4info, streams, highest, api, insert, info>>
  BY WriteOutcome
<1>3. LabelAfter(t, ok) \in {"pop", "readDst", "writeDst", "return"}
  BY DEF LabelAfter, DstLabel
<1>4. pc' \in [Threads -> Labels] /\ status' \in [Threads -> {"ok", "error"}]
  BY <1>1, <1>3 DEF WriteStep, Labels
<1>5. touched' \in [Threads -> BOOLEAN]
  BY <1>1, WriteOutcome
<1>6. lost' \in [Threads -> BOOLEAN]
  BY <1>1, WriteLoss
<1>7. broken' \subseteq 0 .. 255
  <2>1. api[t] = "vlan" => Byte(info[t]) \in 0 .. 255
    BY VlanKey DEF PortsTypeOK, Arguments, Keys, WriteStep, Writes
  <2>2. broken' = broken \/ (api[t] = "vlan" /\ broken' = broken \cup {Byte(info[t])})
    BY WriteOutcome
  <2>3. QED
    BY <1>1, <2>1, <2>2
<1>8. \A u \in Threads : pc'[u] # "idle" => pc[u] # "idle"
  BY <1>1 DEF WriteStep, Writes
<1>9. QED
  BY <1>2, <1>4, <1>5, <1>6, <1>7, <1>8 DEF PortsTypeOK, Labels

(* The host port replaces the VSI in the argument of the call.             *)
LEMMA TypeHostPort ==
  ASSUME PortsTypeOK, ControlInv, NEW t \in Threads, GetTxAccVsiPort(t)
  PROVE  PortsTypeOK'
<1>1. info[t] \in SrcPortInfo
  BY DEF PortsTypeOK, ControlInv, Arguments, GetTxAccVsiPort
<1>2. HasHostPort(info[t]) => [info[t] EXCEPT !.src_port = HostPort(info[t])] \in SrcPortInfo
  BY <1>1, TxAccVsiAssumption DEF HasHostPort, HostPort, SrcPortInfo
<1>3. /\ api[t] = "srcPort" /\ pc[t] = "readTxAcc"
  BY DEF ControlInv, GetTxAccVsiPort
<1>4. info' = [u \in Threads |-> info'[u]]
  BY DEF PortsTypeOK, GetTxAccVsiPort
<1>5. \A u \in Threads : pc'[u] # "idle" => info'[u] \in Arguments(api'[u])
  BY <1>1, <1>2, <1>3 DEF PortsTypeOK, GetTxAccVsiPort, Return, Goto, Arguments
<1>6. QED
  BY <1>4, <1>5 DEF PortsTypeOK, GetTxAccVsiPort, Return, Goto

(* So does every step.                                                     *)
LEMMA TypeStep == PortsTypeOK /\ ControlInv /\ [Next]_vars => PortsTypeOK'
<1> SUFFICES ASSUME PortsTypeOK, ControlInv, [Next]_vars PROVE PortsTypeOK'
  OBVIOUS
<1>1. ASSUME NEW t \in Threads, StartCall(t) PROVE PortsTypeOK'
  BY <1>1, StartForms, TypeStart
<1>2. ASSUME NEW t \in Threads, SessionStep(t), UNCHANGED portsVars PROVE PortsTypeOK'
  BY <1>2 DEF PortsTypeOK, SessionStep, Arbitrate, ArbitrationFails, OpenStream, Goto, Return, portsVars
<1>3. ASSUME NEW t \in Threads, FetchP4Info(t) PROVE PortsTypeOK'
  <2>1. FirstLabel(api[t], insert[t], info[t]) \in
          {"push", "readTxAcc", "writeTunnelPort", "writeRx", "readSrc", "writeSrc", "readDst",
           "writeDst", "return"}
    <3>1. api[t] \in Apis
      BY DEF PortsTypeOK
    <3>2. QED
      BY <3>1 DEF FirstLabel, SrcLabel, DstLabel, Apis
  <2>2. QED
    BY <1>3, <2>1 DEF PortsTypeOK, FetchP4Info, GetPipelineConfig, Goto, portsVars
<1>4. ASSUME NEW t \in Threads, ReadVmSrcTableEntry(t) \/ ReadVmDstTableEntry(t) PROVE PortsTypeOK'
  BY <1>4 DEF PortsTypeOK, ReadVmSrcTableEntry, ReadVmDstTableEntry, SrcLabel, DstLabel, Goto, portsVars
<1>5. ASSUME NEW t \in Threads, EndCall(t) PROVE PortsTypeOK'
  BY <1>5 DEF PortsTypeOK, EndCall, EndSession, Goto, NoElectionId, ElectionIds, Apis
<1>6. CASE Environment /\ UNCHANGED portsVars
  BY <1>6 DEF PortsTypeOK, Environment, Tick, StreamClosed, portsVars
<1>7. CASE UNCHANGED vars
  BY <1>7 DEF PortsTypeOK, vars, sessionVars, portsVars
<1>8. QED
  BY <1>1, <1>2, <1>3, <1>4, <1>5, <1>6, <1>7, CallWrites, TypeWrite, TypeHostPort
     DEF Next, CallStep, ConfigSrcPortEntry, ConfigIpMacMapEntry

-----------------------------------------------------------------------------
(***************************************************************************)
(* Control and election ids.                                               *)
(***************************************************************************)
LEMMA ControlStep == PortsTypeOK /\ ControlInv /\ [Next]_vars => ControlInv'
<1> SUFFICES ASSUME PortsTypeOK, ControlInv, [Next]_vars PROVE ControlInv'
  OBVIOUS
<1>1. /\ pc \in [Threads -> Labels] /\ status \in [Threads -> {"ok", "error"}]
      /\ api \in [Threads -> Apis] /\ insert \in [Threads -> BOOLEAN]
  BY DEF PortsTypeOK, Labels
<1>2. ASSUME NEW t \in Threads, StartCall(t) PROVE ControlInv'
  <2>1. PICK a \in Apis, ins \in BOOLEAN : \E i \in Arguments(a) : DoConfig(t, a, ins, i)
    BY <1>2, StartForms
  <2>2. QED
    BY <1>1, <2>1 DEF ControlInv, DoConfig, BeginSession, Goto
<1>3. ASSUME NEW t \in Threads, SessionStep(t), UNCHANGED portsVars PROVE ControlInv'
  BY <1>1, <1>3 DEF ControlInv, SessionStep, Arbitrate, ArbitrationFails, Goto, Return, portsVars
<1>4. ASSUME NEW t \in Threads, FetchP4Info(t) PROVE ControlInv'
  <2> DEFINE label == FirstLabel(api[t], insert[t], info[t])
  <2>1. /\ label \in {"push", "readTxAcc", "writeTunnelPort", "writeRx", "readSrc", "writeSrc",
                      "writeDst", "readDst", "return"}
        /\ label = "push" => api[t] = "vlan"
        /\ label = "readTxAcc" => api[t] = "srcPort"
        /\ label = "writeTunnelPort" => api[t] = "tunnelSrcPort"
        /\ label = "writeRx" => api[t] = "rxTunnel"
        /\ label \in {"readSrc", "writeSrc", "readDst", "writeDst"} => api[t] = "ipMacMap"
        /\ label \in {"readSrc", "readDst"} => insert[t]
    <3>1. api[t] \in Apis
      BY <1>1
    <3>2. QED
      BY <3>1 DEF FirstLabel, SrcLabel, DstLabel, Apis
  <2>2. pc[t] = "pipeline" /\ pc' = [pc EXCEPT ![t] = label] /\ UNCHANGED <<status, api, insert>>
    BY <1>4 DEF FetchP4Info, GetPipelineConfig, Goto, portsVars
  <2> HIDE DEF label
  <2>3. QED
    BY <1>1, <2>1, <2>2 DEF ControlInv
<1>5. ASSUME NEW t \in Threads, NEW ok \in BOOLEAN, WriteStep(t, ok) PROVE ControlInv'
  <2>1. UNCHANGED <<api, insert>>
    BY <1>5, WriteOutcome
  <2>2. /\ LabelAfter(t, ok) \in {"pop", "readDst", "writeDst", "return"}
        /\ LabelAfter(t, ok) = "pop" => pc[t] = "push" /\ ok
        /\ LabelAfter(t, ok) \in {"readDst", "writeDst"} => pc[t] = "writeSrc"
        /\ LabelAfter(t, ok) = "readDst" => insert[t]
    BY DEF LabelAfter, DstLabel
  <2>3. QED
    BY <1>1, <1>5, <2>1, <2>2 DEF ControlInv, WriteStep
<1>6. ASSUME NEW t \in Threads, GetTxAccVsiPort(t) PROVE ControlInv'
  BY <1>1, <1>6 DEF ControlInv, GetTxAccVsiPort, Return, Goto
<1>7. ASSUME NEW t \in Threads, ReadVmSrcTableEntry(t) \/ ReadVmDstTableEntry(t) PROVE ControlInv'
  BY <1>1, <1>7 DEF ControlInv, ReadVmSrcTableEntry, ReadVmDstTableEntry, SrcLabel, DstLabel, Goto,
                    portsVars
<1>8. ASSUME NEW t \in Threads, EndCall(t) PROVE ControlInv'
  BY <1>1, <1>8 DEF ControlInv, EndCall, EndSession, Goto
<1>9. CASE Environment /\ UNCHANGED portsVars
  BY <1>9 DEF ControlInv, Environment, Tick, StreamClosed, portsVars
<1>10. CASE UNCHANGED vars
  BY <1>10 DEF ControlInv, vars, sessionVars, portsVars
<1>11. QED
  BY <1>2, <1>3, <1>4, <1>5, <1>6, <1>7, <1>8, <1>9, <1>10, CallWrites
     DEF Next, CallStep, ConfigSrcPortEntry, ConfigIpMacMapEntry

(* No session's election id exceeds the highest the server has seen.       *)
LEMMA IdStep == PortsTypeOK /\ ControlInv /\ IdInv /\ [Next]_vars => IdInv'
<1> SUFFICES ASSUME PortsTypeOK, ControlInv, IdInv, [Next]_vars PROVE IdInv'
  OBVIOUS
<1>1. /\ pc \in [Threads -> Labels] /\ electionId \in [Threads -> ElectionIds]
      /\ p4info \in [Threads -> BOOLEAN] /\ highest \in ElectionIds
  BY DEF PortsTypeOK, Labels
<1>2. ASSUME NEW t \in Threads, StartCall(t) PROVE IdInv'
  <2>1. PICK a \in Apis, ins \in BOOLEAN : \E i \in Arguments(a) : DoConfig(t, a, ins, i)
    BY <1>2, StartForms
  <2>2. QED
    BY <1>1, <2>1 DEF IdInv, DoConfig, BeginSession, Goto
<1>3. ASSUME NEW t \in Threads, SessionStep(t) PROVE IdInv'
  <2>1. /\ pc[t] = "arbitrate" /\ UNCHANGED <<electionId, p4info>>
        /\ pc'[t] \in {"pipeline", "return"}
        /\ \A u \in Threads \ {t} : pc'[u] = pc[u]
    BY <1>1, <1>3 DEF SessionStep, Arbitrate, ArbitrationFails, Goto, Return
  <2>2. highest' = highest \/ Higher(highest', highest)
    BY <1>1, <1>3, HighestGrows DEF SessionStep, Arbitrate, ArbitrationFails
  <2>3. highest' \in ElectionIds
    BY <1>1, <1>3 DEF SessionStep, Arbitrate, ArbitrationFails, OpenStream
  <2>4. pc'[t] = "pipeline" => ~Higher(electionId[t], highest')
    BY <1>1, <1>3, HighestGrows DEF SessionStep, Arbitrate, ArbitrationFails, Goto, Return
  <2>5. \A u \in Threads : ~Higher(electionId[u], highest) => ~Higher(electionId[u], highest')
    BY <1>1, <2>2, <2>3, HigherTransitive
  <2>6. QED
    BY <2>1, <2>4, <2>5 DEF IdInv
<1>4. ASSUME NEW t \in Threads, FetchP4Info(t) PROVE IdInv'
  <2>1. FirstLabel(api[t], insert[t], info[t]) # "pipeline"
    <3>1. api[t] \in Apis
      BY DEF PortsTypeOK
    <3>2. QED
      BY <3>1 DEF FirstLabel, SrcLabel, DstLabel, Apis
  <2>2. QED
    BY <1>1, <1>4, <2>1 DEF IdInv, FetchP4Info, GetPipelineConfig, Goto
<1>5. ASSUME NEW t \in Threads, NEW ok \in BOOLEAN, WriteStep(t, ok) PROVE IdInv'
  <2>1. UNCHANGED <<electionId, p4info, highest>>
    BY <1>5, WriteOutcome
  <2>2. LabelAfter(t, ok) # "pipeline"
    BY DEF LabelAfter, DstLabel
  <2>3. QED
    BY <1>1, <1>5, <2>1, <2>2 DEF IdInv, WriteStep
<1>6. ASSUME NEW t \in Threads, GetTxAccVsiPort(t) PROVE IdInv'
  BY <1>1, <1>6 DEF IdInv, GetTxAccVsiPort, Return, Goto
<1>7. ASSUME NEW t \in Threads, ReadVmSrcTableEntry(t) \/ ReadVmDstTableEntry(t) PROVE IdInv'
  BY <1>1, <1>7 DEF IdInv, ReadVmSrcTableEntry, ReadVmDstTableEntry, SrcLabel, DstLabel, Goto
<1>8. ASSUME NEW t \in Threads, EndCall(t) PROVE IdInv'
  BY <1>1, <1>8 DEF IdInv, EndCall, EndSession, Goto
<1>9. CASE Environment
  BY <1>9 DEF IdInv, Environment, Tick, StreamClosed
<1>10. CASE UNCHANGED vars
  BY <1>10 DEF IdInv, vars, sessionVars
<1>11. QED
  BY <1>2, <1>3, <1>4, <1>5, <1>6, <1>7, <1>8, <1>9, <1>10, CallWrites
     DEF Next, CallStep, ConfigSrcPortEntry, ConfigIpMacMapEntry

(* Initially no call is in progress and no id in use.                      *)
LEMMA ControlInit == PortsInit => ControlInv /\ IdInv
BY DEF PortsInit, SessionInit, ControlInv, IdInv

(* Type correctness of the calls of the smaller APIs.                      *)
THEOREM PortsTypeCorrect == Spec => []PortsTypeOK
<1> DEFINE Inv == PortsTypeOK /\ ControlInv
<1>1. PortsInit => Inv
  BY TypeInit, ControlInit
<1>2. Inv /\ [Next]_vars => Inv'
  BY TypeStep, ControlStep
<1>3. QED
  BY <1>1, <1>2, PTL DEF Spec

-----------------------------------------------------------------------------
(***************************************************************************)
(* The inductive invariant: steps that leave the tables alone.             *)
(***************************************************************************)
LEMMA QuietInv ==
  ASSUME PortsInv, NEW t \in Threads, NEW label, NEW st, QuietStep(t, label, st)
  PROVE  DoneInv' /\ VlanInv'
<1> USE DEF QuietStep
<1>1. pc \in [Threads -> Labels] /\ status \in [Threads -> {"ok", "error"}]
  BY DEF PortsInv, PortsTypeOK, Labels
<1>2. DoneInv'
  <2>1. Behind(t)' = {}
    BY <1>1 DEF Behind, BehindAt
  <2>2. \A u \in Threads \ {t} : Behind(u)' = Behind(u)
    BY <1>1 DEF Behind
  <2>3. QED
    BY <2>1, <2>2 DEF PortsInv, DoneInv, Done
<1>3. \A u \in Threads : \A k : OnVlan(k, u)' <=> OnVlan(k, u)
  BY <1>1 DEF OnVlan
<1>4. AloneInv'
  BY <1>3 DEF PortsInv, VlanInv, AloneInv
<1>5. \A k : (HasPush(k)' <=> HasPush(k)) /\ (HasPop(k)' <=> HasPop(k))
  BY DEF HasPush, HasPop
<1>6. PushInv'
  BY <1>1, <1>5 DEF PortsInv, VlanInv, PushInv
<1>7. \A k : HalfDeleted(k) => HalfDeleted(k)'
  BY <1>1, <1>3 DEF HalfDeleted
<1>8. BackedInv'
  BY <1>5, <1>7 DEF PortsInv, VlanInv, BackedInv
<1>9. QED
  BY <1>2, <1>4, <1>6, <1>8 DEF VlanInv

(* What MapInv says of a call depends on its own state and its entries.    *)
LEMMA MapFrame ==
  ASSUME NEW t \in Threads, MapDone(t), CanWrite(t)' => CanWrite(t),
         pc'[t] = pc[t], status'[t] = status[t], api'[t] = api[t], insert'[t] = insert[t],
         info'[t] = info[t], touched[t] => touched'[t], lost[t] => lost'[t],
         pc[t] # "idle" /\ api[t] = "ipMacMap" /\ ~touched'[t] =>
           \A e \in CallEntries("ipMacMap", info[t]) : HasKey(entries', e) <=> HasKey(entries, e)
  PROVE  MapDone(t)'
<1> SUFFICES ASSUME Undisturbed(t)', pc[t] \in {"readDst", "writeDst", "return"} PROVE MapDone(t)'
  BY DEF MapDone
<1>1. Undisturbed(t)
  BY DEF Undisturbed
<1>2. /\ HasKey(entries', EncodeSrcIpMacMapTableEntry(info[t])) <=>
           HasKey(entries, EncodeSrcIpMacMapTableEntry(info[t]))
      /\ HasKey(entries', EncodeDstIpMacMapTableEntry(info[t])) <=>
           HasKey(entries, EncodeDstIpMacMapTableEntry(info[t]))
  BY DEF Undisturbed, CallEntries
<1>3. QED
  BY <1>1, <1>2 DEF MapDone

(* A quiet step of one call is none of the others' business.               *)
LEMMA QuietOthers ==
  ASSUME PortsInv, PortsTypeOK', NEW t \in Threads, NEW label, NEW st, QuietStep(t, label, st),
         UNCHANGED electionId, \A u \in Threads \ {t} : p4info'[u] = p4info[u],
         highest' = highest \/ Higher(highest', highest), MapDone(t)',
         ControlInv', IdInv'
  PROVE  PortsInv'
<1>1. pc \in [Threads -> Labels] /\ status \in [Threads -> {"ok", "error"}]
  BY DEF PortsInv, PortsTypeOK, Labels
<1>2. ASSUME NEW u \in Threads \ {t} PROVE MapDone(u)'
  <2>1. CanWrite(u)' => CanWrite(u)
    BY PrimacyLost DEF PortsInv, PortsTypeOK
  <2>2. MapDone(u)
    BY DEF PortsInv, MapInv
  <2>3. QED
    BY <1>1, <2>1, <2>2, MapFrame DEF QuietStep
<1>3. MapInv'
  BY <1>2 DEF MapInv
<1>4. QED
  BY <1>3, QuietInv DEF PortsInv

(* Opening a session preserves the invariant: no entry changes.            *)
LEMMA SessionInv ==
  ASSUME PortsInv, PortsTypeOK', ControlInv', IdInv', NEW t \in Threads, SessionStep(t),
         UNCHANGED portsVars
  PROVE  PortsInv'
<1> USE DEF portsVars
<1>1. /\ pc[t] = "arbitrate" /\ status[t] = "ok" /\ UNCHANGED <<electionId, p4info, entries>>
      /\ status \in [Threads -> {"ok", "error"}] /\ pc \in [Threads -> Labels]
  BY DEF SessionStep, Arbitrate, ArbitrationFails, PortsInv, PortsTypeOK, ControlInv, Labels
<1>2. highest' = highest \/ Higher(highest', highest)
  BY HighestGrows DEF SessionStep, Arbitrate, ArbitrationFails, PortsInv, PortsTypeOK
<1>3. CASE Arbitrate(t)
  <2>1. QuietStep(t, "pipeline", "ok")
    BY <1>1, <1>3 DEF Arbitrate, Goto, QuietStep, Labels
  <2>2. MapDone(t)'
    BY <1>1, <1>3 DEF Arbitrate, Goto, MapDone
  <2>3. QED
    BY <1>1, <1>2, <2>1, <2>2, QuietOthers
<1>4. CASE ArbitrationFails(t)
  <2>1. QuietStep(t, "return", "error")
    BY <1>1, <1>4 DEF ArbitrationFails, Return, Goto, QuietStep, Labels
  <2>2. MapDone(t)'
    BY <1>1, <1>4 DEF ArbitrationFails, Return, Goto, MapDone, Undisturbed
  <2>3. QED
    BY <1>1, <1>2, <2>1, <2>2, QuietOthers
<1>5. QED
  BY <1>3, <1>4 DEF SessionStep

(* Fetching the P4Info preserves it.                                       *)
LEMMA FetchInv ==
  ASSUME PortsInv, PortsTypeOK', ControlInv', IdInv', NEW t \in Threads, FetchP4Info(t)
  PROVE  PortsInv'
<1> USE DEF portsVars
<1> DEFINE label == FirstLabel(api[t], insert[t], info[t])
<1>1. /\ pc[t] = "pipeline" /\ status[t] = "ok"
      /\ status \in [Threads -> {"ok", "error"}] /\ pc \in [Threads -> Labels] /\ api[t] \in Apis
      /\ p4info \in [Threads -> BOOLEAN]
  BY DEF FetchP4Info, GetPipelineConfig, PortsInv, PortsTypeOK, ControlInv, Labels
<1>2. /\ pc' = [pc EXCEPT ![t] = label] /\ UNCHANGED <<status, entries, electionId, highest, portsVars>>
      /\ \A u \in Threads \ {t} : p4info'[u] = p4info[u]
  BY <1>1 DEF FetchP4Info, GetPipelineConfig, Goto
<1>3. /\ label \in {"push", "readTxAcc", "writeTunnelPort", "writeRx", "readSrc", "writeSrc",
                    "writeDst", "readDst", "return"}
      /\ label = "return" => api[t] = "ipMacMap"
      /\ label \in {"readDst", "writeDst", "return"} => ~ValidIpAddr(info[t].src_ip)
  BY <1>1 DEF FirstLabel, SrcLabel, DstLabel, Apis
<1> HIDE DEF label
<1>4. QuietStep(t, label, "ok")
  BY <1>1, <1>2, <1>3 DEF QuietStep, Labels
<1>5. MapDone(t)'
  BY <1>1, <1>2, <1>3 DEF MapDone, Undisturbed
<1>6. QED
  BY <1>2, <1>4, <1>5, QuietOthers

(* Reading the host port preserves it.                                     *)
LEMMA HostPortInv ==
  ASSUME PortsInv, PortsTypeOK', ControlInv', IdInv', NEW t \in Threads, GetTxAccVsiPort(t)
  PROVE  PortsInv'
<1>1. /\ pc[t] = "readTxAcc" /\ status[t] = "ok" /\ api[t] = "srcPort"
      /\ status \in [Threads -> {"ok", "error"}] /\ pc \in [Threads -> Labels]
  BY DEF GetTxAccVsiPort, PortsInv, PortsTypeOK, ControlInv, Labels
<1>2. UNCHANGED <<electionId, p4info, highest, entries, api, insert, touched, lost, broken>>
  BY DEF GetTxAccVsiPort
<1>3. \A u \in Threads \ {t} : info'[u] = info[u]
  BY DEF GetTxAccVsiPort, PortsInv, PortsTypeOK
<1>4. QuietStep(t, "writeVsiPort", "ok") \/ QuietStep(t, "return", "error")
  BY <1>1, <1>2, <1>3 DEF GetTxAccVsiPort, Return, Goto, QuietStep, Labels
<1>5. MapDone(t)'
  BY <1>1, <1>2 DEF MapDone, Undisturbed
<1>6. QED
  BY <1>2, <1>4, <1>5, QuietOthers

(* A read that succeeds has found its entry.                               *)
LEMMA ReadInv ==
  ASSUME PortsInv, PortsTypeOK', ControlInv', IdInv', NEW t \in Threads,
         ReadVmSrcTableEntry(t) \/ ReadVmDstTableEntry(t)
  PROVE  PortsInv'
<1> USE DEF portsVars
<1>1. /\ pc[t] \in {"readSrc", "readDst"} /\ status[t] = "ok" /\ api[t] = "ipMacMap" /\ insert[t]
      /\ status \in [Threads -> {"ok", "error"}] /\ pc \in [Threads -> Labels]
  BY DEF ReadVmSrcTableEntry, ReadVmDstTableEntry, PortsInv, PortsTypeOK, ControlInv, Labels
<1>2. UNCHANGED <<status, electionId, p4info, highest, entries, portsVars>>
  BY DEF ReadVmSrcTableEntry, ReadVmDstTableEntry
<1>3. CASE ReadVmSrcTableEntry(t)
  <2> DEFINE e == EncodeSrcIpMacMapTableEntry(info[t])
  <2>1. PICK ok \in BOOLEAN :
          /\ SendReadRequest(t, e, ok)
          /\ pc' = [pc EXCEPT ![t] = IF ok THEN "readDst" ELSE SrcLabel(TRUE, info[t])]
    BY <1>3 DEF ReadVmSrcTableEntry, Goto, DstLabel
  <2>2. ok => HasKey(entries, e)
    BY <2>1, EncodedKeys DEF SendReadRequest
  <2> HIDE DEF e
  <2>3. QuietStep(t, IF ok THEN "readDst" ELSE SrcLabel(TRUE, info[t]), "ok")
    BY <1>1, <1>2, <2>1 DEF QuietStep, SrcLabel, DstLabel, Labels
  <2>4. MapDone(t)'
    BY <1>1, <1>2, <1>3, <2>1, <2>2 DEF MapDone, Undisturbed, SrcLabel, DstLabel, e
  <2>5. QED
    BY <1>2, <2>3, <2>4, QuietOthers
<1>4. CASE ReadVmDstTableEntry(t)
  <2> DEFINE e == EncodeDstIpMacMapTableEntry(info[t])
             label(ok) == IF ~ok /\ ValidIpAddr(info[t].src_ip) THEN "writeDst" ELSE "return"
  <2>1. PICK ok \in BOOLEAN :
          SendReadRequest(t, e, ok) /\ pc' = [pc EXCEPT ![t] = label(ok)]
    BY <1>4 DEF ReadVmDstTableEntry, Goto
  <2>2. ok => HasKey(entries, e)
    BY <2>1, EncodedKeys DEF SendReadRequest
  <2> HIDE DEF e
  <2>3. QuietStep(t, label(ok), "ok")
    BY <1>1, <1>2, <2>1 DEF QuietStep, Labels
  <2>4. MapDone(t)'
    <3> SUFFICES ASSUME Undisturbed(t)' PROVE MapDone(t)'
      BY DEF MapDone
    <3>1. Undisturbed(t) /\ ValidIpAddr(info[t].src_ip)
      BY <1>2 DEF Undisturbed, CanWrite
    <3>2. pc[t] = "readDst"
      BY <1>4 DEF ReadVmDstTableEntry
    <3>3. HasKey(entries, EncodeSrcIpMacMapTableEntry(info[t]))
      BY <1>1, <3>1, <3>2 DEF PortsInv, MapInv, MapDone
    <3>4. pc'[t] = "return" => HasKey(entries, e)
      BY <1>1, <2>1, <2>2, <3>1
    <3>5. QED
      BY <1>1, <1>2, <3>3, <3>4 DEF MapDone, e
  <2>5. QED
    BY <1>2, <2>3, <2>4, QuietOthers
<1>5. QED
  BY <1>3, <1>4

(* Starting a call preserves it: the call has nothing behind it.           *)
LEMMA StartInv ==
  ASSUME PortsInv, PortsTypeOK', ControlInv', IdInv', NEW t \in Threads, NEW a \in Apis,
         NEW ins \in BOOLEAN, NEW i \in Arguments(a), DoConfig(t, a, ins, i)
  PROVE  PortsInv'
<1> USE DEF DoConfig, BeginSession, Goto, StartHistory
<1>1. /\ pc \in [Threads -> Labels] /\ status \in [Threads -> {"ok", "error"}]
      /\ api \in [Threads -> Apis] /\ insert \in [Threads -> BOOLEAN]
      /\ touched \in [Threads -> BOOLEAN] /\ lost \in [Threads -> BOOLEAN]
      /\ info = [u \in Threads |-> info[u]]
      /\ electionId \in [Threads -> ElectionIds] /\ p4info \in [Threads -> BOOLEAN]
  BY DEF PortsInv, PortsTypeOK, Labels
<1>2. /\ pc[t] = "idle" /\ pc'[t] = "arbitrate" /\ status'[t] = "ok"
      /\ api'[t] = a /\ insert'[t] = ins /\ info'[t] = i
      /\ \A u \in Threads \ {t} : /\ pc'[u] = pc[u] /\ status'[u] = status[u] /\ api'[u] = api[u]
                                  /\ insert'[u] = insert[u] /\ info'[u] = info[u]
                                  /\ touched'[u] = touched[u] /\ lost'[u] = lost[u]
                                  /\ electionId'[u] = electionId[u] /\ p4info'[u] = p4info[u]
      /\ UNCHANGED <<entries, highest>> /\ broken \subseteq broken'
  BY <1>1
<1>3. DoneInv'
  <2>1. Behind(t)' = {}
    BY <1>2 DEF Behind, BehindAt
  <2>2. \A u \in Threads \ {t} : Behind(u)' = Behind(u)
    BY <1>2 DEF Behind
  <2>3. QED
    BY <1>2, <2>1, <2>2 DEF PortsInv, DoneInv, Done
<1>4. MapInv'
  <2>1. MapDone(t)'
    BY <1>2 DEF MapDone
  <2>2. ASSUME NEW u \in Threads \ {t} PROVE MapDone(u)'
    <3>1. MapDone(u) /\ (CanWrite(u)' => CanWrite(u))
      BY <1>2 DEF PortsInv, MapInv, CanWrite
    <3>2. QED
      BY <1>2, <3>1, MapFrame
  <2>3. QED
    BY <2>1, <2>2 DEF MapInv
<1>5. \A u \in Threads \ {t} : \A k : OnVlan(k, u)' <=> OnVlan(k, u)
  BY <1>2 DEF OnVlan
<1>6. AloneInv'
  <2>1. \A k : OnVlan(k, t)' => a = "vlan" /\ k = Byte(i)
    BY <1>2 DEF OnVlan
  <2>2. \A k \in Keys \ broken', u \in Threads \ {t} : ~(OnVlan(k, t)' /\ OnVlan(k, u)')
    BY <1>2, <1>5, <2>1
  <2>3. QED
    BY <1>2, <1>5, <2>2 DEF PortsInv, VlanInv, AloneInv
<1>7. \A k : (HasPush(k)' <=> HasPush(k)) /\ (HasPop(k)' <=> HasPop(k))
  BY <1>2 DEF HasPush, HasPop
<1>8. PushInv'
  BY <1>2, <1>7 DEF PortsInv, VlanInv, PushInv
<1>9. BackedInv'
  <2>1. \A k : HalfDeleted(k) => HalfDeleted(k)'
    BY <1>2, <1>5 DEF HalfDeleted
  <2>2. QED
    BY <1>2, <1>7, <2>1 DEF PortsInv, VlanInv, BackedInv
<1>10. QED
  BY <1>3, <1>4, <1>6, <1>8, <1>9 DEF PortsInv, VlanInv

(* Closing the session preserves it.                                       *)
LEMMA EndInv ==
  ASSUME PortsInv, PortsTypeOK', ControlInv', IdInv', NEW t \in Threads, EndCall(t)
  PROVE  PortsInv'
<1> USE DEF EndCall, EndSession, Goto
<1>1. /\ pc \in [Threads -> Labels] /\ status \in [Threads -> {"ok", "error"}]
      /\ api \in [Threads -> Apis] /\ insert \in [Threads -> BOOLEAN]
      /\ touched \in [Threads -> BOOLEAN] /\ lost \in [Threads -> BOOLEAN]
      /\ info = [u \in Threads |-> info[u]]
      /\ electionId \in [Threads -> ElectionIds] /\ p4info \in [Threads -> BOOLEAN]
  BY DEF PortsInv, PortsTypeOK, Labels
<1>2. /\ pc[t] = "return" /\ pc'[t] = "idle"
      /\ \A u \in Threads \ {t} : /\ pc'[u] = pc[u] /\ status'[u] = status[u] /\ api'[u] = api[u]
                                  /\ insert'[u] = insert[u] /\ info'[u] = info[u]
                                  /\ touched'[u] = touched[u] /\ lost'[u] = lost[u]
                                  /\ electionId'[u] = electionId[u] /\ p4info'[u] = p4info[u]
      /\ UNCHANGED <<entries, highest, broken>>
  BY <1>1
<1>3. DoneInv'
  <2>1. Behind(t)' = {}
    BY <1>2 DEF Behind, BehindAt
  <2>2. \A u \in Threads \ {t} : Behind(u)' = Behind(u)
    BY <1>2 DEF Behind
  <2>3. QED
    BY <1>2, <2>1, <2>2 DEF PortsInv, DoneInv, Done
<1>4. MapInv'
  <2>1. MapDone(t)'
    BY <1>2 DEF MapDone
  <2>2. ASSUME NEW u \in Threads \ {t} PROVE MapDone(u)'
    <3>1. MapDone(u) /\ (CanWrite(u)' => CanWrite(u))
      BY <1>2 DEF PortsInv, MapInv, CanWrite
    <3>2. QED
      BY <1>2, <3>1, MapFrame
  <2>3. QED
    BY <2>1, <2>2 DEF MapInv
<1>5. \A u \in Threads : \A k : OnVlan(k, u)' => OnVlan(k, u) /\ u # t
  BY <1>2 DEF OnVlan
<1>6. AloneInv'
  BY <1>2, <1>5 DEF PortsInv, VlanInv, AloneInv
<1>7. \A k : (HasPush(k)' <=> HasPush(k)) /\ (HasPop(k)' <=> HasPop(k))
  BY <1>2 DEF HasPush, HasPop
<1>8. PushInv'
  BY <1>2, <1>7 DEF PortsInv, VlanInv, PushInv
<1>9. BackedInv'
  <2>1. \A k : HalfDeleted(k) => HalfDeleted(k)'
    BY <1>2 DEF HalfDeleted, OnVlan
  <2>2. QED
    BY <1>2, <1>7, <2>1 DEF PortsInv, VlanInv, BackedInv
<1>10. QED
  BY <1>3, <1>4, <1>6, <1>8, <1>9 DEF PortsInv, VlanInv

(* Steps in which no call takes part.                                      *)
LEMMA OtherInv ==
  ASSUME PortsInv, PortsTypeOK', ControlInv', IdInv',
         UNCHANGED <<pc, status, entries, electionId, p4info, highest, portsVars>>
  PROVE  PortsInv'
<1> USE DEF PortsInv, portsVars
<1>1. DoneInv'
  BY DEF DoneInv, Behind, Done
<1>2. MapInv'
  BY DEF MapInv, MapDone, Undisturbed, CanWrite
<1>3. AloneInv' /\ PushInv'
  BY DEF VlanInv, AloneInv, PushInv, OnVlan, HasPush
<1>4. BackedInv'
  BY DEF VlanInv, BackedInv, HalfDeleted, OnVlan, HasPush, HasPop
<1>5. QED
  BY <1>1, <1>2, <1>3, <1>4 DEF VlanInv

-----------------------------------------------------------------------------
(***************************************************************************)
(* The inductive invariant: the writes.                                    *)
(***************************************************************************)
LEMMA WriteFacts ==
  ASSUME PortsInv, NEW t \in Threads, NEW ok \in BOOLEAN, WriteStep(t, ok)
  PROVE  /\ insert[t] \in BOOLEAN /\ pc[t] \in Writes /\ status[t] = "ok" /\ api[t] \in Apis
         /\ pc[t] \in {"push", "pop"} => api[t] = "vlan" /\ info[t] \in Vlans
         /\ pc[t] \in {"writeSrc", "writeDst"} => api[t] = "ipMacMap"
         /\ pc[t] \notin {"push", "pop", "writeSrc", "writeDst"} =>
              api[t] \in {"srcPort", "tunnelSrcPort", "rxTunnel"}
         /\ pc[t] = "push" => WriteAt(t) = EncodeVlanPushTableEntry(info[t])
         /\ pc[t] = "pop" => WriteAt(t) = EncodeVlanPopTableEntry(info[t])
         /\ pc[t] = "writeSrc" => WriteAt(t) = EncodeSrcIpMacMapTableEntry(info[t])
         /\ pc[t] = "writeDst" => WriteAt(t) = EncodeDstIpMacMapTableEntry(info[t])
         /\ WriteAt(t) \in CallEntries(api[t], info[t])
         /\ pc[t] \notin {"push", "pop"} =>
              WriteAt(t).table \notin {"VLAN_PUSH_MOD_TABLE", "VLAN_POP_MOD_TABLE"}
<1>1. /\ pc[t] \in Writes /\ insert[t] \in BOOLEAN /\ status[t] = "ok" /\ api[t] \in Apis
  BY DEF WriteStep, PortsInv, PortsTypeOK, ControlInv, Writes
<1>2. /\ pc[t] \in {"push", "pop"} => api[t] = "vlan" /\ info[t] \in Vlans
      /\ pc[t] \in {"writeSrc", "writeDst"} => api[t] = "ipMacMap"
      /\ pc[t] = "writeVsiPort" => api[t] = "srcPort"
      /\ pc[t] = "writeTunnelPort" => api[t] = "tunnelSrcPort"
      /\ pc[t] = "writeRx" => api[t] = "rxTunnel"
  BY <1>1 DEF PortsInv, PortsTypeOK, ControlInv, Writes, Arguments
<1>3. /\ pc[t] = "push" => WriteAt(t) = EncodeVlanPushTableEntry(info[t])
      /\ pc[t] = "pop" => WriteAt(t) = EncodeVlanPopTableEntry(info[t])
      /\ pc[t] \in {"writeVsiPort", "writeTunnelPort"} =>
           WriteAt(t) = EncodeSrcPortTableEntry(info[t])
      /\ pc[t] = "writeRx" => WriteAt(t) = PrepareRxTunnelSrcPortTableEntry(info[t])
      /\ pc[t] = "writeSrc" => WriteAt(t) = EncodeSrcIpMacMapTableEntry(info[t])
      /\ pc[t] = "writeDst" => WriteAt(t) = EncodeDstIpMacMapTableEntry(info[t])
  BY <1>1 DEF WriteAt, Writes
<1>4. WriteAt(t) \in CallEntries(api[t], info[t])
  BY <1>1, <1>2, <1>3 DEF Writes, CallEntries, Apis
<1>5. ASSUME pc[t] \notin {"push", "pop"}
      PROVE  WriteAt(t).table \notin {"VLAN_PUSH_MOD_TABLE", "VLAN_POP_MOD_TABLE"}
  <2>1. CASE pc[t] \in {"writeVsiPort", "writeTunnelPort"}
    BY <1>3, <2>1, EncodedKeys
  <2>2. CASE pc[t] = "writeRx"
    <3>1. WriteAt(t).table \in
            {"RX_IPV4_TUNNEL_SOURCE_PORT_TABLE", "RX_IPV6_TUNNEL_SOURCE_PORT_TABLE", "none"}
      BY <1>3, <2>2, EncodedKeys
    <3>2. QED
      BY <3>1
  <2>3. CASE pc[t] \in {"writeSrc", "writeDst"}
    BY <1>3, <2>3, EncodedKeys
  <2>4. QED
    BY <1>1, <1>5, <2>1, <2>2, <2>3 DEF Writes
<1>6. QED
  BY <1>1, <1>2, <1>3, <1>4, <1>5 DEF Writes

(* A write does not change what an entry of another call is, unless it     *)
(* marks that call as touched.                                             *)
LEMMA WriteElsewhere ==
  ASSUME PortsInv, NEW t \in Threads, NEW ok \in BOOLEAN, WriteStep(t, ok),
         NEW u \in Threads \ {t}, pc[u] # "idle", ~touched'[u],
         NEW f \in CallEntries(api[u], info[u])
  PROVE  /\ f \in entries' <=> f \in entries
         /\ HasKey(entries', f) <=> HasKey(entries, f)
<1>1. entries' = entries \/ ~HasKey(CallEntries(api[u], info[u]), WriteAt(t))
  BY WriteOutcome
<1>2. insert[t] \in BOOLEAN
  BY WriteFacts
<1>3. CASE entries' = entries
  BY <1>3
<1>4. CASE ~HasKey(CallEntries(api[u], info[u]), WriteAt(t))
  <2>1. ~SameKey(WriteAt(t), f)
    BY <1>4 DEF HasKey
  <2>2. QED
    BY <1>2, <2>1, WriteOutcome, ApplyFrame
<1>5. QED
  BY <1>1, <1>3, <1>4

(* A write keeps done what is behind any call on an untouched key.         *)
LEMMA WriteDone ==
  ASSUME PortsInv, NEW t \in Threads, NEW ok \in BOOLEAN, WriteStep(t, ok)
  PROVE  DoneInv'
<1>1. /\ pc \in [Threads -> Labels] /\ status \in [Threads -> {"ok", "error"}]
      /\ touched \in [Threads -> BOOLEAN] /\ insert \in [Threads -> BOOLEAN]
  BY DEF PortsInv, PortsTypeOK, Labels
<1>2. UNCHANGED <<api, insert, info>>
  BY WriteOutcome
<1>3. ASSUME NEW u \in Threads \ {t}, ~touched'[u], NEW f \in Behind(u)'
      PROVE  Done(u, f)'
  <2>1. f \in Behind(u)
    BY <1>1, <1>2, <1>3 DEF Behind, WriteStep
  <2>2. ~touched[u]
    BY <1>1, <1>3, WriteOutcome
  <2>3. Done(u, f)
    BY <2>1, <2>2 DEF PortsInv, DoneInv
  <2>4. f \in CallEntries(api[u], info[u]) /\ pc[u] # "idle"
    BY <2>1 DEF Behind, BehindAt, CallEntries, PortsInv, ControlInv
  <2>5. /\ f \in entries' <=> f \in entries
        /\ HasKey(entries', f) <=> HasKey(entries, f)
    BY <1>3, <2>4, WriteElsewhere
  <2>6. QED
    BY <1>2, <2>3, <2>5 DEF Done
<1>4. ASSUME ~touched'[t], NEW f \in Behind(t)'
      PROVE  Done(t, f)'
  <2> DEFINE e == WriteAt(t)
  <2>1. ~touched[t] /\ insert[t] \in BOOLEAN
    BY <1>1, <1>4, WriteOutcome
  <2>2. ok /\ pc[t] \notin {"writeSrc", "writeDst"}
    <3>1. pc'[t] = LabelAfter(t, ok)
      BY <1>1 DEF WriteStep
    <3>2. status'[t] = IF ok \/ pc[t] \in {"writeSrc", "writeDst"} THEN "ok" ELSE "error"
      BY <1>1 DEF WriteStep
    <3>3. pc[t] \in {"writeSrc", "writeDst"} => api[t] = "ipMacMap"
      BY WriteFacts
    <3>4. QED
      BY <1>2, <1>4, <3>1, <3>2, <3>3 DEF Behind, BehindAt, LabelAfter, DstLabel
  <2>3. entries' = Apply(entries, e, insert[t])
    BY <2>2, WriteOutcome
  <2>4. CASE pc[t] = "push"
    <3>1. f = e
      BY <1>1, <1>2, <1>4, <2>2, <2>4, WriteFacts DEF Behind, BehindAt, WriteStep, LabelAfter
    <3> HIDE DEF e
    <3>2. QED
      BY <1>2, <2>1, <2>3, <3>1, ApplyEffect DEF Done
  <2>5. CASE pc[t] # "push"
    <3>1. pc'[t] = "return" /\ status'[t] = "ok"
      BY <1>1, <2>2, <2>5 DEF WriteStep, LabelAfter
    <3>2. f \in CallEntries(api[t], info[t])
      BY <1>2, <1>4, <3>1 DEF Behind, BehindAt
    <3>3. f = e \/ (pc[t] = "pop" /\ f = EncodeVlanPushTableEntry(info[t]))
      <4>1. CASE pc[t] = "pop"
        BY <3>2, <4>1, WriteFacts DEF CallEntries
      <4>2. CASE pc[t] # "pop"
        <5>1. e \in CallEntries(api[t], info[t]) /\ api[t] \in {"srcPort", "tunnelSrcPort", "rxTunnel"}
          BY <2>2, <2>5, <4>2, WriteFacts
        <5>2. QED
          BY <3>2, <5>1 DEF CallEntries
      <4>3. QED
        BY <4>1, <4>2
    <3>4. CASE f = e
      <4> HIDE DEF e
      <4>1. QED
        BY <1>2, <2>1, <2>3, <3>4, ApplyEffect DEF Done
    <3>5. CASE pc[t] = "pop" /\ f = EncodeVlanPushTableEntry(info[t])
      <4>1. ~SameKey(e, f)
        BY <3>5, WriteFacts, EncodedKeys DEF SameKey
      <4>2. Done(t, f)
        BY <2>1, <3>5 DEF PortsInv, DoneInv, Behind, BehindAt
      <4> HIDE DEF e
      <4>3. QED
        BY <1>2, <2>1, <2>3, <4>1, <4>2, ApplyFrame DEF Done
    <3>6. QED
      BY <3>3, <3>4, <3>5
  <2>6. QED
    BY <2>4, <2>5
<1>5. QED
  BY <1>3, <1>4 DEF DoneInv

(* ConfigIpMacMapEntry as the primary: a write is applied, or the table is *)
(* already as the write would make it, or the write is lost.               *)
LEMMA MapWriteWorks ==
  ASSUME PortsInv, NEW t \in Threads, NEW ok \in BOOLEAN, WriteStep(t, ok),
         pc[t] \in {"writeSrc", "writeDst"}, CanWrite(t), ~lost'[t]
  PROVE  HasKey(entries', WriteAt(t)) <=> insert[t]
<1> DEFINE e == WriteAt(t)
<1>1. insert[t] \in BOOLEAN /\ lost \in [Threads -> BOOLEAN]
  BY DEF PortsInv, PortsTypeOK
<1>2. WellFormed(e, insert[t])
  BY WriteFacts, EncodedKeys DEF WellFormed, UnsetAction
<1>3. entries' = Apply(entries, e, insert[t]) \/ (entries' = entries /\ ~Accepts(entries, e, insert[t]))
  BY <1>1, WriteLoss, WriteOutcome
<1> HIDE DEF e
<1>4. CASE entries' = Apply(entries, e, insert[t])
  BY <1>1, <1>4, ApplyEffect DEF e
<1>5. CASE entries' = entries /\ ~Accepts(entries, e, insert[t])
  <2>1. insert[t] = HasKey(entries, e)
    BY <1>2, <1>5 DEF Accepts
  <2>2. QED
    BY <1>1, <1>5, <2>1 DEF e
<1>6. QED
  BY <1>3, <1>4, <1>5

(* A write keeps both IP/MAC-map entries of a call whose session is still  *)
(* primary.                                                                *)
LEMMA WriteMap ==
  ASSUME PortsInv, NEW t \in Threads, NEW ok \in BOOLEAN, WriteStep(t, ok)
  PROVE  MapInv'
<1>1. /\ pc \in [Threads -> Labels] /\ status \in [Threads -> {"ok", "error"}]
      /\ touched \in [Threads -> BOOLEAN] /\ lost \in [Threads -> BOOLEAN]
      /\ insert \in [Threads -> BOOLEAN]
  BY DEF PortsInv, PortsTypeOK, Labels
<1>2. UNCHANGED <<api, insert, info, electionId, p4info, highest>>
  BY WriteOutcome
<1>3. \A u \in Threads : touched[u] => touched'[u]
  BY WriteOutcome
<1>4. ASSUME NEW u \in Threads \ {t} PROVE MapDone(u)'
  <2>1. MapDone(u) /\ (CanWrite(u)' => CanWrite(u))
    BY <1>2 DEF PortsInv, MapInv, CanWrite
  <2>2. lost'[u] = lost[u]
    BY <1>1, WriteLoss
  <2>3. pc[u] # "idle" /\ api[u] = "ipMacMap" /\ ~touched'[u] =>
          \A e \in CallEntries("ipMacMap", info[u]) : HasKey(entries', e) <=> HasKey(entries, e)
    BY WriteElsewhere
  <2>4. pc'[u] = pc[u] /\ status'[u] = status[u]
    BY <1>1 DEF WriteStep
  <2>5. QED
    BY <1>2, <1>3, <2>1, <2>2, <2>3, <2>4, MapFrame
<1>5. MapDone(t)'
  <2> SUFFICES ASSUME Undisturbed(t)' PROVE MapDone(t)'
    BY DEF MapDone
  <2>1. api[t] = "ipMacMap" /\ CanWrite(t) /\ ~lost'[t] /\ ~touched'[t] /\ ValidIpAddr(info[t].src_ip)
    BY <1>2 DEF Undisturbed, CanWrite
  <2>2. Undisturbed(t)
    BY <1>1, <1>3, <2>1, WriteFacts, WriteLoss DEF Undisturbed
  <2>3. pc[t] \in {"writeSrc", "writeDst"}
    BY <2>1, WriteFacts
  <2>4. HasKey(entries', WriteAt(t)) <=> insert[t]
    BY <2>1, <2>3, MapWriteWorks
  <2>5. CASE pc[t] = "writeSrc"
    <3>1. pc'[t] # "return"
      BY <1>1, <2>1, <2>5 DEF WriteStep, LabelAfter, DstLabel
    <3>2. WriteAt(t) = EncodeSrcIpMacMapTableEntry(info[t])
      BY <2>5, WriteFacts
    <3>3. QED
      BY <1>2, <2>4, <3>1, <3>2 DEF MapDone
  <2>6. CASE pc[t] = "writeDst"
    <3> DEFINE src == EncodeSrcIpMacMapTableEntry(info[t])
    <3>1. WriteAt(t) = EncodeDstIpMacMapTableEntry(info[t])
      BY <2>6, WriteFacts
    <3>2. ~SameKey(WriteAt(t), src)
      BY <3>1, EncodedKeys DEF SameKey
    <3>3. HasKey(entries, src) <=> insert[t]
      BY <2>2, <2>6 DEF PortsInv, MapInv, MapDone
    <3> HIDE DEF src
    <3>4. HasKey(entries', src) <=> insert[t]
      BY <1>1, <3>2, <3>3, WriteOutcome, ApplyFrame
    <3>5. QED
      BY <1>2, <2>4, <3>1, <3>4 DEF MapDone, src
  <2>7. QED
    BY <2>3, <2>5, <2>6
<1>6. QED
  BY <1>4, <1>5 DEF MapInv

(* The VLAN tables under a write: only the vlan call of the key itself     *)
(* changes them.                                                           *)
LEMMA WriteVlanElsewhere ==
  ASSUME PortsInv, NEW t \in Threads, NEW ok \in BOOLEAN, WriteStep(t, ok), NEW k, ~OnVlan(k, t)
  PROVE  (HasPush(k)' <=> HasPush(k)) /\ (HasPop(k)' <=> HasPop(k))
<1>1. insert[t] \in BOOLEAN
  BY WriteFacts
<1>2. ASSUME NEW f, f.table \in {"VLAN_PUSH_MOD_TABLE", "VLAN_POP_MOD_TABLE"}, f.key = <<k>>
      PROVE  f \in entries' <=> f \in entries
  <2>1. ~SameKey(WriteAt(t), f)
    <3>1. CASE pc[t] \in {"push", "pop"}
      <4>1. WriteAt(t).key = <<Byte(info[t])>> /\ Byte(info[t]) # k
        BY <3>1, WriteFacts, EncodedKeys DEF OnVlan
      <4>2. QED
        BY <1>2, <4>1 DEF SameKey
    <3>2. CASE pc[t] \notin {"push", "pop"}
      BY <1>2, <3>2, WriteFacts DEF SameKey
    <3>3. QED
      BY <3>1, <3>2
  <2>2. QED
    BY <1>1, <2>1, WriteOutcome, ApplyFrame
<1>3. QED
  BY <1>2 DEF HasPush, HasPop

(* A write keeps pop backed by push, outside a half-done delete.           *)
LEMMA WriteVlan ==
  ASSUME PortsInv, NEW t \in Threads, NEW ok \in BOOLEAN, WriteStep(t, ok)
  PROVE  VlanInv'
<1>1. /\ pc \in [Threads -> Labels] /\ insert \in [Threads -> BOOLEAN]
      /\ UNCHANGED <<api, insert, info>> /\ broken \subseteq broken'
  BY WriteOutcome DEF PortsInv, PortsTypeOK, Labels
<1>2. /\ pc'[t] = LabelAfter(t, ok) /\ pc'[t] # "idle" /\ pc[t] # "idle"
      /\ \A u \in Threads \ {t} : pc'[u] = pc[u]
  BY <1>1 DEF WriteStep, LabelAfter, DstLabel, Writes
<1>3. \A u \in Threads : \A k : OnVlan(k, u)' <=> OnVlan(k, u)
  BY <1>1, <1>2 DEF OnVlan
<1>4. AloneInv'
  BY <1>1, <1>3 DEF PortsInv, VlanInv, AloneInv
<1>5. ASSUME NEW u \in Threads, pc[u] = "pop" PROVE OnVlan(Byte(info[u]), u) /\ Byte(info[u]) \in Keys
  BY <1>5, VlanKey DEF OnVlan, PortsInv, ControlInv, PortsTypeOK, Arguments
<1> DEFINE e == WriteAt(t)
           k == Byte(info[t])
<1>6. pc[t] = "push" =>
        /\ entries' = Apply(entries, e, TRUE) => HasPush(k)'
        /\ entries' = Apply(entries, e, FALSE) => ~HasPush(k)'
  <2> SUFFICES ASSUME pc[t] = "push"
               PROVE  /\ entries' = Apply(entries, e, TRUE) => HasPush(k)'
                      /\ entries' = Apply(entries, e, FALSE) => ~HasPush(k)'
    OBVIOUS
  <2>1. e.table = "VLAN_PUSH_MOD_TABLE" /\ e.key = <<k>>
    BY WriteFacts, EncodedKeys
  <2>2. HasPush(k)' <=> \E f \in entries' : f.table = "VLAN_PUSH_MOD_TABLE" /\ f.key = <<k>>
    BY <1>1 DEF HasPush
  <2> HIDE DEF e, k
  <2>3. QED
    BY <2>1, <2>2 DEF Apply, SameKey
<1>7. PushInv'
  <2> SUFFICES ASSUME NEW u \in Threads, pc'[u] = "pop", Byte(info[u]) \notin broken'
               PROVE  HasPush(Byte(info[u]))' <=> insert[u]
    BY <1>1 DEF PushInv
  <2>1. CASE u = t
    <3>1. pc[t] = "push" /\ ok
      BY <1>2, <2>1 DEF LabelAfter, DstLabel
    <3>2. QED
      BY <1>1, <1>6, <2>1, <3>1, WriteOutcome
  <2>2. CASE u # t
    <3>1. pc[u] = "pop" /\ Byte(info[u]) \notin broken
      BY <1>1, <1>2, <2>2
    <3>2. ~OnVlan(Byte(info[u]), t)
      BY <1>5, <2>2, <3>1 DEF PortsInv, VlanInv, AloneInv
    <3>3. HasPush(Byte(info[u])) <=> insert[u]
      BY <3>1 DEF PortsInv, VlanInv, PushInv
    <3>4. QED
      BY <1>1, <3>2, <3>3, WriteVlanElsewhere
  <2>3. QED
    BY <2>1, <2>2
<1>8. BackedInv'
  <2> SUFFICES ASSUME NEW key \in Keys, key \notin broken'
               PROVE  (HasPop(key)' => HasPush(key)') \/ HalfDeleted(key)'
    BY DEF BackedInv
  <2>1. key \notin broken
    BY <1>1
  <2>2. (HasPop(key) => HasPush(key)) \/ HalfDeleted(key)
    BY <2>1 DEF PortsInv, VlanInv, BackedInv
  <2>3. CASE ~OnVlan(key, t)
    <3>1. HalfDeleted(key) => HalfDeleted(key)'
      BY <1>1, <1>2, <1>3, <2>3 DEF HalfDeleted
    <3>2. QED
      BY <2>2, <2>3, <3>1, WriteVlanElsewhere
  <2>4. CASE OnVlan(key, t)
    <3>1. \A u \in Threads : OnVlan(key, u) => u = t
      BY <2>1, <2>4 DEF PortsInv, VlanInv, AloneInv
    <3>2. key = k /\ api[t] = "vlan" /\ pc[t] \in {"push", "pop"}
      BY <2>4, WriteFacts DEF OnVlan, Writes
    <3>3. CASE pc[t] = "push"
      <4>1. HasPop(key) => HasPush(key)
        BY <2>2, <3>1, <3>3 DEF HalfDeleted
      <4>2. e.table = "VLAN_PUSH_MOD_TABLE"
        BY <3>3, WriteFacts, EncodedKeys
      <4>3. CASE insert[t]
        <5>1. entries \subseteq entries' /\ entries' \subseteq entries \cup {e}
          BY <1>1, <4>3, WriteOutcome DEF Apply
        <5> HIDE DEF e
        <5>2. QED
          BY <4>1, <4>2, <5>1 DEF HasPush, HasPop
      <4>4. CASE ~insert[t]
        <5>1. CASE ok
          <6>1. pc'[t] = "pop"
            BY <1>2, <3>3, <5>1 DEF LabelAfter
          <6>2. QED
            BY <1>1, <1>3, <2>4, <4>4, <6>1 DEF HalfDeleted
        <5>2. CASE ~ok
          <6>1. entries' = entries
            BY <3>2, <4>4, <5>2, WriteOutcome
          <6>2. QED
            BY <4>1, <6>1 DEF HasPush, HasPop
        <5>3. QED
          BY <5>1, <5>2
      <4>5. QED
        BY <4>3, <4>4
    <3>4. CASE pc[t] = "pop"
      <4>1. e.table = "VLAN_POP_MOD_TABLE" /\ e.key = <<key>>
        BY <3>2, <3>4, WriteFacts, EncodedKeys
      <4>2. HasPush(key) <=> insert[t]
        BY <2>1, <3>2, <3>4 DEF PortsInv, VlanInv, PushInv
      <4>3. CASE insert[t]
        <5>1. entries \subseteq entries'
          BY <1>1, <4>3, WriteOutcome DEF Apply
        <5>2. QED
          BY <4>2, <4>3, <5>1 DEF HasPush
      <4>4. CASE ~insert[t]
        <5>1. ok
          BY <3>2, <3>4, <4>4, WriteOutcome
        <5>2. entries' = Apply(entries, e, FALSE)
          BY <1>1, <4>4, <5>1, WriteOutcome
        <5> HIDE DEF e
        <5>3. ~HasPop(key)'
          BY <4>1, <5>2 DEF HasPop, Apply, SameKey
        <5>4. QED
          BY <5>3
      <4>5. QED
        BY <4>3, <4>4
    <3>5. QED
      BY <3>2, <3>3, <3>4
  <2>5. QED
    BY <2>3, <2>4
<1>9. QED
  BY <1>4, <1>7, <1>8 DEF VlanInv

-----------------------------------------------------------------------------
(***************************************************************************)
(* The theorems.                                                           *)
(***************************************************************************)
LEMMA InvInit == PortsInit => PortsInv
<1> SUFFICES ASSUME PortsInit PROVE PortsInv
  OBVIOUS
<1>1. entries = {} /\ \A t \in Threads : pc[t] = "idle"
  BY DEF PortsInit, SessionInit
<1>2. DoneInv /\ MapInv
  BY <1>1 DEF DoneInv, Behind, BehindAt, MapInv, MapDone
<1>3. VlanInv
  BY <1>1 DEF VlanInv, AloneInv, PushInv, BackedInv, OnVlan, HasPop
<1>4. QED
  BY <1>2, <1>3, TypeInit, ControlInit DEF PortsInv

(* Every step preserves the invariant.                                     *)
LEMMA InvStep == PortsInv /\ [Next]_vars => PortsInv'
<1> SUFFICES ASSUME PortsInv, [Next]_vars PROVE PortsInv'
  OBVIOUS
<1>1. PortsTypeOK' /\ ControlInv' /\ IdInv'
  BY TypeStep, ControlStep, IdStep DEF PortsInv
<1>2. ASSUME NEW t \in Threads, StartCall(t) PROVE PortsInv'
  BY <1>1, <1>2, StartForms, StartInv
<1>3. ASSUME NEW t \in Threads, SessionStep(t), UNCHANGED portsVars PROVE PortsInv'
  BY <1>1, <1>3, SessionInv
<1>4. ASSUME NEW t \in Threads, FetchP4Info(t) PROVE PortsInv'
  BY <1>1, <1>4, FetchInv
<1>5. ASSUME NEW t \in Threads, NEW ok \in BOOLEAN, WriteStep(t, ok) PROVE PortsInv'
  BY <1>1, <1>5, WriteDone, WriteMap, WriteVlan DEF PortsInv
<1>6. ASSUME NEW t \in Threads, GetTxAccVsiPort(t) PROVE PortsInv'
  BY <1>1, <1>6, HostPortInv
<1>7. ASSUME NEW t \in Threads, ReadVmSrcTableEntry(t) \/ ReadVmDstTableEntry(t) PROVE PortsInv'
  BY <1>1, <1>7, ReadInv
<1>8. ASSUME NEW t \in Threads, EndCall(t) PROVE PortsInv'
  BY <1>1, <1>8, EndInv
<1>9. CASE Environment /\ UNCHANGED portsVars
  BY <1>1, <1>9, OtherInv DEF Environment, Tick, StreamClosed
<1>10. CASE UNCHANGED vars
  BY <1>1, <1>10, OtherInv DEF vars, sessionVars
<1>11. PortsTypeOK /\ ControlInv
  BY DEF PortsInv
<1>12. QED
  BY <1>2, <1>3, <1>4, <1>5, <1>6, <1>7, <1>8, <1>9, <1>10, <1>11, CallWrites
     DEF Next, CallStep, ConfigSrcPortEntry, ConfigIpMacMapEntry

(* The inductive invariant of the smaller APIs.                            *)
THEOREM PortsInvariant == Spec => []PortsInv
BY InvInit, InvStep, PTL DEF Spec

(* The APIs that return a status return OK only for complete work.         *)
THEOREM PortsStatusIsTruthful == Spec => []PortsStatusTruthful
<1>1. PortsInv => PortsStatusTruthful
  BY DEF PortsInv, DoneInv, Behind, BehindAt, PortsStatusTruthful
<1>2. QED
  BY <1>1, PortsInvariant, PTL

(* ConfigIpMacMapEntry, which ignores every status, does its work when it  *)
(* is the primary, no entry of it was touched and no write was lost.       *)
THEOREM IpMacMapIsDone == Spec => []IpMacMapDone
<1>1. ASSUME PortsInv PROVE IpMacMapDone
  <2> SUFFICES ASSUME NEW t \in Threads, Undisturbed(t), pc[t] = "return"
               PROVE  \A e \in CallEntries("ipMacMap", info[t]) : HasKey(entries, e) = insert[t]
    BY DEF IpMacMapDone, Undisturbed
  <2>1. /\ HasKey(entries, EncodeSrcIpMacMapTableEntry(info[t])) <=> insert[t]
        /\ HasKey(entries, EncodeDstIpMacMapTableEntry(info[t])) <=> insert[t]
    BY <1>1 DEF PortsInv, MapInv, MapDone
  <2>2. insert[t] \in BOOLEAN
    BY <1>1 DEF PortsInv, PortsTypeOK
  <2>3. \A e \in CallEntries("ipMacMap", info[t]) : HasKey(entries, e) <=> insert[t]
    BY <2>1 DEF CallEntries
  <2>4. \A e : HasKey(entries, e) \in BOOLEAN
    BY DEF HasKey
  <2>5. QED
    BY <2>2, <2>3, <2>4
<1>2. QED
  BY <1>1, PortsInvariant, PTL

(* A pop entry has its push entry while no delete is at work on its VLAN   *)
(* key and none failed half-way.                                           *)
THEOREM PopIsBacked == Spec => []PopBacked
<1>1. ASSUME PortsInv PROVE PopBacked
  <2> SUFFICES ASSUME NEW v \in Vlans, Byte(v) \notin broken,
                      \A t \in Threads : OnVlan(Byte(v), t) => insert[t],
                      HasKey(entries, EncodeVlanPopTableEntry(v))
               PROVE  HasKey(entries, EncodeVlanPushTableEntry(v))
    BY DEF PopBacked
  <2>1. HasPop(Byte(v))
    BY EncodedKeys DEF HasKey, SameKey, HasPop
  <2>2. HasPush(Byte(v))
    BY <1>1, <2>1, VlanKey DEF PortsInv, VlanInv, BackedInv, HalfDeleted
  <2>3. QED
    BY <2>2, EncodedKeys DEF HasKey, SameKey, HasPush
<1>2. QED
  BY <1>1, PortsInvariant, PTL
==============================================================================
