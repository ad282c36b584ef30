------------------------ MODULE Es2kConfigFdb_proofs ------------------------
(***************************************************************************)
(* Proofs about Es2kConfigFdb, for any set of threads and any arguments.   *)
(***************************************************************************)
EXTENDS Es2kConfigFdb, TLAPS

(* Tables and keys that the FDB encoders produce, whatever the action.     *)
LEMMA EncodedKeys ==
  ASSUME NEW i
  PROVE  /\ EncodeFdbSmacTableEntry(i).table = "L2_FWD_SMAC_TABLE"
         /\ EncodeFdbSmacTableEntry(i).key = <<i.mac_addr, i.bridge_id>>
         /\ EncodeFdbTxVlanTableEntry(i).table = "L2_FWD_TX_TABLE"
         /\ EncodeFdbTxVlanTableEntry(i).key = <<i.mac_addr, i.bridge_id>>
         /\ EncodeFdbRxVlanTableEntry(i).table = "L2_FWD_RX_TABLE"
         /\ EncodeFdbRxVlanTableEntry(i).key = <<i.mac_addr, i.bridge_id>>
         /\ EncodeL2ToTunnelV4(i).table = "L2_TO_TUNNEL_V4"
         /\ EncodeL2ToTunnelV4(i).key = <<i.mac_addr>>
         /\ EncodeL2ToTunnelV6(i).table = "L2_TO_TUNNEL_V6"
         /\ EncodeL2ToTunnelV6(i).key = <<i.mac_addr>>
         /\ TxKey(i).table = "L2_FWD_TX_TABLE"
         /\ TxKey(i).key = <<i.mac_addr, i.bridge_id>>
<1>1. EncodeFdbTxVlanTableEntry(i).table = "L2_FWD_TX_TABLE" /\
      EncodeFdbTxVlanTableEntry(i).key = <<i.mac_addr, i.bridge_id>>
  BY DEF EncodeFdbTxVlanTableEntry, EncodeL2FwdTxTablePrologue, Entry
<1>2. QED
  BY <1>1 DEF EncodeFdbSmacTableEntry, EncodeFdbRxVlanTableEntry, EncodeL2ToTunnelV4,
              EncodeL2ToTunnelV6, TxKey, EncodeL2FwdTxTablePrologue, Entry

(* The L2-to-tunnel entry is in the table of its address family.           *)
LEMMA L2Keys ==
  ASSUME NEW i
  PROVE  /\ PrepareL2TunnelTableEntry(i).table =
              IF IsV6(i) THEN "L2_TO_TUNNEL_V6" ELSE "L2_TO_TUNNEL_V4"
         /\ PrepareL2TunnelTableEntry(i).key = <<i.mac_addr>>
BY EncodedKeys DEF PrepareL2TunnelTableEntry

(* The TX entry of a tunnel: the same key as every TX entry, or an empty   *)
(* request when the type is unknown and the entry is to be inserted.       *)
LEMMA TunnelTxKeys ==
  ASSUME NEW i, NEW ins \in BOOLEAN, i.tunnel_type \in TunnelTypes
  PROVE  LET e == PrepareFdbTunnelTableEntry(i, ins) IN
         IF ins /\ i.tunnel_type = "UNKNOWN"
           THEN e = EmptyEntry
           ELSE /\ e.table = "L2_FWD_TX_TABLE"
                /\ e.key = <<i.mac_addr, i.bridge_id>>
                /\ ins => PrepareFdbTableV4TunnelEntry(i) = e
<1>1. \A name, params :
        /\ EncodeL2FwdTxTablePrologue(i, name, params).table = "L2_FWD_TX_TABLE"
        /\ EncodeL2FwdTxTablePrologue(i, name, params).key = <<i.mac_addr, i.bridge_id>>
  BY DEF EncodeL2FwdTxTablePrologue, Entry
<1>2. CASE i.tunnel_type = "VXLAN"
  BY <1>1, <1>2 DEF ByType, PrepareFdbTunnelTableEntry, PrepareFdbTableV4TunnelEntry, EncodeFdbTableEntryforV4VxlanTunnel
<1>3. CASE i.tunnel_type = "GENEVE"
  BY <1>1, <1>3 DEF ByType, PrepareFdbTunnelTableEntry, PrepareFdbTableV4TunnelEntry, EncodeFdbTableEntryforV4GeneveTunnel
<1>4. CASE i.tunnel_type = "UNKNOWN"
  BY <1>1, <1>4 DEF ByType, PrepareFdbTunnelTableEntry
<1>5. QED
  BY <1>2, <1>3, <1>4 DEF TunnelTypes

-----------------------------------------------------------------------------
(* What a write does to the tables: nothing, unless the session may write. *)
LEMMA WriteOutcome ==
  ASSUME NEW t, NEW e, NEW label, Write(t, e, label)
  PROVE  \/ entries' = entries
         \/ /\ CanWrite(t)
            /\ Accepts(entries, e, insert[t])
            /\ entries' = Apply(entries, e, insert[t])
BY DEF Write, SendWriteRequest

(* A write touches the FDB entries of its own MAC address only.            *)
LEMMA WriteFrame ==
  ASSUME NEW t, NEW e, NEW label, NEW m, Write(t, e, label),
         e.table = "none" \/ e.key[1] # m
  PROVE  FdbEntries(m)' = FdbEntries(m)
BY WriteOutcome DEF FdbEntries, FdbTables, Accepts, WellFormed, Apply, SameKey

(* RX entries are never removed.                                           *)
LEMMA WriteKeepsRx ==
  ASSUME NEW t, NEW e, NEW label, NEW i, Write(t, e, label),
         insert[t] \/ e.table # "L2_FWD_RX_TABLE", HasRx(i)
  PROVE  HasRx(i)'
BY WriteOutcome, EncodedKeys DEF HasRx, HasKey, Apply, SameKey

(* An insert on an undisturbed MAC address, by a call that may write or    *)
(* has written, adds its entry if the key is free.                         *)
LEMMA InsertEffect ==
  ASSUME NEW t \in Threads, NEW e, NEW label, NEW m, Write(t, e, label),
         m = info[t].mac_addr, insert[t], CanWrite(t) \/ wrote[t], m \notin disturbed',
         e.table \in FdbTables, e.key[1] = m, ~HasKey(FdbEntries(m), e)
  PROVE  FdbEntries(m)' = FdbEntries(m) \cup {e}
<1>1. HasKey(entries', e)
  BY DEF Write, DisturbIf
<1>2. ~HasKey(entries, e)
  BY DEF HasKey, FdbEntries, SameKey
<1>3. entries' = entries \cup {e}
  BY <1>1, <1>2, WriteOutcome DEF Apply
<1>4. QED
  BY <1>3 DEF FdbEntries

(* A delete on an undisturbed MAC address, by a call that may write or has *)
(* written, removes the entries with its key and no other.                 *)
LEMMA DeleteEffect ==
  ASSUME NEW t \in Threads, NEW e, NEW label, NEW m, Write(t, e, label),
         m = info[t].mac_addr, ~insert[t], CanWrite(t) \/ wrote[t], m \notin disturbed'
  PROVE  FdbEntries(m)' = {f \in FdbEntries(m) : ~SameKey(e, f)}
<1>1. ~HasKey(entries', e)
  BY DEF Write, DisturbIf
<1>2. CASE entries' = entries
  BY <1>1, <1>2 DEF HasKey, FdbEntries
<1>3. CASE entries' = Apply(entries, e, insert[t])
  BY <1>3 DEF Apply, FdbEntries
<1>4. QED
  BY <1>2, <1>3, WriteOutcome

-----------------------------------------------------------------------------
(* Type correctness.                                                       *)
LEMMA TypeInit == FdbInit => FdbTypeOK
<1>1. NoInfo \in LearnInfo
  BY InfosAssumption DEF NoInfo
<1>2. QED
  BY <1>1 DEF FdbInit, SessionInit, FdbTypeOK, Labels, ElectionIds, NoElectionId

(* Every field that a call changes in its learn_info keeps its type.       *)
LEMMA InfoTypes ==
  ASSUME NEW i \in LearnInfo
  PROVE  /\ \A b \in BOOLEAN : [i EXCEPT !.is_tunnel = b] \in LearnInfo
         /\ FoundInV6(i) \in LearnInfo
         /\ HasHostPort(i) => [i EXCEPT !.src_port = HostPort(i)] \in LearnInfo
<1>1. \A b \in BOOLEAN : [i EXCEPT !.is_tunnel = b] \in LearnInfo
  BY DEF LearnInfo
<1>2. FoundInV6(i) \in LearnInfo
  BY DEF LearnInfo, FoundInV6, AF_INET6
<1>3. HasHostPort(i) => HostPort(i) \in Nat
  BY TxAccVsiAssumption DEF HasHostPort, HostPort
<1>4. \A n \in Nat : [i EXCEPT !.src_port = n] \in LearnInfo
  BY DEF LearnInfo
<1>5. QED
  BY <1>1, <1>2, <1>3, <1>4

(* Every step preserves the type invariant.                                *)
LEMMA TypeStep == FdbTypeOK /\ [Next]_vars => FdbTypeOK'
<1> SUFFICES ASSUME FdbTypeOK, [Next]_vars PROVE FdbTypeOK'
  OBVIOUS
<1> USE DEF FdbTypeOK, Labels
<1>1. ASSUME NEW t \in Threads, NEW ins \in BOOLEAN, NEW i \in LearnInfo, ConfigFdbEntry(t, ins, i)
      PROVE  FdbTypeOK'
  <2>1. NewElectionId(t) \in ElectionIds
    BY ThreadIdAssumption DEF NewElectionId, TimeBasedElectionId, ElectionIds
  <2>2. i.mac_addr \in Nat
    BY DEF LearnInfo
  <2>3. QED
    BY <1>1, <2>1, <2>2 DEF ConfigFdbEntry, BeginSession, Goto, DisturbIf
<1>2. ASSUME NEW t \in Threads, SessionStep(t), UNCHANGED fdbVars PROVE FdbTypeOK'
  BY <1>2 DEF SessionStep, Arbitrate, ArbitrationFails, OpenStream, Goto, Return, fdbVars
<1>3. ASSUME NEW t \in Threads, FetchP4Info(t) PROVE FdbTypeOK'
  BY <1>3 DEF FetchP4Info, GetPipelineConfig, Goto, fdbVars
<1>4. ASSUME NEW t \in Threads, NEW e, NEW label \in Labels, Write(t, e, label) PROVE FdbTypeOK'
  <2>1. info[t].mac_addr \in Nat
    BY DEF LearnInfo
  <2>2. disturbed' \subseteq Nat
    BY <1>4, <2>1 DEF Write, DisturbIf
  <2>3. wrote' \in [Threads -> BOOLEAN]
    BY <1>4 DEF Write, CanWrite
  <2>4. QED
    BY <1>4, <2>2, <2>3 DEF Write, Goto
<1>5. ASSUME NEW t \in Threads, WriteFdbTunnel(t) \/ WriteL2Tunnel(t) \/ WriteFdbRxVlan(t)
                                  \/ WriteFdbTxVlan(t) \/ WriteFdbSmac(t)
      PROVE  FdbTypeOK'
  BY <1>4, <1>5 DEF WriteFdbTunnel, WriteL2Tunnel, WriteFdbRxVlan, WriteFdbTxVlan, WriteFdbSmac
<1>6. ASSUME NEW t \in Threads, ReadFdbTxEntry(t) \/ ReadL2ToTunnelV4(t) \/ ReadL2ToTunnelV6(t)
      PROVE  FdbTypeOK'
  <2>1. info[t].mac_addr \in Nat /\ info[t] \in LearnInfo /\ info[t].is_tunnel \in BOOLEAN
    BY DEF LearnInfo
  <2>2. CASE ReadFdbTxEntry(t)
    BY <2>1, <2>2 DEF ReadFdbTxEntry, Read, Goto, DisturbIf
  <2>3. CASE ReadL2ToTunnelV4(t)
    <3>1. PICK ok \in BOOLEAN :
            /\ Read(t, EncodeL2ToTunnelV4(info[t]), ok)
            /\ info' = [info EXCEPT ![t] = [info[t] EXCEPT !.is_tunnel = info[t].is_tunnel \/ ok]]
            /\ Goto(t, IF info'[t].is_tunnel THEN "writeTunnel" ELSE "readL2V6")
      BY <2>3 DEF ReadL2ToTunnelV4
    <3>2. info' \in [Threads -> LearnInfo]
      BY <2>1, <3>1, InfoTypes
    <3>3. QED
      BY <2>1, <2>3, <3>1, <3>2 DEF Read, Goto, DisturbIf, ReadL2ToTunnelV4
  <2>4. CASE ReadL2ToTunnelV6(t)
    <3>1. info' \in [Threads -> LearnInfo]
      BY <2>1, <2>4, InfoTypes DEF ReadL2ToTunnelV6
    <3>2. QED
      BY <2>1, <2>4, <3>1 DEF ReadL2ToTunnelV6, Read, Goto, DisturbIf
  <2>5. QED
    BY <1>6, <2>2, <2>3, <2>4
<1>7. ASSUME NEW t \in Threads, UpdateFdbSrcPortInfo(t) PROVE FdbTypeOK'
  <2>1. info' \in [Threads -> LearnInfo]
    BY <1>7, InfoTypes DEF UpdateFdbSrcPortInfo
  <2>2. QED
    BY <1>7, <2>1 DEF UpdateFdbSrcPortInfo, Goto, Return
<1>8. ASSUME NEW t \in Threads, EndCall(t) PROVE FdbTypeOK'
  <2>1. NoInfo \in LearnInfo
    BY InfosAssumption DEF NoInfo
  <2>2. QED
    BY <1>8, <2>1 DEF EndCall, EndSession, Goto, NoElectionId, ElectionIds
<1>9. CASE Environment /\ UNCHANGED fdbVars
  BY <1>9 DEF Environment, Tick, StreamClosed, fdbVars
<1>10. CASE UNCHANGED vars
  BY <1>10 DEF vars, sessionVars, fdbVars
<1>11. QED
  BY <1>1, <1>2, <1>3, <1>5, <1>6, <1>7, <1>8, <1>9, <1>10, InfosAssumption
     DEF Next, StartCall, CallStep

(* Type correctness of FDB programming: every call keeps its arguments,    *)
(* its session and its bookkeeping well typed.                             *)
THEOREM FdbTypeCorrect == Spec => []FdbTypeOK
BY TypeInit, TypeStep, PTL DEF Spec

-----------------------------------------------------------------------------
(* No table entry was ever made from an empty request.                     *)
LEMMA NoneStep ==
  ASSUME FdbInv, [Next]_vars
  PROVE  \A e \in entries' : e.table # "none"
<1>1. ASSUME NEW t, NEW e, NEW label, Write(t, e, label)
      PROVE  \A f \in entries' : f.table # "none"
  BY <1>1, WriteOutcome DEF FdbInv, Accepts, WellFormed, Apply
<1>2. CASE UNCHANGED entries
  BY <1>2 DEF FdbInv
<1>3. QED
  BY <1>1, <1>2 DEF Next, vars, sessionVars, StartCall, CallStep, ConfigFdbEntry, BeginSession,
     SessionStep, Arbitrate, ArbitrationFails, EndCall, EndSession, FetchP4Info,
     GetPipelineConfig, ReadFdbTxEntry, ReadL2ToTunnelV4, ReadL2ToTunnelV6, Read,
     WriteFdbTunnel, WriteL2Tunnel, WriteFdbRxVlan, UpdateFdbSrcPortInfo, WriteFdbTxVlan,
     WriteFdbSmac, Environment, Tick, StreamClosed

(* The higher of two election ids is the later value of highest.           *)
LEMMA HighestGrows ==
  ASSUME FdbTypeOK, NEW t \in Threads, OpenStream(electionId[t])
  PROVE  /\ highest' = highest \/ Higher(highest', highest)
         /\ ~Higher(electionId[t], highest')
<1>1. \A a, b \in Nat \X Nat : a[1] = b[1] /\ a[2] = b[2] => a = b
  OBVIOUS
<1>2. highest \in Nat \X Nat /\ electionId[t] \in Nat \X Nat
  BY DEF FdbTypeOK, ElectionIds
<1>3. \A a \in Nat \X Nat : a[1] \in Nat /\ a[2] \in Nat
  OBVIOUS
<1>4. QED
  BY <1>1, <1>2, <1>3 DEF OpenStream, Higher

(* Election ids are ordered.                                               *)
LEMMA HigherTransitive ==
  ASSUME NEW a \in ElectionIds, NEW b \in ElectionIds, NEW c \in ElectionIds,
         ~Higher(a, b), c = b \/ Higher(c, b)
  PROVE  ~Higher(a, c) /\ (a = c => a = b)
BY DEF Higher, ElectionIds

(* What a step of the call of thread t may change, so that the calls of    *)
(* the other threads and the other MAC addresses are not concerned.        *)
MidCall(t) ==
  /\ pc[t] # "idle" /\ pc'[t] # "idle"
  /\ info'[t].mac_addr = info[t].mac_addr
  /\ electionId'[t] = electionId[t]
  /\ \A u \in Threads \ {t} :
       /\ pc'[u] = pc[u] /\ insert'[u] = insert[u] /\ info'[u] = info[u]
       /\ wrote'[u] = wrote[u] /\ p4info'[u] = p4info[u] /\ status'[u] = status[u]
       /\ electionId'[u] = electionId[u]
  /\ disturbed \subseteq disturbed'
  /\ highest' = highest \/ Higher(highest', highest)
  /\ \A m : m # info[t].mac_addr => FdbEntries(m)' = FdbEntries(m)
  /\ \A i : HasRx(i) => HasRx(i)'

(* A session that is not the primary never becomes it again.               *)
LEMMA PrimacyLost ==
  ASSUME FdbTypeOK, FdbTypeOK', NEW u \in Threads, IdInv(u),
         highest' = highest \/ Higher(highest', highest),
         p4info'[u] = p4info[u], electionId'[u] = electionId[u], CanWrite(u)'
  PROVE  CanWrite(u)
BY HigherTransitive DEF CanWrite, IdInv, FdbTypeOK

(* Settled depends on the entries of the MAC address alone.                *)
LEMMA SettledFrame ==
  ASSUME NEW m, NEW b, Settled(m, b), FdbEntries(m)' = FdbEntries(m),
         \A i : HasRx(i) => HasRx(i)'
  PROVE  Settled(m, b)'
BY DEF Settled, Learned, HasRx

(* What CallInv says of a call depends on its own state and its MAC.       *)
LEMMA CallFrame ==
  ASSUME NEW u \in Threads, NEW i, CallInv(u, i),
         pc'[u] = pc[u], insert'[u] = insert[u], wrote'[u] = wrote[u],
         p4info'[u] = p4info[u], status'[u] = status[u],
         CanWrite(u)' => CanWrite(u),
         disturbed \subseteq disturbed',
         FdbEntries(i.mac_addr)' = FdbEntries(i.mac_addr),
         \A j : HasRx(j) => HasRx(j)',
         i.mac_addr \notin disturbed' =>
           \A v \in Threads : ActiveOn(i.mac_addr, v)' => ActiveOn(i.mac_addr, v)
  PROVE  CallInv(u, i)'
<1> SUFFICES ASSUME pc[u] # "idle", i.mac_addr \notin disturbed'
             PROVE  CallInv(u, i)'
  BY DEF CallInv
<1>1. (\A v \in Threads : ActiveOn(i.mac_addr, v) => v = u)'
  BY DEF CallInv
<1>2. Settled(i.mac_addr, i.bridge_id) => Settled(i.mac_addr, i.bridge_id)'
  BY SettledFrame
<1>3. UnwrittenInv(u, i)'
  BY <1>2 DEF CallInv, UnwrittenInv, OnlyKeysOf
<1>4. WrittenInv(u, i)'
  BY DEF CallInv, WrittenInv, OnlyKeysOf
<1>5. ReturnInv(u, i)'
  BY <1>2 DEF CallInv, ReturnInv
<1>6. QED
  BY <1>1, <1>3, <1>4, <1>5 DEF CallInv

(* The invariant of the other threads' calls, and of MAC addresses without *)
(* a call, survives every step within a call.                              *)
LEMMA MidCallFrame ==
  ASSUME FdbInv, FdbTypeOK', NEW t \in Threads, MidCall(t)
  PROVE  /\ \A u \in Threads \ {t} : CallInv(u, info[u])'
         /\ FdbAllOrNothing'
         /\ info[t].mac_addr \notin disturbed' =>
              \A u \in Threads : ActiveOn(info[t].mac_addr, u)' => u = t
<1>1. ASSUME NEW u \in Threads \ {t}, NEW i, i = info[u]
      PROVE  CallInv(u, i)'
  <2>1. CallInv(u, i)
    BY <1>1 DEF FdbInv
  <2>2. CASE i.mac_addr = info[t].mac_addr /\ pc[u] # "idle"
    <3>1. i.mac_addr \in disturbed
      BY <1>1, <2>1, <2>2 DEF CallInv, ActiveOn, MidCall
    <3>2. QED
      BY <3>1 DEF CallInv, MidCall
  <2>3. CASE pc[u] = "idle"
    BY <1>1, <2>3 DEF CallInv, MidCall
  <2>4. CASE i.mac_addr # info[t].mac_addr
    <3>1. CanWrite(u)' => CanWrite(u)
      BY <1>1, PrimacyLost DEF MidCall, FdbInv
    <3>2. \A v \in Threads : ActiveOn(i.mac_addr, v)' => ActiveOn(i.mac_addr, v)
      BY <2>4 DEF ActiveOn, MidCall
    <3>3. FdbEntries(i.mac_addr)' = FdbEntries(i.mac_addr)
      BY <2>4 DEF MidCall
    <3>4. QED
      BY <1>1, <2>1, <3>1, <3>2, <3>3, CallFrame DEF MidCall
  <2>5. QED
    BY <2>2, <2>3, <2>4
<1>2. ASSUME NEW m \in Macs, m \notin disturbed', \A u \in Threads : ~ActiveOn(m, u)'
      PROVE  FdbEntries(m)' = {} \/ \E i \in InsertInfos : Learned(m, i)'
  <2>1. m # info[t].mac_addr
    BY <1>2 DEF ActiveOn, MidCall
  <2>2. \A u \in Threads : ~ActiveOn(m, u)
    BY <1>2, <2>1 DEF ActiveOn, MidCall
  <2>3. FdbEntries(m) = {} \/ \E i \in InsertInfos : Learned(m, i)
    BY <1>2, <2>2 DEF FdbInv, FdbAllOrNothing, MidCall
  <2>4. FdbEntries(m)' = FdbEntries(m)
    BY <2>1 DEF MidCall
  <2>5. QED
    BY <2>3, <2>4 DEF Learned, HasRx, MidCall
<1>3. ASSUME info[t].mac_addr \notin disturbed', NEW u \in Threads, ActiveOn(info[t].mac_addr, u)'
      PROVE  u = t
  <2>1. CallInv(t, info[t])
    BY DEF FdbInv
  <2>2. SUFFICES ASSUME u # t PROVE FALSE
    OBVIOUS
  <2>3. pc'[u] = pc[u] /\ info'[u] = info[u] /\ info'[t].mac_addr = info[t].mac_addr
    BY <2>2 DEF MidCall
  <2>4. ActiveOn(info[t].mac_addr, u)
    BY <1>3, <2>3 DEF ActiveOn
  <2>5. QED
    BY <1>3, <2>1, <2>2, <2>4 DEF CallInv, MidCall
<1>4. \A u \in Threads \ {t} : CallInv(u, info[u])'
  BY <1>1 DEF MidCall
<1>5. FdbAllOrNothing'
  BY <1>2 DEF FdbAllOrNothing, Macs
<1>6. QED
  BY <1>3, <1>4, <1>5

-----------------------------------------------------------------------------
(* The keys of a learned MAC address: its TX and SMAC entries, and at most *)
(* one L2-to-tunnel entry.                                                 *)
LEMMA LearnedKeys ==
  ASSUME NEW m, NEW j \in LearnInfo, Learned(m, j)
  PROVE  /\ \E e \in FdbEntries(m) : e.table = "L2_FWD_TX_TABLE" /\ e.key = <<m, j.bridge_id>>
         /\ \A e \in FdbEntries(m) :
              \/ e.table = "L2_FWD_TX_TABLE" /\ e.key = <<m, j.bridge_id>>
              \/ e.table = "L2_FWD_SMAC_TABLE" /\ e.key = <<m, j.bridge_id>>
              \/ e.table = PrepareL2TunnelTableEntry(j).table /\ e.key = <<m>>
         /\ PrepareL2TunnelTableEntry(j).table \in {"L2_TO_TUNNEL_V4", "L2_TO_TUNNEL_V6"}
<1>1. CASE j.is_tunnel
  <2> DEFINE tx == PrepareFdbTunnelTableEntry(j, TRUE)
  <2>1. FdbEntries(m) = {tx, PrepareL2TunnelTableEntry(j), EncodeFdbSmacTableEntry(j)}
    BY <1>1 DEF Learned, FdbImage
  <2>2. tx.table # "none"
    BY <2>1 DEF FdbEntries, FdbTables
  <2>3. tx.table = "L2_FWD_TX_TABLE" /\ tx.key = <<m, j.bridge_id>>
    <3>1. j.tunnel_type \in TunnelTypes /\ j.mac_addr = m
      BY DEF LearnInfo, Learned
    <3>0. EmptyEntry.table = "none"
      BY DEF EmptyEntry, Entry
    <3> HIDE DEF tx
    <3>2. tx # EmptyEntry
      BY <2>2, <3>0
    <3>3. IF j.tunnel_type = "UNKNOWN" THEN tx = EmptyEntry
          ELSE tx.table = "L2_FWD_TX_TABLE" /\ tx.key = <<j.mac_addr, j.bridge_id>>
      BY <3>1, TunnelTxKeys DEF tx
    <3>4. QED
      BY <3>1, <3>2, <3>3
  <2>4. QED
    BY <2>1, <2>3, EncodedKeys, L2Keys DEF Learned
<1>2. CASE ~j.is_tunnel
  <2> DEFINE i == [j EXCEPT !.src_port = HostPort(j)]
  <2>1. FdbEntries(m) = {EncodeFdbTxVlanTableEntry(i), EncodeFdbSmacTableEntry(j)}
    BY <1>2 DEF Learned, FdbImage
  <2>2. i.mac_addr = m /\ i.bridge_id = j.bridge_id /\ j.mac_addr = m
    BY DEF LearnInfo, Learned
  <2> HIDE DEF i
  <2>3. /\ EncodeFdbTxVlanTableEntry(i).table = "L2_FWD_TX_TABLE"
        /\ EncodeFdbTxVlanTableEntry(i).key = <<m, j.bridge_id>>
        /\ EncodeFdbSmacTableEntry(j).table = "L2_FWD_SMAC_TABLE"
        /\ EncodeFdbSmacTableEntry(j).key = <<m, j.bridge_id>>
    BY <2>2, EncodedKeys
  <2>4. PrepareL2TunnelTableEntry(j).table \in {"L2_TO_TUNNEL_V4", "L2_TO_TUNNEL_V6"}
    BY L2Keys
  <2>5. QED
    BY <2>1, <2>3, <2>4
<1>3. QED
  BY <1>1, <1>2

(* Election ids of calls in progress keep the thread id.                   *)
LEMMA IdStep ==
  ASSUME FdbInv, [Next]_vars, NEW u \in Threads
  PROVE  IdInv(u)'
<1> USE DEF FdbInv
<1>1. FdbTypeOK /\ FdbTypeOK' /\ IdInv(u)
  BY TypeStep
<1>2. CASE UNCHANGED <<pc, electionId, p4info, highest>>
  BY <1>2, <1>1 DEF IdInv
<1>3. ASSUME NEW t \in Threads, BeginSession(t) PROVE IdInv(u)'
  <2>1. NewElectionId(t)[2] = ThreadId[t]
    BY ThreadIdAssumption DEF NewElectionId, TimeBasedElectionId
  <2>2. CASE u = t
    BY <1>1, <1>3, <2>1, <2>2 DEF IdInv, BeginSession, Goto, FdbTypeOK
  <2>3. CASE u # t
    BY <1>1, <1>3, <2>3 DEF IdInv, BeginSession, Goto, FdbTypeOK
  <2>4. QED
    BY <2>2, <2>3
<1>4. ASSUME NEW t \in Threads, SessionStep(t) PROVE IdInv(u)'
  <2>1. pc[t] = "arbitrate" /\ ~p4info[t]
    BY <1>4 DEF SessionStep, Arbitrate, ArbitrationFails, ControlInv
  <2>2. highest' = highest \/ Higher(highest', highest)
    BY <1>1, <1>4, HighestGrows DEF SessionStep, Arbitrate, ArbitrationFails
  <2>3. ~Higher(electionId[u], highest) => ~Higher(electionId[u], highest')
    BY <1>1, <2>2, HigherTransitive DEF FdbTypeOK
  <2>4. Arbitrate(t) => ~Higher(electionId[t], highest')
    BY <1>1, HighestGrows DEF Arbitrate
  <2>5. QED
    BY <1>1, <1>4, <2>1, <2>3, <2>4 DEF IdInv, SessionStep, Arbitrate, ArbitrationFails, Goto, Return, FdbTypeOK
<1>5. ASSUME NEW t \in Threads, FetchP4Info(t) PROVE IdInv(u)'
  BY <1>1, <1>5 DEF IdInv, FetchP4Info, GetPipelineConfig, Goto, FdbTypeOK
<1>6. ASSUME NEW t \in Threads, EndSession(t) PROVE IdInv(u)'
  BY <1>1, <1>6 DEF IdInv, EndSession, Goto, FdbTypeOK
<1>7. ASSUME NEW t \in Threads, UNCHANGED <<electionId, p4info, highest>>, pc[t] # "idle",
             \A v \in Threads : v # t => pc'[v] = pc[v], pc'[t] # "pipeline"
      PROVE  IdInv(u)'
  BY <1>1, <1>7 DEF IdInv
<1>8. ASSUME NEW t \in Threads, NEW e, NEW label, Write(t, e, label), pc[t] # "idle", label # "pipeline"
      PROVE  IdInv(u)'
  BY <1>1, <1>7, <1>8 DEF Write, Goto, FdbTypeOK
<1>9. ASSUME NEW t \in Threads, ReadFdbTxEntry(t) \/ ReadL2ToTunnelV4(t) \/ ReadL2ToTunnelV6(t) \/ UpdateFdbSrcPortInfo(t)
      PROVE  IdInv(u)'
  BY <1>1, <1>7, <1>9 DEF ReadFdbTxEntry, ReadL2ToTunnelV4, ReadL2ToTunnelV6, UpdateFdbSrcPortInfo, Read, Goto, Return, FdbTypeOK
<1>10. QED
  BY <1>1, <1>2, <1>3, <1>4, <1>5, <1>6, <1>8, <1>9
     DEF Next, vars, sessionVars, StartCall, CallStep, ConfigFdbEntry, EndCall, Environment, Tick,
         StreamClosed, WriteFdbTunnel, WriteL2Tunnel, WriteFdbRxVlan, WriteFdbTxVlan, WriteFdbSmac

(* A thread's control invariant depends on its own state only.             *)
LEMMA ControlFrame ==
  ASSUME FdbInv, NEW u \in Threads,
         pc'[u] = pc[u], insert'[u] = insert[u], info'[u] = info[u],
         wrote'[u] = wrote[u], p4info'[u] = p4info[u]
  PROVE  ControlInv(u, info[u])'
<1>1. ControlInv(u, info[u])
  BY DEF FdbInv
<1>2. PICK i : i = info[u]
  OBVIOUS
<1>3. ControlInv(u, i)'
  BY <1>1, <1>2 DEF ControlInv
<1>4. QED
  BY <1>2, <1>3

(* Within a call, a step that leaves learn_info alone.                     *)
LEMMA ControlWrite ==
  ASSUME FdbInv, FdbTypeOK', NEW t \in Threads, NEW e, NEW label, Write(t, e, label),
         \/ pc[t] = "writeTunnel" /\ label = "writeL2"
         \/ pc[t] = "writeL2" /\ label = "writeSmac"
         \/ pc[t] = "writeRx" /\ label = "readTxAcc"
         \/ pc[t] = "writeTxVlan" /\ label = "writeSmac"
         \/ pc[t] = "writeSmac" /\ label = "return",
         NEW u \in Threads
  PROVE  ControlInv(u, info[u])'
<1>1. CASE u # t
  BY <1>1, ControlFrame DEF Write, Goto, FdbInv, FdbTypeOK
<1>2. CASE u = t
  <2>0. PICK i : i = info[t]
    OBVIOUS
  <2>1. ControlInv(t, i)
    BY <2>0 DEF FdbInv
  <2>2. /\ pc'[t] = label /\ insert'[t] = insert[t] /\ info'[t] = i /\ p4info'[t] = p4info[t]
    BY <2>0 DEF Write, Goto, FdbInv, FdbTypeOK
  <2>3. ControlInv(t, i)'
    BY <2>1, <2>2 DEF ControlInv, Early
  <2>4. QED
    BY <1>2, <2>2, <2>3
<1>3. QED
  BY <1>1, <1>2

(* Every step preserves the control invariant of every call.               *)
LEMMA ControlStep ==
  ASSUME FdbInv, [Next]_vars, NEW u \in Threads
  PROVE  ControlInv(u, info[u])'
<1>1. FdbTypeOK /\ FdbTypeOK'
  BY TypeStep DEF FdbInv
<1> USE DEF Early
<1>2. CASE UNCHANGED <<pc, insert, info, wrote, p4info>>
  BY <1>2, ControlFrame
<1>3. ASSUME NEW t \in Threads, NEW ins \in BOOLEAN, NEW i \in LearnInfo, ConfigFdbEntry(t, ins, i),
             IF ins THEN i \in InsertInfos ELSE i \in DeleteInfos
      PROVE  ControlInv(u, info[u])'
  <2>1. CASE u # t
    BY <1>1, <1>3, <2>1, ControlFrame DEF ConfigFdbEntry, BeginSession, Goto, FdbTypeOK
  <2>2. CASE u = t
    <3>1. /\ pc'[t] = "arbitrate" /\ insert'[t] = ins /\ info'[t] = i
          /\ wrote'[t] = FALSE /\ p4info'[t] = FALSE
      BY <1>1, <1>3 DEF ConfigFdbEntry, BeginSession, Goto, FdbTypeOK
    <3>2. ControlInv(t, i)'
      BY <1>3, <3>1, InfosAssumption DEF ControlInv
    <3>3. QED
      BY <2>2, <3>1, <3>2
  <2>3. QED
    BY <2>1, <2>2
<1>4. ASSUME NEW t \in Threads, SessionStep(t), UNCHANGED fdbVars
      PROVE  ControlInv(u, info[u])'
  <2>1. CASE u # t
    BY <1>1, <1>4, <2>1, ControlFrame
       DEF SessionStep, Arbitrate, ArbitrationFails, Goto, Return, fdbVars, FdbTypeOK
  <2>2. CASE u = t
    <3>0. PICK i : i = info[t]
      OBVIOUS
    <3>1. /\ pc[t] = "arbitrate" /\ pc'[t] \in {"pipeline", "return"} /\ insert'[t] = insert[t]
          /\ info'[t] = i /\ wrote'[t] = wrote[t] /\ p4info'[t] = p4info[t]
      BY <3>0, <1>1, <1>4 DEF SessionStep, Arbitrate, ArbitrationFails, Goto, Return, fdbVars, FdbTypeOK
    <3>2. ControlInv(t, i)
      BY <3>0 DEF FdbInv
    <3>3. ControlInv(t, i)'
      BY <3>1, <3>2 DEF ControlInv
    <3>4. QED
      BY <2>2, <3>1, <3>3
  <2>3. QED
    BY <2>1, <2>2
<1>5. ASSUME NEW t \in Threads, FetchP4Info(t)
      PROVE  ControlInv(u, info[u])'
  <2>1. CASE u # t
    BY <1>1, <1>5, <2>1, ControlFrame DEF FetchP4Info, GetPipelineConfig, Goto, fdbVars, FdbTypeOK
  <2>2. CASE u = t
    <3>0. PICK i : i = info[t]
      OBVIOUS
    <3>1. /\ pc[t] = "pipeline" /\ pc'[t] = (IF insert[t] THEN "readTx" ELSE "readL2V4")
          /\ insert'[t] = insert[t] /\ info'[t] = i /\ wrote'[t] = wrote[t]
      BY <3>0, <1>1, <1>5 DEF FetchP4Info, GetPipelineConfig, Goto, fdbVars, FdbTypeOK
    <3>2. ControlInv(t, i)
      BY <3>0 DEF FdbInv
    <3>3. ControlInv(t, i)'
      BY <3>1, <3>2 DEF ControlInv
    <3>4. QED
      BY <2>2, <3>1, <3>3
  <2>3. QED
    BY <2>1, <2>2
<1>6. ASSUME NEW t \in Threads, WriteFdbTunnel(t) \/ WriteL2Tunnel(t) \/ WriteFdbRxVlan(t)
                                  \/ WriteFdbTxVlan(t) \/ WriteFdbSmac(t)
      PROVE  ControlInv(u, info[u])'
  BY <1>1, <1>6, ControlWrite
     DEF WriteFdbTunnel, WriteL2Tunnel, WriteFdbRxVlan, WriteFdbTxVlan, WriteFdbSmac
<1>7. ASSUME NEW t \in Threads, ReadFdbTxEntry(t) \/ ReadL2ToTunnelV4(t) \/ ReadL2ToTunnelV6(t)
      PROVE  ControlInv(u, info[u])'
  <2>1. CASE u # t
    BY <1>1, <1>7, <2>1, ControlFrame
       DEF ReadFdbTxEntry, ReadL2ToTunnelV4, ReadL2ToTunnelV6, Read, Goto, FdbTypeOK
  <2>2. CASE u = t
    <3>0. PICK i, k : i = info[t] /\ k = info'[t]
      OBVIOUS
    <3>1. insert'[t] = insert[t] /\ wrote'[t] = wrote[t] /\ p4info'[t] = p4info[t] /\ i \in LearnInfo
      BY <3>0, <1>1, <1>7 DEF ReadFdbTxEntry, ReadL2ToTunnelV4, ReadL2ToTunnelV6, Read, FdbTypeOK
    <3>2. ControlInv(t, i)
      BY <3>0 DEF FdbInv
    <3>3. \/ /\ pc[t] = "readTx" /\ k = i
             /\ pc'[t] = "return" \/ pc'[t] = (IF i.is_tunnel THEN "writeTunnel" ELSE "writeRx")
          \/ /\ pc[t] = "readL2V4"
             /\ \E ok \in BOOLEAN : k = [i EXCEPT !.is_tunnel = i.is_tunnel \/ ok]
             /\ pc'[t] = IF k.is_tunnel THEN "writeTunnel" ELSE "readL2V6"
          \/ /\ pc[t] = "readL2V6"
             /\ \/ k = FoundInV6(i) /\ pc'[t] = "writeTunnel"
                \/ k = i /\ pc'[t] = "writeTxVlan"
      BY <3>0, <1>1, <1>7 DEF ReadFdbTxEntry, ReadL2ToTunnelV4, ReadL2ToTunnelV6, Goto, FdbTypeOK
    <3>4. /\ \A b \in BOOLEAN : /\ [i EXCEPT !.is_tunnel = b].is_tunnel = b
                                 /\ IsV6([i EXCEPT !.is_tunnel = b]) <=> IsV6(i)
          /\ FoundInV6(i).is_tunnel
      BY <3>1 DEF LearnInfo, FoundInV6, IsV6
    <3>5. k \in LearnInfo
      BY <1>1, <3>0 DEF FdbTypeOK
    <3>6. ControlInv(t, k)'
      BY <1>1, <3>1, <3>2, <3>3, <3>4, <3>5 DEF ControlInv, FdbTypeOK
    <3>7. QED
      BY <2>2, <3>0, <3>6
  <2>3. QED
    BY <2>1, <2>2
<1>8. ASSUME NEW t \in Threads, UpdateFdbSrcPortInfo(t)
      PROVE  ControlInv(u, info[u])'
  <2>1. CASE u # t
    BY <1>1, <1>8, <2>1, ControlFrame DEF UpdateFdbSrcPortInfo, Goto, Return, FdbTypeOK
  <2>2. CASE u = t
    <3>0. PICK i, k : i = info[t] /\ k = info'[t]
      OBVIOUS
    <3>1. /\ insert'[t] = insert[t] /\ wrote'[t] = wrote[t] /\ p4info'[t] = p4info[t] /\ i \in LearnInfo
          /\ pc[t] = "readTxAcc"
          /\ \/ HasHostPort(i) /\ k = [i EXCEPT !.src_port = HostPort(i)] /\ pc'[t] = "writeTxVlan"
             \/ k = i /\ pc'[t] = "return"
      BY <3>0, <1>1, <1>8 DEF UpdateFdbSrcPortInfo, Goto, Return, FdbTypeOK
    <3>2. ControlInv(t, i)
      BY <3>0 DEF FdbInv
    <3>3. [i EXCEPT !.src_port = HostPort(i)].is_tunnel = i.is_tunnel
      BY <3>1 DEF LearnInfo
    <3>4. ControlInv(t, k)'
      BY <3>1, <3>2, <3>3 DEF ControlInv, PortResolved
    <3>5. QED
      BY <2>2, <3>0, <3>4
  <2>3. QED
    BY <2>1, <2>2
<1>9. ASSUME NEW t \in Threads, EndCall(t)
      PROVE  ControlInv(u, info[u])'
  <2>1. CASE u # t
    BY <1>1, <1>9, <2>1, ControlFrame DEF EndCall, EndSession, Goto, FdbTypeOK
  <2>2. CASE u = t
    <3>1. /\ pc'[t] = "idle" /\ insert'[t] = FALSE /\ wrote'[t] = FALSE /\ p4info'[t] = FALSE
      BY <1>1, <1>9 DEF EndCall, EndSession, Goto, FdbTypeOK
    <3>2. \A k : ControlInv(t, k)'
      BY <3>1 DEF ControlInv
    <3>3. QED
      BY <2>2, <3>2
  <2>3. QED
    BY <2>1, <2>2
<1>10. QED
  BY <1>2, <1>3, <1>4, <1>5, <1>6, <1>7, <1>8, <1>9, InfosAssumption
     DEF Next, vars, sessionVars, fdbVars, StartCall, CallStep, Environment, Tick, StreamClosed

-----------------------------------------------------------------------------
(* The steps within a call.                                                *)
LEMMA QuietMidCall ==
  ASSUME FdbTypeOK, NEW t \in Threads, NEW label,
         pc[t] # "idle", label # "idle", Goto(t, label),
         highest' = highest \/ Higher(highest', highest),
         UNCHANGED <<electionId, entries, insert, wrote>>,
         disturbed \subseteq disturbed',
         info'[t].mac_addr = info[t].mac_addr,
         \A u \in Threads \ {t} :
           info'[u] = info[u] /\ p4info'[u] = p4info[u] /\ status'[u] = status[u]
  PROVE  MidCall(t)
<1>1. /\ pc'[t] # "idle" /\ \A u \in Threads \ {t} : pc'[u] = pc[u]
  BY DEF Goto, FdbTypeOK
<1>2. /\ \A m : FdbEntries(m)' = FdbEntries(m)
      /\ \A i : HasRx(i) => HasRx(i)'
  BY DEF FdbEntries, HasRx
<1>3. QED
  BY <1>1, <1>2 DEF MidCall

(* A write is such a step.                                                  *)
LEMMA WriteMidCall ==
  ASSUME FdbTypeOK, NEW t \in Threads, NEW e, NEW label, Write(t, e, label),
         pc[t] # "idle", label # "idle",
         e.table = "none" \/ e.key[1] = info[t].mac_addr,
         insert[t] \/ e.table # "L2_FWD_RX_TABLE"
  PROVE  MidCall(t)
<1>1. /\ pc'[t] # "idle"
      /\ \A u \in Threads \ {t} : pc'[u] = pc[u] /\ wrote'[u] = wrote[u]
      /\ UNCHANGED <<electionId, p4info, status, highest, insert, info>>
      /\ disturbed \subseteq disturbed'
  BY DEF Write, Goto, DisturbIf, FdbTypeOK
<1>2. /\ \A m : m # info[t].mac_addr => FdbEntries(m)' = FdbEntries(m)
      /\ \A i : HasRx(i) => HasRx(i)'
  BY WriteFrame, WriteKeepsRx
<1>3. QED
  BY <1>1, <1>2 DEF MidCall

(* What is left to show of the call that makes the step; k is its          *)
(* learn_info afterwards.                                                  *)
LEMMA ActorCall ==
  ASSUME FdbInv, FdbTypeOK', NEW t \in Threads, MidCall(t), NEW k, k = info'[t],
         k.mac_addr \notin disturbed' =>
           UnwrittenInv(t, k)' /\ WrittenInv(t, k)' /\ ReturnInv(t, k)'
  PROVE  CallInv(t, info[t])'
<1>1. k.mac_addr \notin disturbed' => \A u \in Threads : ActiveOn(k.mac_addr, u)' => u = t
  BY MidCallFrame DEF MidCall
<1>2. CallInv(t, k)'
  BY <1>1 DEF CallInv
<1>3. QED
  BY <1>2

(* Opening the session.                                                    *)
LEMMA SessionActor ==
  ASSUME FdbInv, FdbTypeOK', NEW t \in Threads, SessionStep(t), UNCHANGED fdbVars
  PROVE  MidCall(t) /\ CallInv(t, info[t])'
<1>1. PICK i : i = info[t]
  OBVIOUS
<1>2. /\ pc[t] = "arbitrate" /\ info' = info /\ entries' = entries /\ p4info' = p4info
      /\ insert' = insert /\ wrote' = wrote /\ disturbed' = disturbed
      /\ \/ pc'[t] = "pipeline"
         \/ pc'[t] = "return" /\ status'[t] = "error"
  BY DEF SessionStep, Arbitrate, ArbitrationFails, Goto, Return, fdbVars, FdbInv, FdbTypeOK
<1>3. MidCall(t)
  <2>1. highest' = highest \/ Higher(highest', highest)
    BY HighestGrows DEF SessionStep, Arbitrate, ArbitrationFails, FdbInv
  <2>2. \A u \in Threads \ {t} : status'[u] = status[u]
    BY DEF SessionStep, Arbitrate, ArbitrationFails, Return, FdbInv, FdbTypeOK
  <2>3. UNCHANGED electionId /\ (Goto(t, "pipeline") \/ Goto(t, "return"))
    BY DEF SessionStep, Arbitrate, ArbitrationFails, Return
  <2>4. QED
    BY <1>2, <2>1, <2>2, <2>3, QuietMidCall DEF FdbInv
<1>4. ControlInv(t, i) /\ CallInv(t, i)
  BY <1>1 DEF FdbInv
<1>5. SUFFICES ASSUME i.mac_addr \notin disturbed'
               PROVE  UnwrittenInv(t, i)' /\ WrittenInv(t, i)' /\ ReturnInv(t, i)'
  BY <1>1, <1>2, <1>3, ActorCall
<1>6. ~wrote[t] /\ ~p4info[t] /\ Settled(i.mac_addr, i.bridge_id)
  BY <1>2, <1>4, <1>5 DEF ControlInv, Early, CallInv, UnwrittenInv
<1>7. Settled(i.mac_addr, i.bridge_id)'
  BY <1>2, <1>6 DEF Settled, Learned, FdbEntries
<1>8. UnwrittenInv(t, i)' /\ WrittenInv(t, i)' /\ ReturnInv(t, i)'
  BY <1>2, <1>6, <1>7 DEF UnwrittenInv, WrittenInv, ReturnInv
<1>9. QED
  BY <1>8

(* Fetching the P4Info.                                                    *)
LEMMA FetchActor ==
  ASSUME FdbInv, FdbTypeOK', NEW t \in Threads, FetchP4Info(t)
  PROVE  MidCall(t) /\ CallInv(t, info[t])'
<1>1. PICK i : i = info[t]
  OBVIOUS
<1>2. /\ pc[t] = "pipeline" /\ info' = info /\ entries' = entries
      /\ insert' = insert /\ wrote' = wrote /\ disturbed' = disturbed
      /\ pc'[t] \in {"readTx", "readL2V4"}
  BY DEF FetchP4Info, GetPipelineConfig, Goto, fdbVars, FdbInv, FdbTypeOK
<1>3. MidCall(t)
  <2>1. Goto(t, "readTx") \/ Goto(t, "readL2V4")
    BY DEF FetchP4Info, GetPipelineConfig
  <2>2. UNCHANGED <<electionId, highest, status>> /\ \A u \in Threads \ {t} : p4info'[u] = p4info[u]
    BY DEF FetchP4Info, GetPipelineConfig, FdbInv, FdbTypeOK
  <2>3. QED
    BY <1>2, <2>1, <2>2, QuietMidCall DEF FdbInv
<1>4. ControlInv(t, i) /\ CallInv(t, i)
  BY <1>1 DEF FdbInv
<1>5. SUFFICES ASSUME i.mac_addr \notin disturbed'
               PROVE  UnwrittenInv(t, i)' /\ WrittenInv(t, i)' /\ ReturnInv(t, i)'
  BY <1>1, <1>2, <1>3, ActorCall
<1>6. ~wrote[t] /\ Settled(i.mac_addr, i.bridge_id)
  BY <1>2, <1>4, <1>5 DEF ControlInv, Early, CallInv, UnwrittenInv
<1>7. Settled(i.mac_addr, i.bridge_id)'
  BY <1>2, <1>6 DEF Settled, Learned, FdbEntries
<1>8. UnwrittenInv(t, i)' /\ WrittenInv(t, i)' /\ ReturnInv(t, i)'
  BY <1>2, <1>6, <1>7 DEF UnwrittenInv, WrittenInv, ReturnInv
<1>9. QED
  BY <1>8

(* The keys of a settled MAC address.                                      *)
LEMMA SettledKeys ==
  ASSUME NEW m, NEW b, Settled(m, b)
  PROVE  /\ FdbEntries(m) # {} =>
              \E e \in FdbEntries(m) : e.table = "L2_FWD_TX_TABLE" /\ e.key = <<m, b>>
         /\ \E T \in {"L2_TO_TUNNEL_V4", "L2_TO_TUNNEL_V6"} :
              \A e \in FdbEntries(m) :
                \/ e.table = "L2_FWD_TX_TABLE" /\ e.key = <<m, b>>
                \/ e.table = "L2_FWD_SMAC_TABLE" /\ e.key = <<m, b>>
                \/ e.table = T /\ e.key = <<m>>
<1>1. CASE FdbEntries(m) = {}
  BY <1>1
<1>2. CASE \E j \in InsertInfos : Learned(m, j) /\ j.bridge_id = b
  <2>1. PICK j \in InsertInfos : Learned(m, j) /\ j.bridge_id = b
    BY <1>2
  <2>2. QED
    BY <2>1, LearnedKeys, InfosAssumption
<1>3. QED
  BY <1>1, <1>2 DEF Settled

(* A settled MAC address has entries iff its TX entry is there.            *)
LEMMA SettledTx ==
  ASSUME NEW m, NEW b, Settled(m, b), NEW e, e.table = "L2_FWD_TX_TABLE", e.key = <<m, b>>
  PROVE  HasKey(entries, e) <=> FdbEntries(m) # {}
<1>1. HasKey(entries, e) => FdbEntries(m) # {}
  BY DEF HasKey, SameKey, FdbEntries, FdbTables
<1>2. FdbEntries(m) # {} => HasKey(entries, e)
  BY SettledKeys DEF HasKey, SameKey, FdbEntries
<1>3. QED
  BY <1>1, <1>2

(* The key that an insert looks up.                                        *)
LEMMA TxReadKeys ==
  ASSUME NEW i \in LearnInfo, i.is_tunnel => i.tunnel_type # "UNKNOWN"
  PROVE  /\ TxEntryToRead(i).table = "L2_FWD_TX_TABLE"
         /\ TxEntryToRead(i).key = <<i.mac_addr, i.bridge_id>>
<1>1. i.tunnel_type \in TunnelTypes
  BY DEF LearnInfo
<1>2. CASE i.is_tunnel
  BY <1>1, <1>2, TunnelTxKeys DEF TxEntryToRead
<1>3. CASE ~i.is_tunnel
  BY <1>3, EncodedKeys DEF TxEntryToRead
<1>4. QED
  BY <1>2, <1>3

(* Looking for the TX entry before inserting.                              *)
LEMMA ReadTxActor ==
  ASSUME FdbInv, FdbTypeOK', NEW t \in Threads, ReadFdbTxEntry(t)
  PROVE  MidCall(t) /\ CallInv(t, info[t])'
<1>1. PICK i : i = info[t]
  OBVIOUS
<1>2. PICK ok \in BOOLEAN :
        /\ Read(t, TxEntryToRead(i), ok)
        /\ Goto(t, IF ok THEN "return" ELSE IF i.is_tunnel THEN "writeTunnel" ELSE "writeRx")
  BY <1>1 DEF ReadFdbTxEntry
<1>3. /\ pc[t] = "readTx" /\ info' = info /\ entries' = entries /\ p4info' = p4info
      /\ insert' = insert /\ wrote' = wrote /\ electionId' = electionId /\ highest' = highest
      /\ disturbed \subseteq disturbed' /\ status' = status
      /\ pc'[t] = (IF ok THEN "return" ELSE IF i.is_tunnel THEN "writeTunnel" ELSE "writeRx")
  BY <1>2 DEF ReadFdbTxEntry, Read, DisturbIf, Goto, FdbInv, FdbTypeOK
<1>4. MidCall(t)
  BY <1>2, <1>3, QuietMidCall DEF FdbInv
<1>5. ControlInv(t, i) /\ CallInv(t, i) /\ i \in LearnInfo
  BY <1>1 DEF FdbInv, FdbTypeOK
<1>6. SUFFICES ASSUME i.mac_addr \notin disturbed'
               PROVE  UnwrittenInv(t, i)' /\ WrittenInv(t, i)' /\ ReturnInv(t, i)'
  BY <1>1, <1>3, <1>4, ActorCall
<1>7. ~wrote[t] /\ insert[t] /\ Settled(i.mac_addr, i.bridge_id)
  BY <1>3, <1>5, <1>6 DEF ControlInv, Early, CallInv, UnwrittenInv
<1>8. Settled(i.mac_addr, i.bridge_id)' /\ FdbEntries(i.mac_addr)' = FdbEntries(i.mac_addr)
  BY <1>3, <1>7 DEF Settled, Learned, FdbEntries
<1>9. ok /\ p4info[t] /\ Supported(i) => FdbEntries(i.mac_addr) # {}
  <2>1. Supported(i) => TxEntryToRead(i).table = "L2_FWD_TX_TABLE" /\
                        TxEntryToRead(i).key = <<i.mac_addr, i.bridge_id>>
    BY <1>5, TxReadKeys DEF Supported
  <2>2. ok /\ TxEntryToRead(i).table # "none" => HasKey(entries, TxEntryToRead(i))
    BY <1>2 DEF Read, SendReadRequest
  <2>3. QED
    BY <1>7, <2>1, <2>2, SettledTx
<1>10. ~ok /\ p4info[t] /\ (i.is_tunnel => i.tunnel_type # "UNKNOWN") => FdbEntries(i.mac_addr) = {}
  <2>1. ~ok /\ p4info[t] => ~HasKey(entries, TxEntryToRead(i))
    BY <1>1, <1>2, <1>6 DEF Read, DisturbIf
  <2>2. QED
    BY <1>5, <1>7, <2>1, TxReadKeys, SettledTx
<1>11. UnwrittenInv(t, i)'
  BY <1>3, <1>7, <1>8, <1>10 DEF UnwrittenInv
<1>12. WrittenInv(t, i)'
  BY <1>3, <1>7 DEF WrittenInv
<1>13. ReturnInv(t, i)'
  BY <1>3, <1>7, <1>8, <1>9 DEF ReturnInv, CanWrite
<1>14. QED
  BY <1>11, <1>12, <1>13

(* What a delete learns from finding the L2-to-tunnel entry e, or from     *)
(* finding neither.                                                        *)
LEMMA L2Found ==
  ASSUME NEW i, NEW e, Settled(i.mac_addr, i.bridge_id), HasKey(entries, e),
         e.table \in {"L2_TO_TUNNEL_V4", "L2_TO_TUNNEL_V6"}, e.key = <<i.mac_addr>>
  PROVE  /\ HasKey(FdbEntries(i.mac_addr), e)
         /\ OnlyKeysOf(i.mac_addr, {TxKey(i), e, EncodeFdbSmacTableEntry(i)})
<1>1. PICK m : m = i.mac_addr
  OBVIOUS
<1>2. e.key[1] = m
  BY <1>1
<1>3. PICK f \in FdbEntries(m) : SameKey(e, f)
  BY <1>1, <1>2 DEF HasKey, SameKey, FdbEntries, FdbTables
<1>4. HasKey(FdbEntries(i.mac_addr), e)
  BY <1>1, <1>3 DEF HasKey
<1>5. \A g \in FdbEntries(m) :
        \/ g.table = "L2_FWD_TX_TABLE" /\ g.key = <<m, i.bridge_id>>
        \/ g.table = "L2_FWD_SMAC_TABLE" /\ g.key = <<m, i.bridge_id>>
        \/ g.table = e.table /\ g.key = e.key
  BY <1>1, <1>3, SettledKeys DEF SameKey
<1>6. OnlyKeysOf(m, {TxKey(i), e, EncodeFdbSmacTableEntry(i)})
  BY <1>1, <1>5, EncodedKeys DEF SameKey, OnlyKeysOf
<1>7. QED
  BY <1>1, <1>4, <1>6

(* A MAC that the IPv4 and IPv6 reads miss is no tunnel entry.             *)
LEMMA L2NotFound ==
  ASSUME NEW i, Settled(i.mac_addr, i.bridge_id),
         ~HasKey(FdbEntries(i.mac_addr), EncodeL2ToTunnelV4(i)),
         ~HasKey(FdbEntries(i.mac_addr), EncodeL2ToTunnelV6(i))
  PROVE  OnlyKeysOf(i.mac_addr, {TxKey(i), EncodeFdbSmacTableEntry(i)})
<1>1. PICK m : m = i.mac_addr
  OBVIOUS
<1>2. \A g \in FdbEntries(m) : ~(g.key = <<m>> /\ g.table \in {"L2_TO_TUNNEL_V4", "L2_TO_TUNNEL_V6"})
  BY <1>1, EncodedKeys DEF HasKey, SameKey
<1>3. \A g \in FdbEntries(m) :
        \/ g.table = "L2_FWD_TX_TABLE" /\ g.key = <<m, i.bridge_id>>
        \/ g.table = "L2_FWD_SMAC_TABLE" /\ g.key = <<m, i.bridge_id>>
  BY <1>1, <1>2, SettledKeys
<1>4. OnlyKeysOf(m, {TxKey(i), EncodeFdbSmacTableEntry(i)})
  BY <1>1, <1>3, EncodedKeys DEF SameKey, OnlyKeysOf
<1>5. QED
  BY <1>1, <1>4

(* Looking for the L2-to-tunnel entry before deleting.                     *)
LEMMA ReadL2V4Actor ==
  ASSUME FdbInv, FdbTypeOK', NEW t \in Threads, ReadL2ToTunnelV4(t)
  PROVE  MidCall(t) /\ CallInv(t, info[t])'
<1>1. PICK i, k : i = info[t] /\ k = info'[t]
  OBVIOUS
<1>2. PICK ok \in BOOLEAN :
        /\ Read(t, EncodeL2ToTunnelV4(i), ok)
        /\ info' = [info EXCEPT ![t] = [i EXCEPT !.is_tunnel = i.is_tunnel \/ ok]]
        /\ Goto(t, IF k.is_tunnel THEN "writeTunnel" ELSE "readL2V6")
  BY <1>1 DEF ReadL2ToTunnelV4
<1>3. /\ pc[t] = "readL2V4" /\ entries' = entries /\ p4info' = p4info
      /\ insert' = insert /\ wrote' = wrote /\ electionId' = electionId /\ highest' = highest
      /\ disturbed \subseteq disturbed' /\ status' = status
      /\ pc'[t] = IF k.is_tunnel THEN "writeTunnel" ELSE "readL2V6"
  BY <1>2 DEF ReadL2ToTunnelV4, Read, DisturbIf, Goto, FdbInv, FdbTypeOK
<1>4. ControlInv(t, i) /\ CallInv(t, i) /\ i \in LearnInfo
  BY <1>1 DEF FdbInv, FdbTypeOK
<1>5. ~wrote[t] /\ ~insert[t] /\ ~i.is_tunnel /\ ~IsV6(i)
  BY <1>3, <1>4 DEF ControlInv, Early
<1>6. /\ k.mac_addr = i.mac_addr /\ k.bridge_id = i.bridge_id /\ k.is_tunnel = ok
      /\ ~IsV6(k) /\ \A u \in Threads \ {t} : info'[u] = info[u]
  <2>1. k = [i EXCEPT !.is_tunnel = ok]
    BY <1>1, <1>2, <1>4, <1>5 DEF FdbInv, FdbTypeOK, LearnInfo
  <2>2. k.mac_addr = i.mac_addr /\ k.bridge_id = i.bridge_id /\ k.is_tunnel = ok
        /\ k.local_family = i.local_family /\ k.remote_family = i.remote_family
    BY <1>4, <2>1 DEF LearnInfo
  <2>3. QED
    BY <1>2, <1>5, <2>2 DEF IsV6, FdbInv, FdbTypeOK
<1>7. MidCall(t)
  BY <1>1, <1>2, <1>3, <1>6, QuietMidCall DEF FdbInv
<1>8. SUFFICES ASSUME i.mac_addr \notin disturbed'
               PROVE  UnwrittenInv(t, k)' /\ WrittenInv(t, k)' /\ ReturnInv(t, k)'
  BY <1>1, <1>6, <1>7, ActorCall
<1>9. Settled(k.mac_addr, k.bridge_id)
  BY <1>3, <1>4, <1>5, <1>6, <1>8 DEF CallInv, UnwrittenInv
<1>10. Settled(k.mac_addr, k.bridge_id)' /\ FdbEntries(k.mac_addr)' = FdbEntries(k.mac_addr)
  BY <1>3, <1>9 DEF Settled, Learned, FdbEntries
<1>11. ok => /\ HasKey(FdbEntries(k.mac_addr), PrepareL2TunnelTableEntry(k))
             /\ OnlyKeysOf(k.mac_addr, {TxKey(k), PrepareL2TunnelTableEntry(k), EncodeFdbSmacTableEntry(k)})
  <2>1. ok => HasKey(entries, EncodeL2ToTunnelV4(i))
    BY <1>2, EncodedKeys DEF Read, SendReadRequest
  <2>2. /\ EncodeL2ToTunnelV4(i).table = "L2_TO_TUNNEL_V4"
        /\ EncodeL2ToTunnelV4(i).key = <<i.mac_addr>>
    BY EncodedKeys
  <2>3. ok => /\ PrepareL2TunnelTableEntry(k).table = "L2_TO_TUNNEL_V4"
              /\ PrepareL2TunnelTableEntry(k).key = <<i.mac_addr>>
    BY <1>6, L2Keys
  <2>4. ok => HasKey(entries, PrepareL2TunnelTableEntry(k))
    BY <2>1, <2>2, <2>3 DEF HasKey, SameKey
  <2>5. QED
    BY <1>6, <1>9, <2>3, <2>4, L2Found
<1>12. ~ok /\ p4info[t] => ~HasKey(FdbEntries(k.mac_addr), EncodeL2ToTunnelV4(k))
  <2>1. ~ok /\ p4info[t] => ~HasKey(entries, EncodeL2ToTunnelV4(i))
    BY <1>1, <1>2, <1>8 DEF Read, DisturbIf
  <2>2. EncodeL2ToTunnelV4(k) = EncodeL2ToTunnelV4(i) \/ ok
    BY <1>1, <1>2, <1>4, <1>5 DEF FdbInv, FdbTypeOK, LearnInfo
  <2>3. QED
    BY <2>1, <2>2 DEF HasKey, FdbEntries
<1>13. UnwrittenInv(t, k)'
  BY <1>3, <1>5, <1>6, <1>10, <1>11, <1>12 DEF UnwrittenInv, OnlyKeysOf
<1>14. WrittenInv(t, k)' /\ ReturnInv(t, k)'
  BY <1>3, <1>5 DEF WrittenInv, ReturnInv
<1>15. QED
  BY <1>13, <1>14

(* The call whose IPv6 read takes the step.                                *)
LEMMA ReadL2V6Actor ==
  ASSUME FdbInv, FdbTypeOK', NEW t \in Threads, ReadL2ToTunnelV6(t)
  PROVE  MidCall(t) /\ CallInv(t, info[t])'
<1>1. PICK i, k : i = info[t] /\ k = info'[t]
  OBVIOUS
<1>2. PICK ok \in BOOLEAN :
        /\ Read(t, EncodeL2ToTunnelV6(i), ok)
        /\ info' = [info EXCEPT ![t] = IF ok THEN FoundInV6(i) ELSE i]
        /\ Goto(t, IF ok THEN "writeTunnel" ELSE "writeTxVlan")
  BY <1>1 DEF ReadL2ToTunnelV6
<1>3. /\ pc[t] = "readL2V6" /\ entries' = entries /\ p4info' = p4info
      /\ insert' = insert /\ wrote' = wrote /\ electionId' = electionId /\ highest' = highest
      /\ disturbed \subseteq disturbed' /\ status' = status
      /\ pc'[t] = IF ok THEN "writeTunnel" ELSE "writeTxVlan"
  BY <1>2 DEF ReadL2ToTunnelV6, Read, DisturbIf, Goto, FdbInv, FdbTypeOK
<1>4. ControlInv(t, i) /\ CallInv(t, i) /\ i \in LearnInfo
  BY <1>1 DEF FdbInv, FdbTypeOK
<1>5. ~wrote[t] /\ ~insert[t]
  BY <1>3, <1>4 DEF ControlInv, Early
<1>6. /\ k.mac_addr = i.mac_addr /\ k.bridge_id = i.bridge_id
      /\ ok => IsV6(k)
      /\ ~ok => k = i
      /\ \A u \in Threads \ {t} : info'[u] = info[u]
  <2>1. k = IF ok THEN FoundInV6(i) ELSE i
    BY <1>1, <1>2 DEF FdbInv, FdbTypeOK
  <2>2. /\ FoundInV6(i).mac_addr = i.mac_addr /\ FoundInV6(i).bridge_id = i.bridge_id
        /\ IsV6(FoundInV6(i))
    BY <1>4 DEF LearnInfo, FoundInV6, IsV6
  <2>3. QED
    BY <1>2, <2>1, <2>2 DEF FdbInv, FdbTypeOK
<1>7. MidCall(t)
  BY <1>1, <1>2, <1>3, <1>6, QuietMidCall DEF FdbInv
<1>8. SUFFICES ASSUME i.mac_addr \notin disturbed'
               PROVE  UnwrittenInv(t, k)' /\ WrittenInv(t, k)' /\ ReturnInv(t, k)'
  BY <1>1, <1>6, <1>7, ActorCall
<1>9. Settled(k.mac_addr, k.bridge_id)
  BY <1>3, <1>4, <1>5, <1>6, <1>8 DEF CallInv, UnwrittenInv
<1>10. Settled(k.mac_addr, k.bridge_id)' /\ FdbEntries(k.mac_addr)' = FdbEntries(k.mac_addr)
  BY <1>3, <1>9 DEF Settled, Learned, FdbEntries
<1>11. ok => /\ HasKey(FdbEntries(k.mac_addr), PrepareL2TunnelTableEntry(k))
             /\ OnlyKeysOf(k.mac_addr, {TxKey(k), PrepareL2TunnelTableEntry(k), EncodeFdbSmacTableEntry(k)})
  <2>1. ok => HasKey(entries, EncodeL2ToTunnelV6(i))
    BY <1>2, EncodedKeys DEF Read, SendReadRequest
  <2>2. /\ EncodeL2ToTunnelV6(i).table = "L2_TO_TUNNEL_V6"
        /\ EncodeL2ToTunnelV6(i).key = <<i.mac_addr>>
    BY EncodedKeys
  <2>3. ok => /\ PrepareL2TunnelTableEntry(k).table = "L2_TO_TUNNEL_V6"
              /\ PrepareL2TunnelTableEntry(k).key = <<i.mac_addr>>
    BY <1>6, L2Keys
  <2>4. ok => HasKey(entries, PrepareL2TunnelTableEntry(k))
    BY <2>1, <2>2, <2>3 DEF HasKey, SameKey
  <2>5. QED
    BY <1>6, <1>9, <2>3, <2>4, L2Found
<1>12. ~ok /\ p4info[t] => OnlyKeysOf(k.mac_addr, {TxKey(k), EncodeFdbSmacTableEntry(k)})
  <2>1. ~ok /\ p4info[t] => ~HasKey(entries, EncodeL2ToTunnelV6(i))
    BY <1>1, <1>2, <1>8 DEF Read, DisturbIf
  <2>2. ~ok /\ p4info[t] => ~HasKey(FdbEntries(k.mac_addr), EncodeL2ToTunnelV6(k))
    BY <1>6, <2>1 DEF HasKey, FdbEntries
  <2>3. p4info[t] => ~HasKey(FdbEntries(i.mac_addr), EncodeL2ToTunnelV4(i))
    BY <1>3, <1>4, <1>5, <1>8 DEF CallInv, UnwrittenInv
  <2>4. QED
    BY <1>6, <1>9, <2>2, <2>3, L2NotFound
<1>13. UnwrittenInv(t, k)'
  BY <1>3, <1>5, <1>6, <1>10, <1>11, <1>12 DEF UnwrittenInv, OnlyKeysOf
<1>14. WrittenInv(t, k)' /\ ReturnInv(t, k)'
  BY <1>3, <1>5 DEF WrittenInv, ReturnInv
<1>15. QED
  BY <1>13, <1>14

(* What every write leaves of the call that makes it.                      *)
LEMMA WriteCall ==
  ASSUME FdbTypeOK, NEW t \in Threads, NEW e, NEW label, Write(t, e, label)
  PROVE  /\ pc'[t] = label /\ info'[t] = info[t] /\ insert'[t] = insert[t]
         /\ status'[t] = status[t] /\ p4info'[t] = p4info[t]
         /\ wrote'[t] <=> wrote[t] \/ CanWrite(t)
         /\ CanWrite(t)' <=> CanWrite(t)
         /\ disturbed \subseteq disturbed'
         /\ ~CanWrite(t) => entries' = entries
<1>1. wrote'[t] <=> wrote[t] \/ CanWrite(t)
  BY DEF Write, FdbTypeOK
<1>2. QED
  BY <1>1, WriteOutcome DEF Write, Goto, DisturbIf, CanWrite, FdbTypeOK

(* A write that the server refuses, in a call that wrote nothing before.   *)
LEMMA RefusedWrite ==
  ASSUME FdbInv, NEW t \in Threads, NEW i, i = info[t], NEW e, NEW label, Write(t, e, label),
         pc[t] # "idle", label \in {"writeL2", "writeSmac", "readTxAcc", "return"},
         ~CanWrite(t), ~wrote[t], i.mac_addr \notin disturbed'
  PROVE  UnwrittenInv(t, i)' /\ WrittenInv(t, i)' /\ ReturnInv(t, i)'
<1>1. /\ pc'[t] = label /\ insert'[t] = insert[t] /\ entries' = entries
      /\ ~wrote'[t] /\ ~CanWrite(t)' /\ i.mac_addr \notin disturbed
  BY WriteCall DEF FdbInv
<1>2. Settled(i.mac_addr, i.bridge_id)
  BY <1>1 DEF FdbInv, CallInv, UnwrittenInv
<1>3. Settled(i.mac_addr, i.bridge_id)'
  BY <1>1, <1>2 DEF Settled, Learned, FdbEntries
<1>4. QED
  BY <1>1, <1>3 DEF UnwrittenInv, WrittenInv, ReturnInv

(* A delete leaves the other keys.                                         *)
LEMMA OnlyKeysDeleted ==
  ASSUME NEW m, NEW e, NEW f, NEW S, SameKey(e, f), OnlyKeysOf(m, S \cup {f}),
         FdbEntries(m)' = {g \in FdbEntries(m) : ~SameKey(e, g)}
  PROVE  OnlyKeysOf(m, S)'
BY DEF OnlyKeysOf, SameKey

(* The call that writes its tunnel TX entry.                               *)
LEMMA WriteTunnelActor ==
  ASSUME FdbInv, FdbTypeOK', \A e \in entries' : e.table # "none",
         NEW t \in Threads, WriteFdbTunnel(t)
  PROVE  MidCall(t) /\ CallInv(t, info[t])'
<1>1. PICK i, e, m : i = info[t] /\ e = PrepareFdbTunnelTableEntry(i, insert[t]) /\ m = i.mac_addr
  OBVIOUS
<1>2. Write(t, e, "writeL2") /\ pc[t] = "writeTunnel"
  BY <1>1 DEF WriteFdbTunnel
<1>3. ControlInv(t, i) /\ CallInv(t, i) /\ i \in LearnInfo /\ insert[t] \in BOOLEAN
  BY <1>1 DEF FdbInv, FdbTypeOK
<1>4. IF insert[t] /\ i.tunnel_type = "UNKNOWN" THEN e.table = "none"
      ELSE e.table = "L2_FWD_TX_TABLE" /\ e.key = <<m, i.bridge_id>>
  BY <1>1, <1>3, TunnelTxKeys DEF LearnInfo, EmptyEntry, Entry
<1>5. MidCall(t)
  BY <1>1, <1>2, <1>4, WriteMidCall DEF FdbInv
<1>6. ~wrote[t] /\ i.is_tunnel
  BY <1>2, <1>3 DEF ControlInv
<1>7. SUFFICES ASSUME m \notin disturbed'
               PROVE  UnwrittenInv(t, i)' /\ WrittenInv(t, i)' /\ ReturnInv(t, i)'
  BY <1>1, <1>2, <1>5, ActorCall, WriteCall DEF FdbInv
<1>8. CASE ~CanWrite(t)
  BY <1>1, <1>2, <1>6, <1>7, <1>8, RefusedWrite
<1>9. CASE CanWrite(t)
  <2>1. /\ pc'[t] = "writeL2" /\ insert'[t] = insert[t] /\ wrote'[t]
        /\ p4info[t] /\ m \notin disturbed
    BY <1>2, <1>7, <1>9, WriteCall DEF FdbInv, CanWrite
  <2>2. UnwrittenInv(t, i)' /\ ReturnInv(t, i)'
    BY <2>1 DEF UnwrittenInv, ReturnInv
  <2>3. UnwrittenInv(t, i)
    BY <1>1, <1>2, <1>3, <2>1 DEF CallInv
  <2>4. CASE insert[t]
    <3>1. HasKey(entries', e)
      BY <1>1, <1>2, <1>7, <1>9, <2>4 DEF Write, DisturbIf
    <3>2. i.tunnel_type # "UNKNOWN"
      BY <1>4, <2>4, <3>1 DEF HasKey, SameKey
    <3>3. FdbEntries(m) = {}
      BY <1>1, <1>2, <1>6, <2>1, <2>3, <2>4, <3>2 DEF UnwrittenInv
    <3>4. FdbEntries(m)' = {e}
      <4>1. e.table \in FdbTables /\ e.key[1] = m
        BY <1>4, <3>2 DEF FdbTables
      <4>2. ~HasKey(FdbEntries(m), e)
        BY <3>3 DEF HasKey
      <4>3. FdbEntries(m)' = FdbEntries(m) \cup {e}
        BY <1>1, <1>2, <1>7, <1>9, <2>4, <4>1, <4>2, InsertEffect
      <4>4. QED
        BY <3>3, <4>3
    <3>5. e = PrepareFdbTunnelTableEntry(i, TRUE)
      BY <1>1, <1>3, <2>4
    <3>6. WrittenInv(t, i)'
      BY <1>1, <1>6, <2>1, <2>4, <3>4, <3>5 DEF WrittenInv
    <3>7. QED
      BY <2>2, <3>6
  <2>5. CASE ~insert[t]
    <3>1. OnlyKeysOf(m, {PrepareL2TunnelTableEntry(i), EncodeFdbSmacTableEntry(i)} \cup {TxKey(i)})
      <4>1. OnlyKeysOf(m, {TxKey(i), PrepareL2TunnelTableEntry(i), EncodeFdbSmacTableEntry(i)})
        BY <1>1, <1>2, <1>6, <2>1, <2>3, <2>5 DEF UnwrittenInv
      <4>2. QED
        BY <4>1 DEF OnlyKeysOf
    <3>2. FdbEntries(m)' = {g \in FdbEntries(m) : ~SameKey(e, g)}
      BY <1>1, <1>2, <1>7, <1>9, <2>5, DeleteEffect
    <3>3. SameKey(e, TxKey(i))
      BY <1>1, <1>4, <2>5, EncodedKeys DEF SameKey
    <3>4. OnlyKeysOf(m, {PrepareL2TunnelTableEntry(i), EncodeFdbSmacTableEntry(i)})'
      BY <3>1, <3>2, <3>3, OnlyKeysDeleted
    <3>5. WrittenInv(t, i)'
      BY <1>1, <2>1, <2>5, <3>4 DEF WrittenInv
    <3>6. QED
      BY <2>2, <3>5
  <2>6. QED
    BY <1>3, <2>4, <2>5
<1>10. QED
  BY <1>8, <1>9

(* The call that writes its L2-to-tunnel entry.                            *)
LEMMA WriteL2Actor ==
  ASSUME FdbInv, FdbTypeOK', NEW t \in Threads, WriteL2Tunnel(t)
  PROVE  MidCall(t) /\ CallInv(t, info[t])'
<1>1. PICK i, e, m : i = info[t] /\ e = PrepareL2TunnelTableEntry(i) /\ m = i.mac_addr
  OBVIOUS
<1>2. Write(t, e, "writeSmac") /\ pc[t] = "writeL2"
  BY <1>1 DEF WriteL2Tunnel
<1>3. ControlInv(t, i) /\ CallInv(t, i) /\ i \in LearnInfo /\ insert[t] \in BOOLEAN
  BY <1>1 DEF FdbInv, FdbTypeOK
<1>4. e.table \in {"L2_TO_TUNNEL_V4", "L2_TO_TUNNEL_V6"} /\ e.key = <<m>>
  BY <1>1, L2Keys
<1>5. MidCall(t)
  BY <1>1, <1>2, <1>4, WriteMidCall DEF FdbInv
<1>6. i.is_tunnel
  BY <1>2, <1>3 DEF ControlInv
<1>7. SUFFICES ASSUME m \notin disturbed'
               PROVE  UnwrittenInv(t, i)' /\ WrittenInv(t, i)' /\ ReturnInv(t, i)'
  BY <1>1, <1>2, <1>5, ActorCall, WriteCall DEF FdbInv
<1>8. m \notin disturbed /\ UnwrittenInv(t, i) /\ WrittenInv(t, i)
  BY <1>1, <1>2, <1>3, <1>7, WriteCall DEF CallInv, FdbInv
<1>9. CASE ~wrote[t]
  <2>1. ~CanWrite(t)
    BY <1>2, <1>8, <1>9 DEF UnwrittenInv
  <2>2. QED
    BY <1>1, <1>2, <1>7, <1>9, <2>1, RefusedWrite
<1>10. CASE wrote[t]
  <2>1. pc'[t] = "writeSmac" /\ insert'[t] = insert[t] /\ wrote'[t]
    BY <1>2, <1>10, WriteCall DEF FdbInv
  <2>2. UnwrittenInv(t, i)' /\ ReturnInv(t, i)'
    BY <2>1 DEF UnwrittenInv, ReturnInv
  <2>3. CASE insert[t]
    <3>1. PICK tx : tx = PrepareFdbTunnelTableEntry(i, TRUE)
      OBVIOUS
    <3>2. FdbEntries(m) = {tx}
      BY <1>1, <1>2, <1>6, <1>8, <1>10, <2>3, <3>1 DEF WrittenInv
    <3>3. tx.table \in {"none", "L2_FWD_TX_TABLE"}
      <4>1. EmptyEntry.table = "none" /\ i.tunnel_type \in TunnelTypes
        BY <1>3 DEF EmptyEntry, Entry, LearnInfo
      <4>2. tx = EmptyEntry \/ tx.table = "L2_FWD_TX_TABLE"
        BY <3>1, <4>1, TunnelTxKeys
      <4>3. QED
        BY <4>1, <4>2
    <3>4. ~HasKey(FdbEntries(m), e)
      BY <1>4, <3>2, <3>3 DEF HasKey, SameKey
    <3>5. e.key[1] = m /\ e.table \in FdbTables
      BY <1>4 DEF FdbTables
    <3>6. FdbEntries(m)' = FdbEntries(m) \cup {e}
      BY <1>1, <1>2, <1>7, <1>10, <2>3, <3>4, <3>5, InsertEffect
    <3>7. FdbEntries(m)' = {tx, e}
      BY <3>2, <3>6
    <3>8. WrittenInv(t, i)'
      BY <1>1, <1>6, <2>1, <2>3, <3>1, <3>7 DEF WrittenInv
    <3>9. QED
      BY <2>2, <3>8
  <2>4. CASE ~insert[t]
    <3>1. OnlyKeysOf(m, {EncodeFdbSmacTableEntry(i)} \cup {e})
      <4>1. OnlyKeysOf(m, {e, EncodeFdbSmacTableEntry(i)})
        BY <1>1, <1>2, <1>8, <1>10, <2>4 DEF WrittenInv
      <4>2. QED
        BY <4>1 DEF OnlyKeysOf
    <3>2. FdbEntries(m)' = {g \in FdbEntries(m) : ~SameKey(e, g)}
      BY <1>1, <1>2, <1>7, <1>10, <2>4, DeleteEffect
    <3>3. OnlyKeysOf(m, {EncodeFdbSmacTableEntry(i)})'
      BY <3>1, <3>2, OnlyKeysDeleted DEF SameKey
    <3>4. WrittenInv(t, i)'
      BY <1>1, <2>1, <2>4, <3>3 DEF WrittenInv
    <3>5. QED
      BY <2>2, <3>4
  <2>5. QED
    BY <2>3, <2>4
<1>11. QED
  BY <1>9, <1>10

(* Replacing src_port does not change the key of the RX entry.             *)
LEMMA RxSameKey ==
  ASSUME NEW i, NEW k, k.mac_addr = i.mac_addr, k.bridge_id = i.bridge_id
  PROVE  /\ EncodeFdbRxVlanTableEntry(k).key = EncodeFdbRxVlanTableEntry(i).key
         /\ EncodeFdbRxVlanTableEntry(k).table = EncodeFdbRxVlanTableEntry(i).table
BY DEF EncodeFdbRxVlanTableEntry, Entry

(* The call that writes its RX entry.                                      *)
LEMMA WriteRxActor ==
  ASSUME FdbInv, FdbTypeOK', NEW t \in Threads, WriteFdbRxVlan(t)
  PROVE  MidCall(t) /\ CallInv(t, info[t])'
<1>1. PICK i, e, m : i = info[t] /\ e = EncodeFdbRxVlanTableEntry(i) /\ m = i.mac_addr
  OBVIOUS
<1>2. Write(t, e, "readTxAcc") /\ pc[t] = "writeRx"
  BY <1>1 DEF WriteFdbRxVlan
<1>3. ControlInv(t, i) /\ CallInv(t, i)
  BY <1>1 DEF FdbInv
<1>4. e.table = "L2_FWD_RX_TABLE" /\ e.key = <<m, i.bridge_id>>
  BY <1>1, EncodedKeys
<1>5. insert[t] /\ ~i.is_tunnel /\ ~wrote[t]
  BY <1>2, <1>3 DEF ControlInv
<1>6. MidCall(t)
  BY <1>1, <1>2, <1>4, <1>5, WriteMidCall DEF FdbInv
<1>7. SUFFICES ASSUME m \notin disturbed'
               PROVE  UnwrittenInv(t, i)' /\ WrittenInv(t, i)' /\ ReturnInv(t, i)'
  BY <1>1, <1>2, <1>6, ActorCall, WriteCall DEF FdbInv
<1>8. CASE ~CanWrite(t)
  BY <1>1, <1>2, <1>5, <1>7, <1>8, RefusedWrite
<1>9. CASE CanWrite(t)
  <2>1. /\ pc'[t] = "readTxAcc" /\ insert'[t] = insert[t] /\ wrote'[t]
        /\ p4info[t] /\ m \notin disturbed
    BY <1>2, <1>7, <1>9, WriteCall DEF FdbInv, CanWrite
  <2>2. FdbEntries(m) = {}
    BY <1>1, <1>2, <1>3, <1>5, <2>1 DEF CallInv, UnwrittenInv
  <2>3. FdbEntries(m)' = {}
    BY <1>2, <1>4, <2>2, WriteOutcome DEF FdbEntries, FdbTables, Apply, SameKey
  <2>4. HasRx(i)'
    BY <1>1, <1>2, <1>5, <1>7, <1>9 DEF Write, DisturbIf, HasRx
  <2>5. QED
    BY <1>1, <1>5, <2>1, <2>3, <2>4 DEF UnwrittenInv, WrittenInv, ReturnInv
<1>10. QED
  BY <1>8, <1>9

(* The call that looks up its host port.                                   *)
LEMMA SrcPortActor ==
  ASSUME FdbInv, FdbTypeOK', NEW t \in Threads, UpdateFdbSrcPortInfo(t)
  PROVE  MidCall(t) /\ CallInv(t, info[t])'
<1>1. PICK i, k, m : i = info[t] /\ k = info'[t] /\ m = i.mac_addr
  OBVIOUS
<1>2. /\ pc[t] = "readTxAcc"
      /\ UNCHANGED <<electionId, p4info, highest, entries, insert, wrote, disturbed>>
      /\ \/ Goto(t, "writeTxVlan") /\ info' = [info EXCEPT ![t] = [i EXCEPT !.src_port = HostPort(i)]]
            /\ UNCHANGED status
         \/ Goto(t, "return") /\ UNCHANGED info /\ status' = [status EXCEPT ![t] = "error"]
  BY <1>1 DEF UpdateFdbSrcPortInfo, Return
<1>3. ControlInv(t, i) /\ CallInv(t, i) /\ i \in LearnInfo
  BY <1>1 DEF FdbInv, FdbTypeOK
<1>4. k = [i EXCEPT !.src_port = HostPort(i)] \/ k = i
  BY <1>1, <1>2 DEF FdbInv, FdbTypeOK
<1>5. /\ k.mac_addr = m /\ k.bridge_id = i.bridge_id /\ k.is_tunnel = i.is_tunnel
      /\ EncodeFdbRxVlanTableEntry(k).key = EncodeFdbRxVlanTableEntry(i).key
      /\ EncodeFdbRxVlanTableEntry(k).table = EncodeFdbRxVlanTableEntry(i).table
  <2>1. k.mac_addr = m /\ k.bridge_id = i.bridge_id /\ k.is_tunnel = i.is_tunnel
    BY <1>1, <1>3, <1>4 DEF LearnInfo
  <2>2. QED
    BY <1>1, <2>1, RxSameKey
<1>6. MidCall(t)
  <2>1. \A u \in Threads \ {t} : info'[u] = info[u] /\ status'[u] = status[u]
    BY <1>2 DEF FdbInv, FdbTypeOK
  <2>2. QED
    BY <1>1, <1>2, <1>5, <2>1, QuietMidCall DEF FdbInv
<1>7. SUFFICES ASSUME m \notin disturbed'
               PROVE  UnwrittenInv(t, k)' /\ WrittenInv(t, k)' /\ ReturnInv(t, k)'
  BY <1>1, <1>5, <1>6, ActorCall
<1>8. insert[t] /\ ~i.is_tunnel
  BY <1>2, <1>3 DEF ControlInv
<1>9. UnwrittenInv(t, i) /\ WrittenInv(t, i)
  BY <1>1, <1>2, <1>3, <1>7 DEF CallInv
<1>10. Settled(m, i.bridge_id)
  BY <1>1, <1>2, <1>8, <1>9 DEF UnwrittenInv, WrittenInv, Settled
<1>11. /\ Settled(m, i.bridge_id)' /\ FdbEntries(m)' = FdbEntries(m)
       /\ CanWrite(t)' <=> CanWrite(t)
       /\ HasRx(i) => HasRx(k)'
  BY <1>2, <1>5, <1>10 DEF Settled, Learned, FdbEntries, CanWrite, HasRx, HasKey, SameKey
<1>12. \/ pc'[t] = "writeTxVlan"
       \/ pc'[t] = "return" /\ status'[t] = "error"
  BY <1>2 DEF Goto, FdbInv, FdbTypeOK
<1>13. UnwrittenInv(t, k)'
  BY <1>1, <1>2, <1>5, <1>8, <1>9, <1>11, <1>12 DEF UnwrittenInv
<1>14. WrittenInv(t, k)'
  BY <1>1, <1>2, <1>5, <1>8, <1>9, <1>11, <1>12 DEF WrittenInv
<1>15. ReturnInv(t, k)'
  BY <1>5, <1>11, <1>12 DEF ReturnInv
<1>16. QED
  BY <1>13, <1>14, <1>15

(* The call that writes its VLAN TX entry.                                 *)
LEMMA WriteTxVlanActor ==
  ASSUME FdbInv, FdbTypeOK', NEW t \in Threads, WriteFdbTxVlan(t)
  PROVE  MidCall(t) /\ CallInv(t, info[t])'
<1>1. PICK i, e, m : i = info[t] /\ e = EncodeFdbTxVlanTableEntry(i) /\ m = i.mac_addr
  OBVIOUS
<1>2. Write(t, e, "writeSmac") /\ pc[t] = "writeTxVlan"
  BY <1>1 DEF WriteFdbTxVlan
<1>3. ControlInv(t, i) /\ CallInv(t, i)
  BY <1>1 DEF FdbInv
<1>4. e.table = "L2_FWD_TX_TABLE" /\ e.key = <<m, i.bridge_id>>
  BY <1>1, EncodedKeys
<1>5. ~i.is_tunnel /\ (~insert[t] => ~wrote[t])
  BY <1>2, <1>3 DEF ControlInv
<1>6. MidCall(t)
  BY <1>1, <1>2, <1>4, WriteMidCall DEF FdbInv
<1>7. SUFFICES ASSUME m \notin disturbed'
               PROVE  UnwrittenInv(t, i)' /\ WrittenInv(t, i)' /\ ReturnInv(t, i)'
  BY <1>1, <1>2, <1>6, ActorCall, WriteCall DEF FdbInv
<1>8. m \notin disturbed /\ UnwrittenInv(t, i) /\ WrittenInv(t, i)
  BY <1>1, <1>2, <1>3, <1>7, WriteCall DEF CallInv, FdbInv
<1>9. CASE ~wrote[t] /\ ~CanWrite(t)
  BY <1>1, <1>2, <1>7, <1>9, RefusedWrite
<1>10. CASE insert[t] /\ wrote[t]
  <2>1. pc'[t] = "writeSmac" /\ insert'[t] = insert[t] /\ wrote'[t]
    BY <1>2, <1>10, WriteCall DEF FdbInv
  <2>2. FdbEntries(m) = {} /\ HasRx(i)
    BY <1>1, <1>2, <1>5, <1>8, <1>10 DEF WrittenInv
  <2>3. HasRx(i)'
    BY <1>2, <1>10, <2>2, WriteKeepsRx
  <2>4. e.table \in FdbTables /\ e.key[1] = m /\ ~HasKey(FdbEntries(m), e)
    BY <1>4, <2>2 DEF FdbTables, HasKey
  <2>5. FdbEntries(m)' = FdbEntries(m) \cup {e}
    BY <1>1, <1>2, <1>7, <1>10, <2>4, InsertEffect
  <2>6. FdbEntries(m)' = {e}
    BY <2>2, <2>5
  <2>7. QED
    BY <1>1, <1>5, <1>10, <2>1, <2>3, <2>6 DEF UnwrittenInv, WrittenInv, ReturnInv
<1>11. CASE ~insert[t] /\ CanWrite(t)
  <2>1. pc'[t] = "writeSmac" /\ insert'[t] = insert[t] /\ wrote'[t] /\ p4info[t]
    BY <1>2, <1>11, WriteCall DEF FdbInv, CanWrite
  <2>2. OnlyKeysOf(m, {EncodeFdbSmacTableEntry(i)} \cup {TxKey(i)})
    <3>1. OnlyKeysOf(m, {TxKey(i), EncodeFdbSmacTableEntry(i)})
      BY <1>1, <1>2, <1>5, <1>8, <1>11, <2>1 DEF UnwrittenInv
    <3>2. QED
      BY <3>1 DEF OnlyKeysOf
  <2>3. FdbEntries(m)' = {g \in FdbEntries(m) : ~SameKey(e, g)}
    BY <1>1, <1>2, <1>7, <1>11, DeleteEffect
  <2>4. SameKey(e, TxKey(i))
    BY <1>1, <1>4, EncodedKeys DEF SameKey
  <2>5. OnlyKeysOf(m, {EncodeFdbSmacTableEntry(i)})'
    BY <2>2, <2>3, <2>4, OnlyKeysDeleted
  <2>6. QED
    BY <1>1, <1>11, <2>1, <2>5 DEF UnwrittenInv, WrittenInv, ReturnInv
<1>12. QED
  <2>1. insert[t] /\ ~wrote[t] => ~CanWrite(t)
    BY <1>2, <1>8 DEF UnwrittenInv
  <2>2. QED
    BY <1>5, <1>9, <1>10, <1>11, <2>1

(* The call that writes its SMAC entry.                                    *)
LEMMA WriteSmacActor ==
  ASSUME FdbInv, FdbTypeOK', NEW t \in Threads, WriteFdbSmac(t)
  PROVE  MidCall(t) /\ CallInv(t, info[t])'
<1>1. PICK i, e, m : i = info[t] /\ e = EncodeFdbSmacTableEntry(i) /\ m = i.mac_addr
  OBVIOUS
<1>2. Write(t, e, "return") /\ pc[t] = "writeSmac"
  BY <1>1 DEF WriteFdbSmac
<1>3. ControlInv(t, i) /\ CallInv(t, i) /\ i \in LearnInfo
  BY <1>1 DEF FdbInv, FdbTypeOK
<1>4. e.table = "L2_FWD_SMAC_TABLE" /\ e.key = <<m, i.bridge_id>>
  BY <1>1, EncodedKeys
<1>5. MidCall(t)
  BY <1>1, <1>2, <1>4, WriteMidCall DEF FdbInv
<1>6. SUFFICES ASSUME m \notin disturbed'
               PROVE  UnwrittenInv(t, i)' /\ WrittenInv(t, i)' /\ ReturnInv(t, i)'
  BY <1>1, <1>2, <1>5, ActorCall, WriteCall DEF FdbInv
<1>7. m \notin disturbed /\ UnwrittenInv(t, i) /\ WrittenInv(t, i)
  BY <1>1, <1>2, <1>3, <1>6, WriteCall DEF CallInv, FdbInv
<1>8. CASE ~wrote[t]
  <2>1. ~CanWrite(t)
    BY <1>2, <1>7, <1>8 DEF UnwrittenInv
  <2>2. QED
    BY <1>1, <1>2, <1>6, <1>8, <2>1, RefusedWrite
<1>9. CASE wrote[t]
  <2>1. pc'[t] = "return" /\ insert'[t] = insert[t] /\ wrote'[t]
    BY <1>2, <1>9, WriteCall DEF FdbInv
  <2>2. UnwrittenInv(t, i)' /\ WrittenInv(t, i)'
    BY <2>1 DEF UnwrittenInv, WrittenInv
  <2>3. CASE ~insert[t]
    <3>1. OnlyKeysOf(m, {e})
      BY <1>1, <1>2, <1>7, <1>9, <2>3 DEF WrittenInv
    <3>2. FdbEntries(m)' = {g \in FdbEntries(m) : ~SameKey(e, g)}
      BY <1>1, <1>2, <1>6, <1>9, <2>3, DeleteEffect
    <3>3. FdbEntries(m)' = {}
      BY <3>1, <3>2 DEF OnlyKeysOf
    <3>4. QED
      BY <1>1, <2>1, <2>2, <2>3, <3>3 DEF ReturnInv, Settled
  <2>4. CASE insert[t] /\ i.is_tunnel
    <3>1. PICK tx, l2 : tx = PrepareFdbTunnelTableEntry(i, TRUE) /\ l2 = PrepareL2TunnelTableEntry(i)
      OBVIOUS
    <3>2. FdbEntries(m) = {tx, l2}
      BY <1>1, <1>2, <1>7, <1>9, <2>4, <3>1 DEF WrittenInv
    <3>3. tx.table # "L2_FWD_SMAC_TABLE" /\ l2.table # "L2_FWD_SMAC_TABLE"
      <4>1. EmptyEntry.table = "none" /\ i.tunnel_type \in TunnelTypes
        BY <1>3 DEF EmptyEntry, Entry, LearnInfo
      <4>2. tx = EmptyEntry \/ tx.table = "L2_FWD_TX_TABLE"
        BY <3>1, <4>1, TunnelTxKeys
      <4>3. QED
        BY <3>1, <4>1, <4>2, L2Keys
    <3>4. e.table \in FdbTables /\ e.key[1] = m /\ ~HasKey(FdbEntries(m), e)
      BY <1>4, <3>2, <3>3 DEF FdbTables, HasKey, SameKey
    <3>5. FdbEntries(m)' = FdbEntries(m) \cup {e}
      BY <1>1, <1>2, <1>6, <1>9, <2>4, <3>4, InsertEffect
    <3>6. FdbEntries(m)' = FdbImage(i) /\ FdbEntries(m)' # {}
      BY <1>1, <2>4, <3>1, <3>2, <3>5 DEF FdbImage
    <3>7. i \in InsertInfos
      BY <1>3, <2>4 DEF ControlInv
    <3>8. Settled(m, i.bridge_id)'
      BY <1>1, <2>4, <3>6, <3>7 DEF Settled, Learned
    <3>9. QED
      BY <1>1, <2>1, <2>2, <2>4, <3>6, <3>8 DEF ReturnInv
  <2>5. CASE insert[t] /\ ~i.is_tunnel
    <3>1. PICK tx : tx = EncodeFdbTxVlanTableEntry(i)
      OBVIOUS
    <3>2. FdbEntries(m) = {tx} /\ HasRx(i)
      BY <1>1, <1>2, <1>7, <1>9, <2>5, <3>1 DEF WrittenInv
    <3>3. tx.table = "L2_FWD_TX_TABLE"
      BY <3>1, EncodedKeys
    <3>4. e.table \in FdbTables /\ e.key[1] = m /\ ~HasKey(FdbEntries(m), e)
      BY <1>4, <3>2, <3>3 DEF FdbTables, HasKey, SameKey
    <3>5. FdbEntries(m)' = FdbEntries(m) \cup {e}
      BY <1>1, <1>2, <1>6, <1>9, <2>5, <3>4, InsertEffect
    <3>6. FdbEntries(m)' = {tx, e}
      BY <3>2, <3>5
    <3>7. HasRx(i)'
      BY <1>2, <2>5, <3>2, WriteKeepsRx
    <3>8. PICK j \in InsertInfos : /\ ~j.is_tunnel /\ HasHostPort(j)
                                   /\ i = [j EXCEPT !.src_port = HostPort(j)]
      BY <1>2, <1>3, <2>5 DEF ControlInv, PortResolved
    <3>9. j.mac_addr = m /\ j.bridge_id = i.bridge_id /\ EncodeFdbSmacTableEntry(j) = e
      <4>1. i.mac_addr = j.mac_addr /\ i.bridge_id = j.bridge_id
        BY <3>8, InfosAssumption DEF LearnInfo
      <4>2. QED
        BY <1>1, <4>1 DEF EncodeFdbSmacTableEntry
    <3>10. FdbEntries(m)' = FdbImage(j)
      BY <3>1, <3>6, <3>8, <3>9 DEF FdbImage
    <3>11. HasKey(entries', EncodeFdbRxVlanTableEntry(j))
      <4>1. /\ EncodeFdbRxVlanTableEntry(j).key = EncodeFdbRxVlanTableEntry(i).key
            /\ EncodeFdbRxVlanTableEntry(j).table = EncodeFdbRxVlanTableEntry(i).table
        BY <1>1, <3>9, RxSameKey
      <4>2. QED
        BY <3>7, <4>1 DEF HasRx, HasKey, SameKey
    <3>12. Learned(m, j)'
      BY <3>8, <3>9, <3>10, <3>11 DEF Learned
    <3>13. Settled(m, i.bridge_id)'
      BY <3>9, <3>12 DEF Settled
    <3>14. QED
      BY <1>1, <2>1, <2>2, <2>5, <3>6, <3>13 DEF ReturnInv
  <2>6. QED
    BY <2>3, <2>4, <2>5
<1>10. QED
  BY <1>8, <1>9

-----------------------------------------------------------------------------
(* A call starts.                                                          *)
LEMMA StartActor ==
  ASSUME FdbInv, FdbTypeOK', NEW t \in Threads, NEW ins \in BOOLEAN,
         NEW i \in InsertInfos \cup DeleteInfos, ConfigFdbEntry(t, ins, i)
  PROVE  /\ \A u \in Threads : CallInv(u, info[u])'
         /\ FdbAllOrNothing'
<1>1. /\ pc[t] = "idle" /\ pc'[t] = "arbitrate" /\ info'[t] = i /\ ~wrote'[t] /\ ~p4info'[t]
      /\ entries' = entries /\ highest' = highest /\ disturbed \subseteq disturbed'
      /\ \A u \in Threads \ {t} :
           /\ pc'[u] = pc[u] /\ insert'[u] = insert[u] /\ info'[u] = info[u]
           /\ wrote'[u] = wrote[u] /\ p4info'[u] = p4info[u] /\ status'[u] = status[u]
           /\ electionId'[u] = electionId[u]
  BY DEF ConfigFdbEntry, BeginSession, Goto, DisturbIf, FdbInv, FdbTypeOK
<1>2. i.mac_addr \notin disturbed' => ~OnOtherBridge(i) /\ \A u \in Threads : ~ActiveOn(i.mac_addr, u)
  BY DEF ConfigFdbEntry, DisturbIf
<1>3. \A m : FdbEntries(m)' = FdbEntries(m)
  BY <1>1 DEF FdbEntries
<1>4. \A j : HasRx(j) => HasRx(j)'
  BY <1>1 DEF HasRx
<1>5. ASSUME NEW u \in Threads \ {t} PROVE CallInv(u, info[u])'
  <2>1. PICK k : k = info[u]
    OBVIOUS
  <2>2. SUFFICES ASSUME pc[u] # "idle", k.mac_addr \notin disturbed' PROVE CallInv(u, k)'
    BY <1>1, <2>1 DEF CallInv
  <2>3. k.mac_addr # i.mac_addr
    BY <1>2, <2>1, <2>2 DEF ActiveOn
  <2>4. \A v \in Threads : ActiveOn(k.mac_addr, v)' => ActiveOn(k.mac_addr, v)
    BY <1>1, <2>3 DEF ActiveOn
  <2>5. CallInv(u, k)
    BY <2>1 DEF FdbInv
  <2>6. CanWrite(u)' => CanWrite(u)
    BY <1>1 DEF CanWrite
  <2>7. QED
    BY <1>1, <1>3, <1>4, <2>4, <2>5, <2>6, CallFrame
<1>6. CallInv(t, info[t])'
  <2>1. PICK m : m = i.mac_addr
    OBVIOUS
  <2>2. SUFFICES ASSUME m \notin disturbed' PROVE CallInv(t, i)'
    BY <1>1, <2>1 DEF CallInv
  <2>3. (\A u \in Threads : ActiveOn(m, u) => u = t)'
    BY <1>1, <1>2, <2>1, <2>2 DEF ActiveOn
  <2>4. FdbEntries(m) = {} \/ \E j \in InsertInfos : Learned(m, j)
    BY <1>1, <1>2, <2>1, <2>2 DEF FdbInv, FdbAllOrNothing, Macs
  <2>5. ASSUME NEW j \in InsertInfos, Learned(m, j) PROVE j.bridge_id = i.bridge_id
    <3>1. PICK e \in FdbEntries(m) : e.table = "L2_FWD_TX_TABLE" /\ e.key = <<m, j.bridge_id>>
      BY <2>5, LearnedKeys, InfosAssumption
    <3>2. e \in entries /\ e.key[1] = m /\ e.key[2] = j.bridge_id
      BY <3>1 DEF FdbEntries
    <3>3. QED
      BY <1>2, <2>1, <2>2, <3>1, <3>2 DEF OnOtherBridge
  <2>6. Settled(m, i.bridge_id)
    BY <2>4, <2>5 DEF Settled
  <2>7. Settled(m, i.bridge_id)'
    BY <1>3, <1>4, <2>6, SettledFrame
  <2>8. UnwrittenInv(t, i)' /\ WrittenInv(t, i)' /\ ReturnInv(t, i)'
    BY <1>1, <2>1, <2>7 DEF UnwrittenInv, WrittenInv, ReturnInv
  <2>9. QED
    BY <2>1, <2>3, <2>8 DEF CallInv
<1>7. ASSUME NEW m \in Macs, m \notin disturbed', \A u \in Threads : ~ActiveOn(m, u)'
      PROVE  FdbEntries(m)' = {} \/ \E j \in InsertInfos : Learned(m, j)'
  <2>1. \A u \in Threads : ~ActiveOn(m, u)
    BY <1>1, <1>7 DEF ActiveOn
  <2>2. FdbEntries(m) = {} \/ \E j \in InsertInfos : Learned(m, j)
    BY <1>1, <1>7, <2>1 DEF FdbInv, FdbAllOrNothing
  <2>3. QED
    BY <1>3, <1>4, <2>2 DEF Learned, HasRx
<1>8. FdbAllOrNothing'
  BY <1>7 DEF FdbAllOrNothing, Macs
<1>9. QED
  BY <1>5, <1>6, <1>8

(* A call ends: the MAC address was settled when it returned.              *)
LEMMA EndActor ==
  ASSUME FdbInv, FdbTypeOK', NEW t \in Threads, EndCall(t)
  PROVE  /\ \A u \in Threads : CallInv(u, info[u])'
         /\ FdbAllOrNothing'
<1>1. /\ pc[t] = "return" /\ pc'[t] = "idle"
      /\ entries' = entries /\ highest' = highest /\ disturbed' = disturbed
      /\ \A u \in Threads \ {t} :
           /\ pc'[u] = pc[u] /\ insert'[u] = insert[u] /\ info'[u] = info[u]
           /\ wrote'[u] = wrote[u] /\ p4info'[u] = p4info[u] /\ status'[u] = status[u]
           /\ electionId'[u] = electionId[u]
  BY DEF EndCall, EndSession, Goto, FdbInv, FdbTypeOK
<1>2. \A m : FdbEntries(m)' = FdbEntries(m)
  BY <1>1 DEF FdbEntries
<1>3. \A j : HasRx(j) => HasRx(j)'
  BY <1>1 DEF HasRx
<1>4. ASSUME NEW u \in Threads \ {t} PROVE CallInv(u, info[u])'
  <2>1. PICK k : k = info[u]
    OBVIOUS
  <2>2. \A v \in Threads : ActiveOn(k.mac_addr, v)' => ActiveOn(k.mac_addr, v)
    BY <1>1 DEF ActiveOn
  <2>3. CallInv(u, k)
    BY <2>1 DEF FdbInv
  <2>4. CanWrite(u)' => CanWrite(u)
    BY <1>1 DEF CanWrite
  <2>5. CallInv(u, k)'
    BY <1>1, <1>2, <1>3, <2>2, <2>3, <2>4, CallFrame
  <2>6. QED
    BY <1>1, <2>1, <2>5
<1>5. CallInv(t, info[t])'
  BY <1>1 DEF CallInv
<1>6. ASSUME NEW m \in Macs, m \notin disturbed', \A u \in Threads : ~ActiveOn(m, u)'
      PROVE  FdbEntries(m)' = {} \/ \E j \in InsertInfos : Learned(m, j)'
  <2>1. FdbEntries(m) = {} \/ \E j \in InsertInfos : Learned(m, j)
    <3>1. CASE m = info[t].mac_addr
      <4>1. Settled(m, info[t].bridge_id)
        BY <1>1, <1>6, <3>1 DEF FdbInv, CallInv, ReturnInv
      <4>2. QED
        BY <4>1 DEF Settled
    <3>2. CASE m # info[t].mac_addr
      <4>1. \A u \in Threads : ~ActiveOn(m, u)
        BY <1>1, <1>6, <3>2 DEF ActiveOn
      <4>2. QED
        BY <1>1, <1>6, <4>1 DEF FdbInv, FdbAllOrNothing
    <3>3. QED
      BY <3>1, <3>2
  <2>2. QED
    BY <1>2, <1>3, <2>1 DEF Learned, HasRx
<1>7. FdbAllOrNothing'
  BY <1>6 DEF FdbAllOrNothing, Macs
<1>8. QED
  BY <1>4, <1>5, <1>7

(* The clock, the server noticing a closed stream, stuttering.             *)
LEMMA EnvironmentActor ==
  ASSUME FdbInv,
         UNCHANGED <<pc, electionId, p4info, status, highest, entries, insert, info, wrote, disturbed>>
  PROVE  /\ \A u \in Threads : CallInv(u, info[u])'
         /\ FdbAllOrNothing'
<1>1. /\ \A m : FdbEntries(m)' = FdbEntries(m)
      /\ \A j : HasRx(j) => HasRx(j)'
  BY DEF FdbEntries, HasRx
<1>2. ASSUME NEW u \in Threads PROVE CallInv(u, info[u])'
  <2>1. PICK k : k = info[u]
    OBVIOUS
  <2>2. CallInv(u, k)
    BY <2>1 DEF FdbInv
  <2>3. /\ CanWrite(u)' => CanWrite(u)
        /\ \A v \in Threads : ActiveOn(k.mac_addr, v)' => ActiveOn(k.mac_addr, v)
    BY DEF CanWrite, ActiveOn
  <2>4. CallInv(u, k)'
    BY <1>1, <2>2, <2>3, CallFrame
  <2>5. QED
    BY <2>1, <2>4
<1>3. FdbAllOrNothing'
  BY DEF FdbInv, FdbAllOrNothing, Macs, ActiveOn, FdbEntries, Learned
<1>4. QED
  BY <1>2, <1>3

-----------------------------------------------------------------------------
(* The initial states satisfy the inductive invariant.                     *)
LEMMA InvInit == FdbInit => FdbInv
<1> SUFFICES ASSUME FdbInit PROVE FdbInv
  OBVIOUS
<1>1. FdbTypeOK
  BY TypeInit
<1>2. \A t \in Threads : pc[t] = "idle" /\ ~p4info[t] /\ ~wrote[t] /\ ~insert[t] /\ info[t] = NoInfo
  BY DEF FdbInit, SessionInit
<1>3. NoInfo \in DeleteInfos
  BY InfosAssumption DEF NoInfo
<1>4. \A t \in Threads : \A i \in {info[t]} : ControlInv(t, i) /\ CallInv(t, i)
  BY <1>2, <1>3, InfosAssumption DEF ControlInv, CallInv, Early
<1>5. \A t \in Threads : IdInv(t)
  BY <1>2 DEF IdInv
<1>6. FdbAllOrNothing /\ \A e \in entries : e.table # "none"
  BY DEF FdbInit, SessionInit, FdbAllOrNothing, FdbEntries
<1>7. QED
  BY <1>1, <1>4, <1>5, <1>6 DEF FdbInv

(* Every step preserves the inductive invariant: one actor lemma per       *)
(* action, and the frame lemmas for the calls of the other threads.        *)
LEMMA InvStep == FdbInv /\ [Next]_vars => FdbInv'
<1> SUFFICES ASSUME FdbInv, [Next]_vars PROVE FdbInv'
  OBVIOUS
<1>1. FdbTypeOK' /\ \A e \in entries' : e.table # "none"
  BY TypeStep, NoneStep DEF FdbInv
<1>2. /\ \A u \in Threads : IdInv(u)'
      /\ \A u \in Threads : ControlInv(u, info[u])'
  BY IdStep, ControlStep
<1>3. (\A u \in Threads : CallInv(u, info[u])') /\ FdbAllOrNothing'
  <2>1. ASSUME NEW t \in Threads, MidCall(t), CallInv(t, info[t])'
        PROVE  (\A u \in Threads : CallInv(u, info[u])') /\ FdbAllOrNothing'
    BY <1>1, <2>1, MidCallFrame
  <2>2. ASSUME NEW t \in Threads, StartCall(t)
        PROVE  (\A u \in Threads : CallInv(u, info[u])') /\ FdbAllOrNothing'
    BY <1>1, <2>2, StartActor DEF StartCall
  <2>3. ASSUME NEW t \in Threads, CallStep(t), ~EndCall(t)
        PROVE  MidCall(t) /\ CallInv(t, info[t])'
    BY <1>1, <2>3, SessionActor, FetchActor, ReadTxActor, ReadL2V4Actor, ReadL2V6Actor, WriteTunnelActor,
       WriteL2Actor, WriteRxActor, SrcPortActor, WriteTxVlanActor, WriteSmacActor
       DEF CallStep
  <2>4. ASSUME NEW t \in Threads, EndCall(t)
        PROVE  (\A u \in Threads : CallInv(u, info[u])') /\ FdbAllOrNothing'
    BY <1>1, <2>4, EndActor
  <2>5. CASE (Environment /\ UNCHANGED fdbVars) \/ UNCHANGED vars
    BY <2>5, EnvironmentActor DEF Environment, Tick, StreamClosed, fdbVars, vars, sessionVars
  <2>6. QED
    BY <2>1, <2>2, <2>3, <2>4, <2>5 DEF Next
<1>4. QED
  BY <1>1, <1>2, <1>3 DEF FdbInv

(* The inductive invariant.                                                *)
THEOREM FdbInvariant == Spec => []FdbInv
BY InvInit, InvStep, PTL DEF Spec

(* Between calls, an undisturbed MAC address is learned completely or not  *)
(* at all, although ConfigFdbTunnelEntry and ConfigFdbVlanEntry write its  *)
(* entries one RPC at a time and drop every status: for any number of      *)
(* threads, MAC addresses, bridges and arguments.                          *)
THEOREM FdbIsAllOrNothing == Spec => []FdbAllOrNothing
<1>1. FdbInv => FdbAllOrNothing
  BY DEF FdbInv
<1>2. QED
  BY <1>1, FdbInvariant, PTL

(* A call of ConfigFdbEntry that returns OK while its session is primary   *)
(* has done its work, if nothing disturbed its MAC address.                *)
THEOREM FdbStatusIsTruthful == Spec => []FdbReturnTruthful
<1>1. ASSUME FdbInv PROVE FdbReturnTruthful
  <2>1. SUFFICES ASSUME NEW t \in Threads, NEW i, i = info[t], pc[t] = "return", status[t] = "ok",
                        CanWrite(t), i.mac_addr \notin disturbed
                 PROVE  IF insert[t]
                          THEN Supported(i) => \E j \in InsertInfos :
                                 Learned(i.mac_addr, j) /\ j.bridge_id = i.bridge_id
                          ELSE FdbEntries(i.mac_addr) = {}
    BY DEF FdbReturnTruthful
  <2>2. ReturnInv(t, i)
    BY <1>1, <2>1 DEF FdbInv, CallInv
  <2>3. QED
    BY <2>1, <2>2 DEF ReturnInv, Settled
<1>2. QED
  BY <1>1, FdbInvariant, PTL

(* Two calls in progress never share an election id: the thread id that    *)
(* OvsP4rtSession::Create adds is the whole lower half of the id.          *)
THEOREM FdbLiveIdsDiffer == Spec => []LiveIdsDiffer
<1>1. FdbInv => LiveIdsDiffer
  BY ThreadIdAssumption DEF FdbInv, IdInv, LiveIdsDiffer
<1>2. QED
  BY <1>1, FdbInvariant, PTL

(* A delete of an undisturbed MAC address takes the path of the kind of    *)
(* entry that the tables hold (UpdateFdbTunnelInfo).                       *)
THEOREM FdbDeleteClassifies == Spec => []DeleteClassifies
<1>1. ASSUME FdbInv, NEW t \in Threads, NEW i, i = info[t], NEW tunnels,
             tunnels = {e \in entries : /\ e.table \in {"L2_TO_TUNNEL_V4", "L2_TO_TUNNEL_V6"}
                                        /\ e.key[1] = i.mac_addr},
             ~insert[t], p4info[t], i.mac_addr \notin disturbed
      PROVE  /\ pc[t] = "writeTunnel" => /\ HasKey(entries, TxKey(i))
                                         /\ HasKey(tunnels, PrepareL2TunnelTableEntry(i))
             /\ pc[t] = "writeTxVlan" => tunnels = {}
  <2>1. SUFFICES ASSUME pc[t] \in {"writeTunnel", "writeTxVlan"}
                 PROVE  /\ pc[t] = "writeTunnel" => /\ HasKey(entries, TxKey(i))
                                                    /\ HasKey(tunnels, PrepareL2TunnelTableEntry(i))
                        /\ pc[t] = "writeTxVlan" => tunnels = {}
    OBVIOUS
  <2>2. ControlInv(t, i) /\ CallInv(t, i)
    BY <1>1 DEF FdbInv
  <2>3. ~wrote[t]
    BY <1>1, <2>1, <2>2 DEF ControlInv
  <2>4. UnwrittenInv(t, i)
    BY <1>1, <2>1, <2>2 DEF CallInv
  <2>5. tunnels \subseteq FdbEntries(i.mac_addr)
    BY <1>1 DEF FdbEntries, FdbTables
  <2>6. PICK m : m = i.mac_addr
    OBVIOUS
  <2>7. CASE pc[t] = "writeTunnel"
    <3>1. HasKey(FdbEntries(m), PrepareL2TunnelTableEntry(i)) /\ Settled(m, i.bridge_id)
      BY <1>1, <2>3, <2>4, <2>6, <2>7 DEF UnwrittenInv
    <3>2. FdbEntries(m) # {}
      BY <3>1 DEF HasKey
    <3>3. HasKey(entries, TxKey(i))
      <4>1. TxKey(i).table = "L2_FWD_TX_TABLE" /\ TxKey(i).key = <<m, i.bridge_id>>
        BY <2>6, EncodedKeys
      <4>2. QED
        BY <3>1, <3>2, <4>1, SettledTx
    <3>4. PrepareL2TunnelTableEntry(i).table \in {"L2_TO_TUNNEL_V4", "L2_TO_TUNNEL_V6"}
      BY L2Keys
    <3>5. HasKey(tunnels, PrepareL2TunnelTableEntry(i))
      BY <1>1, <2>6, <3>1, <3>4 DEF HasKey, SameKey, FdbEntries
    <3>6. QED
      BY <2>7, <3>3, <3>5
  <2>8. CASE pc[t] = "writeTxVlan"
    <3>1. OnlyKeysOf(m, {TxKey(i), EncodeFdbSmacTableEntry(i)})
      BY <1>1, <2>3, <2>4, <2>6, <2>8 DEF UnwrittenInv
    <3>2. \A e \in FdbEntries(m) : e.table \in {"L2_FWD_TX_TABLE", "L2_FWD_SMAC_TABLE"}
      <4>1. TxKey(i).table = "L2_FWD_TX_TABLE"
        BY EncodedKeys
      <4>2. EncodeFdbSmacTableEntry(i).table = "L2_FWD_SMAC_TABLE"
        BY EncodedKeys
      <4>3. QED
        BY <3>1, <4>1, <4>2 DEF OnlyKeysOf, SameKey
    <3>3. QED
      BY <1>1, <2>5, <2>6, <2>8, <3>2
  <2>9. QED
    BY <2>1, <2>7, <2>8
<1>2. FdbInv => DeleteClassifies
  BY <1>1 DEF DeleteClassifies, TxKey
<1>3. QED
  BY <1>2, FdbInvariant, PTL
=============================================================================
