------------------------ MODULE Es2kFdbService_proofs ------------------------
(***************************************************************************)
(* ConfigFdbEntry implements FdbService, for any set of threads, MAC       *)
(* addresses, bridges and arguments.                                       *)
(***************************************************************************)
EXTENDS Es2kFdbService, Es2kConfigFdb_proofs

(* What is known of m, whoever is at work on it.                           *)
Known(m) == IF m \in disturbed \/ FdbEntries(m) \notin ImagesOf THEN {} ELSE FdbEntries(m)

-----------------------------------------------------------------------------
(***************************************************************************)
(* Images.                                                                 *)
(***************************************************************************)
LEMMA TunnelTxTable ==
  ASSUME NEW i \in LearnInfo
  PROVE  PrepareFdbTunnelTableEntry(i, TRUE).table \in {"L2_FWD_TX_TABLE", "none"}
<1>1. i.tunnel_type \in TunnelTypes
  BY DEF LearnInfo
<1>2. IF i.tunnel_type = "UNKNOWN"
        THEN PrepareFdbTunnelTableEntry(i, TRUE) = EmptyEntry
        ELSE PrepareFdbTunnelTableEntry(i, TRUE).table = "L2_FWD_TX_TABLE"
  BY <1>1, TunnelTxKeys
<1>3. EmptyEntry.table = "none"
  BY DEF EmptyEntry, Entry
<1>4. QED
  BY <1>2, <1>3

(* A learned address has an SMAC entry, and a TX entry or an entry that    *)
(* was never accepted: what a call writes first, or deletes last, is not   *)
(* an image.                                                               *)
LEMMA ImageTables ==
  ASSUME NEW S \in ImagesOf, S # {}
  PROVE  /\ \E e \in S : e.table = "L2_FWD_SMAC_TABLE"
         /\ \E e \in S : e.table \in {"L2_FWD_TX_TABLE", "none"}
<1>1. PICK i \in InsertInfos : S = FdbImage(i)
  BY DEF ImagesOf
<1>2. i \in LearnInfo
  BY InfosAssumption
<1>3. EncodeFdbSmacTableEntry(i) \in S
  BY <1>1 DEF FdbImage
<1>4. CASE i.is_tunnel
  <2>1. PrepareFdbTunnelTableEntry(i, TRUE) \in S
    BY <1>1, <1>4 DEF FdbImage
  <2>2. PrepareFdbTunnelTableEntry(i, TRUE).table \in {"L2_FWD_TX_TABLE", "none"}
    BY <1>2, TunnelTxTable
  <2>3. QED
    BY <1>3, <2>1, <2>2, EncodedKeys
<1>5. CASE ~i.is_tunnel
  <2>1. EncodeFdbTxVlanTableEntry([i EXCEPT !.src_port = HostPort(i)]) \in S
    BY <1>1, <1>5 DEF FdbImage
  <2>2. QED
    BY <1>3, <2>1, EncodedKeys
<1>6. QED
  BY <1>4, <1>5

(* So a set without an SMAC entry, or without a TX entry, is no image.     *)
LEMMA NotAnImage ==
  ASSUME NEW S,
         \/ \A e \in S : e.table # "L2_FWD_SMAC_TABLE"
         \/ \A e \in S : e.table \notin {"L2_FWD_TX_TABLE", "none"}
  PROVE  S \in ImagesOf => S = {}
BY ImageTables

(* A settled address is in an image.                                       *)
LEMMA SettledImage ==
  ASSUME NEW m, FdbEntries(m) = {} \/ \E j \in InsertInfos : Learned(m, j)
  PROVE  FdbEntries(m) \in ImagesOf
BY DEF Learned, ImagesOf

(* Without a call in progress an address is settled, so a partial entry is *)
(* never taken for a known one.                                            *)
KnownIsKnown == \A m \in Macs : KnownOf(m) = Known(m)

(* An undisturbed address is known iff its entries are an image, call or   *)
(* no call.                                                                *)
LEMMA KnownIs == FdbInv => KnownIsKnown
<1> SUFFICES ASSUME FdbInv, NEW m \in Macs, m \notin disturbed,
                    ~\E t \in Threads : InProgress(t) /\ info[t].mac_addr = m
             PROVE  FdbEntries(m) \in ImagesOf
  BY DEF KnownIsKnown, KnownOf, Known
<1>1. CASE \E t \in Threads : ActiveOn(m, t)
  <2>1. PICK t \in Threads : ActiveOn(m, t)
    BY <1>1
  <2>2. pc[t] = "return" /\ CallInv(t, info[t])
    BY <2>1 DEF ActiveOn, InProgress, FdbInv
  <2>3. Settled(m, info[t].bridge_id)
    BY <2>1, <2>2 DEF CallInv, ReturnInv, ActiveOn
  <2>4. QED
    BY <2>3, SettledImage DEF Settled
<1>2. CASE ~\E t \in Threads : ActiveOn(m, t)
  BY <1>2, SettledImage DEF FdbInv, FdbAllOrNothing
<1>3. QED
  BY <1>1, <1>2

(* The same of the next state.                                             *)
LEMMA KnownIsNext == FdbInv' => KnownIsKnown'
BY KnownIs, PTL

(* A step that concerns one address.                                       *)
LEMMA BecomesStep ==
  ASSUME FdbInv, FdbInv', NEW m \in Macs, NEW x,
         disturbed' \in {disturbed, disturbed \cup {m}},
         \A n \in Macs \ {m} : FdbEntries(n)' = FdbEntries(n),
         m \notin disturbed' => Known(m)' = x
  PROVE  Service!Becomes(m, x)
<1>1. \A n \in Macs \ {m} : KnownOf(n)' = KnownOf(n)
  BY KnownIs, KnownIsNext DEF KnownIsKnown, Known
<1>2. KnownOf(m)' = IF m \in disturbed' THEN {} ELSE x
  BY KnownIsNext DEF KnownIsKnown, Known
<1>3. QED
  BY <1>1, <1>2 DEF Service!Becomes, fdb

-----------------------------------------------------------------------------
(***************************************************************************)
(* Requests.                                                               *)
(***************************************************************************)
(* The address of a call is one of those that OVS names.                   *)
MacInv == \A t \in Threads : info[t].mac_addr \in Macs

(* The calls of the other threads are the same requests as before.         *)
LEMMA OtherRequests ==
  ASSUME NEW t \in Threads,
         \A u \in Threads \ {t} : pc'[u] = pc[u] /\ insert'[u] = insert[u] /\ info'[u] = info[u]
  PROVE  request' = [request EXCEPT ![t] = RequestOf(t)']
<1>1. \A u \in Threads \ {t} : RequestOf(u)' = RequestOf(u)
  BY DEF RequestOf, InProgress, ImageOf
<1>2. QED
  BY <1>1 DEF request

(* A step of a call that leaves the state of its address as it is, or      *)
(* loses it, and goes on or ends.                                          *)
LEMMA QuietStep ==
  ASSUME FdbInv, FdbInv', MacInv, NEW t \in Threads, InProgress(t), NEW m, m = info[t].mac_addr,
         disturbed' \in {disturbed, disturbed \cup {m}},
         \A n \in Macs \ {m} : FdbEntries(n)' = FdbEntries(n),
         m \notin disturbed' => Known(m)' = Known(m),
         \A u \in Threads \ {t} : pc'[u] = pc[u] /\ insert'[u] = insert[u] /\ info'[u] = info[u],
         RequestOf(t)' = RequestOf(t) \/ ~InProgress(t)'
  PROVE  Service!Next
<1>1. m \in Macs /\ fdb[m] = Known(m)
  BY KnownIs DEF MacInv, KnownIsKnown, fdb
<1>2. request[t].mac = m /\ request[t] # Service!NoRequest
  BY DEF request, RequestOf, Service!NoRequest
<1>3. Service!Becomes(request[t].mac, fdb[request[t].mac])
  BY <1>1, <1>2, BecomesStep
<1>4. CASE RequestOf(t)' = RequestOf(t)
  <2>1. request' = request
    BY <1>4, OtherRequests DEF request
  <2>2. QED
    BY <1>2, <1>3, <2>1 DEF Service!Lose, Service!Next
<1>5. CASE ~InProgress(t)'
  <2>1. RequestOf(t)' = Service!NoRequest
    BY <1>5 DEF RequestOf, Service!NoRequest
  <2>2. QED
    BY <1>2, <1>3, <2>1, OtherRequests DEF Service!Complete, Service!Next
<1>6. QED
  BY <1>4, <1>5

(* Initially no call is in progress.                                       *)
LEMMA MacInit == FdbInit => MacInv
<1>1. NoInfo \in DeleteInfos
  BY InfosAssumption DEF NoInfo
<1>2. QED
  BY <1>1 DEF FdbInit, MacInv, Macs

(* Calls are about the addresses of their arguments, in Macs.              *)
LEMMA MacStep == FdbInv /\ MacInv /\ [Next]_vars => MacInv'
<1> SUFFICES ASSUME FdbInv, MacInv, [Next]_vars PROVE MacInv'
  OBVIOUS
<1>1. info \in [Threads -> LearnInfo]
  BY DEF FdbInv, FdbTypeOK
<1>2. ASSUME NEW t \in Threads, NEW k, info' = [info EXCEPT ![t] = k], k.mac_addr \in Macs
      PROVE  MacInv'
  BY <1>1, <1>2 DEF MacInv
<1>3. CASE UNCHANGED info
  BY <1>3 DEF MacInv
<1>4. ASSUME NEW t \in Threads, StartCall(t)
      PROVE  MacInv'
  <2>1. PICK i \in InsertInfos \cup DeleteInfos : info' = [info EXCEPT ![t] = i]
    BY <1>4 DEF StartCall, ConfigFdbEntry
  <2>2. QED
    BY <1>2, <2>1 DEF Macs
<1>5. ASSUME NEW t \in Threads, EndCall(t)
      PROVE  MacInv'
  <2>1. NoInfo \in DeleteInfos
    BY InfosAssumption DEF NoInfo
  <2>2. QED
    BY <1>2, <1>5, <2>1 DEF EndCall, Macs
<1>6. ASSUME NEW t \in Threads, ReadL2ToTunnelV4(t)
      PROVE  MacInv'
  <2>1. PICK b : info' = [info EXCEPT ![t] = [info[t] EXCEPT !.is_tunnel = b]]
    BY <1>6 DEF ReadL2ToTunnelV4
  <2>2. [info[t] EXCEPT !.is_tunnel = b].mac_addr = info[t].mac_addr
    BY <1>1 DEF LearnInfo
  <2>3. QED
    BY <1>2, <2>1, <2>2 DEF MacInv
<1>7. ASSUME NEW t \in Threads, ReadL2ToTunnelV6(t)
      PROVE  MacInv'
  <2>1. \E k \in {info[t], FoundInV6(info[t])} : info' = [info EXCEPT ![t] = k]
    BY <1>7 DEF ReadL2ToTunnelV6
  <2>2. FoundInV6(info[t]).mac_addr = info[t].mac_addr
    BY <1>1 DEF LearnInfo, FoundInV6
  <2>3. QED
    BY <1>2, <2>1, <2>2 DEF MacInv
<1>8. ASSUME NEW t \in Threads, UpdateFdbSrcPortInfo(t)
      PROVE  MacInv'
  <2>1. PICK k \in {info[t], [info[t] EXCEPT !.src_port = HostPort(info[t])]} :
          info' = [info EXCEPT ![t] = k]
    BY <1>1, <1>8 DEF UpdateFdbSrcPortInfo
  <2>2. [info[t] EXCEPT !.src_port = HostPort(info[t])].mac_addr = info[t].mac_addr
    BY <1>1 DEF LearnInfo
  <2>3. QED
    BY <1>2, <2>1, <2>2 DEF MacInv
<1>9. QED
  BY <1>3, <1>4, <1>5, <1>6, <1>7, <1>8
     DEF Next, CallStep, FetchP4Info, ReadFdbTxEntry, WriteFdbTunnel, WriteL2Tunnel,
         WriteFdbRxVlan, WriteFdbTxVlan, WriteFdbSmac, Write, fdbVars, vars

-----------------------------------------------------------------------------
(***************************************************************************)
(* One lemma per action.                                                   *)
(***************************************************************************)
(* Steps that leave the tables and the history alone.                      *)
LEMMA SameKnown ==
  ASSUME UNCHANGED <<entries, disturbed>>
  PROVE  \A m : FdbEntries(m)' = FdbEntries(m) /\ Known(m)' = Known(m)
BY DEF FdbEntries, Known

(* Starting a call is a Call of the service.                               *)
LEMMA StartRefines ==
  ASSUME FdbInv, FdbInv', NEW t \in Threads, StartCall(t)
  PROVE  Service!Next
<1>1. PICK ins \in BOOLEAN, i \in InsertInfos \cup DeleteInfos :
        ConfigFdbEntry(t, ins, i) /\ (ins => i \in InsertInfos)
  BY DEF StartCall
<1>2. /\ pc[t] = "idle" /\ pc'[t] = "arbitrate" /\ insert'[t] = ins /\ info'[t] = i
      /\ \A u \in Threads \ {t} : pc'[u] = pc[u] /\ insert'[u] = insert[u] /\ info'[u] = info[u]
      /\ entries' = entries
      /\ disturbed' \in {disturbed, disturbed \cup {i.mac_addr}}
  BY <1>1 DEF ConfigFdbEntry, BeginSession, Goto, DisturbIf, FdbInv, FdbTypeOK
<1>3. i.mac_addr \in Macs /\ fdb[i.mac_addr] = Known(i.mac_addr)
  BY KnownIs DEF Macs, KnownIsKnown, fdb
<1>4. RequestOf(t)' = [op |-> IF ins THEN "learn" ELSE "forget", mac |-> i.mac_addr,
                       image |-> IF ins /\ (i.is_tunnel \/ HasHostPort(i)) THEN FdbImage(i) ELSE {}]
  BY <1>2 DEF RequestOf, InProgress, ImageOf
<1>5. RequestOf(t)' \in Service!Requests
  <2>1. (IF ins /\ (i.is_tunnel \/ HasHostPort(i)) THEN FdbImage(i) ELSE {}) \in ImagesOf
    BY <1>1 DEF ImagesOf
  <2>2. QED
    BY <1>3, <1>4, <2>1 DEF Service!Requests
<1>6. request[t] = Service!NoRequest /\ request' = [request EXCEPT ![t] = RequestOf(t)']
  BY <1>2, OtherRequests DEF request, RequestOf, InProgress, Service!NoRequest
<1>7. request'[t] = RequestOf(t)'
  BY DEF request
<1>8. Service!Becomes(i.mac_addr, fdb[i.mac_addr])
  <2>1. \A m : FdbEntries(m)' = FdbEntries(m)
    BY <1>2 DEF FdbEntries
  <2>2. i.mac_addr \notin disturbed' => Known(i.mac_addr)' = Known(i.mac_addr)
    BY <1>2, <2>1 DEF Known
  <2>3. QED
    BY <1>2, <1>3, <2>1, <2>2, BecomesStep
<1>9. request'[t].mac = i.mac_addr
  BY <1>4, <1>7
<1>10. QED
  BY <1>5, <1>6, <1>7, <1>8, <1>9 DEF Service!Call, Service!Next

(* Steps that the service does not see.                                    *)
LEMMA StutterStep ==
  ASSUME FdbInv, FdbInv', UNCHANGED <<entries, disturbed>>,
         \A u \in Threads : RequestOf(u)' = RequestOf(u)
  PROVE  UNCHANGED Service!vars
<1>1. \A m \in Macs : KnownOf(m)' = KnownOf(m)
  BY SameKnown, KnownIs, KnownIsNext DEF KnownIsKnown
<1>2. fdb' = fdb /\ request' = request
  BY <1>1 DEF fdb, request
<1>3. QED
  BY <1>2 DEF Service!vars

(* Closing the session is invisible: the request ended with the return.    *)
LEMMA EndRefines ==
  ASSUME FdbInv, FdbInv', NEW t \in Threads, EndCall(t)
  PROVE  UNCHANGED Service!vars
<1>1. /\ pc[t] = "return" /\ pc'[t] = "idle" /\ UNCHANGED <<entries, disturbed>>
      /\ \A u \in Threads \ {t} : pc'[u] = pc[u] /\ insert'[u] = insert[u] /\ info'[u] = info[u]
  BY DEF EndCall, EndSession, Goto, FdbInv, FdbTypeOK
<1>2. \A u \in Threads : RequestOf(u)' = RequestOf(u)
  BY <1>1 DEF RequestOf, InProgress, ImageOf
<1>3. QED
  BY <1>1, <1>2, StutterStep

(* Opening a session, or failing to, changes no address.                   *)
LEMMA SessionRefines ==
  ASSUME FdbInv, FdbInv', MacInv, NEW t \in Threads, SessionStep(t), UNCHANGED fdbVars
  PROVE  Service!Next
<1>1. /\ pc[t] = "arbitrate" /\ pc'[t] \in {"pipeline", "return"}
      /\ UNCHANGED <<entries, disturbed, insert, info>>
      /\ \A u \in Threads \ {t} : pc'[u] = pc[u]
  BY DEF SessionStep, Arbitrate, ArbitrationFails, Return, Goto, fdbVars, FdbInv, FdbTypeOK
<1>2. InProgress(t) /\ (RequestOf(t)' = RequestOf(t) \/ ~InProgress(t)')
  BY <1>1 DEF RequestOf, InProgress, ImageOf
<1>3. QED
  BY <1>1, <1>2, SameKnown, QuietStep

(* Nor does fetching the P4Info.                                           *)
LEMMA FetchRefines ==
  ASSUME FdbInv, FdbInv', MacInv, NEW t \in Threads, FetchP4Info(t)
  PROVE  Service!Next
<1>1. /\ pc[t] = "pipeline" /\ pc'[t] \in {"readTx", "readL2V4"}
      /\ UNCHANGED <<entries, disturbed, insert, info>>
      /\ \A u \in Threads \ {t} : pc'[u] = pc[u]
  BY DEF FetchP4Info, GetPipelineConfig, Goto, fdbVars, FdbInv, FdbTypeOK
<1>2. InProgress(t) /\ RequestOf(t)' = RequestOf(t)
  BY <1>1 DEF RequestOf, InProgress, ImageOf
<1>3. QED
  BY <1>1, <1>2, SameKnown, QuietStep

(* A read concerns the address of its call only, and at most loses it.     *)
LEMMA ReadStep ==
  ASSUME FdbInv, FdbInv', MacInv, NEW t \in Threads, NEW e, NEW ok, Read(t, e, ok),
         InProgress(t), RequestOf(t)' = RequestOf(t) \/ ~InProgress(t)',
         \A u \in Threads \ {t} : pc'[u] = pc[u] /\ info'[u] = info[u]
  PROVE  Service!Next
<1>1. PICK m : m = info[t].mac_addr
  OBVIOUS
<1>2. /\ entries' = entries /\ insert' = insert
      /\ disturbed' \in {disturbed, disturbed \cup {m}}
  BY <1>1 DEF Read, DisturbIf
<1>3. \A n : FdbEntries(n)' = FdbEntries(n)
  BY <1>2 DEF FdbEntries
<1>4. m \notin disturbed' => Known(m)' = Known(m)
  BY <1>2, <1>3 DEF Known
<1>5. QED
  BY <1>1, <1>2, <1>3, <1>4, QuietStep

(* Nor do the reads that classify a delete,                                *)
LEMMA ReadTxRefines ==
  ASSUME FdbInv, FdbInv', MacInv, NEW t \in Threads, ReadFdbTxEntry(t)
  PROVE  Service!Next
<1>1. PICK ok \in BOOLEAN :
        /\ Read(t, TxEntryToRead(info[t]), ok)
        /\ Goto(t, IF ok THEN "return" ELSE IF info[t].is_tunnel THEN "writeTunnel" ELSE "writeRx")
  BY DEF ReadFdbTxEntry
<1>2. /\ pc[t] = "readTx" /\ pc'[t] \in {"return", "writeTunnel", "writeRx"}
      /\ info' = info /\ insert' = insert
      /\ \A u \in Threads \ {t} : pc'[u] = pc[u]
  BY <1>1 DEF ReadFdbTxEntry, Read, Goto, FdbInv, FdbTypeOK
<1>3. InProgress(t) /\ (RequestOf(t)' = RequestOf(t) \/ ~InProgress(t)')
  BY <1>2 DEF RequestOf, InProgress, ImageOf
<1>4. QED
  BY <1>1, <1>2, <1>3, ReadStep

(* whether they find an IPv4 tunnel entry                                  *)
LEMMA ReadL2V4Refines ==
  ASSUME FdbInv, FdbInv', MacInv, NEW t \in Threads, ReadL2ToTunnelV4(t)
  PROVE  Service!Next
<1>1. PICK ok \in BOOLEAN :
        /\ Read(t, EncodeL2ToTunnelV4(info[t]), ok)
        /\ info' = [info EXCEPT ![t] = [info[t] EXCEPT !.is_tunnel = info[t].is_tunnel \/ ok]]
        /\ Goto(t, IF info'[t].is_tunnel THEN "writeTunnel" ELSE "readL2V6")
  BY DEF ReadL2ToTunnelV4
<1>2. /\ pc[t] = "readL2V4" /\ pc'[t] \in {"writeTunnel", "readL2V6"}
      /\ insert' = insert /\ ~insert[t]
      /\ \A u \in Threads \ {t} : pc'[u] = pc[u] /\ info'[u] = info[u]
  BY <1>1 DEF ReadL2ToTunnelV4, Read, Goto, FdbInv, FdbTypeOK, ControlInv
<1>3. info'[t].mac_addr = info[t].mac_addr
  <2>1. info \in [Threads -> LearnInfo]
    BY DEF FdbInv, FdbTypeOK
  <2>2. QED
    BY <1>1, <2>1 DEF LearnInfo
<1>4. InProgress(t) /\ RequestOf(t)' = RequestOf(t)
  BY <1>2, <1>3 DEF RequestOf, InProgress
<1>5. QED
  BY <1>1, <1>2, <1>4, ReadStep

(* or an IPv6 one.                                                         *)
LEMMA ReadL2V6Refines ==
  ASSUME FdbInv, FdbInv', MacInv, NEW t \in Threads, ReadL2ToTunnelV6(t)
  PROVE  Service!Next
<1>1. PICK ok \in BOOLEAN :
        /\ Read(t, EncodeL2ToTunnelV6(info[t]), ok)
        /\ info' = [info EXCEPT ![t] = IF ok THEN FoundInV6(info[t]) ELSE info[t]]
        /\ Goto(t, IF ok THEN "writeTunnel" ELSE "writeTxVlan")
  BY DEF ReadL2ToTunnelV6
<1>2. /\ pc[t] = "readL2V6" /\ pc'[t] \in {"writeTunnel", "writeTxVlan"}
      /\ insert' = insert /\ ~insert[t]
      /\ \A u \in Threads \ {t} : pc'[u] = pc[u] /\ info'[u] = info[u]
  BY <1>1 DEF ReadL2ToTunnelV6, Read, Goto, FdbInv, FdbTypeOK, ControlInv
<1>3. info'[t].mac_addr = info[t].mac_addr
  <2>1. info \in [Threads -> LearnInfo]
    BY DEF FdbInv, FdbTypeOK
  <2>2. FoundInV6(info[t]).mac_addr = info[t].mac_addr
    BY <2>1 DEF LearnInfo, FoundInV6
  <2>3. QED
    BY <1>1, <2>1, <2>2
<1>4. InProgress(t) /\ RequestOf(t)' = RequestOf(t)
  BY <1>2, <1>3 DEF RequestOf, InProgress
<1>5. QED
  BY <1>1, <1>2, <1>4, ReadStep

(* Resolving the host port keeps what the call asks for, or ends it.       *)
LEMMA SrcPortRefines ==
  ASSUME FdbInv, FdbInv', MacInv, NEW t \in Threads, UpdateFdbSrcPortInfo(t)
  PROVE  Service!Next
<1>1. PICK i, k : i = info[t] /\ k = info'[t]
  OBVIOUS
<1>2. /\ pc[t] = "readTxAcc" /\ UNCHANGED <<entries, disturbed, insert>>
      /\ \A u \in Threads \ {t} : pc'[u] = pc[u] /\ info'[u] = info[u]
      /\ \/ HasHostPort(i) /\ k = [i EXCEPT !.src_port = HostPort(i)] /\ pc'[t] = "writeTxVlan"
         \/ pc'[t] = "return"
  BY <1>1 DEF UpdateFdbSrcPortInfo, Return, Goto, FdbInv, FdbTypeOK
<1>3. insert[t] /\ ~i.is_tunnel /\ i \in LearnInfo
  BY <1>1, <1>2 DEF FdbInv, ControlInv, FdbTypeOK
<1>4. InProgress(t)
  BY <1>2 DEF InProgress
<1>5. ASSUME HasHostPort(i), k = [i EXCEPT !.src_port = HostPort(i)], pc'[t] = "writeTxVlan"
      PROVE  RequestOf(t)' = RequestOf(t)
  <2>1. /\ k.mac_addr = i.mac_addr /\ k.bridge_id = i.bridge_id /\ ~k.is_tunnel
    BY <1>3, <1>5 DEF LearnInfo
  <2>2. EncodeFdbSmacTableEntry(k) = EncodeFdbSmacTableEntry(i)
    BY <2>1 DEF EncodeFdbSmacTableEntry
  <2>3. ImageOf(t)' = {EncodeFdbTxVlanTableEntry(k), EncodeFdbSmacTableEntry(k)}
    BY <1>1, <1>5, <2>1 DEF ImageOf
  <2>4. ImageOf(t) = {EncodeFdbTxVlanTableEntry(k), EncodeFdbSmacTableEntry(i)}
    BY <1>1, <1>2, <1>3, <1>5 DEF ImageOf, FdbImage
  <2>5. ImageOf(t)' = ImageOf(t)
    BY <2>2, <2>3, <2>4
  <2>6. QED
    BY <1>1, <1>2, <1>3, <1>5, <2>1, <2>5 DEF RequestOf, InProgress
<1>6. RequestOf(t)' = RequestOf(t) \/ ~InProgress(t)'
  BY <1>2, <1>5 DEF InProgress
<1>7. QED
  BY <1>2, <1>4, <1>6, SameKnown, QuietStep

(* A write concerns the address of its call only.                          *)
LEMMA WriteLocal ==
  ASSUME FdbInv, NEW t \in Threads, NEW e, NEW label, Write(t, e, label),
         NEW m, m = info[t].mac_addr, e.table = "none" \/ e.key[1] = m
  PROVE  /\ disturbed' \in {disturbed, disturbed \cup {m}}
         /\ \A n \in Macs \ {m} : FdbEntries(n)' = FdbEntries(n)
         /\ \A u \in Threads \ {t} : pc'[u] = pc[u] /\ insert'[u] = insert[u] /\ info'[u] = info[u]
         /\ entries' = entries /\ m \notin disturbed' => Known(m)' = Known(m)
         /\ entries' # entries => CanWrite(t) /\ wrote'[t]
<1>1. disturbed' \in {disturbed, disturbed \cup {m}}
  BY DEF Write, DisturbIf
<1>2. ASSUME NEW n \in Macs \ {m} PROVE FdbEntries(n)' = FdbEntries(n)
  BY WriteFrame
<1>3. \A u \in Threads \ {t} : pc'[u] = pc[u] /\ insert'[u] = insert[u] /\ info'[u] = info[u]
  BY DEF Write, Goto, FdbInv, FdbTypeOK
<1>4. entries' = entries /\ m \notin disturbed' => Known(m)' = Known(m)
  BY <1>1 DEF Known, FdbEntries
<1>5. entries' # entries => CanWrite(t) /\ wrote'[t]
  BY WriteOutcome, WriteCall DEF FdbInv
<1>6. QED
  BY <1>1, <1>2, <1>3, <1>4, <1>5

(* A write that does not change what is known.                             *)
LEMMA QuietWrite ==
  ASSUME FdbInv, FdbInv', MacInv, NEW t \in Threads, NEW e, NEW label, Write(t, e, label),
         NEW m, m = info[t].mac_addr, e.table = "none" \/ e.key[1] = m,
         InProgress(t), RequestOf(t)' = RequestOf(t) \/ ~InProgress(t)',
         entries' # entries /\ m \notin disturbed' => Known(m)' = Known(m)
  PROVE  Service!Next
<1>1. /\ disturbed' \in {disturbed, disturbed \cup {m}}
      /\ \A n \in Macs \ {m} : FdbEntries(n)' = FdbEntries(n)
      /\ \A u \in Threads \ {t} : pc'[u] = pc[u] /\ insert'[u] = insert[u] /\ info'[u] = info[u]
      /\ m \notin disturbed' => Known(m)' = Known(m)
  BY WriteLocal
<1>2. QED
  BY <1>1, QuietStep

(* The first write of a delete, which makes the address unknown.           *)
LEMMA ForgetWrite ==
  ASSUME FdbInv, FdbInv', MacInv, NEW t \in Threads, NEW e, NEW label, Write(t, e, label),
         NEW m, m = info[t].mac_addr, e.table = "none" \/ e.key[1] = m,
         InProgress(t), ~insert[t], RequestOf(t)' = RequestOf(t),
         entries' # entries /\ m \notin disturbed' => Known(m)' = {}
  PROVE  Service!Next
<1>1. CASE m \notin disturbed' => Known(m)' = {}
  <2>1. m \in Macs
    BY DEF MacInv
  <2>2. Service!Becomes(m, {})
    BY <1>1, <2>1, WriteLocal, BecomesStep
  <2>3. request[t].op = "forget" /\ request[t].mac = m
    BY DEF request, RequestOf
  <2>4. request' = request
    <3>1. \A u \in Threads \ {t} : pc'[u] = pc[u] /\ insert'[u] = insert[u] /\ info'[u] = info[u]
      BY WriteLocal
    <3>2. request' = [request EXCEPT ![t] = RequestOf(t)']
      BY <3>1, OtherRequests
    <3>3. request = [request EXCEPT ![t] = RequestOf(t)]
      BY DEF request
    <3>4. QED
      BY <3>2, <3>3
  <2>5. QED
    BY <2>2, <2>3, <2>4 DEF Service!Forget, Service!Next
<1>2. CASE ~(m \notin disturbed' => Known(m)' = {})
  BY <1>2, QuietWrite
<1>3. QED
  BY <1>1, <1>2

(* The facts about a call on an undisturbed address that the writes use.   *)
LEMMA CallFacts ==
  ASSUME FdbInv, FdbInv', NEW t \in Threads, NEW e, NEW label, Write(t, e, label), label # "idle",
         pc[t] # "idle", NEW i, i = info[t], i.mac_addr \notin disturbed'
  PROVE  /\ i \in LearnInfo /\ insert[t] \in BOOLEAN
         /\ pc'[t] = label /\ insert'[t] = insert[t] /\ info'[t] = i
         /\ ControlInv(t, i) /\ UnwrittenInv(t, i) /\ WrittenInv(t, i) /\ WrittenInv(t, i)'
<1>1. /\ i \in LearnInfo /\ insert[t] \in BOOLEAN /\ ControlInv(t, i) /\ CallInv(t, i)
  BY DEF FdbInv, FdbTypeOK
<1>2. pc'[t] = label /\ insert'[t] = insert[t] /\ info'[t] = i /\ i.mac_addr \notin disturbed
  BY WriteCall DEF FdbInv
<1>3. CallInv(t, i)'
  BY <1>2 DEF FdbInv
<1>4. QED
  BY <1>1, <1>2, <1>3 DEF CallInv

(* The entries that a delete has left are unknown.                         *)
LEMMA RestUnknown ==
  ASSUME NEW i, NEW S, \A e \in S : e.table # "none",
         \A e \in S : SameKey(PrepareL2TunnelTableEntry(i), e) \/ SameKey(EncodeFdbSmacTableEntry(i), e)
  PROVE  S \in ImagesOf => S = {}
<1>1. \A e \in S : e.table \notin {"L2_FWD_TX_TABLE", "none"}
  BY EncodedKeys, L2Keys DEF SameKey
<1>2. QED
  BY <1>1, NotAnImage

(* An address of which a delete has left a part is unknown.                *)
LEMMA DeletedUnknown ==
  ASSUME NEW i, NEW m, \A e \in entries : e.table # "none",
         \/ OnlyKeysOf(m, {PrepareL2TunnelTableEntry(i), EncodeFdbSmacTableEntry(i)})
         \/ OnlyKeysOf(m, {EncodeFdbSmacTableEntry(i)})
  PROVE  Known(m) = {}
<1>1. FdbEntries(m) \in ImagesOf => FdbEntries(m) = {}
  BY RestUnknown DEF OnlyKeysOf, FdbEntries
<1>2. QED
  BY <1>1 DEF Known

(* The same of the next state.                                             *)
LEMMA DeletedUnknownNext ==
  ASSUME NEW i, NEW m, \A e \in entries' : e.table # "none",
         \/ OnlyKeysOf(m, {PrepareL2TunnelTableEntry(i), EncodeFdbSmacTableEntry(i)})'
         \/ OnlyKeysOf(m, {EncodeFdbSmacTableEntry(i)})'
  PROVE  Known(m)' = {}
<1>1. FdbEntries(m)' \in ImagesOf => FdbEntries(m)' = {}
  BY RestUnknown DEF OnlyKeysOf, FdbEntries
<1>2. QED
  BY <1>1 DEF Known

(* So are those that an insert has written before the SMAC entry.          *)
LEMMA PartUnknown ==
  ASSUME NEW i \in LearnInfo, NEW S,
         S \in {{}, {PrepareFdbTunnelTableEntry(i, TRUE)}, {EncodeFdbTxVlanTableEntry(i)},
                {PrepareFdbTunnelTableEntry(i, TRUE), PrepareL2TunnelTableEntry(i)}}
  PROVE  S \in ImagesOf => S = {}
<1>1. \A e \in S : e.table # "L2_FWD_SMAC_TABLE"
  BY EncodedKeys, L2Keys, TunnelTxTable
<1>2. QED
  BY <1>1, NotAnImage

(* The first write on the tunnel path: quiet in an insert, Forget in a     *)
(* delete.                                                                 *)
LEMMA WriteTunnelRefines ==
  ASSUME FdbInv, FdbInv', MacInv, NEW t \in Threads, WriteFdbTunnel(t)
  PROVE  Service!Next
<1>1. PICK i, e, m : i = info[t] /\ e = PrepareFdbTunnelTableEntry(i, insert[t]) /\ m = i.mac_addr
  OBVIOUS
<1>2. Write(t, e, "writeL2") /\ pc[t] = "writeTunnel"
  BY <1>1 DEF WriteFdbTunnel
<1>3. /\ i \in LearnInfo /\ i.tunnel_type \in TunnelTypes /\ insert[t] \in BOOLEAN
      /\ ControlInv(t, i) /\ i.is_tunnel
  BY <1>1, <1>2 DEF FdbInv, FdbTypeOK, ControlInv, LearnInfo
<1>4. IF insert[t] /\ i.tunnel_type = "UNKNOWN" THEN e.table = "none" ELSE e.key[1] = m
  BY <1>1, <1>3, TunnelTxKeys DEF EmptyEntry, Entry
<1>5. InProgress(t) /\ RequestOf(t)' = RequestOf(t)
  <2>1. pc'[t] = "writeL2" /\ insert'[t] = insert[t] /\ info'[t] = info[t]
    BY <1>2, WriteCall DEF FdbInv
  <2>2. QED
    BY <1>2, <2>1 DEF InProgress, RequestOf, ImageOf
<1>6. CASE insert[t]
  <2>1. ASSUME entries' # entries, m \notin disturbed'
        PROVE  Known(m)' = Known(m)
    <3>0. /\ pc'[t] = "writeL2" /\ insert'[t] = insert[t]
          /\ UnwrittenInv(t, i) /\ WrittenInv(t, i) /\ WrittenInv(t, i)'
      BY <1>1, <1>2, <2>1, CallFacts
    <3>1. CanWrite(t) /\ wrote'[t] /\ e.table # "none"
      BY <1>1, <1>2, <1>4, <2>1, WriteLocal, WriteOutcome DEF Accepts, WellFormed
    <3>2. ~wrote[t] /\ p4info[t] /\ i.tunnel_type # "UNKNOWN"
      BY <1>2, <1>3, <1>4, <1>6, <3>1 DEF ControlInv, CanWrite
    <3>3. FdbEntries(m) = {}
      BY <1>1, <1>2, <1>6, <3>0, <3>2 DEF UnwrittenInv
    <3>4. FdbEntries(m)' = {PrepareFdbTunnelTableEntry(i, TRUE)}
      BY <1>1, <1>3, <1>6, <3>0, <3>1 DEF WrittenInv
    <3>5. QED
      BY <1>3, <3>3, <3>4, PartUnknown DEF Known
  <2>2. QED
    BY <1>1, <1>2, <1>4, <1>5, <2>1, QuietWrite
<1>7. CASE ~insert[t]
  <2>1. ASSUME entries' # entries, m \notin disturbed'
        PROVE  Known(m)' = {}
    <3>0. /\ pc'[t] = "writeL2" /\ insert'[t] = insert[t]
          /\ UnwrittenInv(t, i) /\ WrittenInv(t, i) /\ WrittenInv(t, i)'
      BY <1>1, <1>2, <2>1, CallFacts
    <3>1. wrote'[t]
      BY <1>1, <1>2, <1>4, <2>1, WriteLocal
    <3>2. OnlyKeysOf(m, {PrepareL2TunnelTableEntry(i), EncodeFdbSmacTableEntry(i)})'
      BY <1>1, <1>7, <3>0, <3>1 DEF WrittenInv
    <3>3. QED
      BY <3>2, DeletedUnknownNext DEF FdbInv
  <2>2. QED
    BY <1>1, <1>2, <1>4, <1>5, <1>7, <2>1, ForgetWrite
<1>8. QED
  BY <1>3, <1>6, <1>7

(* The second write on the tunnel path is quiet.                           *)
LEMMA WriteL2Refines ==
  ASSUME FdbInv, FdbInv', MacInv, NEW t \in Threads, WriteL2Tunnel(t)
  PROVE  Service!Next
<1>1. PICK i, e, m : i = info[t] /\ e = PrepareL2TunnelTableEntry(i) /\ m = i.mac_addr
  OBVIOUS
<1>2. Write(t, e, "writeSmac") /\ pc[t] = "writeL2"
  BY <1>1 DEF WriteL2Tunnel
<1>3. i \in LearnInfo /\ insert[t] \in BOOLEAN /\ i.is_tunnel
  BY <1>1, <1>2 DEF FdbInv, FdbTypeOK, ControlInv
<1>4. e.key[1] = m
  BY <1>1, L2Keys
<1>5. InProgress(t) /\ RequestOf(t)' = RequestOf(t)
  <2>1. pc'[t] = "writeSmac" /\ insert'[t] = insert[t] /\ info'[t] = info[t]
    BY <1>2, WriteCall DEF FdbInv
  <2>2. QED
    BY <1>1, <1>2, <1>3, <2>1 DEF InProgress, RequestOf, ImageOf
<1>6. ASSUME entries' # entries, m \notin disturbed'
      PROVE  Known(m)' = Known(m)
  <2>0. /\ pc'[t] = "writeSmac" /\ insert'[t] = insert[t]
        /\ UnwrittenInv(t, i) /\ WrittenInv(t, i) /\ WrittenInv(t, i)'
    BY <1>1, <1>2, <1>6, CallFacts
  <2>1. CanWrite(t) /\ wrote'[t]
    BY <1>1, <1>2, <1>4, <1>6, WriteLocal
  <2>2. wrote[t]
    BY <1>1, <1>2, <2>0, <2>1 DEF UnwrittenInv
  <2>3. CASE insert[t]
    <3>1. FdbEntries(m) = {PrepareFdbTunnelTableEntry(i, TRUE)}
      BY <1>1, <1>2, <1>3, <2>0, <2>2, <2>3 DEF WrittenInv
    <3>2. FdbEntries(m)' = {PrepareFdbTunnelTableEntry(i, TRUE), PrepareL2TunnelTableEntry(i)}
      BY <1>1, <1>3, <2>0, <2>1, <2>3 DEF WrittenInv
    <3>3. QED
      BY <1>3, <3>1, <3>2, PartUnknown DEF Known
  <2>4. CASE ~insert[t]
    <3>1. OnlyKeysOf(m, {PrepareL2TunnelTableEntry(i), EncodeFdbSmacTableEntry(i)})
      BY <1>1, <1>2, <2>0, <2>2, <2>4 DEF WrittenInv
    <3>2. OnlyKeysOf(m, {EncodeFdbSmacTableEntry(i)})'
      BY <1>1, <1>3, <2>0, <2>1, <2>4 DEF WrittenInv
    <3>3. Known(m) = {} /\ Known(m)' = {}
      BY <3>1, <3>2, DeletedUnknown, DeletedUnknownNext DEF FdbInv
    <3>4. QED
      BY <3>3
  <2>5. QED
    BY <1>3, <2>3, <2>4
<1>7. QED
  BY <1>1, <1>2, <1>4, <1>5, <1>6, QuietWrite

(* RX entries do not make up a learned address.                            *)
LEMMA WriteRxRefines ==
  ASSUME FdbInv, FdbInv', MacInv, NEW t \in Threads, WriteFdbRxVlan(t)
  PROVE  Service!Next
<1>1. PICK i, e, m : i = info[t] /\ e = EncodeFdbRxVlanTableEntry(i) /\ m = i.mac_addr
  OBVIOUS
<1>2. Write(t, e, "readTxAcc") /\ pc[t] = "writeRx"
  BY <1>1 DEF WriteFdbRxVlan
<1>3. e.key[1] = m /\ e.table \notin FdbTables
  <2>1. e.key = <<m, i.bridge_id>> /\ e.table = "L2_FWD_RX_TABLE"
    BY <1>1, EncodedKeys
  <2>2. QED
    BY <2>1 DEF FdbTables
<1>4. InProgress(t) /\ RequestOf(t)' = RequestOf(t)
  <2>1. pc'[t] = "readTxAcc" /\ insert'[t] = insert[t] /\ info'[t] = info[t]
    BY <1>2, WriteCall DEF FdbInv
  <2>2. QED
    BY <1>2, <2>1 DEF InProgress, RequestOf, ImageOf
<1>5. FdbEntries(m)' = FdbEntries(m)
  BY <1>2, <1>3, WriteOutcome DEF FdbEntries, Apply, SameKey
<1>6. m \notin disturbed' => Known(m)' = Known(m)
  BY <1>1, <1>2, <1>3, <1>5, WriteLocal DEF Known
<1>7. QED
  BY <1>1, <1>2, <1>3, <1>4, <1>6, QuietWrite

(* The TX write on the VLAN path: quiet in an insert, Forget in a delete.  *)
LEMMA WriteTxVlanRefines ==
  ASSUME FdbInv, FdbInv', MacInv, NEW t \in Threads, WriteFdbTxVlan(t)
  PROVE  Service!Next
<1>1. PICK i, e, m : i = info[t] /\ e = EncodeFdbTxVlanTableEntry(i) /\ m = i.mac_addr
  OBVIOUS
<1>2. Write(t, e, "writeSmac") /\ pc[t] = "writeTxVlan"
  BY <1>1 DEF WriteFdbTxVlan
<1>3. i \in LearnInfo /\ insert[t] \in BOOLEAN /\ ~i.is_tunnel
  BY <1>1, <1>2 DEF FdbInv, FdbTypeOK, ControlInv
<1>4. e.key[1] = m
  <2>1. e.key = <<m, i.bridge_id>>
    BY <1>1, EncodedKeys
  <2>2. QED
    BY <2>1
<1>5. InProgress(t) /\ RequestOf(t)' = RequestOf(t)
  <2>1. pc'[t] = "writeSmac" /\ insert'[t] = insert[t] /\ info'[t] = info[t]
    BY <1>2, WriteCall DEF FdbInv
  <2>2. QED
    BY <1>1, <1>2, <1>3, <2>1 DEF InProgress, RequestOf, ImageOf
<1>6. CASE insert[t]
  <2>1. ASSUME entries' # entries, m \notin disturbed'
        PROVE  Known(m)' = Known(m)
    <3>0. /\ pc'[t] = "writeSmac" /\ insert'[t] = insert[t]
          /\ UnwrittenInv(t, i) /\ WrittenInv(t, i) /\ WrittenInv(t, i)'
      BY <1>1, <1>2, <2>1, CallFacts
    <3>1. CanWrite(t) /\ wrote'[t]
      BY <1>1, <1>2, <1>4, <2>1, WriteLocal
    <3>2. wrote[t]
      BY <1>1, <1>2, <1>6, <3>0, <3>1 DEF UnwrittenInv
    <3>3. FdbEntries(m) = {}
      BY <1>1, <1>2, <1>3, <1>6, <3>0, <3>2 DEF WrittenInv
    <3>4. FdbEntries(m)' = {EncodeFdbTxVlanTableEntry(i)}
      BY <1>1, <1>3, <1>6, <3>0, <3>1 DEF WrittenInv
    <3>5. QED
      BY <1>3, <3>3, <3>4, PartUnknown DEF Known
  <2>2. QED
    BY <1>1, <1>2, <1>4, <1>5, <2>1, QuietWrite
<1>7. CASE ~insert[t]
  <2>1. ASSUME entries' # entries, m \notin disturbed'
        PROVE  Known(m)' = {}
    <3>0. /\ pc'[t] = "writeSmac" /\ insert'[t] = insert[t]
          /\ UnwrittenInv(t, i) /\ WrittenInv(t, i) /\ WrittenInv(t, i)'
      BY <1>1, <1>2, <2>1, CallFacts
    <3>1. wrote'[t]
      BY <1>1, <1>2, <1>4, <2>1, WriteLocal
    <3>2. OnlyKeysOf(m, {EncodeFdbSmacTableEntry(i)})'
      BY <1>1, <1>7, <3>0, <3>1 DEF WrittenInv
    <3>3. QED
      BY <3>2, DeletedUnknownNext DEF FdbInv
  <2>2. QED
    BY <1>1, <1>2, <1>4, <1>5, <1>7, <2>1, ForgetWrite
<1>8. QED
  BY <1>3, <1>6, <1>7

(* The last write of an insert makes the address known, as the call asked. *)
LEMMA LearnWrite ==
  ASSUME FdbInv, FdbInv', MacInv, NEW t \in Threads, NEW i, i = info[t],
         NEW e, e = EncodeFdbSmacTableEntry(i), Write(t, e, "return"), pc[t] = "writeSmac",
         insert[t], entries' # entries, NEW m, m = i.mac_addr, m \notin disturbed'
  PROVE  Service!Learn(t)
<1>1. e.key[1] = m /\ e.table = "L2_FWD_SMAC_TABLE"
  <2>1. e.key = <<m, i.bridge_id>> /\ e.table = "L2_FWD_SMAC_TABLE"
    BY EncodedKeys
  <2>2. QED
    BY <2>1
<1>2. i \in LearnInfo /\ ControlInv(t, i) /\ WrittenInv(t, i) /\ UnwrittenInv(t, i) /\ pc'[t] = "return"
  BY CallFacts
<1>3. CanWrite(t)
  BY <1>1, WriteLocal
<1>4. wrote[t]
  BY <1>2, <1>3 DEF UnwrittenInv
<1>5. FdbEntries(m)' = FdbEntries(m) \cup {e}
  <2>1. entries' = entries \cup {e}
    BY WriteOutcome DEF Apply
  <2>2. QED
    BY <1>1, <2>1 DEF FdbEntries, FdbTables
<1>6. FdbEntries(m) \in ImagesOf => FdbEntries(m) = {}
  <2>1. \/ FdbEntries(m) = {PrepareFdbTunnelTableEntry(i, TRUE), PrepareL2TunnelTableEntry(i)}
        \/ FdbEntries(m) = {EncodeFdbTxVlanTableEntry(i)}
    BY <1>4, <1>2 DEF WrittenInv
  <2>2. QED
    BY <1>2, <2>1, PartUnknown
<1>7. ImageOf(t) \in ImagesOf /\ FdbEntries(m)' = ImageOf(t)
  <2>1. CASE i.is_tunnel
    <3>1. FdbEntries(m) = {PrepareFdbTunnelTableEntry(i, TRUE), PrepareL2TunnelTableEntry(i)}
      BY <1>2, <1>4, <2>1 DEF WrittenInv
    <3>2. ImageOf(t) = FdbImage(i) /\ i \in InsertInfos
      BY <1>2, <2>1 DEF ImageOf, ControlInv
    <3>3. FdbImage(i) \in ImagesOf
      BY <2>1, <3>2 DEF ImagesOf
    <3>4. QED
      BY <1>5, <2>1, <3>1, <3>2, <3>3 DEF FdbImage
  <2>2. CASE ~i.is_tunnel
    <3>1. FdbEntries(m) = {EncodeFdbTxVlanTableEntry(i)}
      BY <1>2, <1>4, <2>2 DEF WrittenInv
    <3>2. ImageOf(t) = {EncodeFdbTxVlanTableEntry(i), EncodeFdbSmacTableEntry(i)}
      BY <2>2 DEF ImageOf
    <3>3. PICK j \in InsertInfos : /\ ~j.is_tunnel /\ HasHostPort(j)
                                   /\ i = [j EXCEPT !.src_port = HostPort(j)]
      BY <1>2, <2>2 DEF ControlInv, PortResolved
    <3>4. j.mac_addr = i.mac_addr /\ j.bridge_id = i.bridge_id
      BY <3>3, InfosAssumption DEF LearnInfo
    <3>5. EncodeFdbSmacTableEntry(j) = EncodeFdbSmacTableEntry(i)
      BY <3>4 DEF EncodeFdbSmacTableEntry
    <3>6. FdbImage(j) = ImageOf(t)
      BY <3>2, <3>3, <3>5 DEF FdbImage
    <3>7. FdbImage(j) \in ImagesOf
      BY <3>3 DEF ImagesOf
    <3>8. QED
      BY <1>5, <3>1, <3>2, <3>6, <3>7
  <2>3. QED
    BY <2>1, <2>2
<1>8. /\ m \in Macs /\ fdb[m] = {}
      /\ request[t].op = "learn" /\ request[t].mac = m /\ request[t].image = ImageOf(t)
  <2>1. m \in Macs
    BY DEF MacInv
  <2>2. fdb[m] = {}
    BY <1>6, <2>1, KnownIs DEF KnownIsKnown, fdb, Known
  <2>3. QED
    BY <2>1, <2>2 DEF request, RequestOf, InProgress
<1>9. Service!Becomes(m, ImageOf(t))
  <2>1. Known(m)' = ImageOf(t)
    BY <1>7 DEF Known
  <2>2. QED
    BY <1>1, <1>8, <2>1, WriteLocal, BecomesStep
<1>10. request' = [request EXCEPT ![t] = Service!NoRequest]
  <2>1. RequestOf(t)' = Service!NoRequest
    BY <1>2 DEF RequestOf, InProgress, Service!NoRequest
  <2>2. QED
    BY <1>1, <2>1, WriteLocal, OtherRequests
<1>11. QED
  BY <1>8, <1>9, <1>10 DEF Service!Learn

(* The SMAC write: Learn in an insert, quiet in a delete.                  *)
LEMMA WriteSmacRefines ==
  ASSUME FdbInv, FdbInv', MacInv, NEW t \in Threads, WriteFdbSmac(t)
  PROVE  Service!Next
<1>1. PICK i, e, m : i = info[t] /\ e = EncodeFdbSmacTableEntry(i) /\ m = i.mac_addr
  OBVIOUS
<1>2. Write(t, e, "return") /\ pc[t] = "writeSmac"
  BY <1>1 DEF WriteFdbSmac
<1>3. insert[t] \in BOOLEAN /\ e.key[1] = m
  <2>1. e.key = <<m, i.bridge_id>>
    BY <1>1, EncodedKeys
  <2>2. QED
    BY <2>1 DEF FdbInv, FdbTypeOK
<1>4. InProgress(t) /\ ~InProgress(t)'
  <2>1. pc'[t] = "return"
    BY <1>2, WriteCall DEF FdbInv
  <2>2. QED
    BY <1>2, <2>1 DEF InProgress
<1>5. CASE insert[t] /\ entries' # entries /\ m \notin disturbed'
  BY <1>1, <1>2, <1>5, LearnWrite DEF Service!Next
<1>6. CASE ~(insert[t] /\ entries' # entries /\ m \notin disturbed')
  <2>1. ASSUME entries' # entries, m \notin disturbed'
        PROVE  Known(m)' = Known(m)
    <3>0. /\ pc'[t] = "return" /\ insert'[t] = insert[t]
          /\ UnwrittenInv(t, i) /\ WrittenInv(t, i) /\ WrittenInv(t, i)'
      BY <1>1, <1>2, <2>1, CallFacts
    <3>1. CanWrite(t) /\ ~insert[t]
      BY <1>1, <1>2, <1>3, <1>6, <2>1, WriteLocal
    <3>2. wrote[t]
      BY <1>1, <1>2, <3>0, <3>1 DEF UnwrittenInv
    <3>3. OnlyKeysOf(m, {EncodeFdbSmacTableEntry(i)})
      BY <1>1, <1>2, <3>0, <3>1, <3>2 DEF WrittenInv
    <3>4. OnlyKeysOf(m, {EncodeFdbSmacTableEntry(i)})'
      <4>1. entries' \subseteq entries
        BY <1>2, <3>1, WriteOutcome DEF Apply
      <4>2. QED
        BY <3>3, <4>1 DEF OnlyKeysOf, FdbEntries
    <3>5. Known(m) = {} /\ Known(m)' = {}
      BY <3>3, <3>4, DeletedUnknown, DeletedUnknownNext DEF FdbInv
    <3>6. QED
      BY <3>5
  <2>2. QED
    BY <1>1, <1>2, <1>3, <1>4, <2>1, QuietWrite
<1>7. QED
  BY <1>5, <1>6

-----------------------------------------------------------------------------
(* Initial states map to initial states of the service.                    *)
LEMMA RefinedInit == FdbInit => Service!Init
<1> SUFFICES ASSUME FdbInit PROVE Service!Init
  OBVIOUS
<1>1. entries = {} /\ disturbed = {} /\ \A t \in Threads : pc[t] = "idle"
  BY DEF FdbInit, SessionInit
<1>2. \A m \in Macs : KnownOf(m) = {}
  BY <1>1 DEF KnownOf, FdbEntries
<1>3. \A t \in Threads : RequestOf(t) = Service!NoRequest
  BY <1>1 DEF RequestOf, InProgress, Service!NoRequest
<1>4. QED
  BY <1>1, <1>2, <1>3 DEF Service!Init, fdb, request

(* Every step maps to a step of the service or to a stutter.               *)
LEMMA RefinedStep ==
  FdbInv /\ FdbInv' /\ MacInv /\ [Next]_vars => [Service!Next]_(Service!vars)
<1> SUFFICES ASSUME FdbInv, FdbInv', MacInv, [Next]_vars
             PROVE  Service!Next \/ UNCHANGED Service!vars
  OBVIOUS
<1>1. ASSUME NEW t \in Threads, StartCall(t) PROVE Service!Next
  BY <1>1, StartRefines
<1>2. ASSUME NEW t \in Threads, CallStep(t) PROVE Service!Next \/ UNCHANGED Service!vars
  BY <1>2, SessionRefines, EndRefines, FetchRefines, ReadTxRefines, ReadL2V4Refines,
     ReadL2V6Refines, WriteTunnelRefines, WriteL2Refines, WriteRxRefines, SrcPortRefines,
     WriteTxVlanRefines, WriteSmacRefines DEF CallStep
<1>3. ASSUME UNCHANGED <<pc, entries, insert, info, disturbed>>
      PROVE  UNCHANGED Service!vars
  <2>1. \A u \in Threads : RequestOf(u)' = RequestOf(u)
    BY <1>3 DEF RequestOf, InProgress, ImageOf
  <2>2. QED
    BY <1>3, <2>1, StutterStep
<1>4. CASE Environment /\ UNCHANGED fdbVars
  BY <1>3, <1>4 DEF Environment, Tick, StreamClosed, fdbVars
<1>5. CASE UNCHANGED vars
  BY <1>3, <1>5 DEF vars, sessionVars, fdbVars
<1>6. QED
  BY <1>1, <1>2, <1>4, <1>5 DEF Next

(* ConfigFdbEntry is atomic for OVS: every step of every call, for any     *)
(* number of threads and any arguments, is a step of the FDB service in    *)
(* which an undisturbed address is learned and forgotten at once, by a     *)
(* call that asked for it, or is invisible.                                *)
THEOREM FdbServiceIsImplemented == Spec => ImplementsFdbService
<1>1. Spec => []MacInv
  <2>1. FdbInv /\ MacInv /\ [Next]_vars => MacInv'
    BY MacStep
  <2>2. QED
    BY <2>1, MacInit, FdbInvariant, PTL DEF Spec
<1>2. QED
  BY <1>1, RefinedInit, RefinedStep, FdbInvariant, PTL
     DEF Spec, ImplementsFdbService, Service!Spec
=============================================================================
