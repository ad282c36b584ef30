--------------------------- MODULE Es2kConfigFdb ----------------------------
(***************************************************************************)
(* ovsp4rt_config_fdb_entry on ES2K: learning and forgetting MAC           *)
(* addresses.  One call programs up to four tables with one RPC each and   *)
(* ignores the status of every write, so a call that is cut short leaves   *)
(* a partial FDB entry behind.                                             *)
(***************************************************************************)
EXTENDS OvsP4rtSession, Es2kTxAccVsi

CONSTANTS
  InsertInfos,   \* the learn_info of calls with insert_entry = true
  DeleteInfos    \* the learn_info of calls with insert_entry = false

(* When OVS forgets a MAC it does not know which kind of entry it had: the *)
(* caller leaves is_tunnel unset and the tunnel's addresses zero.          *)
ASSUME InfosAssumption ==
  /\ InsertInfos \subseteq LearnInfo
  /\ DeleteInfos \subseteq LearnInfo
  /\ \A i \in DeleteInfos : ~i.is_tunnel /\ ~IsV6(i)
  /\ DeleteInfos # {}

VARIABLES
  insert,    \* per thread: insert_entry of its call
  info,      \* per thread: the call's own copy of learn_info
  wrote,     \* history, per thread: its call issued a write as the primary
  disturbed  \* history: MAC addresses on which a call was disturbed (below)

fdbVars == <<insert, info, wrote, disturbed>>
vars    == <<sessionVars, fdbVars>>

-----------------------------------------------------------------------------
PrepareFdbTunnelTableEntry(i, ins) ==
  ByType(i, EncodeFdbTableEntryforV4VxlanTunnel(i), EncodeFdbTableEntryforV4GeneveTunnel(i),
         IF ins THEN EmptyEntry ELSE EncodeL2FwdTxTablePrologue(i, UnsetAction, <<>>))

PrepareL2TunnelTableEntry(i) ==
  IF IsV6(i) THEN EncodeL2ToTunnelV6(i) ELSE EncodeL2ToTunnelV4(i)

(* The read that decides whether an entry exists: an unknown tunnel type   *)
(* leaves the request empty.                                               *)
PrepareFdbTableV4TunnelEntry(i) ==
  ByType(i, EncodeFdbTableEntryforV4VxlanTunnel(i), EncodeFdbTableEntryforV4GeneveTunnel(i),
         EmptyEntry)

TxEntryToRead(i) ==
  IF i.is_tunnel THEN PrepareFdbTableV4TunnelEntry(i) ELSE EncodeFdbTxVlanTableEntry(i)

-----------------------------------------------------------------------------
(* Bookkeeping of the history variable disturbed.  A MAC address is        *)
(* disturbed once                                                          *)
(*   - two calls on it overlap, or a call names it on a second bridge;     *)
(*   - a read of it failed although the key exists;                        *)
(*   - a write of it had no effect although the call had the right to      *)
(*     write, or had it for an earlier write of the same call.             *)
(* A call whose session never was the primary writes nothing at all and    *)
(* disturbs nothing.                                                       *)
ActiveOn(m, t) == pc[t] # "idle" /\ info[t].mac_addr = m

OnOtherBridge(i) ==
  \E e \in entries : /\ e.table = "L2_FWD_TX_TABLE"
                     /\ e.key[1] = i.mac_addr
                     /\ e.key[2] # i.bridge_id

DisturbIf(cond, m) == disturbed' = IF cond THEN disturbed \cup {m} ELSE disturbed

-----------------------------------------------------------------------------
NoInfo == CHOOSE i \in DeleteInfos : TRUE

FdbInit ==
  /\ SessionInit
  /\ insert = [t \in Threads |-> FALSE]
  /\ info = [t \in Threads |-> NoInfo]
  /\ wrote = [t \in Threads |-> FALSE]
  /\ disturbed = {}

(* The call: the API makes its own copy of learn_info.                     *)
ConfigFdbEntry(t, ins, i) ==
  /\ BeginSession(t)
  /\ insert' = [insert EXCEPT ![t] = ins]
  /\ info' = [info EXCEPT ![t] = i]
  /\ wrote' = [wrote EXCEPT ![t] = FALSE]
  /\ DisturbIf(OnOtherBridge(i) \/ \E u \in Threads : ActiveOn(i.mac_addr, u),
               i.mac_addr)

FetchP4Info(t) ==
  /\ GetPipelineConfig(t, IF insert[t] THEN "readTx" ELSE "readL2V4")
  /\ UNCHANGED fdbVars

(* Common part of the reads: status ok of the read of e.                   *)
Read(t, e, ok) ==
  /\ SendReadRequest(t, e, ok)
  /\ DisturbIf(p4info[t] /\ ~ok /\ HasKey(entries, e), info[t].mac_addr)
  /\ UNCHANGED <<clock, electionId, p4info, streams, highest, entries, insert, wrote>>

(* Common part of the writes, whose status is ignored.                     *)
Write(t, e, label) ==
  /\ \E ok \in BOOLEAN : SendWriteRequest(t, e, insert[t], ok)
  /\ Goto(t, label)
  /\ wrote' = [wrote EXCEPT ![t] = @ \/ CanWrite(t)]
  /\ DisturbIf((CanWrite(t) \/ wrote[t]) /\ (insert[t] # HasKey(entries', e)),
               info[t].mac_addr)
  /\ UNCHANGED <<clock, electionId, p4info, status, streams, highest, insert, info>>

(* Mutant of ReadFdbTxEntry: the test of the read status is inverted.      *)
ReadFdbTxEntry_Inverted(t) ==
  /\ pc[t] = "readTx"
  /\ \E ok \in BOOLEAN :
       /\ Read(t, TxEntryToRead(info[t]), ok)
       /\ Goto(t, IF ~ok THEN "return"
                  ELSE IF info[t].is_tunnel THEN "writeTunnel" ELSE "writeRx")
  /\ UNCHANGED <<status, info>>

(* Inserting: return if the TX entry already exists.                       *)
ReadFdbTxEntry(t) ==
  /\ pc[t] = "readTx"
  /\ \E ok \in BOOLEAN :
       /\ Read(t, TxEntryToRead(info[t]), ok)
       /\ Goto(t, IF ok THEN "return"
                  ELSE IF info[t].is_tunnel THEN "writeTunnel" ELSE "writeRx")
  /\ UNCHANGED <<status, info>>

(* Mutant of ReadL2ToTunnelV4: the IPv6 table is never looked at.          *)
ReadL2ToTunnelV4_Only(t) ==
  /\ pc[t] = "readL2V4"
  /\ \E ok \in BOOLEAN :
       /\ Read(t, EncodeL2ToTunnelV4(info[t]), ok)
       /\ info' = [info EXCEPT ![t].is_tunnel = @ \/ ok]
       /\ Goto(t, IF info'[t].is_tunnel THEN "writeTunnel" ELSE "writeTxVlan")
  /\ UNCHANGED status

(* Deleting: UpdateFdbTunnelInfo looks for the MAC in the L2-to-tunnel     *)
(* tables, IPv4 first.                                                     *)
ReadL2ToTunnelV4(t) ==
  /\ pc[t] = "readL2V4"
  /\ \E ok \in BOOLEAN :
       /\ Read(t, EncodeL2ToTunnelV4(info[t]), ok)
       /\ info' = [info EXCEPT ![t].is_tunnel = @ \/ ok]
       /\ Goto(t, IF info'[t].is_tunnel THEN "writeTunnel" ELSE "readL2V6")
  /\ UNCHANGED status

FoundInV6(i) == [i EXCEPT !.is_tunnel = TRUE,
                          !.local_family = AF_INET6, !.remote_family = AF_INET6]

(* Mutant of ReadL2ToTunnelV6: an entry that is no tunnel entry is taken   *)
(* for absent.                                                             *)
ReadL2ToTunnelV6_GivesUp(t) ==
  /\ pc[t] = "readL2V6"
  /\ \E ok \in BOOLEAN :
       /\ Read(t, EncodeL2ToTunnelV6(info[t]), ok)
       /\ info' = [info EXCEPT ![t] = IF ok THEN FoundInV6(@) ELSE @]
       /\ Goto(t, IF ok THEN "writeTunnel" ELSE "return")
  /\ UNCHANGED status

ReadL2ToTunnelV6(t) ==
  /\ pc[t] = "readL2V6"
  /\ \E ok \in BOOLEAN :
       /\ Read(t, EncodeL2ToTunnelV6(info[t]), ok)
       /\ info' = [info EXCEPT ![t] = IF ok THEN FoundInV6(@) ELSE @]
       /\ Goto(t, IF ok THEN "writeTunnel" ELSE "writeTxVlan")
  /\ UNCHANGED status

WriteFdbTunnel(t) ==
  /\ pc[t] = "writeTunnel"
  /\ Write(t, PrepareFdbTunnelTableEntry(info[t], insert[t]), "writeL2")

WriteL2Tunnel(t) ==
  /\ pc[t] = "writeL2"
  /\ Write(t, PrepareL2TunnelTableEntry(info[t]), "writeSmac")

(* The RX entry is written when a VLAN MAC is learned, never deleted.      *)
WriteFdbRxVlan(t) ==
  /\ pc[t] = "writeRx"
  /\ Write(t, EncodeFdbRxVlanTableEntry(info[t]), "readTxAcc")

(* Mutant of UpdateFdbSrcPortInfo: without a host port the VSI is used.    *)
UpdateFdbSrcPortInfo_KeepsVsi(t) ==
  /\ pc[t] = "readTxAcc"
  /\ info' = [info EXCEPT ![t].src_port =
                IF p4info[t] /\ HasHostPort(info[t]) THEN HostPort(info[t]) ELSE @]
  /\ Goto(t, "writeTxVlan")
  /\ UNCHANGED <<clock, electionId, p4info, status, streams, highest, entries,
                 insert, wrote, disturbed>>

(* UpdateFdbSrcPortInfo: replace src_port by the port that the user gave   *)
(* the VSI in TX_ACC_VSI_TABLE; give up if there is none.                  *)
UpdateFdbSrcPortInfo(t) ==
  /\ pc[t] = "readTxAcc"
  /\ \/ /\ p4info[t] /\ HasHostPort(info[t])
        /\ info' = [info EXCEPT ![t].src_port = HostPort(info[t])]
        /\ Goto(t, "writeTxVlan")
        /\ UNCHANGED status
     \/ /\ Return(t, "error")
        /\ UNCHANGED info
  /\ UNCHANGED <<clock, electionId, p4info, streams, highest, entries,
                 insert, wrote, disturbed>>

(* Mutant of WriteFdbTxVlan: the call ends before the SMAC entry.          *)
WriteFdbTxVlan_Last(t) ==
  /\ pc[t] = "writeTxVlan"
  /\ Write(t, EncodeFdbTxVlanTableEntry(info[t]), "return")

WriteFdbTxVlan(t) ==
  /\ pc[t] = "writeTxVlan"
  /\ Write(t, EncodeFdbTxVlanTableEntry(info[t]), "writeSmac")

WriteFdbSmac(t) ==
  /\ pc[t] = "writeSmac"
  /\ Write(t, EncodeFdbSmacTableEntry(info[t]), "return")

(* The call returns; the copy of learn_info goes with it.                  *)
EndCall(t) ==
  /\ EndSession(t)
  /\ insert' = [insert EXCEPT ![t] = FALSE]
  /\ info' = [info EXCEPT ![t] = NoInfo]
  /\ wrote' = [wrote EXCEPT ![t] = FALSE]
  /\ UNCHANGED disturbed

-----------------------------------------------------------------------------
StartCall(t) ==
  \/ \E i \in InsertInfos : ConfigFdbEntry(t, TRUE, i)
  \/ \E i \in DeleteInfos : ConfigFdbEntry(t, FALSE, i)

(* One step of a call in progress.                                         *)
CallStep(t) ==
  \/ SessionStep(t) /\ UNCHANGED fdbVars
  \/ EndCall(t)
  \/ FetchP4Info(t)
  \/ ReadFdbTxEntry(t) \/ ReadL2ToTunnelV4(t) \/ ReadL2ToTunnelV6(t)
  \/ WriteFdbTunnel(t) \/ WriteL2Tunnel(t)
  \/ WriteFdbRxVlan(t) \/ UpdateFdbSrcPortInfo(t) \/ WriteFdbTxVlan(t)
  \/ WriteFdbSmac(t)

Next ==
  \/ \E t \in Threads : StartCall(t) \/ CallStep(t)
  \/ Environment /\ UNCHANGED fdbVars

Spec == FdbInit /\ [][Next]_vars

(* A call goes on while the server owes it an answer: gRPC reports a       *)
(* broken connection, and a connected server answers.  Nothing forces the  *)
(* server to answer a duplicate election id or to notice a closed stream,  *)
(* nor OVS to make calls.                                                  *)
Fairness == \A t \in Threads : WF_vars(CallStep(t) /\ Answered(t))

FairSpec == Spec /\ Fairness

-----------------------------------------------------------------------------
(***************************************************************************)
(* Properties.                                                             *)
(***************************************************************************)
Labels == {"idle", "arbitrate", "pipeline", "readTx", "readL2V4", "readL2V6",
           "writeTunnel", "writeL2", "writeRx", "readTxAcc", "writeTxVlan",
           "writeSmac", "return"}

(* Type invariant.                                                         *)
FdbTypeOK ==
  /\ clock \in Nat
  /\ pc \in [Threads -> Labels]
  /\ electionId \in [Threads -> ElectionIds]
  /\ p4info \in [Threads -> BOOLEAN]
  /\ status \in [Threads -> {"ok", "error"}]
  /\ streams \subseteq ElectionIds
  /\ highest \in ElectionIds
  /\ insert \in [Threads -> BOOLEAN]
  /\ info \in [Threads -> LearnInfo]
  /\ wrote \in [Threads -> BOOLEAN]
  /\ disturbed \subseteq Nat

(* The tables whose entries make up a learned MAC address.  (An RX entry   *)
(* outlives its MAC address: nothing deletes it.)                          *)
FdbTables == {"L2_FWD_TX_TABLE", "L2_FWD_SMAC_TABLE", "L2_TO_TUNNEL_V4", "L2_TO_TUNNEL_V6"}

FdbEntries(m) == {e \in entries : e.table \in FdbTables /\ e.key[1] = m}

(* What a completed call leaves in those tables for learn_info i.          *)
FdbImage(i) ==
  IF i.is_tunnel
    THEN {PrepareFdbTunnelTableEntry(i, TRUE), PrepareL2TunnelTableEntry(i),
          EncodeFdbSmacTableEntry(i)}
    ELSE {EncodeFdbTxVlanTableEntry([i EXCEPT !.src_port = HostPort(i)]),
          EncodeFdbSmacTableEntry(i)}

Learned(m, i) ==
  /\ i.mac_addr = m
  /\ ~i.is_tunnel => HasHostPort(i) /\ HasKey(entries, EncodeFdbRxVlanTableEntry(i))
  /\ FdbEntries(m) = FdbImage(i)

Macs == {i.mac_addr : i \in InsertInfos \cup DeleteInfos}

(* All or nothing: between calls, a MAC address that nothing disturbed is  *)
(* either unknown to the switch or learned completely, its TX, SMAC and    *)
(* L2-to-tunnel entries all coming from one learn_info -- although         *)
(* ConfigFdbTunnelEntry and ConfigFdbVlanEntry write them in separate RPCs *)
(* and never look at the status of a write.                                *)
FdbAllOrNothing ==
  \A m \in Macs \ disturbed :
    (\A t \in Threads : ~ActiveOn(m, t)) =>
      FdbEntries(m) = {} \/ \E i \in InsertInfos : Learned(m, i)

(* Tunnel types and address families that the FDB encoders know.           *)
Supported(i) == i.is_tunnel => i.tunnel_type # "UNKNOWN" /\ (IsV4(i) \/ IsV6(i))

(* A returning call whose status is OK and whose session still is the      *)
(* primary did its work, if nothing disturbed its MAC address: after an    *)
(* insert the address is learned on that bridge (by this call or before),  *)
(* after a delete nothing but an RX entry is left of it.                   *)
FdbReturnTruthful ==
  \A t \in Threads :
    LET m == info[t].mac_addr IN
    pc[t] = "return" /\ status[t] = "ok" /\ CanWrite(t) /\ m \notin disturbed =>
      IF insert[t]
        THEN Supported(info[t]) =>
               \E i \in InsertInfos : Learned(m, i) /\ i.bridge_id = info[t].bridge_id
        ELSE FdbEntries(m) = {}

(* Two calls in progress never share an election id, even when they start  *)
(* in the same second: a stream is never refused because of another        *)
(* thread's session (OvsP4rtSession::Create adds the thread id).           *)
LiveIdsDiffer ==
  \A t, u \in Threads :
    t # u /\ pc[t] # "idle" /\ pc[u] # "idle" => electionId[t] # electionId[u]

(* Deleting decides by what the tables hold: a call on an undisturbed MAC  *)
(* that got the P4Info takes the tunnel path of ConfigFdbEntry iff the TX  *)
(* entry it is about to delete is a tunnel entry, and the table it deletes *)
(* the L2-to-tunnel entry from is the one that has it.                     *)
DeleteClassifies ==
  \A t \in Threads :
    LET i == info[t]
        tunnels == {e \in entries : /\ e.table \in {"L2_TO_TUNNEL_V4", "L2_TO_TUNNEL_V6"}
                                    /\ e.key[1] = i.mac_addr}
    IN  ~insert[t] /\ p4info[t] /\ i.mac_addr \notin disturbed =>
          /\ pc[t] = "writeTunnel" => /\ HasKey(entries, EncodeL2FwdTxTablePrologue(i, "", <<>>))
                                      /\ HasKey(tunnels, PrepareL2TunnelTableEntry(i))
          /\ pc[t] = "writeTxVlan" => tunnels = {}

(* No thread gets stuck because of another one: a call whose election id   *)
(* is not in use by a stream returns, whatever sessions the other threads  *)
(* open, in the same second too, before its own request arrives.  This is  *)
(* what OvsP4rtSession::Create adds the thread id for.  (The thread's own  *)
(* stream of the same second, still open at the server, is the other way   *)
(* to get stuck; the property says nothing of it.)                         *)
CallsReturn ==
  \A t \in Threads : pc[t] # "idle" /\ Answered(t) ~> pc[t] = "idle"

(* What the comment on TimeBasedElectionId says of election ids: they      *)
(* increase monotonically over time, so a new one is at least not lower    *)
(* than one the server has seen before.                                    *)
ElectionIdsIncrease ==
  [][\A t \in Threads :
       pc[t] = "idle" /\ pc'[t] = "arbitrate" => ~Higher(highest, electionId'[t])]_vars

(* What the callers and tests of getPipelineConfig say: a call that cannot *)
(* fetch the P4Info returns an error.                                      *)
PipelineErrorReported ==
  \A t \in Threads : pc[t] = "return" /\ status[t] = "ok" => p4info[t]

(* What the comment on UpdateFdbTunnelInfo says: a delete finds out        *)
(* whether its entry is a tunnel entry.  It must not take the tunnel path  *)
(* when the TX entry it is about to delete is a VLAN entry.                *)
DeleteFindsOwnKind ==
  \A t \in Threads :
    pc[t] = "writeTunnel" /\ ~insert[t] =>
      \A e \in entries :
        SameKey(e, EncodeL2FwdTxTablePrologue(info[t], "", <<>>)) =>
          e.action.name \notin {"L2_FWD", "REMOVE_VLAN_AND_FWD"}

-----------------------------------------------------------------------------
(***************************************************************************)
(* The inductive invariant behind FdbAllOrNothing and FdbReturnTruthful.   *)
(***************************************************************************)
IdInv(t) ==
  /\ pc[t] # "idle" => electionId[t][2] = ThreadId[t]
  /\ pc[t] = "pipeline" \/ p4info[t] => ~Higher(electionId[t], highest)

(* learn_info of a VLAN insert after UpdateFdbSrcPortInfo.                 *)
PortResolved(i) ==
  \E j \in InsertInfos : /\ ~j.is_tunnel /\ HasHostPort(j)
                         /\ i = [j EXCEPT !.src_port = HostPort(j)]

Early == {"arbitrate", "pipeline", "readTx", "readL2V4", "readL2V6"}

(* Which arguments go with which step of a call.                           *)
ControlInv(t, i) ==
  /\ pc[t] \in {"idle", "arbitrate", "pipeline"} => ~p4info[t]
  /\ pc[t] \in Early \cup {"idle", "writeTunnel", "writeRx"} => ~wrote[t]
  /\ pc[t] \in {"readTx", "writeRx", "readTxAcc"} => insert[t]
  /\ pc[t] \in {"readL2V4", "readL2V6"} => ~insert[t]
  /\ pc[t] \in {"writeTunnel", "writeL2"} => i.is_tunnel
  /\ pc[t] \in {"writeRx", "readTxAcc", "writeTxVlan"} => ~i.is_tunnel
  /\ ~insert[t] /\ pc[t] \in Early => ~i.is_tunnel /\ ~IsV6(i)
  /\ ~insert[t] /\ pc[t] = "writeTxVlan" => ~wrote[t]
  /\ insert[t] /\ i.is_tunnel => i \in InsertInfos
  /\ insert[t] /\ pc[t] \in Early \cup {"writeRx", "readTxAcc"} => i \in InsertInfos
  /\ insert[t] /\ ~i.is_tunnel /\ pc[t] \in {"writeTxVlan", "writeSmac"} => PortResolved(i)

(* A MAC address that no call is changing, on bridge b.                    *)
Settled(m, b) ==
  FdbEntries(m) = {} \/ \E j \in InsertInfos : Learned(m, j) /\ j.bridge_id = b

(* The keys that a delete has still to remove.                             *)
TxKey(i) == EncodeL2FwdTxTablePrologue(i, "", <<>>)
OnlyKeysOf(m, S) == \A e \in FdbEntries(m) : \E f \in S : SameKey(f, e)

HasRx(i) == HasKey(entries, EncodeFdbRxVlanTableEntry(i))

(* A call that has issued no write as the primary left the tables alone,   *)
(* and never will write once it is past its first write.  Here and below i *)
(* is the call's learn_info.                                               *)
UnwrittenInv(t, i) ==
  LET m == i.mac_addr IN
  ~wrote[t] =>
    /\ Settled(m, i.bridge_id)
    /\ pc[t] \in {"writeL2", "readTxAcc", "writeSmac"} => ~CanWrite(t)
    /\ pc[t] = "writeTxVlan" /\ insert[t] => ~CanWrite(t)
    /\ p4info[t] =>
         /\ pc[t] = "readL2V6" => ~HasKey(FdbEntries(m), EncodeL2ToTunnelV4(i))
         /\ pc[t] = "writeTunnel" /\ insert[t] /\ i.tunnel_type # "UNKNOWN" => FdbEntries(m) = {}
         /\ pc[t] = "writeRx" => FdbEntries(m) = {}
         /\ pc[t] = "writeTunnel" /\ ~insert[t] =>
              /\ HasKey(FdbEntries(m), PrepareL2TunnelTableEntry(i))
              /\ OnlyKeysOf(m, {TxKey(i), PrepareL2TunnelTableEntry(i), EncodeFdbSmacTableEntry(i)})
         /\ pc[t] = "writeTxVlan" /\ ~insert[t] =>
              OnlyKeysOf(m, {TxKey(i), EncodeFdbSmacTableEntry(i)})

(* A call that has: the entries it wrote, or has still to remove.          *)
WrittenInv(t, i) ==
  LET m  == i.mac_addr
      Tx == PrepareFdbTunnelTableEntry(i, TRUE)
      L2 == PrepareL2TunnelTableEntry(i)
  IN
  wrote[t] =>
    /\ ~insert[t] => /\ pc[t] = "writeL2" => OnlyKeysOf(m, {L2, EncodeFdbSmacTableEntry(i)})
                     /\ pc[t] = "writeSmac" => OnlyKeysOf(m, {EncodeFdbSmacTableEntry(i)})
    /\ insert[t] /\ i.is_tunnel =>
         /\ pc[t] = "writeL2" => FdbEntries(m) = {Tx}
         /\ pc[t] = "writeSmac" => FdbEntries(m) = {Tx, L2}
    /\ insert[t] /\ ~i.is_tunnel =>
         /\ pc[t] \in {"readTxAcc", "writeTxVlan"} => FdbEntries(m) = {} /\ HasRx(i)
         /\ pc[t] = "writeSmac" => FdbEntries(m) = {EncodeFdbTxVlanTableEntry(i)} /\ HasRx(i)

(* A call about to return.                                                 *)
ReturnInv(t, i) ==
  LET m == i.mac_addr IN
  pc[t] = "return" =>
    /\ Settled(m, i.bridge_id)
    /\ status[t] = "ok" /\ CanWrite(t) =>
         /\ insert[t] /\ Supported(i) => FdbEntries(m) # {}
         /\ ~insert[t] => FdbEntries(m) = {}

CallInv(t, i) ==
  pc[t] # "idle" /\ i.mac_addr \notin disturbed =>
    /\ \A u \in Threads : ActiveOn(i.mac_addr, u) => u = t
    /\ UnwrittenInv(t, i)
    /\ WrittenInv(t, i)
    /\ ReturnInv(t, i)

FdbInv ==
  /\ FdbTypeOK
  /\ \A e \in entries : e.table # "none"
  /\ \A t \in Threads : IdInv(t)
  /\ \A t \in Threads : \A i \in {info[t]} : ControlInv(t, i) /\ CallInv(t, i)
  /\ FdbAllOrNothing
=============================================================================
