----------------------------- MODULE DpdkConfig -----------------------------
(***************************************************************************)
(* The two APIs that do something on DPDK: ovsp4rt_config_fdb_entry and    *)
(* ovsp4rt_config_tunnel_entry.  Each writes up to two tables and returns  *)
(* at the first write that fails.  Nothing is read first, and nothing is   *)
(* undone.                                                                 *)
(***************************************************************************)
EXTENDS OvsP4rtSession, DpdkEncoders

CONSTANTS
  LearnInfos,   \* the learn_info of the FDB calls
  TunnelInfos   \* the tunnel_info of the tunnel calls

(* OVS forgets a MAC address as the kind of entry it has learned it as.    *)
ASSUME DpdkInfosAssumption ==
  /\ LearnInfos \subseteq LearnInfo
  /\ TunnelInfos \subseteq TunnelInfo
  /\ \A i, j \in LearnInfos : i.mac_addr = j.mac_addr => i.is_tunnel = j.is_tunnel

VARIABLES
  api,      \* per thread: which API its call is of
  insert,   \* per thread: insert_entry of its call
  info,     \* per thread: the argument of its call
  touched,  \* history, per thread: another call changed an entry of this call
  broken    \* history: MAC addresses on which calls overlapped, or of which a
            \* failed delete left the RX entry alone

dpdkVars == <<api, insert, info, touched, broken>>
vars     == <<sessionVars, dpdkVars>>

-----------------------------------------------------------------------------
(* The entries a call writes.                                              *)
CallEntries(a, i) ==
  IF a = "tunnel" THEN {EncodeVxlanEncapTableEntry(i), EncodeTunnelTermTableEntry(i)}
  ELSE IF i.is_tunnel THEN {EncodeFdbTableEntryforV4VxlanTunnel(i)}
  ELSE IF i.is_vlan THEN {EncodeFdbTxVlanTableEntry(i), EncodeFdbRxVlanTableEntry(i)}
  ELSE {}

OnMac(m, t) == pc[t] # "idle" /\ api[t] = "fdb" /\ info[t].mac_addr = m

NoInfo == 0   \* between calls

(* An RX entry without a TX entry.                                         *)
Orphaned(es, m) ==
  /\ \E e \in es : e.table = "L2_FWD_RX_WITH_TUNNEL_TABLE" /\ e.key = <<m>>
  /\ ~\E e \in es : e.table = "L2_FWD_TX_TABLE" /\ e.key = <<m>>

StartHistory(t, a, i) ==
  /\ touched' = [touched EXCEPT ![t] = FALSE]
  /\ broken' = IF a = "fdb" /\ \E u \in Threads : OnMac(i.mac_addr, u)
                 THEN broken \cup {i.mac_addr} ELSE broken

WriteHistory(t, e, ok) ==
  /\ touched' = [u \in Threads |->
       touched[u] \/ (/\ u # t /\ pc[u] # "idle"
                      /\ entries' # entries /\ HasKey(CallEntries(api[u], info[u]), e))]
  /\ broken' = IF api[t] = "fdb" /\ ~insert[t] /\ ~ok /\ Orphaned(entries', info[t].mac_addr)
                 THEN broken \cup {info[t].mac_addr} ELSE broken

-----------------------------------------------------------------------------
DpdkInit ==
  /\ SessionInit
  /\ api = [t \in Threads |-> "fdb"]
  /\ insert = [t \in Threads |-> FALSE]
  /\ info = [t \in Threads |-> NoInfo]
  /\ touched = [t \in Threads |-> FALSE]
  /\ broken = {}

DoConfig(t, a, ins, i) ==
  /\ BeginSession(t)
  /\ api' = [api EXCEPT ![t] = a]
  /\ insert' = [insert EXCEPT ![t] = ins]
  /\ info' = [info EXCEPT ![t] = i]
  /\ StartHistory(t, a, i)

DoConfigFdbEntry(t, ins) == \E i \in LearnInfos : DoConfig(t, "fdb", ins, i)
DoConfigTunnelEntry(t, ins) == \E i \in TunnelInfos : DoConfig(t, "tunnel", ins, i)

(* A learn_info that is neither of a tunnel nor of a VLAN: nothing to do,  *)
(* which is no error.                                                      *)
FirstLabel(a, i) ==
  IF a = "tunnel" THEN "encap"
  ELSE IF i.is_tunnel THEN "writeTunnel"
  ELSE IF i.is_vlan THEN "writeTx"
  ELSE "return"

FetchP4Info(t) ==
  /\ GetPipelineConfig(t, FirstLabel(api[t], info[t]))
  /\ UNCHANGED dpdkVars

(* Mutant of Write: the status is only looked at after the last write.     *)
Write_NoEarlyReturn(t, e, label) ==
  /\ \E ok \in BOOLEAN :
       /\ SendWriteRequest(t, e, insert[t], ok)
       /\ Goto(t, label)
       /\ status' = [status EXCEPT ![t] = IF ok THEN "ok" ELSE "error"]
       /\ WriteHistory(t, e, ok)
  /\ UNCHANGED <<clock, electionId, p4info, streams, highest, api, insert, info>>

(* One write of a call: go on to the next one, or return the error.        *)
Write(t, e, label) ==
  /\ \E ok \in BOOLEAN :
       /\ SendWriteRequest(t, e, insert[t], ok)
       /\ IF ok THEN Goto(t, label) /\ UNCHANGED status ELSE Return(t, "error")
       /\ WriteHistory(t, e, ok)
  /\ UNCHANGED <<clock, electionId, p4info, streams, highest, api, insert, info>>

WriteFdbTunnelTableEntry(t) ==
  pc[t] = "writeTunnel" /\ Write(t, EncodeFdbTableEntryforV4VxlanTunnel(info[t]), "return")

(* Mutant of WriteFdbTxVlanTableEntry: the RX entry is written only when   *)
(* learning.                                                               *)
WriteFdbTxVlanTableEntry_InsertOnly(t) ==
  pc[t] = "writeTx" /\ Write(t, EncodeFdbTxVlanTableEntry(info[t]),
                             IF insert[t] THEN "writeRx" ELSE "return")

WriteFdbTxVlanTableEntry(t) ==
  pc[t] = "writeTx" /\ Write(t, EncodeFdbTxVlanTableEntry(info[t]), "writeRx")

WriteFdbRxVlanTableEntry(t) ==
  pc[t] = "writeRx" /\ Write(t, EncodeFdbRxVlanTableEntry(info[t]), "return")

WriteEncapTableEntry(t) ==
  pc[t] = "encap" /\ Write(t, EncodeVxlanEncapTableEntry(info[t]), "term")

WriteTunnelTermTableEntry(t) ==
  pc[t] = "term" /\ Write(t, EncodeTunnelTermTableEntry(info[t]), "return")

EndCall(t) ==
  /\ EndSession(t)
  /\ api' = [api EXCEPT ![t] = "fdb"]
  /\ insert' = [insert EXCEPT ![t] = FALSE]
  /\ info' = [info EXCEPT ![t] = NoInfo]
  /\ touched' = [touched EXCEPT ![t] = FALSE]
  /\ UNCHANGED broken

-----------------------------------------------------------------------------
ConfigFdbEntry(t) ==
  \/ WriteFdbTunnelTableEntry(t)
  \/ WriteFdbTxVlanTableEntry(t)
  \/ WriteFdbRxVlanTableEntry(t)

ConfigTunnelEntry(t) == WriteEncapTableEntry(t) \/ WriteTunnelTermTableEntry(t)

CallStep(t) ==
  \/ SessionStep(t) /\ UNCHANGED dpdkVars
  \/ FetchP4Info(t)
  \/ ConfigFdbEntry(t)
  \/ ConfigTunnelEntry(t)
  \/ EndCall(t)

Next ==
  \/ \E t \in Threads : \/ \E ins \in BOOLEAN : DoConfigFdbEntry(t, ins) \/ DoConfigTunnelEntry(t, ins)
                        \/ CallStep(t)
  \/ Environment /\ UNCHANGED dpdkVars

Spec == DpdkInit /\ [][Next]_vars

-----------------------------------------------------------------------------
(***************************************************************************)
(* Properties.                                                             *)
(***************************************************************************)

(* Type invariant.                                                         *)
DpdkTypeOK ==
  /\ clock \in Nat
  /\ pc \in [Threads -> {"idle", "arbitrate", "pipeline", "writeTunnel", "writeTx", "writeRx",
                         "encap", "term", "return"}]
  /\ electionId \in [Threads -> ElectionIds]
  /\ p4info \in [Threads -> BOOLEAN]
  /\ status \in [Threads -> {"ok", "error"}]
  /\ streams \subseteq ElectionIds
  /\ highest \in ElectionIds
  /\ api \in [Threads -> {"fdb", "tunnel"}]
  /\ insert \in [Threads -> BOOLEAN]
  /\ info = [t \in Threads |-> info[t]]
  /\ \A t \in Threads : info[t] \in IF pc[t] = "idle" THEN {NoInfo}
                                    ELSE IF api[t] = "fdb" THEN LearnInfos ELSE TunnelInfos
  /\ touched \in [Threads -> BOOLEAN]
  /\ broken \subseteq {i.mac_addr : i \in LearnInfos}

(* ConfigFdbEntry and ConfigTunnelEntry return OK only for complete work:  *)
(* unless another call changed an entry of this one meanwhile, its entries *)
(* are there as it encoded them, or none of their keys is.                 *)
DpdkStatusTruthful ==
  \A t \in Threads :
    pc[t] = "return" /\ status[t] = "ok" /\ ~touched[t] =>
      \A e \in CallEntries(api[t], info[t]) :
        IF insert[t] THEN e \in entries ELSE ~HasKey(entries, e)

(* What a table of the DPDK pipeline finds for a key.                      *)
Lookup(table, key) == {e \in entries : e.table = table /\ e.key = key}

(* A packet for a VLAN MAC address that comes out of a tunnel goes to the  *)
(* port where the packets of the VMs for it go: while no delete of the     *)
(* address is in progress and none failed half-way, its RX entry has a TX  *)
(* entry with the same port -- also when the address moved to another      *)
(* VLAN, and after inserts that failed half-way or were repeated, although *)
(* ConfigFdbEntry looks at neither table before it writes.                 *)
RxMatchesTx ==
  \A rx \in entries :
    /\ rx.table = "L2_FWD_RX_WITH_TUNNEL_TABLE"
    /\ rx.key[1] \notin broken
    /\ \A t \in Threads : OnMac(rx.key[1], t) => insert[t]
    => \E tx \in Lookup("L2_FWD_TX_TABLE", rx.key) : tx.action = rx.action
=============================================================================
