-------------------------- MODULE Es2kConfigPorts ---------------------------
(***************************************************************************)
(* The smaller APIs on ES2K, which all use the session the same way:       *)
(*   vlan           ovsp4rt_config_vlan_entry: push, then pop entry        *)
(*   srcPort        ovsp4rt_config_src_port_entry: look the VSI's host     *)
(*                  port up, then map it to the bridge                     *)
(*   tunnelSrcPort  ovsp4rt_config_tunnel_src_port_entry                   *)
(*   rxTunnel       ovsp4rt_config_rx_tunnel_src_entry                     *)
(*   ipMacMap       ovsp4rt_config_ip_mac_map_entry: the source and the    *)
(*                  destination entry, ignoring the status of both writes  *)
(***************************************************************************)
EXTENDS OvsP4rtSession, Es2kTxAccVsi

CONSTANTS Vlans, SrcPorts, TunnelSrcPorts, RxTunnels, IpMacMaps  \* arguments

ASSUME PortsAssumption ==
  /\ Vlans \subseteq Nat
  /\ SrcPorts \subseteq SrcPortInfo
  /\ TunnelSrcPorts \subseteq SrcPortInfo
  /\ RxTunnels \subseteq TunnelInfo
  /\ IpMacMaps \subseteq IpMacMapInfo

VARIABLES
  api,      \* per thread: which API its call is of
  insert,   \* per thread: insert_entry of its call
  info,     \* per thread: the argument of its call
  touched,  \* history, per thread: another call changed an entry of this call
  lost,     \* history, per thread: a write it was entitled to had no effect
  broken    \* history: vlan keys that a delete left half removed, or on which
            \* calls overlapped

portsVars == <<api, insert, info, touched, lost, broken>>
vars      == <<sessionVars, portsVars>>

-----------------------------------------------------------------------------
Apis == {"vlan", "srcPort", "tunnelSrcPort", "rxTunnel", "ipMacMap"}

PrepareRxTunnelSrcPortTableEntry(i) ==
  IF IsV4(i) THEN EncodeRxTunnelTableEntry(i)
  ELSE IF IsV6(i) THEN EncodeV6RxTunnelTableEntry(i)
  ELSE EmptyEntry

(* The addresses are compared in host order on a little-endian machine, so *)
(* the constant INADDR_LOOPBACK stands for 1.0.0.127.                      *)
ValidIpAddr(ip) == ip \notin {<<0, 0, 0, 0>>, <<1, 0, 0, 127>>, <<255, 255, 255, 255>>}

(* The entries a call may write.                                           *)
CallEntries(a, i) ==
  CASE a = "vlan"     -> {EncodeVlanPushTableEntry(i), EncodeVlanPopTableEntry(i)}
    [] a = "rxTunnel" -> {PrepareRxTunnelSrcPortTableEntry(i)}
    [] a = "ipMacMap" -> {EncodeSrcIpMacMapTableEntry(i), EncodeDstIpMacMapTableEntry(i)}
    [] OTHER          -> {EncodeSrcPortTableEntry(i)}

OnVlan(key, t) == pc[t] # "idle" /\ api[t] = "vlan" /\ Byte(info[t]) = key

-----------------------------------------------------------------------------
NoInfo == 0   \* between calls

PortsInit ==
  /\ SessionInit
  /\ api = [t \in Threads |-> "vlan"]
  /\ insert = [t \in Threads |-> FALSE]
  /\ info = [t \in Threads |-> NoInfo]
  /\ touched = [t \in Threads |-> FALSE]
  /\ lost = [t \in Threads |-> FALSE]
  /\ broken = {}

StartHistory(t, a, i) ==
  /\ touched' = [touched EXCEPT ![t] = FALSE]
  /\ lost' = [lost EXCEPT ![t] = FALSE]
  /\ broken' = IF a = "vlan" /\ \E u \in Threads : OnVlan(Byte(i), u)
                 THEN broken \cup {Byte(i)} ELSE broken

(* A call of API a starts its session.                                     *)
DoConfig(t, a, ins, i) ==
  /\ BeginSession(t)
  /\ api' = [api EXCEPT ![t] = a]
  /\ insert' = [insert EXCEPT ![t] = ins]
  /\ info' = [info EXCEPT ![t] = i]
  /\ StartHistory(t, a, i)

DoConfigVlanEntry(t, ins) == \E v \in Vlans : DoConfig(t, "vlan", ins, v)
DoConfigSrcPortEntry(t, ins) == \E sp \in SrcPorts : DoConfig(t, "srcPort", ins, sp)
DoConfigTunnelSrcPortEntry(t, ins) ==
  \E sp \in TunnelSrcPorts : DoConfig(t, "tunnelSrcPort", ins, sp)
DoConfigRxTunnelSrcEntry(t, ins) == \E i \in RxTunnels : DoConfig(t, "rxTunnel", ins, i)
DoConfigIpMacMapEntry(t, ins) == \E i \in IpMacMaps : DoConfig(t, "ipMacMap", ins, i)

(* Where ConfigIpMacMapEntry goes once the source entry is dealt with, and *)
(* where it goes to deal with it.  Both writes depend on the source        *)
(* address.                                                                *)
DstLabel(ins, i) == IF ins THEN "readDst" ELSE IF ValidIpAddr(i.src_ip) THEN "writeDst" ELSE "return"
SrcLabel(ins, i) == IF ValidIpAddr(i.src_ip) THEN "writeSrc" ELSE DstLabel(ins, i)

(* The first step of each call after the P4Info was fetched.               *)
FirstLabel(a, ins, i) ==
  CASE a = "vlan"          -> "push"
    [] a = "srcPort"       -> "readTxAcc"
    [] a = "tunnelSrcPort" -> "writeTunnelPort"
    [] a = "rxTunnel"      -> "writeRx"
    [] a = "ipMacMap"      -> IF ins THEN "readSrc" ELSE SrcLabel(ins, i)

FetchP4Info(t) ==
  /\ GetPipelineConfig(t, FirstLabel(api[t], insert[t], info[t]))
  /\ UNCHANGED portsVars

(* The history of a write with status ok.                                  *)
WriteHistory(t, e, ok) ==
  /\ touched' = [u \in Threads |->
       touched[u] \/ (/\ u # t /\ pc[u] # "idle"
                      /\ entries' # entries /\ HasKey(CallEntries(api[u], info[u]), e))]
  /\ lost' = [lost EXCEPT ![t] =
       @ \/ (CanWrite(t) /\ Accepts(entries, e, insert[t]) /\ entries' = entries)]
  /\ broken' = IF api[t] = "vlan" /\ ~insert[t] /\ ~ok /\ (pc[t] = "pop" \/ entries' # entries)
                 THEN broken \cup {Byte(info[t])} ELSE broken

(* Common part of the writes, with status ok.                              *)
Write(t, e, ok) ==
  /\ SendWriteRequest(t, e, insert[t], ok)
  /\ WriteHistory(t, e, ok)
  /\ UNCHANGED <<clock, electionId, p4info, streams, highest, api, insert, info>>

(* The last write of a call: its status is the status of the call.         *)
WriteLast(t, label, e) ==
  /\ pc[t] = label
  /\ \E ok \in BOOLEAN :
       /\ Write(t, e, ok)
       /\ Return(t, IF ok THEN "ok" ELSE "error")

(* Mutant of WriteVlanPushTableEntry: its status is not looked at.         *)
WriteVlanPushTableEntry_IgnoresError(t) ==
  /\ pc[t] = "push"
  /\ \E ok \in BOOLEAN : Write(t, EncodeVlanPushTableEntry(info[t]), ok)
  /\ Goto(t, "pop")
  /\ UNCHANGED status

(* ConfigVlanEntry: the pop entry follows only a successful push entry.    *)
WriteVlanPushTableEntry(t) ==
  /\ pc[t] = "push"
  /\ \E ok \in BOOLEAN :
       /\ Write(t, EncodeVlanPushTableEntry(info[t]), ok)
       /\ IF ok THEN Goto(t, "pop") /\ UNCHANGED status ELSE Return(t, "error")

WriteVlanPopTableEntry(t) == WriteLast(t, "pop", EncodeVlanPopTableEntry(info[t]))

(* ConfigSrcPortEntry: replace src_port by the VSI's host port.            *)
GetTxAccVsiPort(t) ==
  /\ pc[t] = "readTxAcc"
  /\ \/ /\ p4info[t] /\ HasHostPort(info[t])
        /\ info' = [info EXCEPT ![t].src_port = HostPort(info[t])]
        /\ Goto(t, "writeVsiPort")
        /\ UNCHANGED status
     \/ /\ Return(t, "error")
        /\ UNCHANGED info
  /\ UNCHANGED <<clock, electionId, p4info, streams, highest, entries,
                 api, insert, touched, lost, broken>>

(* Mutant of WriteVsiSrcPortTableEntry: the status of the write is dropped.*)
WriteVsiSrcPortTableEntry_DropsStatus(t) ==
  /\ pc[t] = "writeVsiPort"
  /\ \E ok \in BOOLEAN : Write(t, EncodeSrcPortTableEntry(info[t]), ok)
  /\ Return(t, "ok")

WriteVsiSrcPortTableEntry(t) == WriteLast(t, "writeVsiPort", EncodeSrcPortTableEntry(info[t]))

WriteTunnelSrcPortEntry(t) == WriteLast(t, "writeTunnelPort", EncodeSrcPortTableEntry(info[t]))

WriteRxTunnelSrcPortTableEntry(t) ==
  WriteLast(t, "writeRx", PrepareRxTunnelSrcPortTableEntry(info[t]))

(* Mutant of ReadVmSrcTableEntry: return when the source entry exists.     *)
ReadVmSrcTableEntry_Returns(t) ==
  /\ pc[t] = "readSrc"
  /\ \E ok \in BOOLEAN :
       /\ SendReadRequest(t, EncodeSrcIpMacMapTableEntry(info[t]), ok)
       /\ Goto(t, IF ok THEN "return" ELSE SrcLabel(TRUE, info[t]))
  /\ UNCHANGED <<clock, electionId, p4info, status, streams, highest, entries, portsVars>>

(* ConfigIpMacMapEntry looks for each entry before it inserts it.          *)
ReadVmSrcTableEntry(t) ==
  /\ pc[t] = "readSrc"
  /\ \E ok \in BOOLEAN :
       /\ SendReadRequest(t, EncodeSrcIpMacMapTableEntry(info[t]), ok)
       /\ Goto(t, IF ok THEN DstLabel(TRUE, info[t]) ELSE SrcLabel(TRUE, info[t]))
  /\ UNCHANGED <<clock, electionId, p4info, status, streams, highest, entries, portsVars>>

WriteSrcIpMacMapTableEntry(t) ==
  /\ pc[t] = "writeSrc"
  /\ \E ok \in BOOLEAN : Write(t, EncodeSrcIpMacMapTableEntry(info[t]), ok)
  /\ Goto(t, DstLabel(insert[t], info[t]))
  /\ UNCHANGED status

ReadVmDstTableEntry(t) ==
  /\ pc[t] = "readDst"
  /\ \E ok \in BOOLEAN :
       /\ SendReadRequest(t, EncodeDstIpMacMapTableEntry(info[t]), ok)
       /\ Goto(t, IF ~ok /\ ValidIpAddr(info[t].src_ip) THEN "writeDst" ELSE "return")
  /\ UNCHANGED <<clock, electionId, p4info, status, streams, highest, entries, portsVars>>

WriteDstIpMacMapTableEntry(t) ==
  /\ pc[t] = "writeDst"
  /\ \E ok \in BOOLEAN : Write(t, EncodeDstIpMacMapTableEntry(info[t]), ok)
  /\ Goto(t, "return")
  /\ UNCHANGED status

EndCall(t) ==
  /\ EndSession(t)
  /\ api' = [api EXCEPT ![t] = "vlan"]
  /\ insert' = [insert EXCEPT ![t] = FALSE]
  /\ info' = [info EXCEPT ![t] = NoInfo]
  /\ touched' = [touched EXCEPT ![t] = FALSE]
  /\ lost' = [lost EXCEPT ![t] = FALSE]
  /\ UNCHANGED broken

-----------------------------------------------------------------------------
StartCall(t) ==
  \E ins \in BOOLEAN :
    \/ DoConfigVlanEntry(t, ins)
    \/ DoConfigSrcPortEntry(t, ins) \/ DoConfigTunnelSrcPortEntry(t, ins)
    \/ DoConfigRxTunnelSrcEntry(t, ins)
    \/ DoConfigIpMacMapEntry(t, ins)

ConfigVlanEntry(t) == WriteVlanPushTableEntry(t) \/ WriteVlanPopTableEntry(t)

ConfigSrcPortEntry(t) == GetTxAccVsiPort(t) \/ WriteVsiSrcPortTableEntry(t)

ConfigIpMacMapEntry(t) ==
  \/ ReadVmSrcTableEntry(t) \/ WriteSrcIpMacMapTableEntry(t)
  \/ ReadVmDstTableEntry(t) \/ WriteDstIpMacMapTableEntry(t)

CallStep(t) ==
  \/ SessionStep(t) /\ UNCHANGED portsVars
  \/ FetchP4Info(t)
  \/ ConfigVlanEntry(t)
  \/ ConfigSrcPortEntry(t)
  \/ WriteTunnelSrcPortEntry(t)
  \/ WriteRxTunnelSrcPortTableEntry(t)
  \/ ConfigIpMacMapEntry(t)
  \/ EndCall(t)

Next ==
  \/ \E t \in Threads : StartCall(t) \/ CallStep(t)
  \/ Environment /\ UNCHANGED portsVars

Spec == PortsInit /\ [][Next]_vars

-----------------------------------------------------------------------------
(***************************************************************************)
(* Properties.                                                             *)
(***************************************************************************)

(* What info can be during a call of API a.                                *)
Arguments(a) ==
  IF a = "vlan" THEN Vlans
  ELSE IF a = "rxTunnel" THEN RxTunnels
  ELSE IF a = "ipMacMap" THEN IpMacMaps
  ELSE SrcPortInfo

(* Type invariant.                                                         *)
PortsTypeOK ==
  /\ clock \in Nat
  /\ pc \in [Threads -> {"idle", "arbitrate", "pipeline", "push", "pop", "readTxAcc", "writeVsiPort",
                         "writeTunnelPort", "writeRx",
                         "readSrc", "writeSrc", "readDst", "writeDst", "return"}]
  /\ electionId \in [Threads -> ElectionIds]
  /\ p4info \in [Threads -> BOOLEAN]
  /\ status \in [Threads -> {"ok", "error"}]
  /\ streams \subseteq ElectionIds
  /\ highest \in ElectionIds
  /\ api \in [Threads -> Apis]
  /\ insert \in [Threads -> BOOLEAN]
  /\ info = [t \in Threads |-> info[t]]
  /\ \A t \in Threads : pc[t] # "idle" => info[t] \in Arguments(api[t])
  /\ touched \in [Threads -> BOOLEAN]
  /\ lost \in [Threads -> BOOLEAN]
  /\ broken \subseteq 0 .. 255

(* What a finished call left of an entry e.                                *)
Done(t, e) == IF insert[t] THEN e \in entries ELSE ~HasKey(entries, e)

(* ConfigVlanEntry, ConfigSrcPortEntry, WriteTunnelSrcPortEntry and        *)
(* WriteRxTunnelSrcPortTableEntry return OK only for complete work: unless *)
(* another call changed an entry of this one meanwhile, all entries of the *)
(* call are there as it encoded them, or none of their keys is.            *)
PortsStatusTruthful ==
  \A t \in Threads :
    pc[t] = "return" /\ status[t] = "ok" /\ api[t] # "ipMacMap" /\ ~touched[t] =>
      \A e \in CallEntries(api[t], info[t]) : Done(t, e)

(* ConfigIpMacMapEntry ignores every status.  It does its work all the     *)
(* same if it is the primary, no entry was touched and no write was lost:  *)
(* both addresses are mapped after an insert and unmapped after a delete,  *)
(* whichever of the entries existed before.  For a source address that is  *)
(* not valid there is nothing to do.                                       *)
IpMacMapDone ==
  \A t \in Threads :
    /\ pc[t] = "return" /\ status[t] = "ok" /\ api[t] = "ipMacMap"
    /\ CanWrite(t) /\ ~touched[t] /\ ~lost[t]
    /\ ValidIpAddr(info[t].src_ip)
    => \A e \in CallEntries("ipMacMap", info[t]) : HasKey(entries, e) = insert[t]

(* A tag that is popped was pushed: while no delete is at work on a VLAN   *)
(* key and none failed half-way, a pop entry has its push entry -- also in *)
(* the middle of ConfigVlanEntry and after inserts that failed, were       *)
(* preempted or were repeated, and for VLAN ids that share the key.        *)
PopBacked ==
  \A v \in Vlans :
    /\ Byte(v) \notin broken
    /\ \A t \in Threads : OnVlan(Byte(v), t) => insert[t]
    => (HasKey(entries, EncodeVlanPopTableEntry(v)) => HasKey(entries, EncodeVlanPushTableEntry(v)))
=============================================================================
