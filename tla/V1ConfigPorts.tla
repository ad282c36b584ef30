--------------------------- MODULE V1ConfigPorts ----------------------------
(***************************************************************************)
(* The smaller APIs of version 1 of the core, which exist on ES2K only (on *)
(* DPDK they are empty functions).  V3 is version 3 of them.               *)
(***************************************************************************)
EXTENDS OvsP4rtSession, V1TxAccVsi

CONSTANTS Vlans, SrcPorts, TunnelSrcPorts, RxTunnels, IpMacMaps  \* arguments, as in V3

VARIABLES
  api, insert, info,      \* per thread: its call's API and arguments
  touched, lost, broken   \* the history variables of V3

portsVars == <<api, insert, info, touched, lost, broken>>
vars      == <<sessionVars, portsVars>>

V3 == INSTANCE Es2kConfigPorts WITH TxAccVsi <- PortTable

-----------------------------------------------------------------------------
RxTunnelEntry(i) ==
  IF BothFamily(i, AF_INET) THEN EncodeRxTunnelTableEntry(i)
  ELSE IF BothFamily(i, AF_INET6) THEN EncodeV6RxTunnelTableEntry(i)
  ELSE EmptyEntry

(* ovsp4rt_config_ip_mac_map_entry from its label try_dstip on, and from   *)
(* the write of the source entry on.  Both writes are guarded by the       *)
(* source address.                                                         *)
TryDstIp(ins, i) ==
  IF ins THEN "readDst" ELSE IF ValidIpAddr(i.src_ip) THEN "writeDst" ELSE "return"

(* Mutant of TrySrcIp: the source address is not looked at.                *)
TrySrcIp_AnyAddr(ins, i) == "writeSrc"

TrySrcIp(ins, i) == IF ValidIpAddr(i.src_ip) THEN "writeSrc" ELSE TryDstIp(ins, i)

FirstStep(a, ins, i) ==
  CASE a = "vlan"          -> "push"
    [] a = "srcPort"       -> "readTxAcc"
    [] a = "tunnelSrcPort" -> "writeTunnelPort"
    [] a = "rxTunnel"      -> "writeRx"
    [] OTHER               -> IF ins THEN "readSrc" ELSE TrySrcIp(ins, i)

-----------------------------------------------------------------------------
Init ==
  /\ SessionInit
  /\ api = [t \in Threads |-> "vlan"]
  /\ insert = [t \in Threads |-> FALSE]
  /\ info = [t \in Threads |-> V3!NoInfo]
  /\ touched = [t \in Threads |-> FALSE]
  /\ lost = [t \in Threads |-> FALSE]
  /\ broken = {}

Call(t, a, ins, i) ==
  /\ BeginSession(t)
  /\ api' = [api EXCEPT ![t] = a]
  /\ insert' = [insert EXCEPT ![t] = ins]
  /\ info' = [info EXCEPT ![t] = i]
  /\ V3!StartHistory(t, a, i)

ConfigVlanEntry(t, ins)          == \E v \in Vlans : Call(t, "vlan", ins, v)
ConfigSrcPortEntry(t, ins)       == \E sp \in SrcPorts : Call(t, "srcPort", ins, sp)
ConfigTunnelSrcPortEntry(t, ins) == \E sp \in TunnelSrcPorts : Call(t, "tunnelSrcPort", ins, sp)
ConfigRxTunnelSrcEntry(t, ins)   == \E i \in RxTunnels : Call(t, "rxTunnel", ins, i)
ConfigIpMacMapEntry(t, ins)      == \E i \in IpMacMaps : Call(t, "ipMacMap", ins, i)

FetchP4Info(t) ==
  /\ GetPipelineConfig(t, FirstStep(api[t], insert[t], info[t]))
  /\ UNCHANGED portsVars

(* A write after which the function returns if it failed.                  *)
Write(t, e, label) ==
  /\ \E ok \in BOOLEAN :
       /\ SendWriteRequest(t, e, insert[t], ok)
       /\ V3!WriteHistory(t, e, ok)
       /\ IF ok THEN Goto(t, label) /\ UNCHANGED status ELSE Return(t, "error")
  /\ UNCHANGED <<clock, electionId, p4info, streams, highest, api, insert, info>>

(* A write whose error is ignored.                                         *)
WriteAnyway(t, e, label) ==
  /\ \E ok \in BOOLEAN : SendWriteRequest(t, e, insert[t], ok) /\ V3!WriteHistory(t, e, ok)
  /\ Goto(t, label)
  /\ UNCHANGED <<clock, electionId, p4info, status, streams, highest, api, insert, info>>

Read(t, e, found, absent) ==
  /\ \E ok \in BOOLEAN :
       SendReadRequest(t, e, ok) /\ Goto(t, IF ok THEN found ELSE absent)
  /\ UNCHANGED <<clock, electionId, p4info, status, streams, highest, entries, portsVars>>

WriteVlanPushTableEntry(t) ==
  pc[t] = "push" /\ Write(t, EncodeVlanPushTableEntry(info[t]), "pop")

WriteVlanPopTableEntry(t) ==
  pc[t] = "pop" /\ Write(t, EncodeVlanPopTableEntry(info[t]), "return")

(* Take the host port of the VSI for src_port, or return.                  *)
ReadTxAccVsiTableEntry(t) ==
  /\ pc[t] = "readTxAcc"
  /\ \/ /\ p4info[t] /\ TxAccVsiFound(info[t])
        /\ info' = [info EXCEPT ![t].src_port = ReadHostPort(info[t])]
        /\ Goto(t, "writeVsiPort")
        /\ UNCHANGED status
     \/ Return(t, "error") /\ UNCHANGED info
  /\ UNCHANGED <<clock, electionId, p4info, streams, highest, entries,
                 api, insert, touched, lost, broken>>

ConfigureVsiSrcPortTableEntry(t) ==
  pc[t] = "writeVsiPort" /\ Write(t, EncodeSrcPortTableEntry(info[t]), "return")

WriteTunnelSrcPort(t) ==
  pc[t] = "writeTunnelPort" /\ Write(t, EncodeSrcPortTableEntry(info[t]), "return")

WriteRxTunnelSrcPortTableEntry(t) ==
  pc[t] = "writeRx" /\ Write(t, RxTunnelEntry(info[t]), "return")

ReadVmSrcTableEntry(t) ==
  /\ pc[t] = "readSrc"
  /\ Read(t, EncodeSrcIpMacMapTableEntry(info[t]),
          TryDstIp(TRUE, info[t]), TrySrcIp(TRUE, info[t]))

WriteSrcIpMacMapTableEntry(t) ==
  /\ pc[t] = "writeSrc"
  /\ WriteAnyway(t, EncodeSrcIpMacMapTableEntry(info[t]), TryDstIp(insert[t], info[t]))

ReadVmDstTableEntry(t) ==
  /\ pc[t] = "readDst"
  /\ Read(t, EncodeDstIpMacMapTableEntry(info[t]),
          "return", IF ValidIpAddr(info[t].src_ip) THEN "writeDst" ELSE "return")

WriteDstIpMacMapTableEntry(t) ==
  pc[t] = "writeDst" /\ WriteAnyway(t, EncodeDstIpMacMapTableEntry(info[t]), "return")

EndCall(t) ==
  /\ EndSession(t)
  /\ api' = [api EXCEPT ![t] = "vlan"]
  /\ insert' = [insert EXCEPT ![t] = FALSE]
  /\ info' = [info EXCEPT ![t] = V3!NoInfo]
  /\ touched' = [touched EXCEPT ![t] = FALSE]
  /\ lost' = [lost EXCEPT ![t] = FALSE]
  /\ UNCHANGED broken

-----------------------------------------------------------------------------
StartCall(t) ==
  \E ins \in BOOLEAN :
    \/ ConfigVlanEntry(t, ins)
    \/ ConfigSrcPortEntry(t, ins) \/ ConfigTunnelSrcPortEntry(t, ins)
    \/ ConfigRxTunnelSrcEntry(t, ins)
    \/ ConfigIpMacMapEntry(t, ins)

CallStep(t) ==
  \/ SessionStep(t) /\ UNCHANGED portsVars
  \/ FetchP4Info(t)
  \/ WriteVlanPushTableEntry(t) \/ WriteVlanPopTableEntry(t)
  \/ ReadTxAccVsiTableEntry(t) \/ ConfigureVsiSrcPortTableEntry(t)
  \/ WriteTunnelSrcPort(t)
  \/ WriteRxTunnelSrcPortTableEntry(t)
  \/ ReadVmSrcTableEntry(t) \/ WriteSrcIpMacMapTableEntry(t)
  \/ ReadVmDstTableEntry(t) \/ WriteDstIpMacMapTableEntry(t)
  \/ EndCall(t)

Next ==
  \/ \E t \in Threads : StartCall(t) \/ CallStep(t)
  \/ Environment /\ UNCHANGED portsVars

Spec == Init /\ [][Next]_vars

-----------------------------------------------------------------------------
(* The steps of this module as version 3 sees them: MCV1 checks that every *)
(* initial state and every step is one.                                    *)
StartsAsV3 == V3!PortsInit
StepsAsV3  == [V3!Next]_(V3!vars)

(* The smaller functions of v1/ovsp4rt.cc program their tables as those of *)
(* v3 do.                                                                  *)
ImplementsV3Ports == V3!Spec

(* Packets of a VSI are mapped to its bridge by the port that the user     *)
(* gave the VSI: an entry of the source port table is about a port that    *)
(* TX_ACC_VSI_TABLE holds, though ovsp4rt_config_src_port_entry puts the   *)
(* port together byte by byte, or about a tunnel port that OVS named.      *)
HostPortMapped ==
  \A e \in entries :
    e.table = "SOURCE_PORT_TO_BRIDGE_MAP_TABLE" =>
      \/ \E k \in DOMAIN PortTable : e.key[1] = PortTable[k]
      \/ \E sp \in TunnelSrcPorts : e.key[1] = TwoBytes(sp.src_port)
=============================================================================
