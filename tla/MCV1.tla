-------------------------------- MODULE MCV1 --------------------------------
(***************************************************************************)
(* Version 1 of the core for TLC.  part says which of its functions, for   *)
(* which target and with which arguments, a behaviour is about.  The       *)
(* smaller calls are those of the module that is extended; the others are  *)
(* instances on the same variables.                                        *)
(***************************************************************************)
EXTENDS V1ConfigPorts

VARIABLES part, wrote, disturbed

mcVars == <<vars, part, wrote, disturbed>>

-----------------------------------------------------------------------------
OneThread == {1}
TwoThreads == {1, 2}
Ids1 == [t \in OneThread |-> t]
Ids2 == [t \in TwoThreads |-> t]

(* VSI 17 has host port 400, whose low byte has its top bit set; VSI 20    *)
(* has none.                                                               *)
MCTxAccVsi == [k \in {1} |-> <<0, 0, 1, 144>>]

Vlan(mac, bridge, sp) ==
  [is_tunnel |-> FALSE, mac_addr |-> mac, bridge_id |-> bridge,
   src_port |-> sp, rx_src_port |-> sp + 1,
   port_vlan_mode |-> "NATIVE_UNTAGGED", port_vlan |-> 7,
   tunnel_type |-> "UNKNOWN", local_family |-> 0, remote_family |-> 0,
   remote_ip |-> 0, vni |-> 0]

Remote(mac, type, family, mode) ==
  [is_tunnel |-> TRUE, mac_addr |-> mac, bridge_id |-> 1,
   src_port |-> 0, rx_src_port |-> 0, port_vlan_mode |-> mode, port_vlan |-> 7,
   tunnel_type |-> type, local_family |-> family, remote_family |-> family,
   remote_ip |-> 9, vni |-> 1048577]

Dpdk(tunnel, vlan, mac) ==
  [is_tunnel |-> tunnel, is_vlan |-> vlan > 0, mac_addr |-> mac, vlan_id |-> vlan,
   vni |-> 257, remote_ip |-> 8]

Tunnel(type, family, mode, remote, v) ==
  [tunnel_type |-> type, vni |-> v, bridge_id |-> 1,
   local_family |-> family, remote_family |-> family, local_ip |-> 5, remote_ip |-> remote,
   src_port |-> 4789, dst_port |-> 46354, port_vlan_mode |-> mode, port_vlan |-> 263]

Mixed(i) == [i EXCEPT !.remote_family = AF_INET6]

-----------------------------------------------------------------------------
(* Two threads on one MAC address; and everything one call can meet.       *)
OneMac == {Vlan(1, 1, 17), Remote(1, "VXLAN", AF_INET, "NATIVE_TAGGED")}
EveryKind ==
  {Vlan(1, 1, 17), [Vlan(1, 1, 17) EXCEPT !.port_vlan_mode = "TRUNK"], Vlan(1, 2, 17), Vlan(1, 1, 20),
   Remote(1, "VXLAN", AF_INET, "NATIVE_TAGGED"), Remote(1, "GENEVE", AF_INET6, "NATIVE_TAGGED"),
   Remote(1, "VXLAN", AF_INET6, "NATIVE_UNTAGGED"), Remote(1, "GENEVE", AF_INET, "NATIVE_UNTAGGED"),
   Remote(1, "UNKNOWN", AF_INET, "NATIVE_TAGGED"), Mixed(Remote(1, "VXLAN", AF_INET, "NATIVE_TAGGED"))}

Forget1 == {Vlan(1, 1, 0)}
Forget2 == {Vlan(1, 1, 0), Vlan(1, 2, 0)}

FdbRace  == INSTANCE V1ConfigFdb WITH
  Target <- "ES2K", Threads <- TwoThreads, ThreadId <- Ids2,
  InsertInfos <- OneMac, DeleteInfos <- Forget1
FdbKinds == INSTANCE V1ConfigFdb WITH
  Target <- "ES2K", Threads <- OneThread, ThreadId <- Ids1,
  InsertInfos <- EveryKind, DeleteInfos <- Forget2

(* Every table: both types and families, all kinds of vlan mode; a type    *)
(* and a pair of families that no encoder knows.                           *)
Shapes ==
  {Tunnel("VXLAN", AF_INET, "NATIVE_TAGGED", 8, 1 + 1048576),
   Tunnel("GENEVE", AF_INET, "NATIVE_UNTAGGED", 8, 1 + 1048576),
   Tunnel("VXLAN", AF_INET6, "NATIVE_UNTAGGED", 8, 1 + 1048576),
   Tunnel("GENEVE", AF_INET6, "TRUNK", 8, 1 + 1048576),
   Tunnel("UNKNOWN", AF_INET, "NATIVE_TAGGED", 8, 1 + 1048576),
   Mixed(Tunnel("VXLAN", AF_INET, "NATIVE_TAGGED", 8, 1 + 1048576))}

(* DPDK reads fewer fields.                                                *)
DpdkTunnel(remote, v) == [vni |-> v, local_ip |-> 5, remote_ip |-> remote, dst_port |-> 46354]
DpdkTunnels == {DpdkTunnel(8, 1), DpdkTunnel(9, 257)}

Tunnels   == INSTANCE V1ConfigTunnel WITH
  Target <- "ES2K", Threads <- OneThread, ThreadId <- Ids1, TunnelInfos <- Shapes
OnDpdkTunnels == INSTANCE V1ConfigTunnel WITH
  Target <- "DPDK", Threads <- TwoThreads, ThreadId <- Ids2, TunnelInfos <- DpdkTunnels

(* A MAC address in a VLAN, one behind a tunnel whose VNI has more than    *)
(* one byte, and one of no kind.                                           *)
DpdkMacs == {Dpdk(FALSE, 1, 1), Dpdk(TRUE, 0, 2), Dpdk(FALSE, 0, 3)}

OnDpdkFdb == INSTANCE V1DpdkFdb WITH
  Target <- "DPDK", Threads <- TwoThreads, ThreadId <- Ids2, LearnInfos <- DpdkMacs

(* The smaller calls with two threads, by API.  A VSI with and one without *)
(* a host port; a tunnel port that is the key of the host port; two VLAN   *)
(* ids with the same low byte; every pair of families; no source address.  *)
Port(bridge, port) == [bridge_id |-> bridge, vlan_id |-> 7, src_port |-> port]
RxOf(family) == [Tunnel("VXLAN", family, "NATIVE_TAGGED", 8, 1) EXCEPT !.port_vlan = 7]
IpMac(src) == [src_ip |-> src, dst_ip |-> <<10, 0, 0, 2>>, src_mac |-> 1, dst_mac |-> 2]

MCVlans      == {7, 263}
VsiPorts     == {Port(1, 17), Port(1, 20)}
TunnelPorts  == {Port(2, 400)}
BothFamilies == {RxOf(AF_INET), RxOf(AF_INET6), Mixed(RxOf(AF_INET))}
Maps         == {IpMac(<<10, 0, 0, 1>>), IpMac(<<0, 0, 0, 0>>)}

Apis == [vlans |-> {"vlan", "srcPort"}, srcPorts |-> {"srcPort", "tunnelSrcPort"},
         rxTunnels |-> {"rxTunnel"}, ipMacMaps |-> {"ipMacMap"}]

Offered(t) == pc[t] = "idle" /\ pc'[t] # "idle" => api'[t] \in Apis[part]

(* What the proofs ask of the constants.                                   *)
ASSUME MCAssumptions ==
  /\ PortParams /\ V3!ThreadIdAssumption /\ V3!PortsAssumption
  /\ FdbRace!V3!ThreadIdAssumption /\ FdbKinds!V3!ThreadIdAssumption
  /\ Tunnels!V3!ThreadIdAssumption /\ OnDpdkTunnels!V3Dpdk!ThreadIdAssumption
  /\ OnDpdkFdb!V3!ThreadIdAssumption
  /\ FdbRace!V3!TxAccVsiAssumption /\ FdbRace!V3!MaxClockAssumption
  /\ FdbRace!V3!InfosAssumption /\ FdbKinds!V3!InfosAssumption
  /\ Tunnels!V3!TunnelInfosAssumption
  /\ OnDpdkTunnels!V3Dpdk!DpdkInfosAssumption /\ OnDpdkFdb!V3!DpdkInfosAssumption

-----------------------------------------------------------------------------
Unused == "unused"

MCInit ==
  \/ /\ \/ part = "fdbRace"  /\ FdbRace!Init
        \/ part = "fdbKinds" /\ FdbKinds!Init
     /\ api = Unused /\ touched = Unused /\ lost = Unused /\ broken = Unused
  \/ /\ \/ part = "tunnels"     /\ Tunnels!Init
        \/ part = "dpdkTunnels" /\ OnDpdkTunnels!Init
     /\ api = Unused /\ wrote = Unused /\ lost = Unused /\ broken = Unused
  \/ /\ part = "dpdkFdb" /\ OnDpdkFdb!Init
     /\ api = Unused /\ wrote = Unused /\ disturbed = Unused /\ lost = Unused
  \/ /\ part \in DOMAIN Apis /\ Init
     /\ wrote = Unused /\ disturbed = Unused

MCNext ==
  /\ UNCHANGED part
  /\ \/ part = "fdbRace"  /\ FdbRace!Next  /\ UNCHANGED <<api, touched, lost, broken>>
     \/ part = "fdbKinds" /\ FdbKinds!Next /\ UNCHANGED <<api, touched, lost, broken>>
     \/ part = "tunnels"     /\ Tunnels!Next       /\ UNCHANGED <<api, wrote, lost, broken>>
     \/ part = "dpdkTunnels" /\ OnDpdkTunnels!Next /\ UNCHANGED <<api, wrote, lost, broken>>
     \/ part = "dpdkFdb" /\ OnDpdkFdb!Next /\ UNCHANGED <<api, wrote, disturbed, lost>>
     \/ /\ part \in DOMAIN Apis /\ Next /\ \A t \in Threads : Offered(t)
        /\ UNCHANGED <<wrote, disturbed>>

MCSpec == MCInit /\ [][MCNext]_mcVars

-----------------------------------------------------------------------------
(* The default build programs the FDB as version 3 does: every step of     *)
(* ovsp4rt_config_fdb_entry in v1/ovsp4rt.cc, for every interleaving and   *)
(* every failure, is a step of v3/es2k_config_fdb_entry.cc with the same   *)
(* table entries, or none.                                                 *)
ImplementsV3Fdb ==
  /\ part = "fdbRace"  => FdbRace!StartsAsV3
  /\ part = "fdbKinds" => FdbKinds!StartsAsV3
  /\ [][/\ part = "fdbRace"  => FdbRace!StepsAsV3
        /\ part = "fdbKinds" => FdbKinds!StepsAsV3]_mcVars

(* The default build sets tunnels up as version 3 does on ES2K: every step *)
(* of ovsp4rt_config_tunnel_entry in v1/ovsp4rt.cc is a step of            *)
(* v3/es2k_config_tunnel_entry.cc, with the same entries for every type,   *)
(* family and vlan mode.                                                   *)
ImplementsV3Tunnel ==
  /\ part = "tunnels" => Tunnels!StartsAsV3
  /\ [][part = "tunnels" => Tunnels!StepsAsV3]_mcVars

(* The default build on DPDK: every step of ovsp4rt_config_tunnel_entry    *)
(* and of ovsp4rt_config_fdb_entry in v1/ovsp4rt.cc, compiled for DPDK, is *)
(* a step of v3/dpdk_config_tunnel_entry.cc or of                          *)
(* v3/dpdk_config_fdb_entry.cc, in every interleaving and with every       *)
(* failure.                                                                *)
ImplementsV3Dpdk ==
  /\ part = "dpdkTunnels" => OnDpdkTunnels!StartsAsV3Dpdk
  /\ part = "dpdkFdb"     => OnDpdkFdb!StartsAsV3
  /\ [][/\ part = "dpdkTunnels" => OnDpdkTunnels!StepsAsV3Dpdk
        /\ part = "dpdkFdb"     => OnDpdkFdb!StepsAsV3]_mcVars

(* The default build programs the smaller tables as version 3 does: every  *)
(* step of the five functions in v1/ovsp4rt.cc is a step of the functions  *)
(* of v3 with the same entries (ImplementsV3Ports in their part).          *)
SmallerImplementV3 ==
  /\ part \in DOMAIN Apis => StartsAsV3
  /\ [][(part \in DOMAIN Apis) => StepsAsV3]_mcVars
=============================================================================
