------------------------------ MODULE MCPorts -------------------------------
(***************************************************************************)
(* Es2kConfigPorts for TLC: two threads.  A behaviour has the APIs and     *)
(* arguments of one offer.                                                 *)
(***************************************************************************)
EXTENDS Es2kConfigPorts

VARIABLE offer

Threads2 == {1, 2}
Ids2 == [t \in Threads2 |-> t]

(* VSI 17 has host port 300; VSI 20 has none.                              *)
MCTxAccVsi == [k \in {1} |-> 300]

Sp(bridge, vlan, port) == [bridge_id |-> bridge, vlan_id |-> vlan, src_port |-> port]

Rx(family, v) ==
  [tunnel_type |-> "VXLAN", vni |-> v, bridge_id |-> 1,
   local_family |-> family, remote_family |-> family, local_ip |-> 5, remote_ip |-> 8,
   src_port |-> 2049, dst_port |-> 46354, port_vlan_mode |-> "NATIVE_TAGGED", port_vlan |-> 7]

Map(src, dst) == [src_ip |-> src, dst_ip |-> dst, src_mac |-> 1, dst_mac |-> 2]

Host1   == <<10, 0, 0, 1>>
Host2   == <<10, 0, 0, 2>>
AnyAddr == <<0, 0, 0, 0>>

(* Two VLAN ids with the same low byte.                                    *)
AliasVlans == {7, 263}

(* A VSI with and one without a host port; host port and tunnel port that  *)
(* are the same key of the table.                                          *)
VsiPorts    == {Sp(1, 7, 17), Sp(1, 7, 20)}
TunnelPorts == {Sp(2, 7, 300)}

BothFamilies == {Rx(AF_INET, 1), Rx(AF_INET6, 1), [Rx(AF_INET, 1) EXCEPT !.remote_family = AF_INET6]}

(* Two connections to one host, one of them without a source address.      *)
Maps == {Map(Host1, Host2), Map(AnyAddr, Host2)}

Of(a, S) == {<<a, i>> : i \in S}

Offers ==
  {Of("vlan", AliasVlans) \cup Of("srcPort", VsiPorts) \cup Of("tunnelSrcPort", TunnelPorts),
   Of("rxTunnel", BothFamilies), Of("ipMacMap", Maps)}

MCInit == PortsInit /\ offer \in Offers
MCNext ==
  /\ Next
  /\ UNCHANGED offer
  /\ \A t \in Threads : pc[t] = "idle" /\ pc'[t] # "idle" => <<api'[t], info'[t]>> \in offer

MCSpec == MCInit /\ [][MCNext]_<<vars, offer>>
=============================================================================
