------------------------------- MODULE MCFdb --------------------------------
(***************************************************************************)
(* Instances of Es2kConfigFdb and its service for TLC.  Thread ids are the *)
(* threads themselves; VSI ports 16 and up, host ports chosen beyond one   *)
(* byte.                                                                   *)
(***************************************************************************)
EXTENDS Es2kFdbService

Same(S) == [x \in S |-> x]

Vlan(mac, bridge, sp) ==
  [is_tunnel |-> FALSE, mac_addr |-> mac, bridge_id |-> bridge,
   src_port |-> sp, rx_src_port |-> sp + 1,
   port_vlan_mode |-> "NATIVE_UNTAGGED", port_vlan |-> 7,
   tunnel_type |-> "UNKNOWN", local_family |-> 0, remote_family |-> 0,
   remote_ip |-> 0, vni |-> 0]

Tunnel(mac, bridge, type, family, ip) ==
  [is_tunnel |-> TRUE, mac_addr |-> mac, bridge_id |-> bridge,
   src_port |-> 0, rx_src_port |-> 0,
   port_vlan_mode |-> "NATIVE_TAGGED", port_vlan |-> 7,
   tunnel_type |-> type, local_family |-> family, remote_family |-> family,
   remote_ip |-> ip, vni |-> 1048577]

Threads1 == {1}
Threads2 == {1, 2}
Ids1 == Same(Threads1)
Ids2 == Same(Threads2)

(* VSI 17 has host port 300; VSI 20 has none.                              *)
MCTxAccVsi == [k \in {1} |-> 300]

(* One MAC on one bridge, learned as every kind of entry.                  *)
OneMac  == {Vlan(1, 1, 17), Tunnel(1, 1, "VXLAN", AF_INET, 9), Tunnel(1, 1, "GENEVE", AF_INET6, 8)}
Forget1 == {Vlan(1, 1, 0)}

(* All the ways out: a second bridge, a VSI without host port, a tunnel    *)
(* type nobody knows, addresses of two families.                           *)
Odd == {Vlan(1, 2, 17), Vlan(1, 1, 20), Tunnel(1, 1, "UNKNOWN", AF_INET, 9),
        [Tunnel(1, 1, "VXLAN", AF_INET, 9) EXCEPT !.remote_family = AF_INET6]}
OddMac == OneMac \cup Odd
Forget2 == {Vlan(1, 1, 0), Vlan(1, 2, 0)}

(* Two MAC addresses, of both kinds.                                       *)
TwoMacs == {Vlan(1, 1, 17), Tunnel(2, 1, "GENEVE", AF_INET6, 9)}
ForgetTwo == {Vlan(1, 1, 0), Vlan(2, 1, 0)}

(* A MAC address that moves from a tunnel to a port of another bridge.     *)
TwoBridges == {Tunnel(1, 1, "VXLAN", AF_INET, 9), Vlan(1, 2, 17)}
=============================================================================
