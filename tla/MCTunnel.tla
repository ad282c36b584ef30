------------------------------ MODULE MCTunnel ------------------------------
(***************************************************************************)
(* Es2kConfigTunnel for TLC: two threads.  A behaviour has the tunnels of  *)
(* one offer.                                                              *)
(***************************************************************************)
EXTENDS Es2kConfigTunnel

VARIABLE offer

Tunnel(type, family, mode, remote, v) ==
  [tunnel_type |-> type, vni |-> v, bridge_id |-> 1,
   local_family |-> family, remote_family |-> family, local_ip |-> 5, remote_ip |-> remote,
   src_port |-> 4789, dst_port |-> 46354, port_vlan_mode |-> mode, port_vlan |-> 7]

Threads2 == {1, 2}
Ids2 == [t \in Threads2 |-> t]

(* Two tunnels with VNIs of their own; two remote ends that share a VNI;   *)
(* two VNIs equal in the 24 bits that are encoded; two types on one VNI;   *)
(* a type and a pair of families that no encoder knows.                    *)
Offers ==
  {{Tunnel("VXLAN", AF_INET, "NATIVE_TAGGED", 8, 1),
    Tunnel("GENEVE", AF_INET6, "NATIVE_UNTAGGED", 9, 2)},
   {Tunnel("VXLAN", AF_INET, "NATIVE_TAGGED", 8, 1),
    Tunnel("VXLAN", AF_INET, "TRUNK", 9, 1)},
   {Tunnel("GENEVE", AF_INET, "NATIVE_UNTAGGED", 8, 1 + 16777216),
    Tunnel("GENEVE", AF_INET, "NATIVE_TAGGED", 8, 1)},
   {Tunnel("VXLAN", AF_INET6, "NATIVE_UNTAGGED", 8, 1),
    Tunnel("GENEVE", AF_INET6, "TRUNK", 8, 1)},
   {Tunnel("UNKNOWN", AF_INET, "NATIVE_TAGGED", 8, 1),
    [Tunnel("VXLAN", AF_INET, "NATIVE_TAGGED", 8, 1) EXCEPT !.remote_family = AF_INET6]}}
Offered == UNION Offers

MCInit == TunnelInit /\ offer \in Offers
MCNext ==
  /\ Next
  /\ UNCHANGED offer
  /\ \A t \in Threads : pc[t] = "idle" /\ pc'[t] # "idle" => info'[t] \in offer

MCSpec == MCInit /\ [][MCNext]_<<vars, offer>>
=============================================================================
