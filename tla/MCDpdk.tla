------------------------------- MODULE MCDpdk -------------------------------
(***************************************************************************)
(* DpdkConfig for TLC: two threads.  A behaviour has the APIs and          *)
(* arguments of one offer.                                                 *)
(***************************************************************************)
EXTENDS DpdkConfig

VARIABLE offer

VlanMac(mac, vlan) ==
  [is_tunnel |-> FALSE, is_vlan |-> TRUE, mac_addr |-> mac, vlan_id |-> vlan,
   vni |-> 0, remote_ip |-> 0]
TunnelMac(mac, v, remote) ==
  [is_tunnel |-> TRUE, is_vlan |-> FALSE, mac_addr |-> mac, vlan_id |-> 0,
   vni |-> v, remote_ip |-> remote]
OtherMac(mac) ==
  [is_tunnel |-> FALSE, is_vlan |-> FALSE, mac_addr |-> mac, vlan_id |-> 0,
   vni |-> 0, remote_ip |-> 0]

Tunnel(v, remote) == [vni |-> v, local_ip |-> 5, remote_ip |-> remote, dst_port |-> 46354]

Threads2 == {1, 2}
Ids2 == [t \in Threads2 |-> t]

(* A MAC address that moves between two VLANs.                             *)
Moving == {VlanMac(1, 1), VlanMac(1, 2)}

(* A MAC address behind a tunnel, one of no kind, and two tunnels.  The    *)
(* VNIs are the same in the byte that some entries carry.                  *)
Remote  == {TunnelMac(2, 258, 8), OtherMac(3)}
Tunnels == {Tunnel(2, 9), Tunnel(258, 8)}

Learned == Moving \cup Remote

Of(a, S) == {<<a, i>> : i \in S}

Offers == {Of("fdb", Moving) \cup Of("tunnel", {Tunnel(2, 9)}),
           Of("fdb", Remote) \cup Of("tunnel", Tunnels)}

MCInit == DpdkInit /\ offer \in Offers
MCNext ==
  /\ Next
  /\ UNCHANGED offer
  /\ \A t \in Threads : pc[t] = "idle" /\ pc'[t] # "idle" => <<api'[t], info'[t]>> \in offer

MCSpec == MCInit /\ [][MCNext]_<<vars, offer>>
=============================================================================
