---------------------------- MODULE DpdkEncoders ----------------------------
(***************************************************************************)
(* The DPDK encoders.  The DPDK pipeline knows VXLAN over IPv4 only and    *)
(* has no bridges: the FDB tables match on the MAC address alone.          *)
(***************************************************************************)
EXTENDS P4rtTables

Byte(v) == v % 256
Vni(v)  == v % 16777216

(* htons of a 16-bit number on a little-endian machine.                    *)
Htons(v) == Byte(v) * 256 + Byte(v \div 256)

(* struct mac_learning_info and struct tunnel_info, the fields DPDK reads. *)
LearnInfo == [is_tunnel : BOOLEAN, is_vlan : BOOLEAN, mac_addr : Nat,
              vlan_id : Nat, vni : Nat, remote_ip : Nat]

TunnelInfo == [vni : Nat, local_ip : Nat, remote_ip : Nat, dst_port : 0 .. 65535]

EncodeL2FwdTxTablePrologue(i, name, params) ==
  Entry("L2_FWD_TX_TABLE", <<i.mac_addr>>, name, params)

(* Port p of the switch is in VLAN p + 1.                                  *)
EncodeFdbTxVlanTableEntry(i) ==
  EncodeL2FwdTxTablePrologue(i, "L2_FWD", <<Byte(i.vlan_id - 1)>>)

EncodeFdbRxVlanTableEntry(i) ==
  Entry("L2_FWD_RX_WITH_TUNNEL_TABLE", <<i.mac_addr>>, "L2_FWD", <<Byte(i.vlan_id - 1)>>)

(* Only the low byte of the VNI becomes the tunnel id.                     *)
EncodeFdbTableEntryforV4VxlanTunnel(i) ==
  EncodeL2FwdTxTablePrologue(i, "SET_TUNNEL", <<Byte(i.vni), i.remote_ip>>)

EncodeVxlanEncapTableEntry(i) ==
  Entry("VXLAN_ENCAP_MOD_TABLE", <<Vni(i.vni)>>, "VXLAN_ENCAP",
        <<i.local_ip, i.remote_ip, Htons(i.dst_port), Vni(i.vni)>>)

TUNNEL_TYPE_VXLAN == 2

EncodeTunnelTermTableEntry(i) ==
  Entry("IPV4_TUNNEL_TERM_TABLE", <<i.remote_ip, TUNNEL_TYPE_VXLAN, i.local_ip>>,
        "DECAP_OUTER_IPV4", <<Byte(i.vni)>>)
=============================================================================
