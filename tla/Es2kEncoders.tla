---------------------------- MODULE Es2kEncoders ----------------------------
(***************************************************************************)
(* The ES2K encoders: which table, key and action each input structure     *)
(* becomes.  MAC and IP addresses are numbers the encoders copy byte for   *)
(* byte; every other field is cut to the width of the encoded value.       *)
(***************************************************************************)
EXTENDS P4rtTables

AF_INET  == 2
AF_INET6 == 10

VlanModes == {"ACCESS", "TRUNK", "NATIVE_TAGGED", "NATIVE_UNTAGGED", "DOT1Q_TUNNEL"}
TunnelTypes == {"UNKNOWN", "VXLAN", "GENEVE"}
UInt16 == 0 .. 65535

Byte(v)     == v % 256
Word(v)     == v % 65536
TunnelId(v) == v % 1048576
Vni(v)      == v % 16777216

(* htons of a 16-bit number on a little-endian machine.                    *)
Htons(v) == (v % 256) * 256 + Byte(v \div 256)

(* struct tunnel_info, the fields the encoders read.                       *)
TunnelInfo ==
  [tunnel_type : TunnelTypes, vni : Nat, bridge_id : 0 .. 255,
   local_family : Nat, remote_family : Nat, local_ip : Nat, remote_ip : Nat,
   src_port : Nat, dst_port : UInt16, port_vlan_mode : VlanModes, port_vlan : Nat]

(* struct mac_learning_info, with the part of tnl_info that FDB uses.      *)
LearnInfo ==
  [is_tunnel : BOOLEAN, mac_addr : Nat, bridge_id : 0 .. 255,
   src_port : Nat, rx_src_port : Nat, port_vlan_mode : VlanModes, port_vlan : Nat,
   tunnel_type : TunnelTypes, local_family : Nat, remote_family : Nat,
   remote_ip : Nat, vni : Nat]

Untagged(i) == i.port_vlan_mode = "NATIVE_UNTAGGED"
Tagged(i)   == i.port_vlan_mode = "NATIVE_TAGGED"
IsV4(i)     == i.local_family = AF_INET /\ i.remote_family = AF_INET
IsV6(i)     == i.local_family = AF_INET6 /\ i.remote_family = AF_INET6

(***************************************************************************)
(* FDB tables.                                                             *)
(***************************************************************************)
(* Mutant of EncodeFdbSmacTableEntry: the MAC match field is forgotten.    *)
EncodeFdbSmacTableEntry_NoMac(i) ==
  Entry("L2_FWD_SMAC_TABLE", <<i.bridge_id>>, "NO_ACTION", <<>>)

EncodeFdbSmacTableEntry(i) ==
  Entry("L2_FWD_SMAC_TABLE", <<i.mac_addr, i.bridge_id>>, "NO_ACTION", <<>>)

(* The key of L2_FWD_TX_TABLE is the same for every kind of FDB entry.     *)
EncodeL2FwdTxTablePrologue(i, name, params) ==
  Entry("L2_FWD_TX_TABLE", <<i.mac_addr, i.bridge_id>>, name, params)

EncodeFdbTxVlanTableEntry(i) ==
  IF Untagged(i)
    THEN EncodeL2FwdTxTablePrologue(i, "REMOVE_VLAN_AND_FWD",
                                    <<Byte(i.src_port), Byte(i.port_vlan)>>)
    ELSE EncodeL2FwdTxTablePrologue(i, "L2_FWD", <<Byte(i.src_port)>>)

EncodeFdbRxVlanTableEntry(i) ==
  Entry("L2_FWD_RX_TABLE", <<i.mac_addr, i.bridge_id>>, "L2_FWD",
        <<Byte(i.rx_src_port)>>)

(* Tunnel actions of L2_FWD_TX_TABLE, by address family and vlan mode; the *)
(* parameter is the VNI cut to 20 bits.  Addresses of different families   *)
(* leave the action id unset.                                              *)
ByFamilyAndMode(i, v4pop, v4, v6pop, v6) ==
  IF IsV4(i) THEN IF Untagged(i) THEN v4pop ELSE v4
  ELSE IF IsV6(i) THEN IF Untagged(i) THEN v6pop ELSE v6
  ELSE UnsetAction

EncodeFdbTableEntryforV4VxlanTunnel(i) ==
  EncodeL2FwdTxTablePrologue(i,
    ByFamilyAndMode(i, "POP_VLAN_SET_VXLAN_UNDERLAY_V4", "SET_VXLAN_UNDERLAY_V4",
                       "POP_VLAN_SET_VXLAN_UNDERLAY_V6", "SET_VXLAN_UNDERLAY_V6"),
    <<TunnelId(i.vni)>>)

EncodeFdbTableEntryforV4GeneveTunnel(i) ==
  EncodeL2FwdTxTablePrologue(i,
    ByFamilyAndMode(i, "POP_VLAN_SET_GENEVE_UNDERLAY_V4", "SET_GENEVE_UNDERLAY_V4",
                       "POP_VLAN_SET_GENEVE_UNDERLAY_V6", "SET_GENEVE_UNDERLAY_V6"),
    <<TunnelId(i.vni)>>)

(* The L2-to-tunnel tables match on the MAC address alone.                 *)
EncodeL2ToTunnelV4(i) ==
  Entry("L2_TO_TUNNEL_V4", <<i.mac_addr>>, "SET_TUNNEL_V4", <<i.remote_ip>>)

EncodeL2ToTunnelV6(i) ==
  Entry("L2_TO_TUNNEL_V6", <<i.mac_addr>>, "SET_TUNNEL_V6", <<i.remote_ip>>)

(* The key of TX_ACC_VSI_TABLE for a source port: (sp - VSI_ID_OFFSET).    *)
EncodeTxAccVsiTableEntry(sp) == Byte(sp - 16)

(***************************************************************************)
(* Tunnel encapsulation tables, keyed by the VNI alone.  The caller's      *)
(* dst_port is in network order.  The source port it passes is ignored:    *)
(* the parameter is twice the destination port, kept in 16 bits.           *)
(***************************************************************************)
EncapParams(i) ==
  <<i.local_ip, i.remote_ip, Word(Htons(i.dst_port) * 2), Htons(i.dst_port), Vni(i.vni)>>

EncodeVxlanEncapTableEntry(i) ==
  Entry("VXLAN_ENCAP_MOD_TABLE", <<Vni(i.vni)>>, "VXLAN_ENCAP", EncapParams(i))
EncodeGeneveEncapTableEntry(i) ==
  Entry("GENEVE_ENCAP_MOD_TABLE", <<Vni(i.vni)>>, "GENEVE_ENCAP", EncapParams(i))
EncodeV6VxlanEncapTableEntry(i) ==
  Entry("VXLAN_ENCAP_V6_MOD_TABLE", <<Vni(i.vni)>>, "VXLAN_ENCAP_V6", EncapParams(i))
EncodeV6GeneveEncapTableEntry(i) ==
  Entry("GENEVE_ENCAP_V6_MOD_TABLE", <<Vni(i.vni)>>, "GENEVE_ENCAP_V6", EncapParams(i))
EncodeVxlanEncapAndVlanPopTableEntry(i) ==
  Entry("VXLAN_ENCAP_VLAN_POP_MOD_TABLE", <<Vni(i.vni)>>,
        "VXLAN_ENCAP_VLAN_POP", EncapParams(i))
EncodeGeneveEncapAndVlanPopTableEntry(i) ==
  Entry("GENEVE_ENCAP_VLAN_POP_MOD_TABLE", <<Vni(i.vni)>>,
        "GENEVE_ENCAP_VLAN_POP", EncapParams(i))
EncodeV6VxlanEncapAndVlanPopTableEntry(i) ==
  Entry("VXLAN_ENCAP_V6_VLAN_POP_MOD_TABLE", <<Vni(i.vni)>>,
        "VXLAN_ENCAP_V6_VLAN_POP", EncapParams(i))
EncodeV6GeneveEncapAndVlanPopTableEntry(i) ==
  Entry("GENEVE_ENCAP_V6_VLAN_POP_MOD_TABLE", <<Vni(i.vni)>>,
        "GENEVE_ENCAP_V6_VLAN_POP", EncapParams(i))

(***************************************************************************)
(* Tunnel decapsulation tables, keyed by the VNI; the pushed tag has       *)
(* pcp 1, dei 0 and the port's vlan cut to one byte.                       *)
(***************************************************************************)
EncodeVxlanDecapModTableEntry(i) ==
  Entry("VXLAN_DECAP_MOD_TABLE", <<Vni(i.vni)>>, "VXLAN_DECAP_OUTER_HDR", <<>>)
EncodeGeneveDecapModTableEntry(i) ==
  Entry("GENEVE_DECAP_MOD_TABLE", <<Vni(i.vni)>>, "GENEVE_DECAP_OUTER_HDR", <<>>)
EncodeVxlanDecapModAndVlanPushTableEntry(i) ==
  Entry("VXLAN_DECAP_AND_VLAN_PUSH_MOD_TABLE", <<Vni(i.vni)>>,
        "VXLAN_DECAP_AND_PUSH_VLAN", <<1, 0, Byte(i.port_vlan)>>)
EncodeGeneveDecapModAndVlanPushTableEntry(i) ==
  Entry("GENEVE_DECAP_AND_VLAN_PUSH_MOD_TABLE", <<Vni(i.vni)>>,
        "GENEVE_DECAP_AND_PUSH_VLAN", <<1, 0, Byte(i.port_vlan)>>)

(***************************************************************************)
(* Tunnel termination tables.  An unknown tunnel type leaves the action id *)
(* unset.                                                                  *)
(***************************************************************************)
ByType(i, vxlan, geneve, other) ==
  IF i.tunnel_type = "VXLAN" THEN vxlan
  ELSE IF i.tunnel_type = "GENEVE" THEN geneve
  ELSE other

TermAction(i) ==
  IF Untagged(i)
    THEN ByType(i, "SET_VXLAN_DECAP_OUTER_HDR_AND_PUSH_VLAN",
                   "SET_GENEVE_DECAP_OUTER_HDR_AND_PUSH_VLAN", UnsetAction)
    ELSE ByType(i, "SET_VXLAN_DECAP_OUTER_HDR", "SET_GENEVE_DECAP_OUTER_HDR", UnsetAction)

EncodeTunnelTermTableEntry(i) ==
  Entry("IPV4_TUNNEL_TERM_TABLE", <<i.remote_ip, i.bridge_id, Vni(i.vni)>>,
        TermAction(i), <<TunnelId(i.vni)>>)

EncodeV6TunnelTermTableEntry(i) ==
  Entry("IPV6_TUNNEL_TERM_TABLE", <<i.bridge_id, i.remote_ip, Vni(i.vni)>>,
        TermAction(i), <<TunnelId(i.vni)>>)

(***************************************************************************)
(* Tables of the smaller APIs.                                             *)
(***************************************************************************)
(* struct src_port_info, and struct ip_mac_map_info with IPv4 addresses as *)
(* the bytes in memory (network order).                                    *)
SrcPortInfo == [bridge_id : 0 .. 255, vlan_id : Nat, src_port : Nat]

IpMacMapInfo ==
  [src_ip : [1 .. 4 -> 0 .. 255], dst_ip : [1 .. 4 -> 0 .. 255], src_mac : Nat, dst_mac : Nat]

(* Only the low byte of the 12-bit VLAN id is encoded.                     *)
EncodeVlanPushTableEntry(vlan) ==
  Entry("VLAN_PUSH_MOD_TABLE", <<Byte(vlan)>>, "VLAN_PUSH", <<1, 0, Byte(vlan)>>)

EncodeVlanPopTableEntry(vlan) ==
  Entry("VLAN_POP_MOD_TABLE", <<Byte(vlan)>>, "VLAN_POP", <<>>)

(* Ternary matches under full masks.                                       *)
EncodeSrcPortTableEntry(sp) ==
  Entry("SOURCE_PORT_TO_BRIDGE_MAP_TABLE", <<Word(sp.src_port), sp.vlan_id % 4096>>,
        "SET_BRIDGE_ID", <<Byte(sp.bridge_id)>>)

EncodeRxTunnelTableEntry(i) ==
  Entry("RX_IPV4_TUNNEL_SOURCE_PORT_TABLE", <<Vni(i.vni), i.remote_ip>>,
        "SET_SRC_PORT", <<Word(i.src_port)>>)

EncodeV6RxTunnelTableEntry(i) ==
  Entry("RX_IPV6_TUNNEL_SOURCE_PORT_TABLE", <<Vni(i.vni), i.remote_ip>>,
        "SET_SRC_PORT", <<Word(i.src_port)>>)

EncodeSrcIpMacMapTableEntry(i) ==
  Entry("SRC_IP_MAC_MAP_TABLE", i.src_ip, "SMAC_MAP", <<i.src_mac>>)

EncodeDstIpMacMapTableEntry(i) ==
  Entry("DST_IP_MAC_MAP_TABLE", i.dst_ip, "DMAC_MAP", <<i.dst_mac>>)
=============================================================================
