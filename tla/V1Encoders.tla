----------------------------- MODULE V1Encoders -----------------------------
(***************************************************************************)
(* The encoders of version 1 of the core, the one the build selects by     *)
(* default.  One file serves both targets: what the preprocessor selects   *)
(* there, the constant Target selects here.                                *)
(***************************************************************************)
EXTENDS P4rtTables

CONSTANT Target   \* what the library is built for: "ES2K" or "DPDK"

(* With a parameter, for TLC evaluates a constant definition once, and     *)
(* MCV1 has instances for both targets.                                    *)
BuiltFor(target) == Target = target

AF_INET  == 2
AF_INET6 == 10

EncodeByteValue(v) == v % 256
TwoBytes(v)        == v % 65536
EncodeTunnelId(v)  == v % 1048576
EncodeVniValue(v)  == v % 16777216

(* htons on a little-endian machine.                                       *)
Swapped(v) == EncodeByteValue(v) * 256 + EncodeByteValue(v \div 256)

BothFamily(i, f) == i.local_family = f /\ i.remote_family = f
Untagged(i)      == i.port_vlan_mode = "NATIVE_UNTAGGED"
Tagged(i)        == i.port_vlan_mode = "NATIVE_TAGGED"

OfType(i, vxlan, geneve, other) ==
  IF i.tunnel_type = "VXLAN" THEN vxlan
  ELSE IF i.tunnel_type = "GENEVE" THEN geneve
  ELSE other

(* s_addr is compared in memory order: INADDR_LOOPBACK is 1.0.0.127 there. *)
ValidIpAddr(ip) == ip \notin {<<0, 0, 0, 0>>, <<1, 0, 0, 127>>, <<255, 255, 255, 255>>}

-----------------------------------------------------------------------------
(* FDB.  ES2K matches on the bridge as well.                               *)
MacKey(i) == IF BuiltFor("DPDK") THEN <<i.mac_addr>> ELSE <<i.mac_addr, i.bridge_id>>

EncodeFdbSmacTableEntry(i) == Entry("L2_FWD_SMAC_TABLE", MacKey(i), "NO_ACTION", <<>>)

EncodeFdbTxVlanTableEntry(i) ==
  IF BuiltFor("DPDK")
    THEN Entry("L2_FWD_TX_TABLE", MacKey(i), "L2_FWD", <<EncodeByteValue(i.vlan_id - 1)>>)
  ELSE IF Untagged(i)
    THEN Entry("L2_FWD_TX_TABLE", MacKey(i), "REMOVE_VLAN_AND_FWD",
               <<EncodeByteValue(i.src_port), EncodeByteValue(i.port_vlan)>>)
  ELSE Entry("L2_FWD_TX_TABLE", MacKey(i), "L2_FWD", <<EncodeByteValue(i.src_port)>>)

EncodeFdbRxVlanTableEntry(i) ==
  IF BuiltFor("DPDK") THEN Entry("L2_FWD_RX_WITH_TUNNEL_TABLE", MacKey(i), "L2_FWD",
                       <<EncodeByteValue(i.vlan_id - 1)>>)
            ELSE Entry("L2_FWD_RX_TABLE", MacKey(i), "L2_FWD",
                       <<EncodeByteValue(i.rx_src_port)>>)

(* The ES2K tunnel action; unset when the families are mixed.              *)
Underlay(i, v4pop, v4, v6pop, v6) ==
  IF BothFamily(i, AF_INET) THEN IF Untagged(i) THEN v4pop ELSE v4
  ELSE IF BothFamily(i, AF_INET6) THEN IF Untagged(i) THEN v6pop ELSE v6
  ELSE UnsetAction

(* Mutant of EncodeFdbTableEntryforV4VxlanTunnel: the tunnel id has the    *)
(* width of a VNI.                                                         *)
EncodeFdbTableEntryforV4VxlanTunnel_Wide(i) ==
  IF BuiltFor("DPDK")
    THEN Entry("L2_FWD_TX_TABLE", MacKey(i), "SET_TUNNEL",
               <<EncodeByteValue(i.vni), i.remote_ip>>)
    ELSE Entry("L2_FWD_TX_TABLE", MacKey(i),
               Underlay(i, "POP_VLAN_SET_VXLAN_UNDERLAY_V4", "SET_VXLAN_UNDERLAY_V4",
                           "POP_VLAN_SET_VXLAN_UNDERLAY_V6", "SET_VXLAN_UNDERLAY_V6"),
               <<EncodeVniValue(i.vni)>>)

EncodeFdbTableEntryforV4VxlanTunnel(i) ==
  IF BuiltFor("DPDK")
    THEN Entry("L2_FWD_TX_TABLE", MacKey(i), "SET_TUNNEL",
               <<EncodeByteValue(i.vni), i.remote_ip>>)
    ELSE Entry("L2_FWD_TX_TABLE", MacKey(i),
               Underlay(i, "POP_VLAN_SET_VXLAN_UNDERLAY_V4", "SET_VXLAN_UNDERLAY_V4",
                           "POP_VLAN_SET_VXLAN_UNDERLAY_V6", "SET_VXLAN_UNDERLAY_V6"),
               <<EncodeTunnelId(i.vni)>>)

EncodeFdbTableEntryforV4GeneveTunnel(i) ==
  Entry("L2_FWD_TX_TABLE", MacKey(i),
        Underlay(i, "POP_VLAN_SET_GENEVE_UNDERLAY_V4", "SET_GENEVE_UNDERLAY_V4",
                    "POP_VLAN_SET_GENEVE_UNDERLAY_V6", "SET_GENEVE_UNDERLAY_V6"),
        <<EncodeTunnelId(i.vni)>>)

EncodeL2ToTunnelV4(i) ==
  Entry("L2_TO_TUNNEL_V4", <<i.mac_addr>>, "SET_TUNNEL_V4", <<i.remote_ip>>)
EncodeL2ToTunnelV6(i) ==
  Entry("L2_TO_TUNNEL_V6", <<i.mac_addr>>, "SET_TUNNEL_V6", <<i.remote_ip>>)

(* The key of TX_ACC_VSI_TABLE: sp - ES2K_VPORT_ID_OFFSET in one byte.     *)
EncodeTxAccVsiTableEntry(sp) == EncodeByteValue(sp - 16)

-----------------------------------------------------------------------------
(* Tunnels.  An encapsulation entry is keyed by the VNI; only ES2K has a   *)
(* source port parameter, twice the destination port.                      *)
Encap(table, name, i) ==
  Entry(table, <<EncodeVniValue(i.vni)>>, name,
        IF BuiltFor("DPDK")
          THEN <<i.local_ip, i.remote_ip, Swapped(i.dst_port), EncodeVniValue(i.vni)>>
          ELSE <<i.local_ip, i.remote_ip, TwoBytes(Swapped(i.dst_port) * 2),
                 Swapped(i.dst_port), EncodeVniValue(i.vni)>>)

EncodeVxlanEncapTableEntry(i)    == Encap("VXLAN_ENCAP_MOD_TABLE", "VXLAN_ENCAP", i)
EncodeGeneveEncapTableEntry(i)   == Encap("GENEVE_ENCAP_MOD_TABLE", "GENEVE_ENCAP", i)
EncodeV6VxlanEncapTableEntry(i)  == Encap("VXLAN_ENCAP_V6_MOD_TABLE", "VXLAN_ENCAP_V6", i)
EncodeV6GeneveEncapTableEntry(i) == Encap("GENEVE_ENCAP_V6_MOD_TABLE", "GENEVE_ENCAP_V6", i)
EncodeVxlanEncapAndVlanPopTableEntry(i) ==
  Encap("VXLAN_ENCAP_VLAN_POP_MOD_TABLE", "VXLAN_ENCAP_VLAN_POP", i)
EncodeGeneveEncapAndVlanPopTableEntry(i) ==
  Encap("GENEVE_ENCAP_VLAN_POP_MOD_TABLE", "GENEVE_ENCAP_VLAN_POP", i)
EncodeV6VxlanEncapAndVlanPopTableEntry(i) ==
  Encap("VXLAN_ENCAP_V6_VLAN_POP_MOD_TABLE", "VXLAN_ENCAP_V6_VLAN_POP", i)
EncodeV6GeneveEncapAndVlanPopTableEntry(i) ==
  Encap("GENEVE_ENCAP_V6_VLAN_POP_MOD_TABLE", "GENEVE_ENCAP_V6_VLAN_POP", i)

PrepareV4EncapTableEntry(i) ==
  IF BuiltFor("DPDK") THEN EncodeVxlanEncapTableEntry(i)
  ELSE OfType(i, EncodeVxlanEncapTableEntry(i), EncodeGeneveEncapTableEntry(i), EmptyEntry)
PrepareV6EncapTableEntry(i) ==
  OfType(i, EncodeV6VxlanEncapTableEntry(i), EncodeV6GeneveEncapTableEntry(i), EmptyEntry)
PrepareV4EncapAndVlanPopTableEntry(i) ==
  OfType(i, EncodeVxlanEncapAndVlanPopTableEntry(i),
            EncodeGeneveEncapAndVlanPopTableEntry(i), EmptyEntry)
PrepareV6EncapAndVlanPopTableEntry(i) ==
  OfType(i, EncodeV6VxlanEncapAndVlanPopTableEntry(i),
            EncodeV6GeneveEncapAndVlanPopTableEntry(i), EmptyEntry)

EncodeVxlanDecapModTableEntry(i) ==
  Entry("VXLAN_DECAP_MOD_TABLE", <<EncodeVniValue(i.vni)>>, "VXLAN_DECAP_OUTER_HDR", <<>>)
EncodeGeneveDecapModTableEntry(i) ==
  Entry("GENEVE_DECAP_MOD_TABLE", <<EncodeVniValue(i.vni)>>, "GENEVE_DECAP_OUTER_HDR", <<>>)
EncodeVxlanDecapModAndVlanPushTableEntry(i) ==
  Entry("VXLAN_DECAP_AND_VLAN_PUSH_MOD_TABLE", <<EncodeVniValue(i.vni)>>,
        "VXLAN_DECAP_AND_PUSH_VLAN", <<1, 0, EncodeByteValue(i.port_vlan)>>)
EncodeGeneveDecapModAndVlanPushTableEntry(i) ==
  Entry("GENEVE_DECAP_AND_VLAN_PUSH_MOD_TABLE", <<EncodeVniValue(i.vni)>>,
        "GENEVE_DECAP_AND_PUSH_VLAN", <<1, 0, EncodeByteValue(i.port_vlan)>>)

PrepareDecapModTableEntry(i) ==
  OfType(i, EncodeVxlanDecapModTableEntry(i), EncodeGeneveDecapModTableEntry(i), EmptyEntry)
PrepareDecapModAndVlanPushTableEntry(i) ==
  OfType(i, EncodeVxlanDecapModAndVlanPushTableEntry(i),
            EncodeGeneveDecapModAndVlanPushTableEntry(i), EmptyEntry)

(* The ES2K termination action: an untagged port gets its tag pushed.      *)
Decap(i) ==
  IF Untagged(i)
    THEN OfType(i, "SET_VXLAN_DECAP_OUTER_HDR_AND_PUSH_VLAN",
                   "SET_GENEVE_DECAP_OUTER_HDR_AND_PUSH_VLAN", UnsetAction)
    ELSE OfType(i, "SET_VXLAN_DECAP_OUTER_HDR", "SET_GENEVE_DECAP_OUTER_HDR", UnsetAction)

TUNNEL_TYPE_VXLAN == 2

EncodeTunnelTermTableEntry(i) ==
  IF BuiltFor("DPDK")
    THEN Entry("IPV4_TUNNEL_TERM_TABLE", <<i.remote_ip, TUNNEL_TYPE_VXLAN, i.local_ip>>,
               "DECAP_OUTER_IPV4", <<EncodeByteValue(i.vni)>>)
    ELSE Entry("IPV4_TUNNEL_TERM_TABLE", <<i.remote_ip, i.bridge_id, EncodeVniValue(i.vni)>>,
               Decap(i), <<EncodeTunnelId(i.vni)>>)

EncodeV6TunnelTermTableEntry(i) ==
  Entry("IPV6_TUNNEL_TERM_TABLE", <<i.bridge_id, i.remote_ip, EncodeVniValue(i.vni)>>,
        Decap(i), <<EncodeTunnelId(i.vni)>>)

-----------------------------------------------------------------------------
(* The smaller APIs, ES2K only.                                            *)
EncodeRxTunnelTableEntry(i) ==
  Entry("RX_IPV4_TUNNEL_SOURCE_PORT_TABLE", <<EncodeVniValue(i.vni), i.remote_ip>>,
        "SET_SRC_PORT", <<TwoBytes(i.src_port)>>)
EncodeV6RxTunnelTableEntry(i) ==
  Entry("RX_IPV6_TUNNEL_SOURCE_PORT_TABLE", <<EncodeVniValue(i.vni), i.remote_ip>>,
        "SET_SRC_PORT", <<TwoBytes(i.src_port)>>)
EncodeVlanPushTableEntry(vlan) ==
  Entry("VLAN_PUSH_MOD_TABLE", <<EncodeByteValue(vlan)>>, "VLAN_PUSH",
        <<1, 0, EncodeByteValue(vlan)>>)
EncodeVlanPopTableEntry(vlan) ==
  Entry("VLAN_POP_MOD_TABLE", <<EncodeByteValue(vlan)>>, "VLAN_POP", <<>>)

(* The vlan id is matched in 12 bits.                                      *)
EncodeSrcPortTableEntry(sp) ==
  Entry("SOURCE_PORT_TO_BRIDGE_MAP_TABLE", <<TwoBytes(sp.src_port), sp.vlan_id % 4096>>,
        "SET_BRIDGE_ID", <<EncodeByteValue(sp.bridge_id)>>)
EncodeSrcIpMacMapTableEntry(i) ==
  Entry("SRC_IP_MAC_MAP_TABLE", i.src_ip, "SMAC_MAP", <<i.src_mac>>)
EncodeDstIpMacMapTableEntry(i) ==
  Entry("DST_IP_MAC_MAP_TABLE", i.dst_ip, "DMAC_MAP", <<i.dst_mac>>)
=============================================================================
