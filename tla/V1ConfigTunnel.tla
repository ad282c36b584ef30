--------------------------- MODULE V1ConfigTunnel ---------------------------
(***************************************************************************)
(* ovsp4rt_config_tunnel_entry of version 1 of the core, one function for  *)
(* both targets.  It returns at the first write that fails.                *)
(*                                                                         *)
(* V3 and V3Dpdk are version 3 for the two targets; which one this module  *)
(* implements depends on Target.                                           *)
(***************************************************************************)
EXTENDS OvsP4rtSession, V1Encoders

CONSTANT TunnelInfos   \* the tunnel_info of the calls

VARIABLES
  insert, info,      \* per thread: the arguments of its call
  disturbed,         \* the history variable of V3
  touched            \* the history variable of V3Dpdk

vars == <<sessionVars, insert, info, disturbed, touched>>

V3 == INSTANCE Es2kConfigTunnel

(* DpdkConfig has the FDB calls as well: none here.                        *)
ApiOf == [t \in Threads |-> IF pc[t] = "idle" THEN "fdb" ELSE "tunnel"]
InfoOf == [t \in Threads |-> IF pc[t] = "idle" THEN 0 ELSE info[t]]
V3Dpdk == INSTANCE DpdkConfig WITH LearnInfos <- {}, api <- ApiOf, info <- InfoOf, broken <- {}

-----------------------------------------------------------------------------
EncapEntry(i) ==
  IF BuiltFor("DPDK") THEN PrepareV4EncapTableEntry(i)
  ELSE IF BothFamily(i, AF_INET)
    THEN IF Untagged(i) THEN PrepareV4EncapAndVlanPopTableEntry(i) ELSE PrepareV4EncapTableEntry(i)
  ELSE IF BothFamily(i, AF_INET6)
    THEN IF Untagged(i) THEN PrepareV6EncapAndVlanPopTableEntry(i) ELSE PrepareV6EncapTableEntry(i)
  ELSE EmptyEntry

(* Mutant of DecapEntry: the tag is pushed for untagged ports only.        *)
DecapEntry_Untagged(i) ==
  IF Untagged(i) THEN PrepareDecapModAndVlanPushTableEntry(i) ELSE PrepareDecapModTableEntry(i)

DecapEntry(i) ==
  IF Tagged(i) THEN PrepareDecapModTableEntry(i) ELSE PrepareDecapModAndVlanPushTableEntry(i)

TermEntry(i) ==
  IF BuiltFor("DPDK") \/ BothFamily(i, AF_INET) THEN EncodeTunnelTermTableEntry(i)
  ELSE IF BothFamily(i, AF_INET6) THEN EncodeV6TunnelTermTableEntry(i)
  ELSE EmptyEntry

-----------------------------------------------------------------------------
Init ==
  /\ SessionInit
  /\ insert = [t \in Threads |-> FALSE]
  /\ info = [t \in Threads |-> V3!NoInfo]
  /\ disturbed = {}
  /\ touched = [t \in Threads |-> FALSE]

ConfigTunnelEntry(t, ins, i) ==
  /\ BeginSession(t)
  /\ insert' = [insert EXCEPT ![t] = ins]
  /\ info' = [info EXCEPT ![t] = i]
  /\ touched' = [touched EXCEPT ![t] = FALSE]
  /\ IF BuiltFor("DPDK") THEN UNCHANGED disturbed
     ELSE V3!DisturbIf(V3!OnOtherTunnel(i) \/ \E u \in Threads : V3!ActiveOn(EncodeVniValue(i.vni), u),
                       EncodeVniValue(i.vni))

FetchP4Info(t) ==
  /\ GetPipelineConfig(t, "encap")
  /\ UNCHANGED <<insert, info, disturbed, touched>>

WriteHistory(t, e, ok) ==
  IF BuiltFor("DPDK")
    THEN V3Dpdk!WriteHistory(t, e, ok) /\ UNCHANGED disturbed
    ELSE /\ V3!DisturbIf(~insert[t] /\ ~ok /\ (pc[t] # "encap" \/ entries' # entries),
                         EncodeVniValue(info[t].vni))
         /\ UNCHANGED touched

Write(t, e, label) ==
  /\ \E ok \in BOOLEAN :
       /\ SendWriteRequest(t, e, insert[t], ok)
       /\ IF ok THEN Goto(t, label) /\ UNCHANGED status ELSE Return(t, "error")
       /\ WriteHistory(t, e, ok)
  /\ UNCHANGED <<clock, electionId, p4info, streams, highest, insert, info>>

WriteEncapTableEntry(t) ==
  pc[t] = "encap" /\ Write(t, EncapEntry(info[t]), IF BuiltFor("DPDK") THEN "term" ELSE "decap")

WriteDecapTableEntry(t) == pc[t] = "decap" /\ Write(t, DecapEntry(info[t]), "term")

WriteTunnelTermTableEntry(t) == pc[t] = "term" /\ Write(t, TermEntry(info[t]), "return")

EndCall(t) ==
  /\ EndSession(t)
  /\ insert' = [insert EXCEPT ![t] = FALSE]
  /\ info' = [info EXCEPT ![t] = V3!NoInfo]
  /\ touched' = [touched EXCEPT ![t] = FALSE]
  /\ UNCHANGED disturbed

-----------------------------------------------------------------------------
CallStep(t) ==
  \/ SessionStep(t) /\ UNCHANGED <<insert, info, disturbed, touched>>
  \/ FetchP4Info(t)
  \/ WriteEncapTableEntry(t) \/ WriteDecapTableEntry(t) \/ WriteTunnelTermTableEntry(t)
  \/ EndCall(t)

Next ==
  \/ \E t \in Threads : \/ \E ins \in BOOLEAN, i \in TunnelInfos : ConfigTunnelEntry(t, ins, i)
                        \/ CallStep(t)
  \/ Environment /\ UNCHANGED <<insert, info, disturbed, touched>>

Spec == Init /\ [][Next]_vars

-----------------------------------------------------------------------------
(* The steps of this module as version 3 sees them: MCV1 checks that every *)
(* initial state and every step is one.                                    *)
StartsAsV3     == V3!TunnelInit
StepsAsV3      == [V3!Next]_(V3!vars)
StartsAsV3Dpdk == V3Dpdk!DpdkInit
StepsAsV3Dpdk  == [V3Dpdk!Next]_(V3Dpdk!vars)

(* ovsp4rt_config_tunnel_entry of v1/ovsp4rt.cc, compiled for ES2K, sets   *)
(* tunnels up as v3/es2k_config_tunnel_entry.cc does; compiled for DPDK,   *)
(* as v3/dpdk_config_tunnel_entry.cc does.                                 *)
ImplementsV3Tunnel == V3!Spec
ImplementsV3Dpdk   == V3Dpdk!Spec
=============================================================================
