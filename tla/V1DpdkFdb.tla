----------------------------- MODULE V1DpdkFdb ------------------------------
(***************************************************************************)
(* ovsp4rt_config_fdb_entry of version 1 of the core on DPDK.  V3 is the   *)
(* same API of version 3.                                                  *)
(***************************************************************************)
EXTENDS OvsP4rtSession, V1Encoders   \* with Target = "DPDK"

CONSTANT LearnInfos   \* the learn_info of the calls; a MAC address has one kind

VARIABLES
  insert, info,     \* per thread: the arguments of its call
  touched, broken   \* the history variables of V3

vars == <<sessionVars, insert, info, touched, broken>>

(* DpdkConfig has the tunnel calls as well: none here.                     *)
ApiOf == [t \in Threads |-> "fdb"]
V3 == INSTANCE DpdkConfig WITH TunnelInfos <- {}, api <- ApiOf

-----------------------------------------------------------------------------
Init ==
  /\ SessionInit
  /\ insert = [t \in Threads |-> FALSE]
  /\ info = [t \in Threads |-> V3!NoInfo]
  /\ touched = [t \in Threads |-> FALSE]
  /\ broken = {}

ConfigFdbEntry(t, ins, i) ==
  /\ BeginSession(t)
  /\ insert' = [insert EXCEPT ![t] = ins]
  /\ info' = [info EXCEPT ![t] = i]
  /\ V3!StartHistory(t, "fdb", i)

FetchP4Info(t) ==
  /\ GetPipelineConfig(t, IF info[t].is_tunnel THEN "writeTunnel"
                          ELSE IF info[t].is_vlan THEN "writeTx" ELSE "return")
  /\ UNCHANGED <<insert, info, touched, broken>>

(* The function has no result: status keeps why it returned.               *)
Write(t, e, label) ==
  /\ \E ok \in BOOLEAN :
       /\ SendWriteRequest(t, e, insert[t], ok)
       /\ IF ok THEN Goto(t, label) /\ UNCHANGED status ELSE Return(t, "error")
       /\ V3!WriteHistory(t, e, ok)
  /\ UNCHANGED <<clock, electionId, p4info, streams, highest, insert, info>>

WriteFdbTunnelTableEntry(t) ==
  pc[t] = "writeTunnel" /\ Write(t, EncodeFdbTableEntryforV4VxlanTunnel(info[t]), "return")

(* Mutant of WriteFdbTxVlanTableEntry: in the order of ES2K, RX first.     *)
WriteFdbTxVlanTableEntry_RxFirst(t) ==
  pc[t] = "writeTx" /\ Write(t, EncodeFdbRxVlanTableEntry(info[t]), "writeRx")

WriteFdbTxVlanTableEntry(t) ==
  pc[t] = "writeTx" /\ Write(t, EncodeFdbTxVlanTableEntry(info[t]), "writeRx")

WriteFdbRxVlanTableEntry(t) ==
  pc[t] = "writeRx" /\ Write(t, EncodeFdbRxVlanTableEntry(info[t]), "return")

EndCall(t) ==
  /\ EndSession(t)
  /\ insert' = [insert EXCEPT ![t] = FALSE]
  /\ info' = [info EXCEPT ![t] = V3!NoInfo]
  /\ touched' = [touched EXCEPT ![t] = FALSE]
  /\ UNCHANGED broken

-----------------------------------------------------------------------------
CallStep(t) ==
  \/ SessionStep(t) /\ UNCHANGED <<insert, info, touched, broken>>
  \/ FetchP4Info(t)
  \/ WriteFdbTunnelTableEntry(t) \/ WriteFdbTxVlanTableEntry(t) \/ WriteFdbRxVlanTableEntry(t)
  \/ EndCall(t)

Next ==
  \/ \E t \in Threads : \/ \E ins \in BOOLEAN, i \in LearnInfos : ConfigFdbEntry(t, ins, i)
                        \/ CallStep(t)
  \/ Environment /\ UNCHANGED <<insert, info, touched, broken>>

Spec == Init /\ [][Next]_vars

-----------------------------------------------------------------------------
(* The steps of this module as version 3 sees them: MCV1 checks that every *)
(* initial state and every step is one.                                    *)
StartsAsV3 == V3!DpdkInit
StepsAsV3  == [V3!Next]_(V3!vars)

(* ovsp4rt_config_fdb_entry of v1/ovsp4rt.cc, compiled for DPDK, programs  *)
(* the tables as v3/dpdk_config_fdb_entry.cc does.                         *)
ImplementsV3Dpdk == V3!Spec
=============================================================================
