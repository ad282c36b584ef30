---------------------------- MODULE V1ConfigFdb -----------------------------
(***************************************************************************)
(* ovsp4rt_config_fdb_entry of version 1 of the core on ES2K: one function *)
(* with no result, where version 3 has a tree of functions with statuses.  *)
(* status keeps what the function knew when it returned; the caller never  *)
(* learns it.                                                              *)
(*                                                                         *)
(* V3 is version 3 of the same API.  This module is shown to implement it, *)
(* so what holds of the tables under version 3 holds under version 1.      *)
(***************************************************************************)
EXTENDS OvsP4rtSession, V1TxAccVsi

CONSTANTS InsertInfos, DeleteInfos   \* learn_info of the calls, as in V3

VARIABLES
  insert, info,      \* per thread: the arguments of its call
  wrote, disturbed   \* the history variables of V3

vars == <<sessionVars, insert, info, wrote, disturbed>>

(* Version 1 has a read of the TX entry in each of its two branches.       *)
V3pc == [t \in Threads |-> IF pc[t] \in {"readFdbTunnel", "readFdbVlan"} THEN "readTx" ELSE pc[t]]

V3 == INSTANCE Es2kConfigFdb WITH pc <- V3pc, TxAccVsi <- PortTable

-----------------------------------------------------------------------------
(* An unknown tunnel type does not matter for delete.                      *)
FdbTunnelEntry(i, ins) ==
  OfType(i, EncodeFdbTableEntryforV4VxlanTunnel(i), EncodeFdbTableEntryforV4GeneveTunnel(i),
         IF ins THEN EmptyEntry
                ELSE [EncodeFdbTableEntryforV4VxlanTunnel(i) EXCEPT
                        !.action = [name |-> UnsetAction, params |-> <<>>]])

L2TunnelEntry(i) ==
  IF BothFamily(i, AF_INET6) THEN EncodeL2ToTunnelV6(i) ELSE EncodeL2ToTunnelV4(i)

-----------------------------------------------------------------------------
Init ==
  /\ SessionInit
  /\ insert = [t \in Threads |-> FALSE]
  /\ info = [t \in Threads |-> V3!NoInfo]
  /\ wrote = [t \in Threads |-> FALSE]
  /\ disturbed = {}

(* The history is V3's: this module only says when it is made.             *)
ConfigFdbEntry(t, ins, i) ==
  /\ BeginSession(t)
  /\ insert' = [insert EXCEPT ![t] = ins]
  /\ info' = [info EXCEPT ![t] = i]
  /\ wrote' = [wrote EXCEPT ![t] = FALSE]
  /\ V3!DisturbIf(V3!OnOtherBridge(i) \/ \E u \in Threads : V3!ActiveOn(i.mac_addr, u),
                  i.mac_addr)

FetchP4Info(t) ==
  /\ GetPipelineConfig(t, IF ~insert[t] THEN "readL2V4"
                          ELSE IF info[t].is_tunnel THEN "readFdbTunnel" ELSE "readFdbVlan")
  /\ UNCHANGED <<insert, info, wrote, disturbed>>

Read(t, e, ok) ==
  /\ SendReadRequest(t, e, ok)
  /\ V3!DisturbIf(p4info[t] /\ ~ok /\ HasKey(entries, e), info[t].mac_addr)
  /\ UNCHANGED <<clock, electionId, p4info, status, streams, highest, entries, insert, wrote>>

(* Errors of the writes are ignored.                                       *)
Write(t, e, label) ==
  /\ \E ok \in BOOLEAN : SendWriteRequest(t, e, insert[t], ok)
  /\ Goto(t, label)
  /\ wrote' = [wrote EXCEPT ![t] = @ \/ CanWrite(t)]
  /\ V3!DisturbIf((CanWrite(t) \/ wrote[t]) /\ (insert[t] # HasKey(entries', e)),
                  info[t].mac_addr)
  /\ UNCHANGED <<clock, electionId, p4info, status, streams, highest, insert, info>>

(* Inserting: return if the entry already exists.  For an unknown tunnel   *)
(* type the read fails without an RPC.                                     *)
ReadFdbTunnelTableEntry(t) ==
  /\ pc[t] = "readFdbTunnel"
  /\ \E ok \in IF info[t].tunnel_type = "UNKNOWN" THEN {FALSE} ELSE BOOLEAN :
       /\ Read(t, FdbTunnelEntry(info[t], TRUE), ok)
       /\ Goto(t, IF ok THEN "return" ELSE "writeTunnel")
  /\ UNCHANGED info

ReadFdbVlanTableEntry(t) ==
  /\ pc[t] = "readFdbVlan"
  /\ \E ok \in BOOLEAN :
       /\ Read(t, EncodeFdbTxVlanTableEntry(info[t]), ok)
       /\ Goto(t, IF ok THEN "return" ELSE "writeRx")
  /\ UNCHANGED info

(* Deleting: is the MAC address behind a tunnel?                           *)
ReadL2ToTunnelV4TableEntry(t) ==
  /\ pc[t] = "readL2V4"
  /\ \E ok \in BOOLEAN :
       /\ Read(t, EncodeL2ToTunnelV4(info[t]), ok)
       /\ info' = IF ok THEN [info EXCEPT ![t].is_tunnel = TRUE] ELSE info
  /\ Goto(t, IF info'[t].is_tunnel THEN "writeTunnel" ELSE "readL2V6")

ReadL2ToTunnelV6TableEntry(t) ==
  /\ pc[t] = "readL2V6"
  /\ \E ok \in BOOLEAN :
       /\ Read(t, EncodeL2ToTunnelV6(info[t]), ok)
       /\ info' = IF ok THEN [info EXCEPT ![t].is_tunnel = TRUE,
                                          ![t].local_family = AF_INET6,
                                          ![t].remote_family = AF_INET6]
                        ELSE info
  /\ Goto(t, IF info'[t].is_tunnel THEN "writeTunnel" ELSE "writeTxVlan")

WriteFdbTunnelTableEntry(t) ==
  pc[t] = "writeTunnel" /\ Write(t, FdbTunnelEntry(info[t], insert[t]), "writeL2")

WriteL2TunnelTableEntry(t) ==
  pc[t] = "writeL2" /\ Write(t, L2TunnelEntry(info[t]), "writeSmac")

WriteFdbRxVlanTableEntry(t) ==
  pc[t] = "writeRx" /\ Write(t, EncodeFdbRxVlanTableEntry(info[t]), "readTxAcc")

(* Take the host port of the VSI for src_port, or return.                  *)
ReadTxAccVsiTableEntry(t) ==
  /\ pc[t] = "readTxAcc"
  /\ \/ /\ p4info[t] /\ TxAccVsiFound(info[t])
        /\ info' = [info EXCEPT ![t].src_port = ReadHostPort(info[t])]
        /\ Goto(t, "writeTxVlan")
        /\ UNCHANGED status
     \/ Return(t, "error") /\ UNCHANGED info
  /\ UNCHANGED <<clock, electionId, p4info, streams, highest, entries, insert, wrote, disturbed>>

WriteFdbTxVlanTableEntry(t) ==
  pc[t] = "writeTxVlan" /\ Write(t, EncodeFdbTxVlanTableEntry(info[t]), "writeSmac")

WriteFdbSmacTableEntry(t) ==
  pc[t] = "writeSmac" /\ Write(t, EncodeFdbSmacTableEntry(info[t]), "return")

EndCall(t) ==
  /\ EndSession(t)
  /\ insert' = [insert EXCEPT ![t] = FALSE]
  /\ info' = [info EXCEPT ![t] = V3!NoInfo]
  /\ wrote' = [wrote EXCEPT ![t] = FALSE]
  /\ UNCHANGED disturbed

-----------------------------------------------------------------------------
CallStep(t) ==
  \/ SessionStep(t) /\ UNCHANGED <<insert, info, wrote, disturbed>>
  \/ FetchP4Info(t)
  \/ ReadFdbTunnelTableEntry(t) \/ ReadFdbVlanTableEntry(t)
  \/ ReadL2ToTunnelV4TableEntry(t) \/ ReadL2ToTunnelV6TableEntry(t)
  \/ WriteFdbTunnelTableEntry(t) \/ WriteL2TunnelTableEntry(t)
  \/ WriteFdbRxVlanTableEntry(t) \/ ReadTxAccVsiTableEntry(t) \/ WriteFdbTxVlanTableEntry(t)
  \/ WriteFdbSmacTableEntry(t)
  \/ EndCall(t)

Next ==
  \/ \E t \in Threads : \/ \E i \in InsertInfos : ConfigFdbEntry(t, TRUE, i)
                        \/ \E i \in DeleteInfos : ConfigFdbEntry(t, FALSE, i)
                        \/ CallStep(t)
  \/ Environment /\ UNCHANGED <<insert, info, wrote, disturbed>>

Spec == Init /\ [][Next]_vars

-----------------------------------------------------------------------------
(* The steps of this module as version 3 sees them: MCV1 checks that every *)
(* initial state and every step is one.                                    *)
StartsAsV3 == V3!FdbInit
StepsAsV3  == [V3!Next]_(V3!vars)

(* ovsp4rt_config_fdb_entry of v1/ovsp4rt.cc, compiled for ES2K, programs  *)
(* the FDB as v3/es2k_config_fdb_entry.cc does.                            *)
ImplementsV3Fdb == V3!Spec
=============================================================================
