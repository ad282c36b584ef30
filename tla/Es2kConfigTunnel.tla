-------------------------- MODULE Es2kConfigTunnel --------------------------
(***************************************************************************)
(* ovsp4rt_config_tunnel_entry on ES2K: creating and removing a tunnel.    *)
(* One call writes the tunnel's encapsulation, decapsulation and           *)
(* termination entries, in this order both for insert and for delete, and  *)
(* returns at the first write that fails without undoing the earlier ones. *)
(***************************************************************************)
EXTENDS OvsP4rtSession, Es2kEncoders, Sequences

CONSTANT TunnelInfos   \* the tunnel_info of the calls

ASSUME TunnelInfosAssumption == TunnelInfos # {} /\ TunnelInfos \subseteq TunnelInfo

VARIABLES
  insert,    \* per thread: insert_entry of its call
  info,      \* per thread: tunnel_info of its call
  disturbed  \* history: VNIs on which a call was disturbed (below)

tunnelVars == <<insert, info, disturbed>>
vars       == <<sessionVars, tunnelVars>>

-----------------------------------------------------------------------------
PrepareV4EncapTableEntry(i) ==
  ByType(i, EncodeVxlanEncapTableEntry(i), EncodeGeneveEncapTableEntry(i), EmptyEntry)

PrepareV6EncapTableEntry(i) ==
  ByType(i, EncodeV6VxlanEncapTableEntry(i), EncodeV6GeneveEncapTableEntry(i), EmptyEntry)

PrepareV4EncapAndVlanPopTableEntry(i) ==
  ByType(i, EncodeVxlanEncapAndVlanPopTableEntry(i),
            EncodeGeneveEncapAndVlanPopTableEntry(i), EmptyEntry)

PrepareV6EncapAndVlanPopTableEntry(i) ==
  ByType(i, EncodeV6VxlanEncapAndVlanPopTableEntry(i),
            EncodeV6GeneveEncapAndVlanPopTableEntry(i), EmptyEntry)

PrepareEncapTableEntry(i) ==
  IF IsV4(i)
    THEN IF Untagged(i) THEN PrepareV4EncapAndVlanPopTableEntry(i) ELSE PrepareV4EncapTableEntry(i)
  ELSE IF IsV6(i)
    THEN IF Untagged(i) THEN PrepareV6EncapAndVlanPopTableEntry(i) ELSE PrepareV6EncapTableEntry(i)
  ELSE EmptyEntry

PrepareDecapModTableEntry(i) ==
  ByType(i, EncodeVxlanDecapModTableEntry(i), EncodeGeneveDecapModTableEntry(i), EmptyEntry)

PrepareDecapModAndVlanPushTableEntry(i) ==
  ByType(i, EncodeVxlanDecapModAndVlanPushTableEntry(i),
            EncodeGeneveDecapModAndVlanPushTableEntry(i), EmptyEntry)

PrepareDecapTableEntry(i) ==
  IF Tagged(i) THEN PrepareDecapModTableEntry(i) ELSE PrepareDecapModAndVlanPushTableEntry(i)

PrepareTunnelTermTableEntry(i) ==
  IF IsV4(i) THEN EncodeTunnelTermTableEntry(i)
  ELSE IF IsV6(i) THEN EncodeV6TunnelTermTableEntry(i)
  ELSE EmptyEntry

TunnelEntries(i) ==
  {PrepareEncapTableEntry(i), PrepareDecapTableEntry(i), PrepareTunnelTermTableEntry(i)}

-----------------------------------------------------------------------------
(* Bookkeeping of the history variable disturbed.  A VNI is disturbed once *)
(*   - two calls on it overlap;                                            *)
(*   - a call names it while the tables hold an entry of it that is not of *)
(*     the call's tunnel (the encapsulation and decapsulation tables are   *)
(*     keyed by the VNI alone, so two tunnels with one VNI share entries); *)
(*   - a delete fails after it removed an entry, or after another write of *)
(*     it succeeded.                                                       *)
VniOf(e) == e.key[Len(e.key)]

ActiveOn(v, t) == pc[t] # "idle" /\ Vni(info[t].vni) = v

OnOtherTunnel(i) ==
  \E e \in entries : VniOf(e) = Vni(i.vni) /\ ~HasKey(TunnelEntries(i), e)

DisturbIf(cond, v) == disturbed' = IF cond THEN disturbed \cup {v} ELSE disturbed

-----------------------------------------------------------------------------
NoInfo == CHOOSE i \in TunnelInfos : TRUE

TunnelInit ==
  /\ SessionInit
  /\ insert = [t \in Threads |-> FALSE]
  /\ info = [t \in Threads |-> NoInfo]
  /\ disturbed = {}

DoConfigTunnelEntry(t, ins, i) ==
  /\ BeginSession(t)
  /\ insert' = [insert EXCEPT ![t] = ins]
  /\ info' = [info EXCEPT ![t] = i]
  /\ DisturbIf(OnOtherTunnel(i) \/ \E u \in Threads : ActiveOn(Vni(i.vni), u), Vni(i.vni))

FetchP4Info(t) ==
  /\ GetPipelineConfig(t, "encap")
  /\ UNCHANGED tunnelVars

(* Mutant of Write: the status is only looked at after the last write.     *)
Write_NoEarlyReturn(t, e, label) ==
  /\ \E ok \in BOOLEAN :
       /\ SendWriteRequest(t, e, insert[t], ok)
       /\ Goto(t, label)
       /\ status' = [status EXCEPT ![t] = IF ok THEN "ok" ELSE "error"]
       /\ DisturbIf(~insert[t] /\ ~ok /\ (pc[t] # "encap" \/ entries' # entries),
                    Vni(info[t].vni))
  /\ UNCHANGED <<clock, electionId, p4info, streams, highest, insert, info>>

(* One write of ConfigTunnelEntry: go on to the next one, or return the    *)
(* error.                                                                  *)
Write(t, e, label) ==
  /\ \E ok \in BOOLEAN :
       /\ SendWriteRequest(t, e, insert[t], ok)
       /\ IF ok THEN Goto(t, label) /\ UNCHANGED status ELSE Return(t, "error")
       /\ DisturbIf(~insert[t] /\ ~ok /\ (pc[t] # "encap" \/ entries' # entries),
                    Vni(info[t].vni))
  /\ UNCHANGED <<clock, electionId, p4info, streams, highest, insert, info>>

(* Mutant of WriteEncapTableEntry: the decapsulation entry is skipped.     *)
WriteEncapTableEntry_SkipsDecap(t) ==
  /\ pc[t] = "encap"
  /\ Write(t, PrepareEncapTableEntry(info[t]), "term")

WriteEncapTableEntry(t) ==
  /\ pc[t] = "encap"
  /\ Write(t, PrepareEncapTableEntry(info[t]), "decap")

WriteDecapTableEntry(t) ==
  /\ pc[t] = "decap"
  /\ Write(t, PrepareDecapTableEntry(info[t]), "term")

WriteTunnelTermTableEntry(t) ==
  /\ pc[t] = "term"
  /\ Write(t, PrepareTunnelTermTableEntry(info[t]), "return")

EndCall(t) ==
  /\ EndSession(t)
  /\ insert' = [insert EXCEPT ![t] = FALSE]
  /\ info' = [info EXCEPT ![t] = NoInfo]
  /\ UNCHANGED disturbed

-----------------------------------------------------------------------------
StartCall(t) == \E ins \in BOOLEAN, i \in TunnelInfos : DoConfigTunnelEntry(t, ins, i)

ConfigTunnelEntry(t) ==
  WriteEncapTableEntry(t) \/ WriteDecapTableEntry(t) \/ WriteTunnelTermTableEntry(t)

CallStep(t) ==
  \/ SessionStep(t) /\ UNCHANGED tunnelVars
  \/ FetchP4Info(t)
  \/ ConfigTunnelEntry(t)
  \/ EndCall(t)

Next ==
  \/ \E t \in Threads : StartCall(t) \/ CallStep(t)
  \/ Environment /\ UNCHANGED tunnelVars

Spec == TunnelInit /\ [][Next]_vars

-----------------------------------------------------------------------------
(***************************************************************************)
(* Properties.                                                             *)
(***************************************************************************)

(* Type invariant.                                                         *)
TunnelTypeOK ==
  /\ clock \in Nat
  /\ pc \in [Threads -> {"idle", "arbitrate", "pipeline", "encap", "decap", "term", "return"}]
  /\ electionId \in [Threads -> ElectionIds]
  /\ p4info \in [Threads -> BOOLEAN]
  /\ status \in [Threads -> {"ok", "error"}]
  /\ streams \subseteq ElectionIds
  /\ highest \in ElectionIds
  /\ insert \in [Threads -> BOOLEAN]
  /\ info \in [Threads -> TunnelInfos]
  /\ disturbed \subseteq Nat

(* ConfigTunnelEntry returns OK only for complete work: on an undisturbed  *)
(* VNI, after an insert the three entries are there as this call encoded   *)
(* them, after a delete none of their keys is.                             *)
TunnelStatusTruthful ==
  \A t \in Threads :
    LET es == TunnelEntries(info[t]) IN
    pc[t] = "return" /\ status[t] = "ok" /\ Vni(info[t].vni) \notin disturbed =>
      IF insert[t] THEN es \subseteq entries
                   ELSE \A e \in es : ~HasKey(entries, e)

(* The modification table that the action of a termination entry sends     *)
(* packets to.                                                             *)
DecapTableOf(action) ==
  IF action = "SET_VXLAN_DECAP_OUTER_HDR" THEN "VXLAN_DECAP_MOD_TABLE"
  ELSE IF action = "SET_GENEVE_DECAP_OUTER_HDR" THEN "GENEVE_DECAP_MOD_TABLE"
  ELSE IF action = "SET_VXLAN_DECAP_OUTER_HDR_AND_PUSH_VLAN" THEN "VXLAN_DECAP_AND_VLAN_PUSH_MOD_TABLE"
  ELSE "GENEVE_DECAP_AND_VLAN_PUSH_MOD_TABLE"

(* A termination entry never points at nothing: while no delete of an      *)
(* undisturbed VNI is in progress, a tunnel whose packets are terminated   *)
(* has its decapsulation entry, in the table that the termination action   *)
(* selects, and its encapsulation entry -- also in the middle of an insert *)
(* and after one that failed.  (For the native vlan modes: in the others,  *)
(* PrepareDecapTableEntry and the termination encoders select different    *)
(* tables.)                                                                *)
TerminationBacked ==
  \A i \in TunnelInfos :
    /\ Vni(i.vni) \notin disturbed
    /\ Tagged(i) \/ Untagged(i)
    /\ \A t \in Threads : ActiveOn(Vni(i.vni), t) => insert[t]
    =>
    LET term == PrepareTunnelTermTableEntry(i) IN
    term \in entries =>
      /\ \E f \in entries : f.table = DecapTableOf(term.action.name) /\ f.key = <<Vni(i.vni)>>
      /\ HasKey(entries, PrepareEncapTableEntry(i))
=============================================================================
