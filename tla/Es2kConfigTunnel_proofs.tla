----------------------- MODULE Es2kConfigTunnel_proofs -----------------------
(***************************************************************************)
(* Proofs about Es2kConfigTunnel, for any set of threads and any tunnels.  *)
(***************************************************************************)
EXTENDS Es2kConfigTunnel, TLAPS

Labels == {"idle", "arbitrate", "pipeline", "encap", "decap", "term", "return"}
Writes == {"encap", "decap", "term"}

EncapTables ==
  {"VXLAN_ENCAP_MOD_TABLE", "GENEVE_ENCAP_MOD_TABLE", "VXLAN_ENCAP_V6_MOD_TABLE",
   "GENEVE_ENCAP_V6_MOD_TABLE", "VXLAN_ENCAP_VLAN_POP_MOD_TABLE", "GENEVE_ENCAP_VLAN_POP_MOD_TABLE",
   "VXLAN_ENCAP_V6_VLAN_POP_MOD_TABLE", "GENEVE_ENCAP_V6_VLAN_POP_MOD_TABLE"}
DecapTables ==
  {"VXLAN_DECAP_MOD_TABLE", "GENEVE_DECAP_MOD_TABLE", "VXLAN_DECAP_AND_VLAN_PUSH_MOD_TABLE",
   "GENEVE_DECAP_AND_VLAN_PUSH_MOD_TABLE"}
TermTables == {"IPV4_TUNNEL_TERM_TABLE", "IPV6_TUNNEL_TERM_TABLE"}

(* The VNI a call is about.                                                *)
VniAt(t) == Vni(info[t].vni)

Vnis == {Vni(i.vni) : i \in TunnelInfos}

(* A call has not failed while it has steps to take.                       *)
ControlInv == \A t \in Threads : pc[t] \notin {"idle", "return"} => status[t] = "ok"

(* The server took only requests with a table and an action.               *)
EntriesInv == \A e \in entries : WellFormed(e, TRUE)

(* The calls on an undisturbed VNI do not overlap ...                      *)
AloneInv ==
  \A t, u \in Threads : \A v \in Vnis \ disturbed : ActiveOn(v, t) /\ ActiveOn(v, u) => t = u

(* ... and the entries of the VNI are of the tunnel of such a call.        *)
OwnInv ==
  \A t \in Threads : pc[t] # "idle" /\ VniAt(t) \notin disturbed =>
    \A e \in entries : VniOf(e) = VniAt(t) => HasKey(TunnelEntries(info[t]), e)

(* The entries that a call has dealt with when it is at a given step.      *)
BehindAt(label, st, i) ==
  IF label = "decap" THEN {PrepareEncapTableEntry(i)}
  ELSE IF label = "term" THEN {PrepareEncapTableEntry(i), PrepareDecapTableEntry(i)}
  ELSE IF label = "return" /\ st = "ok" THEN TunnelEntries(i)
  ELSE {}

Behind(t) == BehindAt(pc[t], status[t], info[t])

Done(e, ins) == IF ins THEN e \in entries ELSE ~HasKey(entries, e)

DoneInv ==
  \A t \in Threads : VniAt(t) \notin disturbed => \A e \in Behind(t) : Done(e, insert[t])

(* Every termination entry of v comes with the other entries of a tunnel   *)
(* that has it, unless a delete has removed those and is about to remove   *)
(* the termination entry too.                                              *)
Backed(v) ==
  \A e \in entries :
    e.table \in TermTables /\ VniOf(e) = v =>
      \E j \in TunnelInfos : /\ e = PrepareTunnelTermTableEntry(j)
                             /\ PrepareEncapTableEntry(j) \in entries
                             /\ PrepareDecapTableEntry(j) \in entries

HalfDeleted(v) == \E t \in Threads : ActiveOn(v, t) /\ ~insert[t] /\ pc[t] \in {"decap", "term"}

BackedInv == \A v \in Vnis \ disturbed : Backed(v) \/ HalfDeleted(v)

TunnelInv ==
  /\ TunnelTypeOK
  /\ ControlInv
  /\ EntriesInv
  /\ AloneInv
  /\ OwnInv
  /\ DoneInv
  /\ BackedInv

-----------------------------------------------------------------------------
(***************************************************************************)
(* Tables, keys and types.                                                 *)
(***************************************************************************)
(* A write does not concern entries with another key.                      *)
LEMMA ApplyFrame ==
  ASSUME NEW es, NEW e, NEW f, NEW ins \in BOOLEAN, ~SameKey(e, f)
  PROVE  /\ f \in Apply(es, e, ins) <=> f \in es
         /\ HasKey(Apply(es, e, ins), f) <=> HasKey(es, f)
BY DEF Apply, HasKey, SameKey

(* A write that was applied did what it is for.                            *)
LEMMA ApplyEffect ==
  ASSUME NEW es, NEW e
  PROVE  e \in Apply(es, e, TRUE) /\ ~HasKey(Apply(es, e, FALSE), e)
BY DEF Apply, HasKey, SameKey

(* The three entries of a tunnel are in different tables, if they have a   *)
(* table, and are of its VNI.                                              *)
LEMMA PreparedEncap ==
  ASSUME NEW i
  PROVE  LET e == PrepareEncapTableEntry(i) IN
         /\ e.table \in EncapTables \cup {"none"}
         /\ e.table # "none" => e.key = <<Vni(i.vni)>>
BY DEF PrepareEncapTableEntry, PrepareV4EncapTableEntry, PrepareV6EncapTableEntry,
       PrepareV4EncapAndVlanPopTableEntry, PrepareV6EncapAndVlanPopTableEntry, ByType, EmptyEntry,
       EncodeVxlanEncapTableEntry, EncodeGeneveEncapTableEntry, EncodeV6VxlanEncapTableEntry,
       EncodeV6GeneveEncapTableEntry, EncodeVxlanEncapAndVlanPopTableEntry,
       EncodeGeneveEncapAndVlanPopTableEntry, EncodeV6VxlanEncapAndVlanPopTableEntry,
       EncodeV6GeneveEncapAndVlanPopTableEntry, Entry, EncapTables

(* A decapsulation entry is keyed by the VNI alone.                        *)
LEMMA PreparedDecap ==
  ASSUME NEW i
  PROVE  LET e == PrepareDecapTableEntry(i) IN
         /\ e.table \in DecapTables \cup {"none"}
         /\ e.table # "none" => e.key = <<Vni(i.vni)>>
BY DEF PrepareDecapTableEntry, PrepareDecapModTableEntry, PrepareDecapModAndVlanPushTableEntry,
       ByType, EmptyEntry, EncodeVxlanDecapModTableEntry, EncodeGeneveDecapModTableEntry,
       EncodeVxlanDecapModAndVlanPushTableEntry, EncodeGeneveDecapModAndVlanPushTableEntry, Entry,
       DecapTables

(* A termination entry is keyed by remote address, bridge and VNI.         *)
LEMMA PreparedTerm ==
  ASSUME NEW i
  PROVE  LET e == PrepareTunnelTermTableEntry(i) IN
         /\ e.table \in TermTables \cup {"none"}
         /\ e.table = "IPV4_TUNNEL_TERM_TABLE" => e.key = <<i.remote_ip, i.bridge_id, Vni(i.vni)>>
         /\ e.table = "IPV6_TUNNEL_TERM_TABLE" => e.key = <<i.bridge_id, i.remote_ip, Vni(i.vni)>>
BY DEF PrepareTunnelTermTableEntry, EncodeTunnelTermTableEntry, EncodeV6TunnelTermTableEntry,
       EmptyEntry, Entry, TermTables

(* All entries of a tunnel carry its VNI in their keys.                    *)
LEMMA PreparedVni ==
  ASSUME NEW i \in TunnelInfos, NEW e \in TunnelEntries(i), e.table # "none"
  PROVE  VniOf(e) = Vni(i.vni)
<1>1. CASE e = PrepareEncapTableEntry(i)
  BY <1>1, PreparedEncap DEF VniOf
<1>2. CASE e = PrepareDecapTableEntry(i)
  BY <1>2, PreparedDecap DEF VniOf
<1>3. CASE e = PrepareTunnelTermTableEntry(i)
  <2>1. CASE e.table = "IPV4_TUNNEL_TERM_TABLE"
    <3>1. e.key = <<i.remote_ip, i.bridge_id, Vni(i.vni)>>
      BY <1>3, <2>1, PreparedTerm
    <3>2. QED
      BY <3>1 DEF VniOf
  <2>2. CASE e.table = "IPV6_TUNNEL_TERM_TABLE"
    <3>1. e.key = <<i.bridge_id, i.remote_ip, Vni(i.vni)>>
      BY <1>3, <2>2, PreparedTerm
    <3>2. QED
      BY <3>1 DEF VniOf
  <2>3. QED
    BY <1>3, <2>1, <2>2, PreparedTerm DEF TermTables
<1>4. QED
  BY <1>1, <1>2, <1>3 DEF TunnelEntries

(* What a call writes at each of its steps, and where it goes from there.  *)
WriteAt(t) ==
  CASE pc[t] = "encap" -> PrepareEncapTableEntry(info[t])
    [] pc[t] = "decap" -> PrepareDecapTableEntry(info[t])
    [] pc[t] = "term"  -> PrepareTunnelTermTableEntry(info[t])

LabelAfter(label) ==
  CASE label = "encap" -> "decap" [] label = "decap" -> "term" [] label = "term" -> "return"

(* Every write of a call has this form.                                    *)
WriteStep(t) == pc[t] \in Writes /\ Write(t, WriteAt(t), LabelAfter(pc[t]))

(* Every write of the call is a WriteStep.                                 *)
LEMMA CallWrites ==
  ASSUME NEW t \in Threads, ConfigTunnelEntry(t)
  PROVE  WriteStep(t)
BY DEF ConfigTunnelEntry, WriteEncapTableEntry, WriteDecapTableEntry, WriteTunnelTermTableEntry,
       WriteStep, WriteAt, LabelAfter, Writes

(* What a write changes: the tables as the server does it, or nothing, and *)
(* the write counts as done only in the former case.                       *)
LEMMA WriteOutcome ==
  ASSUME NEW t \in Threads, TunnelTypeOK, WriteStep(t)
  PROVE  /\ \/ entries' = entries
            \/ /\ entries' = Apply(entries, WriteAt(t), insert[t])
               /\ WellFormed(WriteAt(t), insert[t])
         /\ \/ /\ entries' = Apply(entries, WriteAt(t), insert[t])
               /\ WellFormed(WriteAt(t), insert[t])
               /\ pc' = [pc EXCEPT ![t] = LabelAfter(pc[t])] /\ status' = status
               /\ disturbed' = disturbed
            \/ /\ pc' = [pc EXCEPT ![t] = "return"]
               /\ status' = [status EXCEPT ![t] = "error"]
               /\ disturbed' = IF ~insert[t] /\ (pc[t] # "encap" \/ entries' # entries)
                                 THEN disturbed \cup {VniAt(t)} ELSE disturbed
         /\ UNCHANGED <<clock, electionId, p4info, streams, highest, insert, info>>
<1> DEFINE e == WriteAt(t)
           label == LabelAfter(pc[t])
<1>1. PICK ok \in BOOLEAN :
        /\ SendWriteRequest(t, e, insert[t], ok)
        /\ IF ok THEN Goto(t, label) /\ UNCHANGED status ELSE Return(t, "error")
        /\ DisturbIf(~insert[t] /\ ~ok /\ (pc[t] # "encap" \/ entries' # entries), VniAt(t))
  BY DEF WriteStep, Write, VniAt
<1>2. UNCHANGED <<clock, electionId, p4info, streams, highest, insert, info>>
  BY DEF WriteStep, Write
<1> HIDE DEF e, label
<1>3. CASE ok
  BY <1>1, <1>2, <1>3 DEF SendWriteRequest, Accepts, Goto, DisturbIf, e, label
<1>4. CASE ~ok
  BY <1>1, <1>2, <1>4 DEF SendWriteRequest, Accepts, Return, Goto, DisturbIf, e
<1>5. QED
  BY <1>3, <1>4

-----------------------------------------------------------------------------
(***************************************************************************)
(* Type correctness.                                                       *)
(***************************************************************************)
LEMMA VniIsNat == ASSUME NEW i \in TunnelInfos PROVE Vni(i.vni) \in Nat /\ Vni(i.vni) \in Vnis
<1>1. i.vni \in Nat
  BY TunnelInfosAssumption DEF TunnelInfo
<1>2. QED
  BY <1>1 DEF Vni, Vnis

(* The variables are well typed initially.                                 *)
LEMMA TypeInit == TunnelInit => TunnelTypeOK
<1>1. NoInfo \in TunnelInfos
  BY TunnelInfosAssumption DEF NoInfo
<1>2. QED
  BY <1>1 DEF TunnelInit, SessionInit, TunnelTypeOK, ElectionIds, NoElectionId

(* Every step keeps them well typed.                                       *)
LEMMA TypeStep == TunnelTypeOK /\ [Next]_vars => TunnelTypeOK'
<1> SUFFICES ASSUME TunnelTypeOK, [Next]_vars PROVE TunnelTypeOK'
  OBVIOUS
<1> USE DEF TunnelTypeOK
<1>1. ASSUME NEW t \in Threads, StartCall(t) PROVE TunnelTypeOK'
  <2>1. PICK ins \in BOOLEAN, i \in TunnelInfos : DoConfigTunnelEntry(t, ins, i)
    BY <1>1 DEF StartCall
  <2>2. NewElectionId(t) \in ElectionIds
    BY ThreadIdAssumption DEF NewElectionId, TimeBasedElectionId, ElectionIds
  <2>3. disturbed' \subseteq Nat
    BY <2>1, VniIsNat DEF DoConfigTunnelEntry, DisturbIf
  <2>4. QED
    BY <2>1, <2>2, <2>3 DEF DoConfigTunnelEntry, BeginSession, Goto
<1>2. ASSUME NEW t \in Threads, SessionStep(t), UNCHANGED tunnelVars PROVE TunnelTypeOK'
  BY <1>2 DEF SessionStep, Arbitrate, ArbitrationFails, OpenStream, Goto, Return, tunnelVars
<1>3. ASSUME NEW t \in Threads, FetchP4Info(t) PROVE TunnelTypeOK'
  BY <1>3 DEF FetchP4Info, GetPipelineConfig, Goto, tunnelVars
<1>4. ASSUME NEW t \in Threads, WriteStep(t) PROVE TunnelTypeOK'
  <2>1. LabelAfter(pc[t]) \in {"decap", "term", "return"}
    BY <1>4 DEF WriteStep, Writes, LabelAfter
  <2>2. VniAt(t) \in Nat
    BY VniIsNat DEF VniAt
  <2>3. disturbed' \subseteq Nat
    <3>1. disturbed \subseteq Nat
      OBVIOUS
    <3> HIDE DEF TunnelTypeOK
    <3>2. disturbed' = disturbed \/ disturbed' = disturbed \cup {VniAt(t)}
      BY <1>4, WriteOutcome
    <3>3. QED
      BY <2>2, <3>1, <3>2
  <2>4. pc' \in [Threads -> Labels] /\ status' \in [Threads -> {"ok", "error"}]
    BY <1>4, <2>1, WriteOutcome DEF Labels
  <2>5. UNCHANGED <<clock, electionId, p4info, streams, highest, insert, info>>
    BY <1>4, WriteOutcome
  <2>6. QED
    BY <2>3, <2>4, <2>5 DEF Labels
<1>5. ASSUME NEW t \in Threads, EndCall(t) PROVE TunnelTypeOK'
  <2>1. NoInfo \in TunnelInfos
    BY TunnelInfosAssumption DEF NoInfo
  <2>2. QED
    BY <1>5, <2>1 DEF EndCall, EndSession, Goto, NoElectionId, ElectionIds
<1>6. CASE Environment /\ UNCHANGED tunnelVars
  BY <1>6 DEF Environment, Tick, StreamClosed, tunnelVars
<1>7. CASE UNCHANGED vars
  BY <1>7 DEF vars, sessionVars, tunnelVars
<1>8. QED
  BY <1>1, <1>2, <1>3, <1>4, <1>5, <1>6, <1>7, CallWrites DEF Next, CallStep

(* Type correctness of the tunnel calls.                                   *)
THEOREM TunnelTypeCorrect == Spec => []TunnelTypeOK
BY TypeInit, TypeStep, PTL DEF Spec

-----------------------------------------------------------------------------
(***************************************************************************)
(* The inductive invariant: steps that leave the tables alone.             *)
(***************************************************************************)
LEMMA InvInit == TunnelInit => TunnelInv
<1> SUFFICES ASSUME TunnelInit PROVE TunnelInv
  OBVIOUS
<1>1. entries = {} /\ \A t \in Threads : pc[t] = "idle"
  BY DEF TunnelInit, SessionInit
<1>2. ControlInv /\ EntriesInv /\ AloneInv /\ OwnInv
  BY <1>1 DEF ControlInv, EntriesInv, AloneInv, OwnInv, ActiveOn
<1>3. DoneInv
  BY <1>1 DEF DoneInv, Behind, BehindAt
<1>4. BackedInv
  BY <1>1 DEF BackedInv, Backed
<1>5. QED
  BY <1>2, <1>3, <1>4, TypeInit DEF TunnelInv

(* A step of a session before the first write of its call.                 *)
LEMMA QuietStep ==
  ASSUME TunnelInv, TunnelTypeOK', NEW t \in Threads, pc[t] \in {"arbitrate", "pipeline"},
         NEW label \in {"pipeline", "encap", "return"}, NEW st \in {"ok", "error"},
         pc' = [pc EXCEPT ![t] = label], status' = [status EXCEPT ![t] = st],
         UNCHANGED <<entries, tunnelVars>>, st = "error" <=> label = "return"
  PROVE  TunnelInv'
<1> USE DEF tunnelVars
<1>1. pc \in [Threads -> Labels] /\ status \in [Threads -> {"ok", "error"}]
  BY DEF TunnelInv, TunnelTypeOK, Labels
<1>2. ControlInv' /\ EntriesInv'
  BY <1>1 DEF TunnelInv, ControlInv, EntriesInv
<1>3. \A u \in Threads : \A v : ActiveOn(v, u)' <=> ActiveOn(v, u)
  BY <1>1 DEF ActiveOn
<1>4. AloneInv' /\ OwnInv'
  BY <1>1, <1>3 DEF TunnelInv, AloneInv, OwnInv, VniAt
<1>5. DoneInv'
  <2>1. Behind(t)' = {}
    BY <1>1 DEF Behind, BehindAt
  <2>2. \A u \in Threads : u # t => Behind(u)' = Behind(u)
    BY <1>1 DEF Behind
  <2>3. QED
    BY <2>1, <2>2 DEF TunnelInv, DoneInv, Done, VniAt
<1>6. BackedInv'
  BY <1>1, <1>3 DEF TunnelInv, BackedInv, Backed, HalfDeleted
<1>7. QED
  BY <1>2, <1>4, <1>5, <1>6 DEF TunnelInv

(* A call that starts on an undisturbed VNI finds only entries of its      *)
(* tunnel, and no other call.                                              *)
LEMMA StartStep ==
  ASSUME TunnelInv, TunnelTypeOK', NEW t \in Threads, NEW ins \in BOOLEAN, NEW i \in TunnelInfos,
         DoConfigTunnelEntry(t, ins, i)
  PROVE  TunnelInv'
<1> USE DEF DoConfigTunnelEntry, BeginSession, Goto, DisturbIf
<1>1. /\ pc \in [Threads -> Labels] /\ status \in [Threads -> {"ok", "error"}]
      /\ insert \in [Threads -> BOOLEAN] /\ info \in [Threads -> TunnelInfos]
  BY DEF TunnelInv, TunnelTypeOK, Labels
<1>2. /\ pc[t] = "idle" /\ pc'[t] = "arbitrate" /\ status'[t] = "ok"
      /\ insert'[t] = ins /\ info'[t] = i
      /\ \A u \in Threads \ {t} : /\ pc'[u] = pc[u] /\ status'[u] = status[u]
                                  /\ insert'[u] = insert[u] /\ info'[u] = info[u]
      /\ entries' = entries /\ disturbed \subseteq disturbed'
  BY <1>1
<1>3. Vni(i.vni) \notin disturbed' =>
        ~OnOtherTunnel(i) /\ \A u \in Threads : ~ActiveOn(Vni(i.vni), u)
  OBVIOUS
<1>4. ControlInv' /\ EntriesInv'
  BY <1>2 DEF TunnelInv, ControlInv, EntriesInv
<1>5. \A u \in Threads \ {t} : \A v : ActiveOn(v, u)' <=> ActiveOn(v, u)
  BY <1>2 DEF ActiveOn
<1>6. AloneInv'
  <2>1. \A v : ActiveOn(v, t)' => v = Vni(i.vni)
    BY <1>2 DEF ActiveOn
  <2>2. QED
    BY <1>2, <1>3, <1>5, <2>1 DEF TunnelInv, AloneInv, Vnis
<1>7. OwnInv'
  <2>1. ASSUME VniAt(t)' \notin disturbed', NEW e \in entries, VniOf(e) = VniAt(t)'
        PROVE  HasKey(TunnelEntries(info[t]), e)'
    <3>1. VniAt(t)' = Vni(i.vni)
      BY <1>2 DEF VniAt
    <3>2. HasKey(TunnelEntries(i), e)
      BY <1>3, <2>1, <3>1 DEF OnOtherTunnel
    <3>3. QED
      BY <1>2, <3>2
  <2>2. \A u \in Threads \ {t} : VniAt(u)' = VniAt(u)
    BY <1>2 DEF VniAt
  <2>3. QED
    BY <1>2, <2>1, <2>2 DEF TunnelInv, OwnInv
<1>8. DoneInv'
  <2>1. Behind(t)' = {}
    BY <1>2 DEF Behind, BehindAt
  <2>2. \A u \in Threads \ {t} : Behind(u)' = Behind(u) /\ VniAt(u)' = VniAt(u)
    BY <1>2 DEF Behind, VniAt
  <2>3. QED
    BY <1>2, <2>1, <2>2 DEF TunnelInv, DoneInv, Done
<1>9. BackedInv'
  <2>1. \A v : HalfDeleted(v) => HalfDeleted(v)'
    BY <1>2, <1>5 DEF HalfDeleted
  <2>2. \A v : Backed(v) => Backed(v)'
    BY <1>2 DEF Backed
  <2>3. QED
    BY <1>2, <2>1, <2>2 DEF TunnelInv, BackedInv, Vnis
<1>10. QED
  BY <1>4, <1>6, <1>7, <1>8, <1>9 DEF TunnelInv

(* Closing the session preserves the invariant: no entry changes.          *)
LEMMA EndStep ==
  ASSUME TunnelInv, TunnelTypeOK', NEW t \in Threads, EndCall(t)
  PROVE  TunnelInv'
<1> USE DEF EndCall, EndSession, Goto
<1>1. /\ pc \in [Threads -> Labels] /\ status \in [Threads -> {"ok", "error"}]
      /\ insert \in [Threads -> BOOLEAN] /\ info \in [Threads -> TunnelInfos]
  BY DEF TunnelInv, TunnelTypeOK, Labels
<1>2. /\ pc[t] = "return" /\ pc'[t] = "idle"
      /\ \A u \in Threads \ {t} : /\ pc'[u] = pc[u] /\ status'[u] = status[u]
                                  /\ insert'[u] = insert[u] /\ info'[u] = info[u]
      /\ entries' = entries /\ disturbed' = disturbed
  BY <1>1
<1>3. ControlInv' /\ EntriesInv'
  BY <1>2 DEF TunnelInv, ControlInv, EntriesInv
<1>4. \A u \in Threads : \A v : ActiveOn(v, u)' => ActiveOn(v, u) /\ u # t
  BY <1>2 DEF ActiveOn
<1>5. AloneInv'
  BY <1>2, <1>4 DEF TunnelInv, AloneInv, Vnis
<1>6. OwnInv'
  BY <1>2 DEF TunnelInv, OwnInv, VniAt
<1>7. DoneInv'
  <2>1. Behind(t)' = {}
    BY <1>2 DEF Behind, BehindAt
  <2>2. \A u \in Threads \ {t} : Behind(u)' = Behind(u) /\ VniAt(u)' = VniAt(u)
    BY <1>2 DEF Behind, VniAt
  <2>3. QED
    BY <1>2, <2>1, <2>2 DEF TunnelInv, DoneInv, Done
<1>8. BackedInv'
  <2>1. \A v : HalfDeleted(v) => HalfDeleted(v)'
    BY <1>2 DEF HalfDeleted, ActiveOn
  <2>2. \A v : Backed(v) => Backed(v)'
    BY <1>2 DEF Backed
  <2>3. QED
    BY <1>2, <2>1, <2>2 DEF TunnelInv, BackedInv, Vnis
<1>9. QED
  BY <1>3, <1>5, <1>6, <1>7, <1>8 DEF TunnelInv

(* Steps in which no call takes part.                                      *)
LEMMA OtherStep ==
  ASSUME TunnelInv, TunnelTypeOK', UNCHANGED <<pc, status, entries, tunnelVars>>
  PROVE  TunnelInv'
<1> USE DEF TunnelInv, tunnelVars
<1>1. ControlInv' /\ EntriesInv' /\ AloneInv' /\ OwnInv'
  BY DEF ControlInv, EntriesInv, AloneInv, ActiveOn, OwnInv, VniAt
<1>2. DoneInv'
  BY DEF DoneInv, Behind, Done, VniAt
<1>3. BackedInv'
  BY DEF BackedInv, Backed, HalfDeleted, ActiveOn
<1>4. QED
  BY <1>1, <1>2, <1>3

-----------------------------------------------------------------------------
(***************************************************************************)
(* The inductive invariant: the writes.                                    *)
(***************************************************************************)
(* The entry that a call writes is of its tunnel.                          *)
LEMMA WriteFacts ==
  ASSUME TunnelInv, NEW t \in Threads, WriteStep(t)
  PROVE  /\ insert[t] \in BOOLEAN /\ pc[t] \in Writes /\ status[t] = "ok"
         /\ info[t] \in TunnelInfos /\ VniAt(t) \in Vnis /\ ActiveOn(VniAt(t), t)
         /\ pc[t] = "encap" => WriteAt(t) = PrepareEncapTableEntry(info[t])
         /\ pc[t] = "decap" => WriteAt(t) = PrepareDecapTableEntry(info[t])
         /\ pc[t] = "term" => WriteAt(t) = PrepareTunnelTermTableEntry(info[t])
         /\ WriteAt(t) \in TunnelEntries(info[t])
         /\ WriteAt(t).table # "none" => VniOf(WriteAt(t)) = VniAt(t)
<1>1. /\ pc[t] \in Writes /\ insert[t] \in BOOLEAN /\ info[t] \in TunnelInfos
      /\ status[t] = "ok"
  BY DEF WriteStep, TunnelInv, TunnelTypeOK, ControlInv, Writes
<1>2. /\ pc[t] = "encap" => WriteAt(t) = PrepareEncapTableEntry(info[t])
      /\ pc[t] = "decap" => WriteAt(t) = PrepareDecapTableEntry(info[t])
      /\ pc[t] = "term" => WriteAt(t) = PrepareTunnelTermTableEntry(info[t])
  BY <1>1 DEF WriteAt, Writes
<1>3. WriteAt(t) \in TunnelEntries(info[t])
  BY <1>1, <1>2 DEF Writes, TunnelEntries
<1>4. VniAt(t) \in Vnis /\ ActiveOn(VniAt(t), t)
  BY <1>1, VniIsNat DEF VniAt, ActiveOn, Writes
<1>5. WriteAt(t).table # "none" => VniOf(WriteAt(t)) = VniAt(t)
  BY <1>1, <1>3, PreparedVni DEF VniAt
<1>6. QED
  BY <1>1, <1>2, <1>3, <1>4, <1>5

(* Writes do not concern entries of other VNIs, or of no table.            *)
LEMMA WriteElsewhere ==
  ASSUME TunnelInv, NEW t \in Threads, WriteStep(t), NEW f, f.table = "none" \/ VniOf(f) # VniAt(t)
  PROVE  /\ f \in entries' <=> f \in entries
         /\ HasKey(entries', f) <=> HasKey(entries, f)
<1>1. TunnelTypeOK /\ insert[t] \in BOOLEAN
  BY DEF TunnelInv, TunnelTypeOK
<1>2. CASE entries' = entries
  BY <1>2
<1>3. CASE entries' = Apply(entries, WriteAt(t), insert[t]) /\ WellFormed(WriteAt(t), insert[t])
  <2>1. WriteAt(t).table # "none"
    BY <1>3 DEF WellFormed
  <2>2. ~SameKey(WriteAt(t), f)
    BY <2>1, WriteFacts DEF SameKey, VniOf
  <2>3. QED
    BY <1>1, <1>3, <2>2, ApplyFrame
<1>4. QED
  BY <1>1, <1>2, <1>3, WriteOutcome

(* A write leaves the other calls where they are and never makes a VNI     *)
(* undisturbed again.                                                      *)
LEMMA WriteControl ==
  ASSUME TunnelInv, NEW t \in Threads, WriteStep(t)
  PROVE  /\ ControlInv' /\ EntriesInv' /\ AloneInv'
         /\ disturbed \subseteq disturbed'
         /\ UNCHANGED <<insert, info>>
         /\ \A u \in Threads : \A v : ActiveOn(v, u)' <=> ActiveOn(v, u)
         /\ \A u \in Threads \ {t} : pc'[u] = pc[u] /\ status'[u] = status[u]
<1>1. TunnelTypeOK
  BY DEF TunnelInv
<1>2. pc \in [Threads -> Labels] /\ status \in [Threads -> {"ok", "error"}]
  BY <1>1 DEF TunnelTypeOK, Labels
<1>3. ControlInv'
  BY <1>1, <1>2, WriteOutcome, WriteFacts DEF TunnelInv, ControlInv, LabelAfter, Writes
<1>4. EntriesInv'
  <2>1. ASSUME insert[t], WellFormed(WriteAt(t), insert[t]) PROVE WellFormed(WriteAt(t), TRUE)
    BY <2>1 DEF WellFormed
  <2>2. QED
    BY <1>1, <2>1, WriteOutcome, WriteFacts DEF TunnelInv, EntriesInv, Apply
<1>5. \A u \in Threads : pc'[u] = "idle" <=> pc[u] = "idle"
  BY <1>1, <1>2, WriteOutcome, WriteFacts DEF LabelAfter, Writes
<1>6. UNCHANGED <<insert, info>>
  BY <1>1, WriteOutcome
<1>7. disturbed \subseteq disturbed'
  BY <1>1, WriteOutcome
<1>8. \A u \in Threads : \A v : ActiveOn(v, u)' <=> ActiveOn(v, u)
  BY <1>5, <1>6 DEF ActiveOn
<1>9. AloneInv'
  BY <1>7, <1>8 DEF TunnelInv, AloneInv
<1>10. \A u \in Threads \ {t} : pc'[u] = pc[u] /\ status'[u] = status[u]
  BY <1>1, <1>2, WriteOutcome
<1>11. QED
  BY <1>3, <1>4, <1>6, <1>7, <1>8, <1>9, <1>10

(* After a write the entries of an undisturbed VNI are still those of one  *)
(* tunnel.                                                                 *)
LEMMA WriteOwn ==
  ASSUME TunnelInv, NEW t \in Threads, WriteStep(t)
  PROVE  OwnInv'
<1>1. TunnelTypeOK
  BY DEF TunnelInv
<1> SUFFICES ASSUME NEW u \in Threads, pc'[u] # "idle", VniAt(u) \notin disturbed',
                    NEW f \in entries', VniOf(f) = VniAt(u)
             PROVE  HasKey(TunnelEntries(info[u]), f)
  BY WriteControl DEF OwnInv, VniAt
<1>2. pc[u] # "idle" /\ VniAt(u) \notin disturbed
  BY WriteControl DEF ActiveOn
<1>3. f \in entries => HasKey(TunnelEntries(info[u]), f)
  BY <1>2 DEF TunnelInv, OwnInv
<1>4. CASE VniAt(u) # VniAt(t)
  BY <1>3, <1>4, WriteElsewhere
<1>5. CASE VniAt(u) = VniAt(t)
  <2>1. u = t
    BY <1>2, <1>5, WriteFacts DEF TunnelInv, AloneInv, ActiveOn, VniAt
  <2>2. f \in entries \/ f = WriteAt(t)
    BY <1>1, WriteOutcome DEF Apply
  <2>3. QED
    BY <1>3, <2>1, <2>2, WriteFacts DEF HasKey, SameKey
<1>6. QED
  BY <1>4, <1>5

(* The entries behind a call are of its tunnel.                            *)
LEMMA BehindIsOfTunnel ==
  ASSUME NEW t \in Threads, NEW f \in Behind(t)
  PROVE  f \in TunnelEntries(info[t]) /\ pc[t] # "idle"
BY DEF Behind, BehindAt, TunnelEntries

(* A write that counts as done adds its entry to those behind the call,    *)
(* and has another key than they have.                                     *)
LEMMA WriteGoesOn ==
  ASSUME TunnelInv, NEW t \in Threads, WriteStep(t), NEW f \in Behind(t)'
  PROVE  /\ entries' = Apply(entries, WriteAt(t), insert[t])
         /\ WellFormed(WriteAt(t), insert[t])
         /\ f = WriteAt(t) \/ (f \in Behind(t) /\ ~SameKey(WriteAt(t), f))
<1>1. TunnelTypeOK
  BY DEF TunnelInv
<1>2. pc \in [Threads -> Labels] /\ status \in [Threads -> {"ok", "error"}]
  BY <1>1 DEF TunnelTypeOK, Labels
<1>3. ~(pc'[t] = "return" /\ status'[t] = "error")
  BY DEF Behind, BehindAt
<1>4. /\ entries' = Apply(entries, WriteAt(t), insert[t])
      /\ WellFormed(WriteAt(t), insert[t])
      /\ pc'[t] = LabelAfter(pc[t]) /\ status'[t] = "ok"
  BY <1>1, <1>2, <1>3, WriteOutcome, WriteFacts
<1>5. f \in BehindAt(LabelAfter(pc[t]), "ok", info[t])
  BY <1>4, WriteControl DEF Behind
<1>6. f \in Behind(t) \cup {WriteAt(t)}
  <2>1. CASE pc[t] = "encap"
    BY <1>5, <2>1, WriteFacts DEF BehindAt, LabelAfter
  <2>2. CASE pc[t] = "decap"
    BY <1>5, <2>2, WriteFacts DEF Behind, BehindAt, LabelAfter
  <2>3. CASE pc[t] = "term"
    BY <1>5, <2>3, WriteFacts DEF Behind, BehindAt, LabelAfter, TunnelEntries
  <2>4. QED
    BY <2>1, <2>2, <2>3, WriteFacts DEF Writes
<1>7. f \in Behind(t) => ~SameKey(WriteAt(t), f)
  <2>1. WriteAt(t).table # "none"
    BY <1>4 DEF WellFormed
  <2>2. CASE pc[t] = "encap"
    BY <2>2 DEF Behind, BehindAt
  <2>3. CASE pc[t] = "decap"
    <3>1. f \in Behind(t) => f = PrepareEncapTableEntry(info[t])
      BY <2>3 DEF Behind, BehindAt
    <3>2. WriteAt(t) = PrepareDecapTableEntry(info[t])
      BY <2>3, WriteFacts
    <3>3. QED
      BY <2>1, <3>1, <3>2, PreparedEncap, PreparedDecap DEF SameKey, EncapTables, DecapTables
  <2>4. CASE pc[t] = "term"
    <3>1. f \in Behind(t) => f \in {PrepareEncapTableEntry(info[t]), PrepareDecapTableEntry(info[t])}
      BY <2>4 DEF Behind, BehindAt
    <3>2. WriteAt(t) = PrepareTunnelTermTableEntry(info[t])
      BY <2>4, WriteFacts
    <3>3. WriteAt(t).table \in TermTables
      BY <2>1, <3>2, PreparedTerm
    <3>4. f \in Behind(t) => f.table \in EncapTables \cup DecapTables \cup {"none"}
      BY <3>1, PreparedEncap, PreparedDecap
    <3>5. QED
      BY <2>1, <3>3, <3>4 DEF SameKey, EncapTables, DecapTables, TermTables
  <2>5. QED
    BY <2>2, <2>3, <2>4, WriteFacts DEF Writes
<1>8. QED
  BY <1>4, <1>6, <1>7

(* A write keeps done what is behind any call on an undisturbed VNI.       *)
LEMMA WriteDone ==
  ASSUME TunnelInv, NEW t \in Threads, WriteStep(t)
  PROVE  DoneInv'
<1>1. insert \in [Threads -> BOOLEAN] /\ UNCHANGED <<insert, info>>
  BY WriteControl DEF TunnelInv, TunnelTypeOK
<1> SUFFICES ASSUME NEW u \in Threads, VniAt(u) \notin disturbed', NEW f \in Behind(u)'
             PROVE  Done(f, insert[u])'
  BY <1>1 DEF DoneInv, VniAt
<1>2. VniAt(u) \notin disturbed
  BY WriteControl
<1>3. f \in Behind(u) => Done(f, insert[u])
  BY <1>2 DEF TunnelInv, DoneInv
<1>4. CASE u # t
  <2>1. f \in Behind(u)
    BY <1>1, <1>4, WriteControl DEF Behind
  <2>2. f \in TunnelEntries(info[u]) /\ pc[u] # "idle"
    BY <2>1, BehindIsOfTunnel
  <2>3. VniAt(u) # VniAt(t)
    BY <1>2, <1>4, <2>2, WriteFacts DEF TunnelInv, AloneInv, ActiveOn, VniAt
  <2>4. info[u] \in TunnelInfos
    BY DEF TunnelInv, TunnelTypeOK
  <2>5. f.table = "none" \/ VniOf(f) # VniAt(t)
    BY <2>2, <2>3, <2>4, PreparedVni DEF VniAt
  <2>6. /\ f \in entries' <=> f \in entries
        /\ HasKey(entries', f) <=> HasKey(entries, f)
    BY <2>5, WriteElsewhere
  <2>7. QED
    BY <1>1, <1>3, <2>1, <2>6 DEF Done
<1>5. CASE u = t
  <2> DEFINE e == WriteAt(t)
  <2>1. /\ entries' = Apply(entries, e, insert[t])
        /\ f = e \/ (f \in Behind(t) /\ ~SameKey(e, f))
    BY <1>5, WriteGoesOn
  <2>2. insert[t] \in BOOLEAN
    BY <1>1
  <2> HIDE DEF e
  <2>3. CASE f = e
    BY <1>1, <1>5, <2>1, <2>2, <2>3, ApplyEffect DEF Done
  <2>4. CASE f \in Behind(t) /\ ~SameKey(e, f)
    BY <1>1, <1>3, <1>5, <2>1, <2>2, <2>4, ApplyFrame DEF Done
  <2>5. QED
    BY <2>1, <2>3, <2>4
<1>6. QED
  BY <1>4, <1>5

(* A write keeps termination backed by decapsulation, outside a half-done  *)
(* delete.                                                                 *)
LEMMA WriteBacked ==
  ASSUME TunnelInv, NEW t \in Threads, WriteStep(t)
  PROVE  BackedInv'
<1>1. TunnelTypeOK
  BY DEF TunnelInv
<1>2. /\ pc \in [Threads -> Labels] /\ status \in [Threads -> {"ok", "error"}]
      /\ insert \in [Threads -> BOOLEAN] /\ UNCHANGED <<insert, info>>
  BY <1>1, WriteControl DEF TunnelTypeOK, Labels
<1> SUFFICES ASSUME NEW v \in Vnis, v \notin disturbed'
             PROVE  Backed(v)' \/ HalfDeleted(v)'
  BY DEF BackedInv, Vnis
<1>3. v \notin disturbed
  BY WriteControl
<1>4. Backed(v) \/ HalfDeleted(v)
  BY <1>3 DEF TunnelInv, BackedInv
<1>5. CASE v # VniAt(t)
  <2>1. ASSUME Backed(v), NEW e \in entries', e.table \in TermTables, VniOf(e) = v
        PROVE  \E j \in TunnelInfos : /\ e = PrepareTunnelTermTableEntry(j)
                                      /\ PrepareEncapTableEntry(j) \in entries'
                                      /\ PrepareDecapTableEntry(j) \in entries'
    <3>1. e \in entries
      BY <1>5, <2>1, WriteElsewhere
    <3>2. PICK j \in TunnelInfos : /\ e = PrepareTunnelTermTableEntry(j)
                                   /\ PrepareEncapTableEntry(j) \in entries
                                   /\ PrepareDecapTableEntry(j) \in entries
      BY <2>1, <3>1 DEF Backed
    <3>3. Vni(j.vni) = v
      BY <2>1, <3>2, PreparedVni DEF TunnelEntries, TermTables
    <3>4. \A f \in TunnelEntries(j) : f.table = "none" \/ VniOf(f) # VniAt(t)
      BY <1>5, <3>3, PreparedVni
    <3>5. QED
      BY <3>2, <3>4, WriteElsewhere DEF TunnelEntries
  <2>2. Backed(v) => Backed(v)'
    BY <2>1 DEF Backed
  <2>3. HalfDeleted(v) => HalfDeleted(v)'
    BY <1>2, <1>5, WriteControl DEF HalfDeleted, ActiveOn, VniAt
  <2>4. QED
    BY <1>4, <2>2, <2>3
<1>6. CASE v = VniAt(t)
  <2> DEFINE e == WriteAt(t)
             i == info[t]
  <2>1. \A u \in Threads : ActiveOn(v, u) => u = t
    BY <1>3, <1>6, WriteFacts DEF TunnelInv, AloneInv
  <2>2. HalfDeleted(v) => ~insert[t] /\ pc[t] \in {"decap", "term"}
    BY <2>1 DEF HalfDeleted
  <2>3. ActiveOn(v, t)'
    BY <1>6, WriteFacts, WriteControl
  <2>4. CASE insert[t]
    <3>1. Backed(v)
      BY <1>4, <2>2, <2>4
    <3>2. entries \subseteq entries' /\ entries' \subseteq entries \cup {e}
      BY <1>1, <2>4, WriteOutcome DEF Apply
    <3>3. CASE pc[t] = "term"
      <4>1. e = PrepareTunnelTermTableEntry(i)
        BY <3>3, WriteFacts
      <4>2. PrepareEncapTableEntry(i) \in Behind(t) /\ PrepareDecapTableEntry(i) \in Behind(t)
        BY <3>3 DEF Behind, BehindAt
      <4>3. PrepareEncapTableEntry(i) \in entries /\ PrepareDecapTableEntry(i) \in entries
        BY <1>3, <1>6, <2>4, <4>2 DEF TunnelInv, DoneInv, Done
      <4>4. i \in TunnelInfos
        BY WriteFacts
      <4> HIDE DEF e, i
      <4>5. QED
        BY <3>1, <3>2, <4>1, <4>3, <4>4 DEF Backed
    <3>4. CASE pc[t] \in {"encap", "decap"}
      <4>1. e.table \in EncapTables \cup DecapTables \cup {"none"}
        BY <3>4, WriteFacts, PreparedEncap, PreparedDecap
      <4>2. e.table \notin TermTables
        BY <4>1 DEF EncapTables, DecapTables, TermTables
      <4> HIDE DEF e
      <4>3. QED
        BY <3>1, <3>2, <4>2 DEF Backed
    <3>5. QED
      BY <3>3, <3>4, WriteFacts DEF Writes
  <2>5. CASE ~insert[t]
    <3>1. CASE pc'[t] = LabelAfter(pc[t]) /\ status'[t] = "ok"
      <4>1. CASE pc[t] \in {"encap", "decap"}
        BY <1>2, <2>3, <2>5, <3>1, <4>1 DEF HalfDeleted, LabelAfter
      <4>2. CASE pc[t] = "term"
        <5>1. Behind(t)' = TunnelEntries(i)
          BY <1>2, <3>1, <4>2 DEF Behind, BehindAt, LabelAfter
        <5>2. VniAt(t)' \notin disturbed'
          BY <1>2, <1>6 DEF VniAt
        <5>3. \A f \in TunnelEntries(i) : ~HasKey(entries', f)
          BY <1>2, <2>5, <5>1, <5>2, WriteDone DEF DoneInv, Done
        <5>4. ASSUME NEW f \in entries', VniOf(f) = v PROVE FALSE
          <6>1. VniOf(f) = VniAt(t)' /\ pc'[t] # "idle"
            BY <1>2, <1>6, <2>3, <5>4 DEF VniAt, ActiveOn
          <6>2. HasKey(TunnelEntries(i), f)
            BY <1>2, <5>2, <5>4, <6>1, WriteOwn DEF OwnInv
          <6>3. QED
            BY <5>3, <5>4, <6>2 DEF HasKey, SameKey
        <5>5. QED
          BY <5>4 DEF Backed
      <4>3. QED
        BY <4>1, <4>2, WriteFacts DEF Writes
    <3>2. CASE ~(pc'[t] = LabelAfter(pc[t]) /\ status'[t] = "ok")
      <4>1. pc[t] = "encap" /\ entries' = entries
        BY <1>1, <1>2, <1>6, <2>5, <3>2, WriteOutcome, WriteFacts
      <4>2. QED
        BY <1>4, <2>2, <4>1 DEF Backed
    <3>3. QED
      BY <3>1, <3>2
  <2>6. QED
    BY <2>4, <2>5
<1>7. QED
  BY <1>5, <1>6

-----------------------------------------------------------------------------
(***************************************************************************)
(* The theorems.                                                           *)
(***************************************************************************)
LEMMA InvStep == TunnelInv /\ [Next]_vars => TunnelInv'
<1> SUFFICES ASSUME TunnelInv, [Next]_vars PROVE TunnelInv'
  OBVIOUS
<1>1. TunnelTypeOK'
  BY TypeStep DEF TunnelInv
<1>2. ASSUME NEW t \in Threads, StartCall(t) PROVE TunnelInv'
  BY <1>1, <1>2, StartStep DEF StartCall
<1>3. ASSUME NEW t \in Threads, SessionStep(t), UNCHANGED tunnelVars PROVE TunnelInv'
  <2>1. UNCHANGED entries /\ pc[t] = "arbitrate" /\ status \in [Threads -> {"ok", "error"}]
    BY <1>3 DEF SessionStep, Arbitrate, ArbitrationFails, TunnelInv, TunnelTypeOK
  <2>2. CASE Arbitrate(t)
    <3>1. pc' = [pc EXCEPT ![t] = "pipeline"]
      BY <2>2 DEF Arbitrate, Goto
    <3>2. status' = [status EXCEPT ![t] = "ok"]
      BY <2>1, <2>2 DEF Arbitrate, TunnelInv, ControlInv
    <3>3. QED
      BY <1>1, <1>3, <2>1, <3>1, <3>2, QuietStep
  <2>3. CASE ArbitrationFails(t)
    <3>1. pc' = [pc EXCEPT ![t] = "return"] /\ status' = [status EXCEPT ![t] = "error"]
      BY <2>3 DEF ArbitrationFails, Return, Goto
    <3>2. QED
      BY <1>1, <1>3, <2>1, <3>1, QuietStep
  <2>4. QED
    BY <1>3, <2>2, <2>3 DEF SessionStep
<1>4. ASSUME NEW t \in Threads, FetchP4Info(t) PROVE TunnelInv'
  <2>1. UNCHANGED <<entries, tunnelVars>> /\ pc[t] = "pipeline"
    BY <1>4 DEF FetchP4Info, GetPipelineConfig
  <2>2. pc' = [pc EXCEPT ![t] = "encap"]
    BY <1>4 DEF FetchP4Info, GetPipelineConfig, Goto
  <2>3. status' = [status EXCEPT ![t] = "ok"]
    BY <1>4, <2>1 DEF FetchP4Info, GetPipelineConfig, TunnelInv, ControlInv, TunnelTypeOK
  <2>4. QED
    BY <1>1, <2>1, <2>2, <2>3, QuietStep
<1>5. ASSUME NEW t \in Threads, ConfigTunnelEntry(t) PROVE TunnelInv'
  BY <1>1, <1>5, CallWrites, WriteControl, WriteOwn, WriteDone, WriteBacked DEF TunnelInv
<1>6. ASSUME NEW t \in Threads, EndCall(t) PROVE TunnelInv'
  BY <1>1, <1>6, EndStep
<1>7. CASE Environment /\ UNCHANGED tunnelVars
  BY <1>1, <1>7, OtherStep DEF Environment, Tick, StreamClosed
<1>8. CASE UNCHANGED vars
  BY <1>1, <1>8, OtherStep DEF vars, sessionVars
<1>9. QED
  BY <1>2, <1>3, <1>4, <1>5, <1>6, <1>7, <1>8 DEF Next, CallStep

(* The inductive invariant of the tunnel calls.                            *)
THEOREM TunnelInvariant == Spec => []TunnelInv
BY InvInit, InvStep, PTL DEF Spec

(* ConfigTunnelEntry returns OK only for complete work, on a VNI on which  *)
(* nothing disturbed it.                                                   *)
THEOREM TunnelStatusIsTruthful == Spec => []TunnelStatusTruthful
<1>1. TunnelInv => TunnelStatusTruthful
  BY DEF TunnelInv, DoneInv, Done, Behind, BehindAt, VniAt, TunnelStatusTruthful
<1>2. QED
  BY <1>1, TunnelInvariant, PTL

(* A termination entry of a native vlan mode has the encapsulation entry   *)
(* and the decapsulation entry that it needs, if no tunnel of another vlan *)
(* mode has the same termination entry: PrepareDecapTableEntry would put   *)
(* the decapsulation entry of that one into another table.                 *)
THEOREM TerminationIsBacked ==
  ASSUME \A i, j \in TunnelInfos :
           Tagged(i) /\ PrepareTunnelTermTableEntry(j) = PrepareTunnelTermTableEntry(i) => Tagged(j)
  PROVE  Spec => []TerminationBacked
<1>1. ASSUME TunnelInv PROVE TerminationBacked
  <2> SUFFICES ASSUME NEW i \in TunnelInfos, Vni(i.vni) \notin disturbed, Tagged(i) \/ Untagged(i),
                      \A t \in Threads : ActiveOn(Vni(i.vni), t) => insert[t],
                      PrepareTunnelTermTableEntry(i) \in entries
               PROVE  /\ \E f \in entries :
                           /\ f.table = DecapTableOf(PrepareTunnelTermTableEntry(i).action.name)
                           /\ f.key = <<Vni(i.vni)>>
                      /\ HasKey(entries, PrepareEncapTableEntry(i))
    BY DEF TerminationBacked
  <2> DEFINE term == PrepareTunnelTermTableEntry(i)
  <2>1. term.table # "none" /\ term.action.name # UnsetAction
    BY <1>1 DEF TunnelInv, EntriesInv, WellFormed
  <2>2. Backed(Vni(i.vni))
    BY <1>1, VniIsNat DEF TunnelInv, BackedInv, HalfDeleted
  <2>3. PICK j \in TunnelInfos : /\ term = PrepareTunnelTermTableEntry(j)
                                 /\ PrepareEncapTableEntry(j) \in entries
                                 /\ PrepareDecapTableEntry(j) \in entries
    <3>1. term.table \in TermTables
      BY <2>1, PreparedTerm
    <3>2. VniOf(term) = Vni(i.vni)
      BY <2>1, PreparedVni DEF TunnelEntries
    <3>3. QED
      BY <2>2, <3>1, <3>2 DEF Backed
  <2>4. Vni(j.vni) = Vni(i.vni)
    <3>1. VniOf(term) = Vni(i.vni) /\ VniOf(term) = Vni(j.vni)
      BY <2>1, <2>3, PreparedVni DEF TunnelEntries
    <3>2. QED
      BY <3>1
  <2>5. (IsV4(i) /\ IsV4(j)) \/ (~IsV4(i) /\ ~IsV4(j) /\ IsV6(i) /\ IsV6(j))
    BY <2>1, <2>3 DEF PrepareTunnelTermTableEntry, EncodeTunnelTermTableEntry,
                      EncodeV6TunnelTermTableEntry, EmptyEntry, Entry
  <2>6. term.action.name = TermAction(i) /\ term.action.name = TermAction(j)
    BY <2>3, <2>5 DEF PrepareTunnelTermTableEntry, EncodeTunnelTermTableEntry,
                      EncodeV6TunnelTermTableEntry, Entry
  <2>7. /\ i.tunnel_type \in {"VXLAN", "GENEVE"} /\ j.tunnel_type = i.tunnel_type
        /\ Untagged(j) <=> Untagged(i)
    BY <2>1, <2>6 DEF TermAction, ByType, UnsetAction
  <2>8. /\ Tagged(j) <=> Tagged(i)
        /\ ~(Tagged(i) /\ Untagged(i))
    BY <2>3, <2>7 DEF Tagged, Untagged
  <2>9. PrepareEncapTableEntry(j).table = PrepareEncapTableEntry(i).table
    BY <2>5, <2>7
       DEF PrepareEncapTableEntry, PrepareV4EncapTableEntry, PrepareV6EncapTableEntry,
           PrepareV4EncapAndVlanPopTableEntry, PrepareV6EncapAndVlanPopTableEntry, ByType,
           EncodeVxlanEncapTableEntry, EncodeGeneveEncapTableEntry, EncodeV6VxlanEncapTableEntry,
           EncodeV6GeneveEncapTableEntry, EncodeVxlanEncapAndVlanPopTableEntry,
           EncodeGeneveEncapAndVlanPopTableEntry, EncodeV6VxlanEncapAndVlanPopTableEntry,
           EncodeV6GeneveEncapAndVlanPopTableEntry, Entry
  <2>10. PrepareDecapTableEntry(j).table = DecapTableOf(TermAction(i))
    BY <2>7, <2>8
       DEF PrepareDecapTableEntry, PrepareDecapModTableEntry, PrepareDecapModAndVlanPushTableEntry,
           ByType, EncodeVxlanDecapModTableEntry, EncodeGeneveDecapModTableEntry,
           EncodeVxlanDecapModAndVlanPushTableEntry, EncodeGeneveDecapModAndVlanPushTableEntry,
           Entry, TermAction, DecapTableOf
  <2>11. /\ PrepareDecapTableEntry(j).table # "none"
         /\ PrepareEncapTableEntry(j).table # "none"
    BY <1>1, <2>3 DEF TunnelInv, EntriesInv, WellFormed
  <2>12. PrepareDecapTableEntry(j).key = <<Vni(i.vni)>>
    BY <2>4, <2>11, PreparedDecap
  <2>13. HasKey(entries, PrepareEncapTableEntry(i))
    <3>1. PrepareEncapTableEntry(j).key = PrepareEncapTableEntry(i).key
      BY <2>4, <2>9, <2>11, PreparedEncap
    <3>2. QED
      BY <2>3, <2>9, <3>1 DEF HasKey, SameKey
  <2>14. QED
    BY <2>3, <2>6, <2>10, <2>12, <2>13
<1>2. QED
  BY <1>1, TunnelInvariant, PTL
==============================================================================
