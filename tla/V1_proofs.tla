----------------------------- MODULE V1_proofs ------------------------------
(***************************************************************************)
(* Version 1 of the core, which the build selects by default, implements   *)
(* version 3, for every value of the constants; so what is proved of       *)
(* version 3 holds of version 1.                                           *)
(***************************************************************************)
EXTENDS V1ConfigPorts, TLAPS

CONSTANTS LearnInfos, InsertInfos, DeleteInfos, TunnelInfos  \* arguments of the FDB and tunnel calls

VARIABLES wrote, disturbed                                   \* their history variables

-----------------------------------------------------------------------------
(***************************************************************************)
(* ovsp4rt_config_fdb_entry on DPDK.                                       *)
(***************************************************************************)
DpdkFdb   == INSTANCE V1DpdkFdb WITH Target <- "DPDK"
DpdkFdbV3 == INSTANCE DpdkConfig_proofs WITH TunnelInfos <- {}, api <- DpdkFdb!ApiOf

(* The two versions encode a MAC address alike.                            *)
LEMMA DpdkFdbEncoders ==
  ASSUME NEW i
  PROVE  /\ DpdkFdb!EncodeFdbTxVlanTableEntry(i) = DpdkFdb!V3!EncodeFdbTxVlanTableEntry(i)
         /\ DpdkFdb!EncodeFdbRxVlanTableEntry(i) = DpdkFdb!V3!EncodeFdbRxVlanTableEntry(i)
         /\ DpdkFdb!EncodeFdbTableEntryforV4VxlanTunnel(i)
              = DpdkFdb!V3!EncodeFdbTableEntryforV4VxlanTunnel(i)
BY DEF DpdkFdb!EncodeFdbTxVlanTableEntry, DpdkFdb!EncodeFdbRxVlanTableEntry,
       DpdkFdb!EncodeFdbTableEntryforV4VxlanTunnel, DpdkFdb!BuiltFor, DpdkFdb!MacKey,
       DpdkFdb!EncodeByteValue, DpdkFdb!Entry,
       DpdkFdb!V3!EncodeFdbTxVlanTableEntry, DpdkFdb!V3!EncodeFdbRxVlanTableEntry,
       DpdkFdb!V3!EncodeFdbTableEntryforV4VxlanTunnel, DpdkFdb!V3!EncodeL2FwdTxTablePrologue,
       DpdkFdb!V3!Byte, DpdkFdb!V3!Entry

(* A write of version 1 is a write of version 3.                           *)
LEMMA DpdkFdbWrite ==
  ASSUME NEW t \in Threads, NEW e, NEW label, DpdkFdb!Write(t, e, label)
  PROVE  DpdkFdb!V3!Write(t, e, label)
BY DEF DpdkFdb!Write, DpdkFdb!SendWriteRequest, DpdkFdb!CanWrite, DpdkFdb!Accepts,
       DpdkFdb!Apply, DpdkFdb!HasKey, DpdkFdb!SameKey, DpdkFdb!WellFormed, DpdkFdb!UnsetAction,
       DpdkFdb!Goto, DpdkFdb!Return, DpdkFdb!ApiOf,
       DpdkFdb!V3!Write, DpdkFdb!V3!SendWriteRequest, DpdkFdb!V3!CanWrite, DpdkFdb!V3!Accepts,
       DpdkFdb!V3!Apply, DpdkFdb!V3!HasKey, DpdkFdb!V3!SameKey, DpdkFdb!V3!WellFormed,
       DpdkFdb!V3!UnsetAction, DpdkFdb!V3!Goto, DpdkFdb!V3!Return

(* The session and the environment are the same.                           *)
LEMMA DpdkFdbSession ==
  ASSUME NEW t \in Threads
  PROVE  /\ DpdkFdb!SessionStep(t) => DpdkFdb!V3!SessionStep(t)
         /\ DpdkFdb!BeginSession(t) => DpdkFdb!V3!BeginSession(t)
         /\ DpdkFdb!EndSession(t) => DpdkFdb!V3!EndSession(t)
         /\ \A label : DpdkFdb!GetPipelineConfig(t, label) => DpdkFdb!V3!GetPipelineConfig(t, label)
BY DEF DpdkFdb!Arbitrate, DpdkFdb!ArbitrationFails, DpdkFdb!BeginSession, DpdkFdb!EndSession,
       DpdkFdb!Environment, DpdkFdb!GetPipelineConfig, DpdkFdb!Goto, DpdkFdb!Higher,
       DpdkFdb!HoldsStream, DpdkFdb!NewElectionId, DpdkFdb!NoElectionId, DpdkFdb!OpenStream,
       DpdkFdb!Return, DpdkFdb!SessionStep, DpdkFdb!StreamClosed, DpdkFdb!Tick,
       DpdkFdb!TimeBasedElectionId, DpdkFdb!V3!Arbitrate, DpdkFdb!V3!ArbitrationFails,
       DpdkFdb!V3!BeginSession, DpdkFdb!V3!EndSession, DpdkFdb!V3!Environment,
       DpdkFdb!V3!GetPipelineConfig, DpdkFdb!V3!Goto, DpdkFdb!V3!Higher, DpdkFdb!V3!HoldsStream,
       DpdkFdb!V3!NewElectionId, DpdkFdb!V3!NoElectionId, DpdkFdb!V3!OpenStream, DpdkFdb!V3!Return,
       DpdkFdb!V3!SessionStep, DpdkFdb!V3!StreamClosed, DpdkFdb!V3!Tick,
       DpdkFdb!V3!TimeBasedElectionId

(* The clock and the server's streams are the same.                        *)
LEMMA DpdkFdbEnvironment == DpdkFdb!Environment => DpdkFdb!V3!Environment
BY DEF DpdkFdb!Environment, DpdkFdb!HoldsStream, DpdkFdb!StreamClosed, DpdkFdb!Tick,
       DpdkFdb!V3!Environment, DpdkFdb!V3!HoldsStream, DpdkFdb!V3!StreamClosed, DpdkFdb!V3!Tick

(* The initial states are those of version 3.                              *)
LEMMA DpdkFdbStart == DpdkFdb!Init => DpdkFdb!V3!DpdkInit
BY DEF DpdkFdb!Init, DpdkFdb!SessionInit, DpdkFdb!NoElectionId, DpdkFdb!ApiOf,
       DpdkFdb!V3!DpdkInit, DpdkFdb!V3!SessionInit, DpdkFdb!V3!NoElectionId

(* Every step is a step of version 3, or none.                             *)
LEMMA DpdkFdbStep ==
  ASSUME [DpdkFdb!Next]_DpdkFdb!vars
  PROVE  [DpdkFdb!V3!Next]_(DpdkFdb!V3!vars)
<1>1. CASE UNCHANGED DpdkFdb!vars
  BY <1>1 DEF DpdkFdb!vars, DpdkFdb!sessionVars, DpdkFdb!ApiOf,
              DpdkFdb!V3!vars, DpdkFdb!V3!sessionVars, DpdkFdb!V3!dpdkVars
<1>2. CASE DpdkFdb!Environment /\ UNCHANGED <<insert, info, touched, broken>>
  BY <1>2, DpdkFdbEnvironment DEF DpdkFdb!V3!Next, DpdkFdb!V3!dpdkVars, DpdkFdb!ApiOf
<1>3. ASSUME NEW t \in Threads, NEW ins \in BOOLEAN, NEW i \in LearnInfos, DpdkFdb!ConfigFdbEntry(t, ins, i)
      PROVE  DpdkFdb!V3!Next
  <2>1. DpdkFdb!V3!DoConfig(t, "fdb", ins, i)
    BY <1>3, DpdkFdbSession DEF DpdkFdb!ConfigFdbEntry, DpdkFdb!V3!DoConfig, DpdkFdb!ApiOf
  <2>2. QED
    BY <2>1 DEF DpdkFdb!V3!DoConfigFdbEntry, DpdkFdb!V3!Next
<1>4. ASSUME NEW t \in Threads, DpdkFdb!CallStep(t)
      PROVE  DpdkFdb!V3!CallStep(t)
  <2>1. CASE DpdkFdb!SessionStep(t) /\ UNCHANGED <<insert, info, touched, broken>>
    BY <2>1, DpdkFdbSession DEF DpdkFdb!V3!CallStep, DpdkFdb!V3!dpdkVars, DpdkFdb!ApiOf
  <2>2. CASE DpdkFdb!FetchP4Info(t)
    BY <2>2, DpdkFdbSession DEF DpdkFdb!FetchP4Info, DpdkFdb!V3!FetchP4Info, DpdkFdb!V3!FirstLabel,
       DpdkFdb!V3!CallStep, DpdkFdb!V3!dpdkVars, DpdkFdb!ApiOf
  <2>3. CASE DpdkFdb!WriteFdbTunnelTableEntry(t)
    BY <2>3, DpdkFdbWrite, DpdkFdbEncoders
       DEF DpdkFdb!WriteFdbTunnelTableEntry, DpdkFdb!V3!WriteFdbTunnelTableEntry,
           DpdkFdb!V3!ConfigFdbEntry, DpdkFdb!V3!CallStep
  <2>4. CASE DpdkFdb!WriteFdbTxVlanTableEntry(t)
    BY <2>4, DpdkFdbWrite, DpdkFdbEncoders
       DEF DpdkFdb!WriteFdbTxVlanTableEntry, DpdkFdb!V3!WriteFdbTxVlanTableEntry,
           DpdkFdb!V3!ConfigFdbEntry, DpdkFdb!V3!CallStep
  <2>5. CASE DpdkFdb!WriteFdbRxVlanTableEntry(t)
    BY <2>5, DpdkFdbWrite, DpdkFdbEncoders
       DEF DpdkFdb!WriteFdbRxVlanTableEntry, DpdkFdb!V3!WriteFdbRxVlanTableEntry,
           DpdkFdb!V3!ConfigFdbEntry, DpdkFdb!V3!CallStep
  <2>6. CASE DpdkFdb!EndCall(t)
    BY <2>6, DpdkFdbSession DEF DpdkFdb!EndCall, DpdkFdb!V3!EndCall, DpdkFdb!V3!CallStep, DpdkFdb!ApiOf
  <2>7. QED
    BY <1>4, <2>1, <2>2, <2>3, <2>4, <2>5, <2>6 DEF DpdkFdb!CallStep
<1>5. QED
  BY <1>1, <1>2, <1>3, <1>4 DEF DpdkFdb!Next, DpdkFdb!V3!Next

(* The version 3 of DpdkFdb is the one that is proved about.               *)
LEMMA DpdkFdbSame ==
  /\ DpdkFdb!V3!DpdkInit => DpdkFdbV3!DpdkInit
  /\ DpdkFdb!V3!Next => DpdkFdbV3!Next
BY PTL DEF DpdkFdb!ApiOf, DpdkFdb!V3!Accepts, DpdkFdb!V3!Apply, DpdkFdb!V3!Arbitrate, DpdkFdb!V3!ArbitrationFails,
       DpdkFdb!V3!BeginSession, DpdkFdb!V3!Byte, DpdkFdb!V3!CallEntries, DpdkFdb!V3!CallStep,
       DpdkFdb!V3!CanWrite, DpdkFdb!V3!ConfigFdbEntry, DpdkFdb!V3!ConfigTunnelEntry,
       DpdkFdb!V3!DoConfig, DpdkFdb!V3!DoConfigFdbEntry, DpdkFdb!V3!DoConfigTunnelEntry,
       DpdkFdb!V3!DpdkInit, DpdkFdb!V3!EncodeFdbRxVlanTableEntry,
       DpdkFdb!V3!EncodeFdbTableEntryforV4VxlanTunnel, DpdkFdb!V3!EncodeFdbTxVlanTableEntry,
       DpdkFdb!V3!EncodeL2FwdTxTablePrologue, DpdkFdb!V3!EncodeTunnelTermTableEntry,
       DpdkFdb!V3!EncodeVxlanEncapTableEntry, DpdkFdb!V3!EndCall, DpdkFdb!V3!EndSession,
       DpdkFdb!V3!Entry, DpdkFdb!V3!Environment, DpdkFdb!V3!FetchP4Info, DpdkFdb!V3!FirstLabel,
       DpdkFdb!V3!GetPipelineConfig, DpdkFdb!V3!Goto, DpdkFdb!V3!HasKey, DpdkFdb!V3!Higher,
       DpdkFdb!V3!HoldsStream, DpdkFdb!V3!Htons, DpdkFdb!V3!NewElectionId, DpdkFdb!V3!Next,
       DpdkFdb!V3!NoElectionId, DpdkFdb!V3!NoInfo, DpdkFdb!V3!OnMac, DpdkFdb!V3!OpenStream,
       DpdkFdb!V3!Orphaned, DpdkFdb!V3!Return, DpdkFdb!V3!SameKey, DpdkFdb!V3!SendWriteRequest,
       DpdkFdb!V3!SessionInit, DpdkFdb!V3!SessionStep, DpdkFdb!V3!StartHistory,
       DpdkFdb!V3!StreamClosed, DpdkFdb!V3!TUNNEL_TYPE_VXLAN, DpdkFdb!V3!Tick,
       DpdkFdb!V3!TimeBasedElectionId, DpdkFdb!V3!UnsetAction, DpdkFdb!V3!Vni,
       DpdkFdb!V3!WellFormed, DpdkFdb!V3!Write, DpdkFdb!V3!WriteEncapTableEntry,
       DpdkFdb!V3!WriteFdbRxVlanTableEntry, DpdkFdb!V3!WriteFdbTunnelTableEntry,
       DpdkFdb!V3!WriteFdbTxVlanTableEntry, DpdkFdb!V3!WriteHistory,
       DpdkFdb!V3!WriteTunnelTermTableEntry, DpdkFdb!V3!dpdkVars, DpdkFdb!V3!sessionVars,
       DpdkFdb!V3!vars, DpdkFdbV3!Accepts, DpdkFdbV3!Apply, DpdkFdbV3!Arbitrate,
       DpdkFdbV3!ArbitrationFails, DpdkFdbV3!BeginSession, DpdkFdbV3!Byte, DpdkFdbV3!CallEntries,
       DpdkFdbV3!CallStep, DpdkFdbV3!CanWrite, DpdkFdbV3!ConfigFdbEntry,
       DpdkFdbV3!ConfigTunnelEntry, DpdkFdbV3!DoConfig, DpdkFdbV3!DoConfigFdbEntry,
       DpdkFdbV3!DoConfigTunnelEntry, DpdkFdbV3!DpdkInit, DpdkFdbV3!EncodeFdbRxVlanTableEntry,
       DpdkFdbV3!EncodeFdbTableEntryforV4VxlanTunnel, DpdkFdbV3!EncodeFdbTxVlanTableEntry,
       DpdkFdbV3!EncodeL2FwdTxTablePrologue, DpdkFdbV3!EncodeTunnelTermTableEntry,
       DpdkFdbV3!EncodeVxlanEncapTableEntry, DpdkFdbV3!EndCall, DpdkFdbV3!EndSession,
       DpdkFdbV3!Entry, DpdkFdbV3!Environment, DpdkFdbV3!FetchP4Info, DpdkFdbV3!FirstLabel,
       DpdkFdbV3!GetPipelineConfig, DpdkFdbV3!Goto, DpdkFdbV3!HasKey, DpdkFdbV3!Higher,
       DpdkFdbV3!HoldsStream, DpdkFdbV3!Htons, DpdkFdbV3!NewElectionId, DpdkFdbV3!Next,
       DpdkFdbV3!NoElectionId, DpdkFdbV3!NoInfo, DpdkFdbV3!OnMac, DpdkFdbV3!OpenStream,
       DpdkFdbV3!Orphaned, DpdkFdbV3!Return, DpdkFdbV3!SameKey, DpdkFdbV3!SendWriteRequest,
       DpdkFdbV3!SessionInit, DpdkFdbV3!SessionStep, DpdkFdbV3!StartHistory, DpdkFdbV3!StreamClosed,
       DpdkFdbV3!TUNNEL_TYPE_VXLAN, DpdkFdbV3!Tick, DpdkFdbV3!TimeBasedElectionId,
       DpdkFdbV3!UnsetAction, DpdkFdbV3!Vni, DpdkFdbV3!WellFormed, DpdkFdbV3!Write,
       DpdkFdbV3!WriteEncapTableEntry, DpdkFdbV3!WriteFdbRxVlanTableEntry,
       DpdkFdbV3!WriteFdbTunnelTableEntry, DpdkFdbV3!WriteFdbTxVlanTableEntry,
       DpdkFdbV3!WriteHistory, DpdkFdbV3!WriteTunnelTermTableEntry, DpdkFdbV3!dpdkVars,
       DpdkFdbV3!sessionVars, DpdkFdbV3!vars

(* The default build programs MAC addresses on DPDK as version 3 does: for *)
(* every interleaving and every failure.                                   *)
THEOREM DpdkFdbImplementsV3 == DpdkFdb!Spec => DpdkFdb!ImplementsV3Dpdk
BY DpdkFdbStart, DpdkFdbStep, PTL DEF DpdkFdb!Spec, DpdkFdb!ImplementsV3Dpdk, DpdkFdb!V3!Spec

(* So its behaviours are those that the theorems on version 3 are about.   *)
LEMMA DpdkFdbIsV3 == DpdkFdb!Spec => DpdkFdbV3!Spec
<1>1. [DpdkFdb!V3!Next]_(DpdkFdb!V3!vars) => [DpdkFdbV3!Next]_(DpdkFdbV3!vars)
  BY DpdkFdbSame DEF DpdkFdb!V3!vars, DpdkFdb!V3!sessionVars, DpdkFdb!V3!dpdkVars,
                     DpdkFdbV3!vars, DpdkFdbV3!sessionVars, DpdkFdbV3!dpdkVars
<1>2. QED
  BY DpdkFdbStart, DpdkFdbStep, DpdkFdbSame, <1>1, PTL DEF DpdkFdb!Spec, DpdkFdbV3!Spec

(* So its FDB calls do complete work or report an error.                   *)
THEOREM DpdkFdbIsTruthful ==
  ASSUME DpdkFdbV3!ThreadIdAssumption, DpdkFdbV3!MaxClockAssumption, DpdkFdbV3!DpdkInfosAssumption
  PROVE  DpdkFdb!Spec => [](DpdkFdbV3!DpdkStatusTruthful /\ DpdkFdbV3!RxMatchesTx)
<1>1. DpdkFdbV3!Spec => []DpdkFdbV3!DpdkStatusTruthful /\ []DpdkFdbV3!RxMatchesTx
  BY DpdkFdbV3!DpdkStatusIsTruthful, DpdkFdbV3!RxMatches
<1>2. QED
  BY DpdkFdbIsV3, <1>1, PTL

-----------------------------------------------------------------------------
(***************************************************************************)
(* ovsp4rt_config_tunnel_entry on DPDK.                                    *)
(***************************************************************************)
DpdkTunnel   == INSTANCE V1ConfigTunnel WITH Target <- "DPDK"
DpdkTunnelV3 == INSTANCE DpdkConfig_proofs WITH
  LearnInfos <- {}, api <- DpdkTunnel!ApiOf, info <- DpdkTunnel!InfoOf, broken <- {}

(* The variables that the mapping looks at are functions on the threads.   *)
PerThread == /\ pc = [t \in Threads |-> pc[t]]
             /\ info = [t \in Threads |-> info[t]]

(* There is no decapsulation table on DPDK.                                *)
NoDecap == PerThread /\ \A t \in Threads : pc[t] # "decap"

(* The two versions encode a tunnel alike.                                 *)
LEMMA DpdkTunnelEncoders ==
  ASSUME NEW i
  PROVE  /\ DpdkTunnel!EncapEntry(i) = DpdkTunnel!V3Dpdk!EncodeVxlanEncapTableEntry(i)
         /\ DpdkTunnel!TermEntry(i) = DpdkTunnel!V3Dpdk!EncodeTunnelTermTableEntry(i)
BY DEF DpdkTunnel!EncapEntry, DpdkTunnel!TermEntry, DpdkTunnel!BuiltFor,
       DpdkTunnel!PrepareV4EncapTableEntry, DpdkTunnel!EncodeVxlanEncapTableEntry,
       DpdkTunnel!Encap, DpdkTunnel!EncodeTunnelTermTableEntry, DpdkTunnel!TUNNEL_TYPE_VXLAN,
       DpdkTunnel!EncodeByteValue, DpdkTunnel!EncodeVniValue, DpdkTunnel!Swapped,
       DpdkTunnel!Entry,
       DpdkTunnel!V3Dpdk!EncodeVxlanEncapTableEntry,
       DpdkTunnel!V3Dpdk!EncodeTunnelTermTableEntry, DpdkTunnel!V3Dpdk!TUNNEL_TYPE_VXLAN,
       DpdkTunnel!V3Dpdk!Byte, DpdkTunnel!V3Dpdk!Vni, DpdkTunnel!V3Dpdk!Htons,
       DpdkTunnel!V3Dpdk!Entry

(* The session is the same.                                                *)
LEMMA DpdkTunnelSession ==
  ASSUME NEW t, NEW e, NEW ins, NEW ok, NEW label
  PROVE  /\ DpdkTunnel!SessionStep(t) => DpdkTunnel!V3Dpdk!SessionStep(t)
         /\ DpdkTunnel!BeginSession(t) => DpdkTunnel!V3Dpdk!BeginSession(t)
         /\ DpdkTunnel!GetPipelineConfig(t, label)
              => DpdkTunnel!V3Dpdk!GetPipelineConfig(t, label)
         /\ DpdkTunnel!SendWriteRequest(t, e, ins, ok)
              => DpdkTunnel!V3Dpdk!SendWriteRequest(t, e, ins, ok)
         /\ DpdkTunnel!EndSession(t) => DpdkTunnel!V3Dpdk!EndSession(t)
         /\ DpdkTunnel!Environment => DpdkTunnel!V3Dpdk!Environment
BY DEF DpdkTunnel!Accepts, DpdkTunnel!Apply, DpdkTunnel!Arbitrate,
       DpdkTunnel!ArbitrationFails, DpdkTunnel!BeginSession, DpdkTunnel!CanWrite,
       DpdkTunnel!EndSession, DpdkTunnel!Environment, DpdkTunnel!GetPipelineConfig,
       DpdkTunnel!Goto, DpdkTunnel!HasKey, DpdkTunnel!Higher, DpdkTunnel!HoldsStream,
       DpdkTunnel!NewElectionId, DpdkTunnel!NoElectionId, DpdkTunnel!OpenStream,
       DpdkTunnel!Return, DpdkTunnel!SameKey, DpdkTunnel!SendWriteRequest,
       DpdkTunnel!SessionStep, DpdkTunnel!StreamClosed, DpdkTunnel!Tick,
       DpdkTunnel!TimeBasedElectionId, DpdkTunnel!UnsetAction, DpdkTunnel!WellFormed,
       DpdkTunnel!V3Dpdk!Accepts, DpdkTunnel!V3Dpdk!Apply, DpdkTunnel!V3Dpdk!Arbitrate,
       DpdkTunnel!V3Dpdk!ArbitrationFails, DpdkTunnel!V3Dpdk!BeginSession,
       DpdkTunnel!V3Dpdk!CanWrite, DpdkTunnel!V3Dpdk!EndSession,
       DpdkTunnel!V3Dpdk!Environment, DpdkTunnel!V3Dpdk!GetPipelineConfig,
       DpdkTunnel!V3Dpdk!Goto, DpdkTunnel!V3Dpdk!HasKey, DpdkTunnel!V3Dpdk!Higher,
       DpdkTunnel!V3Dpdk!HoldsStream, DpdkTunnel!V3Dpdk!NewElectionId,
       DpdkTunnel!V3Dpdk!NoElectionId, DpdkTunnel!V3Dpdk!OpenStream,
       DpdkTunnel!V3Dpdk!Return, DpdkTunnel!V3Dpdk!SameKey,
       DpdkTunnel!V3Dpdk!SendWriteRequest, DpdkTunnel!V3Dpdk!SessionStep,
       DpdkTunnel!V3Dpdk!StreamClosed, DpdkTunnel!V3Dpdk!Tick,
       DpdkTunnel!V3Dpdk!TimeBasedElectionId, DpdkTunnel!V3Dpdk!UnsetAction,
       DpdkTunnel!V3Dpdk!WellFormed

(* While a call goes on the mapping of its arguments stays.                *)
LEMMA DpdkTunnelSteady ==
  ASSUME PerThread, info' = info,
         NEW t \in Threads, NEW label, pc' = [pc EXCEPT ![t] = label],
         pc[t] # "idle", label # "idle"
  PROVE  UNCHANGED <<DpdkTunnel!ApiOf, DpdkTunnel!InfoOf>>
BY DEF PerThread, DpdkTunnel!ApiOf, DpdkTunnel!InfoOf

(* A write of version 1 is a write of version 3.                           *)
LEMMA DpdkTunnelWrite ==
  ASSUME PerThread, NEW t \in Threads, pc[t] # "idle", NEW e,
         NEW label \in {"term", "return"}, DpdkTunnel!Write(t, e, label)
  PROVE  DpdkTunnel!V3Dpdk!Write(t, e, label)
<1>1. PICK ok \in BOOLEAN :
         /\ DpdkTunnel!SendWriteRequest(t, e, insert[t], ok)
         /\ IF ok THEN DpdkTunnel!Goto(t, label) /\ UNCHANGED status
                  ELSE DpdkTunnel!Return(t, "error")
         /\ DpdkTunnel!WriteHistory(t, e, ok)
  BY DEF DpdkTunnel!Write
<1>2. UNCHANGED <<clock, electionId, p4info, streams, highest, insert, info>>
  BY DEF DpdkTunnel!Write
<1>3. UNCHANGED <<DpdkTunnel!ApiOf, DpdkTunnel!InfoOf>>
  BY <1>1, <1>2, DpdkTunnelSteady DEF DpdkTunnel!Goto, DpdkTunnel!Return
<1>4. DpdkTunnel!V3Dpdk!WriteHistory(t, e, ok)
  BY <1>1 DEF DpdkTunnel!WriteHistory, DpdkTunnel!BuiltFor
<1>5. IF ok THEN DpdkTunnel!V3Dpdk!Goto(t, label) /\ UNCHANGED status
            ELSE DpdkTunnel!V3Dpdk!Return(t, "error")
  BY <1>1 DEF DpdkTunnel!Goto, DpdkTunnel!Return,
              DpdkTunnel!V3Dpdk!Goto, DpdkTunnel!V3Dpdk!Return
<1>6. DpdkTunnel!V3Dpdk!SendWriteRequest(t, e, insert[t], ok)
  BY <1>1, DpdkTunnelSession
<1>7. QED
  BY <1>2, <1>3, <1>4, <1>5, <1>6 DEF DpdkTunnel!V3Dpdk!Write

(* The initial states are those of version 3.                              *)
LEMMA DpdkTunnelStart == DpdkTunnel!Init => DpdkTunnel!V3Dpdk!DpdkInit /\ NoDecap
BY DEF NoDecap, DpdkTunnel!Init, DpdkTunnel!SessionInit, DpdkTunnel!NoElectionId, PerThread,
       DpdkTunnel!ApiOf, DpdkTunnel!InfoOf, DpdkTunnel!V3Dpdk!NoInfo,
       DpdkTunnel!V3Dpdk!DpdkInit, DpdkTunnel!V3Dpdk!SessionInit,
       DpdkTunnel!V3Dpdk!NoElectionId

(* The start of a call is the start of a call in version 3.                *)
LEMMA DpdkTunnelCall ==
  ASSUME PerThread, NEW t \in Threads, NEW ins \in BOOLEAN, NEW i \in TunnelInfos,
         DpdkTunnel!ConfigTunnelEntry(t, ins, i)
  PROVE  DpdkTunnel!V3Dpdk!DoConfigTunnelEntry(t, ins)
<1>1. DpdkTunnel!V3Dpdk!BeginSession(t)
  BY DpdkTunnelSession DEF DpdkTunnel!ConfigTunnelEntry
<1>2. /\ pc[t] = "idle" /\ pc' = [pc EXCEPT ![t] = "arbitrate"]
      /\ insert' = [insert EXCEPT ![t] = ins]
      /\ info' = [info EXCEPT ![t] = i]
      /\ touched' = [touched EXCEPT ![t] = FALSE]
  BY DEF DpdkTunnel!ConfigTunnelEntry, DpdkTunnel!BeginSession, DpdkTunnel!Goto
<1>3. DpdkTunnel!ApiOf' = [DpdkTunnel!ApiOf EXCEPT ![t] = "tunnel"]
  BY <1>2 DEF PerThread, DpdkTunnel!ApiOf
<1>4. DpdkTunnel!InfoOf' = [DpdkTunnel!InfoOf EXCEPT ![t] = i]
  BY <1>2 DEF PerThread, DpdkTunnel!InfoOf
<1>5. QED
  BY <1>1, <1>2, <1>3, <1>4
     DEF DpdkTunnel!V3Dpdk!DoConfigTunnelEntry, DpdkTunnel!V3Dpdk!DoConfig,
         DpdkTunnel!V3Dpdk!StartHistory

(* The end of a call is the end of a call in version 3.                    *)
LEMMA DpdkTunnelEnd ==
  ASSUME PerThread, NEW t \in Threads, DpdkTunnel!EndCall(t)
  PROVE  DpdkTunnel!V3Dpdk!EndCall(t)
<1>1. DpdkTunnel!V3Dpdk!EndSession(t)
  BY DpdkTunnelSession DEF DpdkTunnel!EndCall
<1>2. pc' = [pc EXCEPT ![t] = "idle"]
  BY DEF DpdkTunnel!EndCall, DpdkTunnel!EndSession, DpdkTunnel!Goto
<1>3. DpdkTunnel!ApiOf' = [DpdkTunnel!ApiOf EXCEPT ![t] = "fdb"]
  BY <1>2 DEF PerThread, DpdkTunnel!ApiOf
<1>4. DpdkTunnel!InfoOf' = [DpdkTunnel!InfoOf EXCEPT ![t] = DpdkTunnel!V3Dpdk!NoInfo]
  BY <1>2 DEF PerThread, DpdkTunnel!EndCall, DpdkTunnel!InfoOf, DpdkTunnel!V3Dpdk!NoInfo
<1>5. QED
  BY <1>1, <1>3, <1>4 DEF DpdkTunnel!EndCall, DpdkTunnel!V3Dpdk!EndCall

(* Every step is a step of version 3, or none.                             *)
LEMMA DpdkTunnelStep ==
  ASSUME NoDecap, [DpdkTunnel!Next]_DpdkTunnel!vars
  PROVE  [DpdkTunnel!V3Dpdk!Next]_(DpdkTunnel!V3Dpdk!vars)
<1>1. CASE UNCHANGED DpdkTunnel!vars
  BY <1>1 DEF DpdkTunnel!vars, DpdkTunnel!sessionVars, DpdkTunnel!ApiOf, DpdkTunnel!InfoOf,
              DpdkTunnel!V3Dpdk!vars, DpdkTunnel!V3Dpdk!sessionVars, DpdkTunnel!V3Dpdk!dpdkVars
<1>2. CASE DpdkTunnel!Environment /\ UNCHANGED <<insert, info, disturbed, touched>>
  <2>1. UNCHANGED pc
    BY <1>2 DEF DpdkTunnel!Environment, DpdkTunnel!Tick, DpdkTunnel!StreamClosed
  <2>2. QED
    BY <1>2, <2>1, DpdkTunnelSession
       DEF DpdkTunnel!V3Dpdk!Next, DpdkTunnel!V3Dpdk!dpdkVars,
           DpdkTunnel!ApiOf, DpdkTunnel!InfoOf
<1>3. ASSUME NEW t \in Threads, NEW ins \in BOOLEAN, NEW i \in TunnelInfos,
             DpdkTunnel!ConfigTunnelEntry(t, ins, i)
      PROVE  DpdkTunnel!V3Dpdk!Next
  BY <1>3, DpdkTunnelCall DEF NoDecap, DpdkTunnel!V3Dpdk!Next
<1>4. ASSUME NEW t \in Threads, DpdkTunnel!CallStep(t)
      PROVE  DpdkTunnel!V3Dpdk!CallStep(t)
  <2>1. CASE DpdkTunnel!SessionStep(t) /\ UNCHANGED <<insert, info, disturbed, touched>>
    <3>1. UNCHANGED <<DpdkTunnel!ApiOf, DpdkTunnel!InfoOf>>
      BY <2>1, DpdkTunnelSteady
         DEF NoDecap, DpdkTunnel!SessionStep, DpdkTunnel!Arbitrate, DpdkTunnel!ArbitrationFails,
             DpdkTunnel!Goto, DpdkTunnel!Return
    <3>2. QED
      BY <2>1, <3>1, DpdkTunnelSession DEF DpdkTunnel!V3Dpdk!CallStep, DpdkTunnel!V3Dpdk!dpdkVars
  <2>2. CASE DpdkTunnel!FetchP4Info(t)
    <3>1. UNCHANGED <<DpdkTunnel!ApiOf, DpdkTunnel!InfoOf>>
      BY <2>2, DpdkTunnelSteady
         DEF NoDecap, DpdkTunnel!FetchP4Info, DpdkTunnel!GetPipelineConfig, DpdkTunnel!Goto
    <3>2. pc[t] = "pipeline"
      BY <2>2 DEF DpdkTunnel!FetchP4Info, DpdkTunnel!GetPipelineConfig
    <3>3. DpdkTunnel!V3Dpdk!FirstLabel(DpdkTunnel!ApiOf[t], DpdkTunnel!InfoOf[t]) = "encap"
      BY <3>2 DEF DpdkTunnel!V3Dpdk!FirstLabel, DpdkTunnel!ApiOf
    <3>4. QED
      BY <2>2, <3>1, <3>3, DpdkTunnelSession
         DEF DpdkTunnel!FetchP4Info, DpdkTunnel!V3Dpdk!FetchP4Info,
             DpdkTunnel!V3Dpdk!CallStep, DpdkTunnel!V3Dpdk!dpdkVars
  <2>3. CASE DpdkTunnel!WriteEncapTableEntry(t)
    <3>1. pc[t] = "encap" /\ DpdkTunnel!Write(t, DpdkTunnel!EncapEntry(info[t]), "term")
      BY <2>3 DEF DpdkTunnel!WriteEncapTableEntry, DpdkTunnel!BuiltFor
    <3>2. DpdkTunnel!InfoOf[t] = info[t]
      BY <3>1 DEF DpdkTunnel!InfoOf
    <3>3. QED
      BY <3>1, <3>2, DpdkTunnelWrite, DpdkTunnelEncoders
         DEF NoDecap, DpdkTunnel!V3Dpdk!WriteEncapTableEntry,
             DpdkTunnel!V3Dpdk!ConfigTunnelEntry, DpdkTunnel!V3Dpdk!CallStep
  <2>4. CASE DpdkTunnel!WriteDecapTableEntry(t)
    BY <2>4 DEF NoDecap, DpdkTunnel!WriteDecapTableEntry
  <2>5. CASE DpdkTunnel!WriteTunnelTermTableEntry(t)
    <3>1. pc[t] = "term" /\ DpdkTunnel!Write(t, DpdkTunnel!TermEntry(info[t]), "return")
      BY <2>5 DEF DpdkTunnel!WriteTunnelTermTableEntry
    <3>2. DpdkTunnel!InfoOf[t] = info[t]
      BY <3>1 DEF DpdkTunnel!InfoOf
    <3>3. QED
      BY <3>1, <3>2, DpdkTunnelWrite, DpdkTunnelEncoders
         DEF NoDecap, DpdkTunnel!V3Dpdk!WriteTunnelTermTableEntry,
             DpdkTunnel!V3Dpdk!ConfigTunnelEntry, DpdkTunnel!V3Dpdk!CallStep
  <2>6. CASE DpdkTunnel!EndCall(t)
    BY <2>6, DpdkTunnelEnd DEF NoDecap, DpdkTunnel!V3Dpdk!CallStep
  <2>7. QED
    BY <1>4, <2>1, <2>2, <2>3, <2>4, <2>5, <2>6 DEF DpdkTunnel!CallStep
<1>5. QED
  BY <1>1, <1>2, <1>3, <1>4 DEF DpdkTunnel!Next, DpdkTunnel!V3Dpdk!Next

(* No call on DPDK ever comes to the decapsulation table.                  *)
LEMMA NoDecapStep ==
  ASSUME NoDecap, [DpdkTunnel!Next]_DpdkTunnel!vars
  PROVE  NoDecap'
<1>1. \/ UNCHANGED <<pc, info>>
      \/ \E t \in Threads, label \in {"idle", "arbitrate", "pipeline", "encap", "term", "return"} :
           /\ pc' = [pc EXCEPT ![t] = label]
           /\ info' = info \/ \E i : info' = [info EXCEPT ![t] = i]
  BY DEF NoDecap, DpdkTunnel!Next, DpdkTunnel!vars, DpdkTunnel!sessionVars,
         DpdkTunnel!Environment, DpdkTunnel!Tick, DpdkTunnel!StreamClosed, DpdkTunnel!CallStep,
         DpdkTunnel!ConfigTunnelEntry, DpdkTunnel!BeginSession, DpdkTunnel!SessionStep,
         DpdkTunnel!Arbitrate, DpdkTunnel!ArbitrationFails, DpdkTunnel!FetchP4Info,
         DpdkTunnel!GetPipelineConfig, DpdkTunnel!WriteEncapTableEntry, DpdkTunnel!BuiltFor,
         DpdkTunnel!WriteDecapTableEntry, DpdkTunnel!WriteTunnelTermTableEntry,
         DpdkTunnel!Write, DpdkTunnel!Goto, DpdkTunnel!Return, DpdkTunnel!EndCall,
         DpdkTunnel!EndSession
<1>2. QED
  BY <1>1 DEF NoDecap, PerThread

(* The default build sets tunnels up on DPDK as version 3 does, for every  *)
(* interleaving and every failure.                                         *)
THEOREM DpdkTunnelImplementsV3 == DpdkTunnel!Spec => DpdkTunnel!ImplementsV3Dpdk
BY DpdkTunnelStart, DpdkTunnelStep, NoDecapStep, PTL
   DEF DpdkTunnel!Spec, DpdkTunnel!ImplementsV3Dpdk, DpdkTunnel!V3Dpdk!Spec

(* The version 3 of DpdkTunnel is the one that is proved about.            *)
LEMMA DpdkTunnelSame ==
  /\ DpdkTunnel!V3Dpdk!DpdkInit => DpdkTunnelV3!DpdkInit
  /\ DpdkTunnel!V3Dpdk!Next => DpdkTunnelV3!Next
BY PTL DEF DpdkTunnel!ApiOf, DpdkTunnel!InfoOf,
       DpdkTunnel!V3Dpdk!Accepts, DpdkTunnel!V3Dpdk!Apply, DpdkTunnel!V3Dpdk!Arbitrate,
       DpdkTunnel!V3Dpdk!ArbitrationFails, DpdkTunnel!V3Dpdk!BeginSession,
       DpdkTunnel!V3Dpdk!Byte, DpdkTunnel!V3Dpdk!CallEntries, DpdkTunnel!V3Dpdk!CallStep,
       DpdkTunnel!V3Dpdk!CanWrite, DpdkTunnel!V3Dpdk!ConfigFdbEntry,
       DpdkTunnel!V3Dpdk!ConfigTunnelEntry, DpdkTunnel!V3Dpdk!DoConfig,
       DpdkTunnel!V3Dpdk!DoConfigFdbEntry, DpdkTunnel!V3Dpdk!DoConfigTunnelEntry,
       DpdkTunnel!V3Dpdk!DpdkInit, DpdkTunnel!V3Dpdk!EncodeFdbRxVlanTableEntry,
       DpdkTunnel!V3Dpdk!EncodeFdbTableEntryforV4VxlanTunnel,
       DpdkTunnel!V3Dpdk!EncodeFdbTxVlanTableEntry,
       DpdkTunnel!V3Dpdk!EncodeL2FwdTxTablePrologue,
       DpdkTunnel!V3Dpdk!EncodeTunnelTermTableEntry,
       DpdkTunnel!V3Dpdk!EncodeVxlanEncapTableEntry, DpdkTunnel!V3Dpdk!EndCall,
       DpdkTunnel!V3Dpdk!EndSession, DpdkTunnel!V3Dpdk!Entry, DpdkTunnel!V3Dpdk!Environment,
       DpdkTunnel!V3Dpdk!FetchP4Info, DpdkTunnel!V3Dpdk!FirstLabel,
       DpdkTunnel!V3Dpdk!GetPipelineConfig, DpdkTunnel!V3Dpdk!Goto,
       DpdkTunnel!V3Dpdk!HasKey, DpdkTunnel!V3Dpdk!Higher, DpdkTunnel!V3Dpdk!HoldsStream,
       DpdkTunnel!V3Dpdk!Htons, DpdkTunnel!V3Dpdk!NewElectionId, DpdkTunnel!V3Dpdk!Next,
       DpdkTunnel!V3Dpdk!NoElectionId, DpdkTunnel!V3Dpdk!NoInfo, DpdkTunnel!V3Dpdk!OnMac,
       DpdkTunnel!V3Dpdk!OpenStream, DpdkTunnel!V3Dpdk!Orphaned, DpdkTunnel!V3Dpdk!Return,
       DpdkTunnel!V3Dpdk!SameKey, DpdkTunnel!V3Dpdk!SendWriteRequest,
       DpdkTunnel!V3Dpdk!SessionInit, DpdkTunnel!V3Dpdk!SessionStep,
       DpdkTunnel!V3Dpdk!StartHistory, DpdkTunnel!V3Dpdk!StreamClosed,
       DpdkTunnel!V3Dpdk!TUNNEL_TYPE_VXLAN, DpdkTunnel!V3Dpdk!Tick,
       DpdkTunnel!V3Dpdk!TimeBasedElectionId, DpdkTunnel!V3Dpdk!UnsetAction,
       DpdkTunnel!V3Dpdk!Vni, DpdkTunnel!V3Dpdk!WellFormed, DpdkTunnel!V3Dpdk!Write,
       DpdkTunnel!V3Dpdk!WriteEncapTableEntry, DpdkTunnel!V3Dpdk!WriteFdbRxVlanTableEntry,
       DpdkTunnel!V3Dpdk!WriteFdbTunnelTableEntry,
       DpdkTunnel!V3Dpdk!WriteFdbTxVlanTableEntry, DpdkTunnel!V3Dpdk!WriteHistory,
       DpdkTunnel!V3Dpdk!WriteTunnelTermTableEntry, DpdkTunnel!V3Dpdk!dpdkVars,
       DpdkTunnelV3!Accepts, DpdkTunnelV3!Apply, DpdkTunnelV3!Arbitrate,
       DpdkTunnelV3!ArbitrationFails, DpdkTunnelV3!BeginSession, DpdkTunnelV3!Byte,
       DpdkTunnelV3!CallEntries, DpdkTunnelV3!CallStep, DpdkTunnelV3!CanWrite,
       DpdkTunnelV3!ConfigFdbEntry, DpdkTunnelV3!ConfigTunnelEntry, DpdkTunnelV3!DoConfig,
       DpdkTunnelV3!DoConfigFdbEntry, DpdkTunnelV3!DoConfigTunnelEntry,
       DpdkTunnelV3!DpdkInit, DpdkTunnelV3!EncodeFdbRxVlanTableEntry,
       DpdkTunnelV3!EncodeFdbTableEntryforV4VxlanTunnel,
       DpdkTunnelV3!EncodeFdbTxVlanTableEntry, DpdkTunnelV3!EncodeL2FwdTxTablePrologue,
       DpdkTunnelV3!EncodeTunnelTermTableEntry, DpdkTunnelV3!EncodeVxlanEncapTableEntry,
       DpdkTunnelV3!EndCall, DpdkTunnelV3!EndSession, DpdkTunnelV3!Entry,
       DpdkTunnelV3!Environment, DpdkTunnelV3!FetchP4Info, DpdkTunnelV3!FirstLabel,
       DpdkTunnelV3!GetPipelineConfig, DpdkTunnelV3!Goto, DpdkTunnelV3!HasKey,
       DpdkTunnelV3!Higher, DpdkTunnelV3!HoldsStream, DpdkTunnelV3!Htons,
       DpdkTunnelV3!NewElectionId, DpdkTunnelV3!Next, DpdkTunnelV3!NoElectionId,
       DpdkTunnelV3!NoInfo, DpdkTunnelV3!OnMac, DpdkTunnelV3!OpenStream,
       DpdkTunnelV3!Orphaned, DpdkTunnelV3!Return, DpdkTunnelV3!SameKey,
       DpdkTunnelV3!SendWriteRequest, DpdkTunnelV3!SessionInit, DpdkTunnelV3!SessionStep,
       DpdkTunnelV3!StartHistory, DpdkTunnelV3!StreamClosed, DpdkTunnelV3!TUNNEL_TYPE_VXLAN,
       DpdkTunnelV3!Tick, DpdkTunnelV3!TimeBasedElectionId, DpdkTunnelV3!UnsetAction,
       DpdkTunnelV3!Vni, DpdkTunnelV3!WellFormed, DpdkTunnelV3!Write,
       DpdkTunnelV3!WriteEncapTableEntry, DpdkTunnelV3!WriteFdbRxVlanTableEntry,
       DpdkTunnelV3!WriteFdbTunnelTableEntry, DpdkTunnelV3!WriteFdbTxVlanTableEntry,
       DpdkTunnelV3!WriteHistory, DpdkTunnelV3!WriteTunnelTermTableEntry,
       DpdkTunnelV3!dpdkVars

(* So its behaviours are those that the theorems on version 3 are about.   *)
LEMMA DpdkTunnelIsV3 == DpdkTunnel!Spec => DpdkTunnelV3!Spec
<1>1. [DpdkTunnel!V3Dpdk!Next]_(DpdkTunnel!V3Dpdk!vars) => [DpdkTunnelV3!Next]_(DpdkTunnelV3!vars)
  BY DpdkTunnelSame
     DEF DpdkTunnel!V3Dpdk!vars, DpdkTunnel!V3Dpdk!sessionVars, DpdkTunnel!V3Dpdk!dpdkVars,
         DpdkTunnelV3!vars, DpdkTunnelV3!sessionVars, DpdkTunnelV3!dpdkVars
<1>2. QED
  BY DpdkTunnelStart, DpdkTunnelStep, NoDecapStep, DpdkTunnelSame, <1>1, PTL
     DEF DpdkTunnel!Spec, DpdkTunnelV3!Spec

(* So a tunnel call of the default build on DPDK that reports no error has *)
(* written, or removed, both entries of the tunnel, unless another call    *)
(* changed them meanwhile.                                                 *)
THEOREM DpdkTunnelIsTruthful ==
  ASSUME DpdkTunnelV3!ThreadIdAssumption, DpdkTunnelV3!MaxClockAssumption,
         DpdkTunnelV3!DpdkInfosAssumption
  PROVE  DpdkTunnel!Spec => []DpdkTunnelV3!DpdkStatusTruthful
<1>1. DpdkTunnelV3!Spec => []DpdkTunnelV3!DpdkStatusTruthful
  BY DpdkTunnelV3!DpdkStatusIsTruthful
<1>2. QED
  BY DpdkTunnelIsV3, <1>1, PTL

-----------------------------------------------------------------------------
(***************************************************************************)
(* ovsp4rt_config_tunnel_entry on ES2K.                                    *)
(***************************************************************************)
Tunnel   == INSTANCE V1ConfigTunnel WITH Target <- "ES2K"
TunnelV3 == INSTANCE Es2kConfigTunnel_proofs

(* The two versions encode a tunnel alike, whatever its type, its address  *)
(* families and its vlan mode.                                             *)
LEMMA TunnelEncoders ==
  ASSUME NEW i
  PROVE  /\ Tunnel!EncapEntry(i) = Tunnel!V3!PrepareEncapTableEntry(i)
         /\ Tunnel!DecapEntry(i) = Tunnel!V3!PrepareDecapTableEntry(i)
         /\ Tunnel!TermEntry(i) = Tunnel!V3!PrepareTunnelTermTableEntry(i)
<1>1. /\ Tunnel!EncodeVxlanEncapTableEntry(i) = Tunnel!V3!EncodeVxlanEncapTableEntry(i)
      /\ Tunnel!EncodeGeneveEncapTableEntry(i) = Tunnel!V3!EncodeGeneveEncapTableEntry(i)
      /\ Tunnel!EncodeV6VxlanEncapTableEntry(i) = Tunnel!V3!EncodeV6VxlanEncapTableEntry(i)
      /\ Tunnel!EncodeV6GeneveEncapTableEntry(i) = Tunnel!V3!EncodeV6GeneveEncapTableEntry(i)
      /\ Tunnel!EncodeVxlanEncapAndVlanPopTableEntry(i) = Tunnel!V3!EncodeVxlanEncapAndVlanPopTableEntry(i)
      /\ Tunnel!EncodeGeneveEncapAndVlanPopTableEntry(i) = Tunnel!V3!EncodeGeneveEncapAndVlanPopTableEntry(i)
      /\ Tunnel!EncodeV6VxlanEncapAndVlanPopTableEntry(i) = Tunnel!V3!EncodeV6VxlanEncapAndVlanPopTableEntry(i)
      /\ Tunnel!EncodeV6GeneveEncapAndVlanPopTableEntry(i) = Tunnel!V3!EncodeV6GeneveEncapAndVlanPopTableEntry(i)
  BY DEF Tunnel!EncodeVxlanEncapTableEntry, Tunnel!EncodeGeneveEncapTableEntry,
         Tunnel!EncodeV6VxlanEncapTableEntry, Tunnel!EncodeV6GeneveEncapTableEntry,
         Tunnel!EncodeVxlanEncapAndVlanPopTableEntry,
         Tunnel!EncodeGeneveEncapAndVlanPopTableEntry,
         Tunnel!EncodeV6VxlanEncapAndVlanPopTableEntry,
         Tunnel!EncodeV6GeneveEncapAndVlanPopTableEntry, Tunnel!Encap, Tunnel!BuiltFor,
         Tunnel!EncodeVniValue, Tunnel!Swapped, Tunnel!EncodeByteValue, Tunnel!TwoBytes,
         Tunnel!Entry,
         Tunnel!V3!EncodeVxlanEncapTableEntry, Tunnel!V3!EncodeGeneveEncapTableEntry,
         Tunnel!V3!EncodeV6VxlanEncapTableEntry, Tunnel!V3!EncodeV6GeneveEncapTableEntry,
         Tunnel!V3!EncodeVxlanEncapAndVlanPopTableEntry,
         Tunnel!V3!EncodeGeneveEncapAndVlanPopTableEntry,
         Tunnel!V3!EncodeV6VxlanEncapAndVlanPopTableEntry,
         Tunnel!V3!EncodeV6GeneveEncapAndVlanPopTableEntry, Tunnel!V3!EncapParams,
         Tunnel!V3!Vni, Tunnel!V3!Htons, Tunnel!V3!Byte, Tunnel!V3!Word, Tunnel!V3!Entry
<1>2. /\ Tunnel!EncodeVxlanDecapModTableEntry(i) = Tunnel!V3!EncodeVxlanDecapModTableEntry(i)
      /\ Tunnel!EncodeGeneveDecapModTableEntry(i) = Tunnel!V3!EncodeGeneveDecapModTableEntry(i)
      /\ Tunnel!EncodeVxlanDecapModAndVlanPushTableEntry(i) = Tunnel!V3!EncodeVxlanDecapModAndVlanPushTableEntry(i)
      /\ Tunnel!EncodeGeneveDecapModAndVlanPushTableEntry(i) = Tunnel!V3!EncodeGeneveDecapModAndVlanPushTableEntry(i)
  BY DEF Tunnel!EncodeVxlanDecapModTableEntry, Tunnel!EncodeGeneveDecapModTableEntry,
         Tunnel!EncodeVxlanDecapModAndVlanPushTableEntry,
         Tunnel!EncodeGeneveDecapModAndVlanPushTableEntry, Tunnel!EncodeVniValue,
         Tunnel!EncodeByteValue, Tunnel!Entry,
         Tunnel!V3!EncodeVxlanDecapModTableEntry, Tunnel!V3!EncodeGeneveDecapModTableEntry,
         Tunnel!V3!EncodeVxlanDecapModAndVlanPushTableEntry,
         Tunnel!V3!EncodeGeneveDecapModAndVlanPushTableEntry, Tunnel!V3!Vni, Tunnel!V3!Byte,
         Tunnel!V3!Entry
<1>3. /\ Tunnel!EncodeTunnelTermTableEntry(i) = Tunnel!V3!EncodeTunnelTermTableEntry(i)
      /\ Tunnel!EncodeV6TunnelTermTableEntry(i) = Tunnel!V3!EncodeV6TunnelTermTableEntry(i)
  BY DEF Tunnel!EncodeTunnelTermTableEntry, Tunnel!EncodeV6TunnelTermTableEntry,
         Tunnel!BuiltFor, Tunnel!Decap, Tunnel!OfType, Tunnel!Untagged, Tunnel!UnsetAction,
         Tunnel!EncodeVniValue, Tunnel!EncodeTunnelId, Tunnel!Entry,
         Tunnel!V3!EncodeTunnelTermTableEntry, Tunnel!V3!EncodeV6TunnelTermTableEntry,
         Tunnel!V3!TermAction, Tunnel!V3!ByType, Tunnel!V3!Untagged, Tunnel!V3!UnsetAction,
         Tunnel!V3!Vni, Tunnel!V3!TunnelId, Tunnel!V3!Entry
<1>4. /\ Tunnel!PrepareV4EncapTableEntry(i) = Tunnel!V3!PrepareV4EncapTableEntry(i)
      /\ Tunnel!PrepareV6EncapTableEntry(i) = Tunnel!V3!PrepareV6EncapTableEntry(i)
      /\ Tunnel!PrepareV4EncapAndVlanPopTableEntry(i) = Tunnel!V3!PrepareV4EncapAndVlanPopTableEntry(i)
      /\ Tunnel!PrepareV6EncapAndVlanPopTableEntry(i) = Tunnel!V3!PrepareV6EncapAndVlanPopTableEntry(i)
      /\ Tunnel!PrepareDecapModTableEntry(i) = Tunnel!V3!PrepareDecapModTableEntry(i)
      /\ Tunnel!PrepareDecapModAndVlanPushTableEntry(i) = Tunnel!V3!PrepareDecapModAndVlanPushTableEntry(i)
  BY <1>1, <1>2
     DEF Tunnel!PrepareV4EncapTableEntry, Tunnel!PrepareV6EncapTableEntry,
         Tunnel!PrepareV4EncapAndVlanPopTableEntry,
         Tunnel!PrepareV6EncapAndVlanPopTableEntry, Tunnel!PrepareDecapModTableEntry,
         Tunnel!PrepareDecapModAndVlanPushTableEntry, Tunnel!BuiltFor, Tunnel!OfType,
         Tunnel!EmptyEntry, Tunnel!Entry,
         Tunnel!V3!PrepareV4EncapTableEntry, Tunnel!V3!PrepareV6EncapTableEntry,
         Tunnel!V3!PrepareV4EncapAndVlanPopTableEntry,
         Tunnel!V3!PrepareV6EncapAndVlanPopTableEntry, Tunnel!V3!PrepareDecapModTableEntry,
         Tunnel!V3!PrepareDecapModAndVlanPushTableEntry, Tunnel!V3!ByType,
         Tunnel!V3!EmptyEntry, Tunnel!V3!Entry
<1>5. Tunnel!EncapEntry(i) = Tunnel!V3!PrepareEncapTableEntry(i)
  BY <1>4 DEF Tunnel!EncapEntry, Tunnel!BuiltFor, Tunnel!BothFamily, Tunnel!AF_INET,
              Tunnel!AF_INET6, Tunnel!Untagged, Tunnel!EmptyEntry, Tunnel!Entry,
              Tunnel!V3!PrepareEncapTableEntry, Tunnel!V3!IsV4, Tunnel!V3!IsV6,
              Tunnel!V3!AF_INET, Tunnel!V3!AF_INET6, Tunnel!V3!Untagged,
              Tunnel!V3!EmptyEntry, Tunnel!V3!Entry
<1>6. Tunnel!DecapEntry(i) = Tunnel!V3!PrepareDecapTableEntry(i)
  BY <1>4 DEF Tunnel!DecapEntry, Tunnel!Tagged, Tunnel!V3!PrepareDecapTableEntry,
              Tunnel!V3!Tagged
<1>7. Tunnel!TermEntry(i) = Tunnel!V3!PrepareTunnelTermTableEntry(i)
  BY <1>3 DEF Tunnel!TermEntry, Tunnel!BuiltFor, Tunnel!BothFamily, Tunnel!AF_INET,
              Tunnel!AF_INET6, Tunnel!EmptyEntry, Tunnel!Entry,
              Tunnel!V3!PrepareTunnelTermTableEntry, Tunnel!V3!IsV4, Tunnel!V3!IsV6,
              Tunnel!V3!AF_INET, Tunnel!V3!AF_INET6, Tunnel!V3!EmptyEntry, Tunnel!V3!Entry
<1>8. QED
  BY <1>5, <1>6, <1>7

(* The session is the same.                                                *)
LEMMA TunnelSession ==
  ASSUME NEW t, NEW e, NEW ins, NEW ok, NEW label
  PROVE  /\ Tunnel!SessionStep(t) => Tunnel!V3!SessionStep(t)
         /\ Tunnel!BeginSession(t) => Tunnel!V3!BeginSession(t)
         /\ Tunnel!GetPipelineConfig(t, label) => Tunnel!V3!GetPipelineConfig(t, label)
         /\ Tunnel!SendWriteRequest(t, e, ins, ok) => Tunnel!V3!SendWriteRequest(t, e, ins, ok)
         /\ Tunnel!EndSession(t) => Tunnel!V3!EndSession(t)
         /\ Tunnel!Environment => Tunnel!V3!Environment
BY DEF Tunnel!Accepts, Tunnel!Apply, Tunnel!Arbitrate, Tunnel!ArbitrationFails,
       Tunnel!BeginSession, Tunnel!CanWrite, Tunnel!EndSession, Tunnel!Environment,
       Tunnel!GetPipelineConfig, Tunnel!Goto, Tunnel!HasKey, Tunnel!Higher,
       Tunnel!HoldsStream, Tunnel!NewElectionId, Tunnel!NoElectionId, Tunnel!OpenStream,
       Tunnel!Return, Tunnel!SameKey, Tunnel!SendWriteRequest, Tunnel!SessionStep,
       Tunnel!StreamClosed, Tunnel!Tick, Tunnel!TimeBasedElectionId, Tunnel!UnsetAction,
       Tunnel!WellFormed, Tunnel!V3!Accepts, Tunnel!V3!Apply, Tunnel!V3!Arbitrate,
       Tunnel!V3!ArbitrationFails, Tunnel!V3!BeginSession, Tunnel!V3!CanWrite,
       Tunnel!V3!EndSession, Tunnel!V3!Environment, Tunnel!V3!GetPipelineConfig,
       Tunnel!V3!Goto, Tunnel!V3!HasKey, Tunnel!V3!Higher, Tunnel!V3!HoldsStream,
       Tunnel!V3!NewElectionId, Tunnel!V3!NoElectionId, Tunnel!V3!OpenStream,
       Tunnel!V3!Return, Tunnel!V3!SameKey, Tunnel!V3!SendWriteRequest,
       Tunnel!V3!SessionStep, Tunnel!V3!StreamClosed, Tunnel!V3!Tick,
       Tunnel!V3!TimeBasedElectionId, Tunnel!V3!UnsetAction, Tunnel!V3!WellFormed

(* A write of version 1 is a write of version 3.                           *)
LEMMA TunnelWrite ==
  ASSUME NEW t \in Threads, NEW e, NEW label, Tunnel!Write(t, e, label)
  PROVE  Tunnel!V3!Write(t, e, label)
<1>1. PICK ok \in BOOLEAN :
        /\ Tunnel!SendWriteRequest(t, e, insert[t], ok)
        /\ IF ok THEN Tunnel!Goto(t, label) /\ UNCHANGED status ELSE Tunnel!Return(t, "error")
        /\ Tunnel!WriteHistory(t, e, ok)
  BY DEF Tunnel!Write
<1>2. Tunnel!V3!SendWriteRequest(t, e, insert[t], ok)
  BY <1>1, TunnelSession
<1>3. IF ok THEN Tunnel!V3!Goto(t, label) /\ UNCHANGED status ELSE Tunnel!V3!Return(t, "error")
  BY <1>1 DEF Tunnel!Goto, Tunnel!Return, Tunnel!V3!Goto, Tunnel!V3!Return
<1>4. Tunnel!V3!DisturbIf(~insert[t] /\ ~ok /\ (pc[t] # "encap" \/ entries' # entries),
                          Tunnel!V3!Vni(info[t].vni))
  BY <1>1 DEF Tunnel!WriteHistory, Tunnel!BuiltFor, Tunnel!EncodeVniValue, Tunnel!V3!Vni
<1>5. QED
  BY <1>2, <1>3, <1>4 DEF Tunnel!Write, Tunnel!V3!Write

(* The initial states are those of version 3.                              *)
LEMMA TunnelStart == Tunnel!Init => Tunnel!V3!TunnelInit
BY DEF Tunnel!Init, Tunnel!SessionInit, Tunnel!NoElectionId,
       Tunnel!V3!TunnelInit, Tunnel!V3!SessionInit, Tunnel!V3!NoElectionId

(* Every step is a step of version 3, or none.                             *)
LEMMA TunnelStep ==
  ASSUME [Tunnel!Next]_Tunnel!vars
  PROVE  [Tunnel!V3!Next]_(Tunnel!V3!vars)
<1>1. CASE UNCHANGED Tunnel!vars
  BY <1>1 DEF Tunnel!vars, Tunnel!sessionVars,
              Tunnel!V3!vars, Tunnel!V3!sessionVars, Tunnel!V3!tunnelVars
<1>2. CASE Tunnel!Environment /\ UNCHANGED <<insert, info, disturbed, touched>>
  BY <1>2, TunnelSession DEF Tunnel!V3!Next, Tunnel!V3!tunnelVars
<1>3. ASSUME NEW t \in Threads, NEW ins \in BOOLEAN, NEW i \in TunnelInfos,
             Tunnel!ConfigTunnelEntry(t, ins, i)
      PROVE  Tunnel!V3!Next
  <2>1. Tunnel!V3!DoConfigTunnelEntry(t, ins, i)
    BY <1>3, TunnelSession
       DEF Tunnel!ConfigTunnelEntry, Tunnel!BuiltFor, Tunnel!EncodeVniValue,
           Tunnel!V3!DoConfigTunnelEntry, Tunnel!V3!Vni
  <2>2. QED
    BY <2>1 DEF Tunnel!V3!StartCall, Tunnel!V3!Next
<1>4. ASSUME NEW t \in Threads, Tunnel!CallStep(t)
      PROVE  Tunnel!V3!CallStep(t)
  <2>1. CASE Tunnel!SessionStep(t) /\ UNCHANGED <<insert, info, disturbed, touched>>
    BY <2>1, TunnelSession DEF Tunnel!V3!CallStep, Tunnel!V3!tunnelVars
  <2>2. CASE Tunnel!FetchP4Info(t)
    BY <2>2, TunnelSession
       DEF Tunnel!FetchP4Info, Tunnel!V3!FetchP4Info, Tunnel!V3!CallStep, Tunnel!V3!tunnelVars
  <2>3. CASE Tunnel!WriteEncapTableEntry(t)
    BY <2>3, TunnelWrite, TunnelEncoders
       DEF Tunnel!WriteEncapTableEntry, Tunnel!BuiltFor,
           Tunnel!V3!WriteEncapTableEntry, Tunnel!V3!ConfigTunnelEntry, Tunnel!V3!CallStep
  <2>4. CASE Tunnel!WriteDecapTableEntry(t)
    BY <2>4, TunnelWrite, TunnelEncoders
       DEF Tunnel!WriteDecapTableEntry,
           Tunnel!V3!WriteDecapTableEntry, Tunnel!V3!ConfigTunnelEntry, Tunnel!V3!CallStep
  <2>5. CASE Tunnel!WriteTunnelTermTableEntry(t)
    BY <2>5, TunnelWrite, TunnelEncoders
       DEF Tunnel!WriteTunnelTermTableEntry,
           Tunnel!V3!WriteTunnelTermTableEntry, Tunnel!V3!ConfigTunnelEntry, Tunnel!V3!CallStep
  <2>6. CASE Tunnel!EndCall(t)
    BY <2>6, TunnelSession DEF Tunnel!EndCall, Tunnel!V3!EndCall, Tunnel!V3!CallStep
  <2>7. QED
    BY <1>4, <2>1, <2>2, <2>3, <2>4, <2>5, <2>6 DEF Tunnel!CallStep
<1>5. QED
  BY <1>1, <1>2, <1>3, <1>4 DEF Tunnel!Next, Tunnel!V3!Next

(* The default build sets tunnels up on ES2K as version 3 does, for every  *)
(* kind of tunnel, every interleaving and every failure.                   *)
THEOREM TunnelImplementsV3 == Tunnel!Spec => Tunnel!ImplementsV3Tunnel
BY TunnelStart, TunnelStep, PTL DEF Tunnel!Spec, Tunnel!ImplementsV3Tunnel, Tunnel!V3!Spec

(* The version 3 of Tunnel is the one that is proved about.                *)
LEMMA TunnelSameStart == Tunnel!V3!TunnelInit => TunnelV3!TunnelInit
BY DEF Tunnel!V3!TunnelInit, Tunnel!V3!SessionInit, Tunnel!V3!NoElectionId, Tunnel!V3!NoInfo,
       TunnelV3!TunnelInit, TunnelV3!SessionInit, TunnelV3!NoElectionId, TunnelV3!NoInfo

(* The same of the steps: the two are one formula.                         *)
LEMMA TunnelSameStep == Tunnel!V3!Next => TunnelV3!Next
BY PTL DEF Tunnel!V3!AF_INET, Tunnel!V3!AF_INET6, Tunnel!V3!Accepts, Tunnel!V3!ActiveOn,
       Tunnel!V3!Apply, Tunnel!V3!Arbitrate, Tunnel!V3!ArbitrationFails,
       Tunnel!V3!BeginSession, Tunnel!V3!ByType, Tunnel!V3!Byte, Tunnel!V3!CallStep,
       Tunnel!V3!CanWrite, Tunnel!V3!ConfigTunnelEntry, Tunnel!V3!DisturbIf,
       Tunnel!V3!DoConfigTunnelEntry, Tunnel!V3!EmptyEntry, Tunnel!V3!EncapParams,
       Tunnel!V3!EncodeGeneveDecapModAndVlanPushTableEntry,
       Tunnel!V3!EncodeGeneveDecapModTableEntry,
       Tunnel!V3!EncodeGeneveEncapAndVlanPopTableEntry,
       Tunnel!V3!EncodeGeneveEncapTableEntry, Tunnel!V3!EncodeTunnelTermTableEntry,
       Tunnel!V3!EncodeV6GeneveEncapAndVlanPopTableEntry,
       Tunnel!V3!EncodeV6GeneveEncapTableEntry, Tunnel!V3!EncodeV6TunnelTermTableEntry,
       Tunnel!V3!EncodeV6VxlanEncapAndVlanPopTableEntry,
       Tunnel!V3!EncodeV6VxlanEncapTableEntry,
       Tunnel!V3!EncodeVxlanDecapModAndVlanPushTableEntry,
       Tunnel!V3!EncodeVxlanDecapModTableEntry,
       Tunnel!V3!EncodeVxlanEncapAndVlanPopTableEntry, Tunnel!V3!EncodeVxlanEncapTableEntry,
       Tunnel!V3!EndCall, Tunnel!V3!EndSession, Tunnel!V3!Entry, Tunnel!V3!Environment,
       Tunnel!V3!FetchP4Info, Tunnel!V3!GetPipelineConfig, Tunnel!V3!Goto, Tunnel!V3!HasKey,
       Tunnel!V3!Higher, Tunnel!V3!HoldsStream, Tunnel!V3!Htons, Tunnel!V3!IsV4,
       Tunnel!V3!IsV6, Tunnel!V3!NewElectionId, Tunnel!V3!Next, Tunnel!V3!NoElectionId,
       Tunnel!V3!NoInfo, Tunnel!V3!OnOtherTunnel, Tunnel!V3!OpenStream,
       Tunnel!V3!PrepareDecapModAndVlanPushTableEntry, Tunnel!V3!PrepareDecapModTableEntry,
       Tunnel!V3!PrepareDecapTableEntry, Tunnel!V3!PrepareEncapTableEntry,
       Tunnel!V3!PrepareTunnelTermTableEntry, Tunnel!V3!PrepareV4EncapAndVlanPopTableEntry,
       Tunnel!V3!PrepareV4EncapTableEntry, Tunnel!V3!PrepareV6EncapAndVlanPopTableEntry,
       Tunnel!V3!PrepareV6EncapTableEntry, Tunnel!V3!Return, Tunnel!V3!SameKey,
       Tunnel!V3!SendWriteRequest, Tunnel!V3!SessionStep, Tunnel!V3!StartCall,
       Tunnel!V3!StreamClosed, Tunnel!V3!Tagged, Tunnel!V3!TermAction, Tunnel!V3!Tick,
       Tunnel!V3!TimeBasedElectionId, Tunnel!V3!TunnelEntries, Tunnel!V3!TunnelId,
       Tunnel!V3!UnsetAction, Tunnel!V3!Untagged, Tunnel!V3!Vni, Tunnel!V3!VniOf,
       Tunnel!V3!WellFormed, Tunnel!V3!Word, Tunnel!V3!Write,
       Tunnel!V3!WriteDecapTableEntry, Tunnel!V3!WriteEncapTableEntry,
       Tunnel!V3!WriteTunnelTermTableEntry, Tunnel!V3!tunnelVars, TunnelV3!AF_INET,
       TunnelV3!AF_INET6, TunnelV3!Accepts, TunnelV3!ActiveOn, TunnelV3!Apply,
       TunnelV3!Arbitrate, TunnelV3!ArbitrationFails, TunnelV3!BeginSession,
       TunnelV3!ByType, TunnelV3!Byte, TunnelV3!CallStep, TunnelV3!CanWrite,
       TunnelV3!ConfigTunnelEntry, TunnelV3!DisturbIf, TunnelV3!DoConfigTunnelEntry,
       TunnelV3!EmptyEntry, TunnelV3!EncapParams,
       TunnelV3!EncodeGeneveDecapModAndVlanPushTableEntry,
       TunnelV3!EncodeGeneveDecapModTableEntry,
       TunnelV3!EncodeGeneveEncapAndVlanPopTableEntry, TunnelV3!EncodeGeneveEncapTableEntry,
       TunnelV3!EncodeTunnelTermTableEntry,
       TunnelV3!EncodeV6GeneveEncapAndVlanPopTableEntry,
       TunnelV3!EncodeV6GeneveEncapTableEntry, TunnelV3!EncodeV6TunnelTermTableEntry,
       TunnelV3!EncodeV6VxlanEncapAndVlanPopTableEntry,
       TunnelV3!EncodeV6VxlanEncapTableEntry,
       TunnelV3!EncodeVxlanDecapModAndVlanPushTableEntry,
       TunnelV3!EncodeVxlanDecapModTableEntry,
       TunnelV3!EncodeVxlanEncapAndVlanPopTableEntry, TunnelV3!EncodeVxlanEncapTableEntry,
       TunnelV3!EndCall, TunnelV3!EndSession, TunnelV3!Entry, TunnelV3!Environment,
       TunnelV3!FetchP4Info, TunnelV3!GetPipelineConfig, TunnelV3!Goto, TunnelV3!HasKey,
       TunnelV3!Higher, TunnelV3!HoldsStream, TunnelV3!Htons, TunnelV3!IsV4, TunnelV3!IsV6,
       TunnelV3!NewElectionId, TunnelV3!Next, TunnelV3!NoElectionId, TunnelV3!NoInfo,
       TunnelV3!OnOtherTunnel, TunnelV3!OpenStream,
       TunnelV3!PrepareDecapModAndVlanPushTableEntry, TunnelV3!PrepareDecapModTableEntry,
       TunnelV3!PrepareDecapTableEntry, TunnelV3!PrepareEncapTableEntry,
       TunnelV3!PrepareTunnelTermTableEntry, TunnelV3!PrepareV4EncapAndVlanPopTableEntry,
       TunnelV3!PrepareV4EncapTableEntry, TunnelV3!PrepareV6EncapAndVlanPopTableEntry,
       TunnelV3!PrepareV6EncapTableEntry, TunnelV3!Return, TunnelV3!SameKey,
       TunnelV3!SendWriteRequest, TunnelV3!SessionStep, TunnelV3!StartCall,
       TunnelV3!StreamClosed, TunnelV3!Tagged, TunnelV3!TermAction, TunnelV3!Tick,
       TunnelV3!TimeBasedElectionId, TunnelV3!TunnelEntries, TunnelV3!TunnelId,
       TunnelV3!UnsetAction, TunnelV3!Untagged, TunnelV3!Vni, TunnelV3!VniOf,
       TunnelV3!WellFormed, TunnelV3!Word, TunnelV3!Write, TunnelV3!WriteDecapTableEntry,
       TunnelV3!WriteEncapTableEntry, TunnelV3!WriteTunnelTermTableEntry,
       TunnelV3!tunnelVars

(* So its behaviours are those that the theorems on version 3 are about.   *)
LEMMA TunnelIsV3 == Tunnel!Spec => TunnelV3!Spec
<1>1. [Tunnel!V3!Next]_(Tunnel!V3!vars) => [TunnelV3!Next]_(TunnelV3!vars)
  BY TunnelSameStep DEF Tunnel!V3!vars, Tunnel!V3!sessionVars, Tunnel!V3!tunnelVars,
                        TunnelV3!vars, TunnelV3!sessionVars, TunnelV3!tunnelVars
<1>2. QED
  BY TunnelStart, TunnelStep, TunnelSameStart, <1>1, PTL DEF Tunnel!Spec, TunnelV3!Spec

(* So a tunnel call of the default build on ES2K that reports no error is  *)
(* complete, unless something disturbed its VNI.                           *)
THEOREM TunnelIsTruthful ==
  ASSUME TunnelV3!ThreadIdAssumption, TunnelV3!MaxClockAssumption, TunnelV3!TunnelInfosAssumption
  PROVE  Tunnel!Spec => []TunnelV3!TunnelStatusTruthful
<1>1. TunnelV3!Spec => []TunnelV3!TunnelStatusTruthful
  BY TunnelV3!TunnelStatusIsTruthful
<1>2. QED
  BY TunnelIsV3, <1>1, PTL

(* And packets of a tunnel that are terminated find the other entries of   *)
(* the tunnel, if no two vlan modes share a termination entry, as in       *)
(* version 3.                                                              *)
THEOREM TunnelIsBacked ==
  ASSUME TunnelV3!ThreadIdAssumption, TunnelV3!MaxClockAssumption, TunnelV3!TunnelInfosAssumption,
         \A i, j \in TunnelInfos :
           /\ TunnelV3!Tagged(i)
           /\ TunnelV3!PrepareTunnelTermTableEntry(j) = TunnelV3!PrepareTunnelTermTableEntry(i)
           => TunnelV3!Tagged(j)
  PROVE  Tunnel!Spec => []TunnelV3!TerminationBacked
<1>1. TunnelV3!Spec => []TunnelV3!TerminationBacked
  BY TunnelV3!TerminationIsBacked
<1>2. QED
  BY TunnelIsV3, <1>1, PTL

-----------------------------------------------------------------------------
(***************************************************************************)
(* The host port of a VSI.                                                 *)
(***************************************************************************)
Octets == 0 .. 255

(* What is shifted out on the left does not matter.                        *)
LEMMA ShiftedIn ==
  ASSUME NEW h \in Nat, NEW c \in Octets
  PROVE  /\ ShiftIn(h, c) \in Nat
         /\ \E q \in Nat : ShiftIn(h, c) = 256 * q + c
<1>1. CASE CharSigned /\ c >= 128
  <2>1. ShiftIn(h, c) = 256 * 255 + c
    BY <1>1 DEF ShiftIn, Octets
  <2>2. QED
    BY <2>1 DEF Octets
<1>2. CASE ~(CharSigned /\ c >= 128)
  <2>1. ShiftIn(h, c) = (h * 256 + c) % 65536
    BY <1>2 DEF ShiftIn, TwoBytes, Octets
  <2>2. (h * 256 + c) % 65536 = 256 * (h % 256) + c /\ h % 256 \in Nat
    BY DEF Octets
  <2>3. QED
    BY <2>1, <2>2 DEF Octets
<1>3. QED
  BY <1>1, <1>2

(* A port has two bytes.                                                   *)
LEMMA PortRange ==
  ASSUME NEW c \in Octets, NEW d \in Octets
  PROVE  c * 256 + d \in Nat /\ TwoBytes(c * 256 + d) = c * 256 + d
BY SMT DEF Octets, TwoBytes

(* Version 1 puts a port together right if its last byte has no sign bit.  *)
LEMMA PutTogether ==
  ASSUME NEW a \in Octets, NEW b \in Octets, NEW c \in Octets, NEW d \in Octets,
         CharSigned => d < 128
  PROVE  ShiftIn(ShiftIn(ShiftIn(ShiftIn(0, a), b), c), d) = c * 256 + d
<1>1. 0 \in Nat
  OBVIOUS
<1>2. ShiftIn(0, a) \in Nat
  BY <1>1, ShiftedIn, Zenon
<1>3. ShiftIn(ShiftIn(0, a), b) \in Nat
  BY <1>2, ShiftedIn, Zenon
<1>4. PICK q \in Nat : ShiftIn(ShiftIn(ShiftIn(0, a), b), c) = 256 * q + c
  BY <1>3, ShiftedIn, Zenon
<1>5. ShiftIn(256 * q + c, d) = TwoBytes((256 * q + c) * 256 + d)
  BY SMT DEF ShiftIn, Octets
<1>6. TwoBytes((256 * q + c) * 256 + d) = c * 256 + d
  BY SMT DEF TwoBytes, Octets
<1>7. QED
  BY ONLY <1>4, <1>5, <1>6, Zenon

(* What version 1 assumes of an entry of the table.                        *)
LEMMA EntryBytes ==
  ASSUME PortParams, NEW k \in DOMAIN TxAccVsiParam
  PROVE  /\ TxAccVsiParam[k] # <<>>
         /\ \A j \in 1 .. 4 : TxAccVsiParam[k][j] \in Octets
         /\ CharSigned => TxAccVsiParam[k][4] < 128
BY SMT DEF PortParams, Octets

(* Under the assumption on the table, every entry has a port.              *)
LEMMA PortTableIs ==
  ASSUME PortParams
  PROVE  /\ DOMAIN PortTable = DOMAIN TxAccVsiParam
         /\ \A k \in DOMAIN TxAccVsiParam : HostSp(TxAccVsiParam[k]) = PortTable[k]
<1>1. ASSUME NEW k \in DOMAIN TxAccVsiParam
      PROVE  HostSp(TxAccVsiParam[k]) = PortValue(TxAccVsiParam[k])
  <2> DEFINE b == TxAccVsiParam[k]
  <2>1. b # <<>> /\ (CharSigned => b[4] < 128)
    BY EntryBytes
  <2>2. b[1] \in Octets /\ b[2] \in Octets /\ b[3] \in Octets /\ b[4] \in Octets
    BY EntryBytes, SMT
  <2> HIDE DEF b
  <2>3. ShiftIn(ShiftIn(ShiftIn(ShiftIn(0, b[1]), b[2]), b[3]), b[4])
          = b[3] * 256 + b[4]
    BY ONLY <2>1, <2>2, PutTogether
  <2>4. HostSp(b) = PortValue(b)
    BY ONLY <2>1, <2>3, Zenon DEF HostSp, PortValue
  <2>5. QED
    BY <2>4 DEF b
<1>2. \A j \in DOMAIN TxAccVsiParam : TxAccVsiParam[j] # <<>>
  BY EntryBytes, Zenon
<1>3. {j \in DOMAIN TxAccVsiParam : TxAccVsiParam[j] # <<>>} = DOMAIN TxAccVsiParam
  BY ONLY <1>2, Zenon
<1>4. PortTable = [k \in DOMAIN TxAccVsiParam |-> PortValue(TxAccVsiParam[k])]
  BY ONLY <1>3, Zenon DEF PortTable
<1>5. QED
  BY ONLY <1>1, <1>4, Zenon

-----------------------------------------------------------------------------
(***************************************************************************)
(* The smaller APIs, on ES2K.                                              *)
(***************************************************************************)
PortsV3 == INSTANCE Es2kConfigPorts_proofs WITH TxAccVsi <- PortTable

(* The two versions encode the entries alike.                              *)
LEMMA PortsEncoders ==
  ASSUME NEW i
  PROVE  /\ EncodeVlanPushTableEntry(i) = V3!EncodeVlanPushTableEntry(i)
         /\ EncodeVlanPopTableEntry(i) = V3!EncodeVlanPopTableEntry(i)
         /\ EncodeSrcPortTableEntry(i) = V3!EncodeSrcPortTableEntry(i)
         /\ EncodeSrcIpMacMapTableEntry(i) = V3!EncodeSrcIpMacMapTableEntry(i)
         /\ EncodeDstIpMacMapTableEntry(i) = V3!EncodeDstIpMacMapTableEntry(i)
         /\ RxTunnelEntry(i) = V3!PrepareRxTunnelSrcPortTableEntry(i)
<1>1. RxTunnelEntry(i) = V3!PrepareRxTunnelSrcPortTableEntry(i)
  BY DEF AF_INET, AF_INET6, BothFamily, EmptyEntry,
         EncodeRxTunnelTableEntry, EncodeV6RxTunnelTableEntry,
         EncodeVniValue, Entry, RxTunnelEntry, TwoBytes,
         V3!AF_INET, V3!AF_INET6, V3!EmptyEntry,
         V3!EncodeRxTunnelTableEntry, V3!EncodeV6RxTunnelTableEntry,
         V3!Entry, V3!IsV4, V3!IsV6,
         V3!PrepareRxTunnelSrcPortTableEntry, V3!Vni, V3!Word
<1>2. QED
  BY <1>1 DEF EncodeVlanPushTableEntry, EncodeVlanPopTableEntry,
              EncodeSrcPortTableEntry, EncodeSrcIpMacMapTableEntry,
              EncodeDstIpMacMapTableEntry, EncodeByteValue, TwoBytes,
              Entry,
              V3!EncodeVlanPushTableEntry, V3!EncodeVlanPopTableEntry,
              V3!EncodeSrcPortTableEntry, V3!EncodeSrcIpMacMapTableEntry,
              V3!EncodeDstIpMacMapTableEntry, V3!Byte, V3!Word,
              V3!Entry

(* The session is the same.                                                *)
LEMMA PortsSession ==
  ASSUME NEW t, NEW e, NEW ins, NEW ok, NEW label
  PROVE  /\ SessionStep(t) => V3!SessionStep(t)
         /\ BeginSession(t) => V3!BeginSession(t)
         /\ GetPipelineConfig(t, label) => V3!GetPipelineConfig(t, label)
         /\ SendReadRequest(t, e, ok) => V3!SendReadRequest(t, e, ok)
         /\ SendWriteRequest(t, e, ins, ok) => V3!SendWriteRequest(t, e, ins, ok)
         /\ EndSession(t) => V3!EndSession(t)
         /\ Environment => V3!Environment
BY DEF Accepts, Apply, Arbitrate, ArbitrationFails,
       BeginSession, CanWrite, EndSession, Environment,
       GetPipelineConfig, Goto, HasKey, Higher, HoldsStream,
       NewElectionId, NoElectionId, OpenStream, Return,
       SameKey, SendReadRequest, SendWriteRequest, SessionStep,
       StreamClosed, Tick, TimeBasedElectionId, UnsetAction,
       WellFormed, V3!Accepts, V3!Apply, V3!Arbitrate,
       V3!ArbitrationFails, V3!BeginSession, V3!CanWrite,
       V3!EndSession, V3!Environment, V3!GetPipelineConfig, V3!Goto,
       V3!HasKey, V3!Higher, V3!HoldsStream, V3!NewElectionId,
       V3!NoElectionId, V3!OpenStream, V3!Return, V3!SameKey,
       V3!SendReadRequest, V3!SendWriteRequest, V3!SessionStep,
       V3!StreamClosed, V3!Tick, V3!TimeBasedElectionId,
       V3!UnsetAction, V3!WellFormed

(* The calls take the same branches.                                       *)
LEMMA PortsLabels ==
  ASSUME NEW ins, NEW i
  PROVE  /\ TryDstIp(ins, i) = V3!DstLabel(ins, i)
         /\ TrySrcIp(ins, i) = V3!SrcLabel(ins, i)
         /\ ValidIpAddr(i.src_ip) = V3!ValidIpAddr(i.src_ip)
BY DEF TryDstIp, TrySrcIp, ValidIpAddr,
       V3!DstLabel, V3!SrcLabel, V3!ValidIpAddr

PortApis == {"vlan", "srcPort", "tunnelSrcPort", "rxTunnel", "ipMacMap"}

(* A call with the P4Info begins with the same step.                       *)
LEMMA PortsFirstStep ==
  ASSUME NEW a \in PortApis, NEW ins, NEW i
  PROVE  FirstStep(a, ins, i) = V3!FirstLabel(a, ins, i)
<1>1. CASE a = "vlan"
  BY <1>1, Zenon DEF FirstStep, V3!FirstLabel
<1>2. CASE a = "srcPort"
  BY <1>2, Zenon DEF FirstStep, V3!FirstLabel
<1>3. CASE a = "tunnelSrcPort"
  BY <1>3, Zenon DEF FirstStep, V3!FirstLabel
<1>4. CASE a = "rxTunnel"
  BY <1>4, Zenon DEF FirstStep, V3!FirstLabel
<1>5. CASE a = "ipMacMap"
  <2>1. TrySrcIp(ins, i) = V3!SrcLabel(ins, i)
    BY PortsLabels
  <2>2. QED
    BY <1>5, <2>1 DEF FirstStep, V3!FirstLabel
<1>6. QED
  BY <1>1, <1>2, <1>3, <1>4, <1>5 DEF PortApis

(* A call that goes on has met no error.                                   *)
PortsControl ==
  /\ pc = [t \in Threads |-> pc[t]]
  /\ api = [t \in Threads |-> api[t]]
  /\ status = [t \in Threads |-> status[t]]
  /\ info = [t \in Threads |-> info[t]]
  /\ \A t \in Threads : /\ api[t] \in PortApis
                        /\ pc[t] \notin {"idle", "return"} => status[t] = "ok"

(* The initial states are those of version 3.                              *)
LEMMA PortsStart == Init => V3!PortsInit /\ PortsControl
BY DEF Init, SessionInit, NoElectionId, V3!PortsInit,
       V3!SessionInit, V3!NoElectionId, PortsControl, PortApis

(* A step that does not return leaves the status alone.                    *)
LEMMA PortsControlStep ==
  ASSUME PortsControl, [Next]_vars
  PROVE  PortsControl'
<1>1. \/ UNCHANGED <<pc, api, status, info>>
      \/ \E t \in Threads :
           /\ \E label : pc' = [pc EXCEPT ![t] = label]
           /\ api' = api \/ \E a \in PortApis : api' = [api EXCEPT ![t] = a]
           /\ info' = info \/ \E i : info' = [info EXCEPT ![t] = i]
           /\ \/ \E st : pc' = [pc EXCEPT ![t] = "return"] /\ status' = [status EXCEPT ![t] = st]
              \/ status' = status /\ pc[t] \notin {"idle", "return"}
              \/ status' = [status EXCEPT ![t] = "ok"]
  <2>1. CASE UNCHANGED vars
    BY <2>1 DEF vars, sessionVars, portsVars
  <2>2. CASE Environment /\ UNCHANGED portsVars
    BY <2>2 DEF Environment, Tick, StreamClosed, portsVars
  <2>3. ASSUME NEW t \in Threads, StartCall(t)
        PROVE  \E a \in PortApis : \E i :
                 /\ pc' = [pc EXCEPT ![t] = "arbitrate"]
                 /\ api' = [api EXCEPT ![t] = a]
                 /\ info' = [info EXCEPT ![t] = i]
                 /\ status' = [status EXCEPT ![t] = "ok"]
    BY <2>3 DEF StartCall, ConfigVlanEntry, ConfigSrcPortEntry,
                ConfigTunnelSrcPortEntry, ConfigRxTunnelSrcEntry,
                ConfigIpMacMapEntry, Call, BeginSession, Goto, PortApis
  <2>4. ASSUME NEW t \in Threads, CallStep(t)
        PROVE  /\ \E label : pc' = [pc EXCEPT ![t] = label]
               /\ api' = api \/ api' = [api EXCEPT ![t] = "vlan"]
               /\ info' = info \/ \E i : info' = [info EXCEPT ![t] = i]
               /\ \/ \E st : pc' = [pc EXCEPT ![t] = "return"] /\ status' = [status EXCEPT ![t] = st]
                  \/ status' = status /\ pc[t] \notin {"idle", "return"}
                  \/ status' = [status EXCEPT ![t] = "ok"]
    BY <2>4 DEF CallStep, SessionStep, Arbitrate, ArbitrationFails,
                FetchP4Info, GetPipelineConfig, WriteVlanPushTableEntry,
                WriteVlanPopTableEntry, ReadTxAccVsiTableEntry,
                ConfigureVsiSrcPortTableEntry, WriteTunnelSrcPort,
                WriteRxTunnelSrcPortTableEntry, ReadVmSrcTableEntry,
                WriteSrcIpMacMapTableEntry, ReadVmDstTableEntry,
                WriteDstIpMacMapTableEntry, EndCall, EndSession,
                Write, WriteAnyway, Read, Goto, Return,
                portsVars
  <2>5. QED
    BY <2>1, <2>2, <2>3, <2>4 DEF Next, PortApis
<1>2. QED
  BY <1>1 DEF PortsControl

(* The last write of a call, another write, and a read.                    *)
LEMMA PortsWrites ==
  ASSUME PortsControl, NEW t \in Threads, NEW e
  PROVE  /\ Write(t, e, "return") /\ pc[t] \notin {"idle", "return"}
              => V3!WriteLast(t, pc[t], e)
         /\ \A label : Write(t, e, label) =>
              \E ok \in BOOLEAN : /\ V3!Write(t, e, ok)
                                  /\ IF ok THEN V3!Goto(t, label) /\ UNCHANGED status
                                           ELSE V3!Return(t, "error")
         /\ \A label : WriteAnyway(t, e, label) =>
              /\ \E ok \in BOOLEAN : V3!Write(t, e, ok)
              /\ V3!Goto(t, label)
              /\ UNCHANGED status
<1>1. ASSUME NEW ok \in BOOLEAN,
             SendWriteRequest(t, e, insert[t], ok), V3!WriteHistory(t, e, ok),
             UNCHANGED <<clock, electionId, p4info, streams, highest, api, insert, info>>
      PROVE  V3!Write(t, e, ok)
  BY <1>1, PortsSession DEF V3!Write
<1>2. ASSUME NEW label, Write(t, e, label)
      PROVE  \E ok \in BOOLEAN : /\ V3!Write(t, e, ok)
                                 /\ IF ok THEN V3!Goto(t, label) /\ UNCHANGED status
                                          ELSE V3!Return(t, "error")
  BY <1>1, <1>2 DEF Write, Goto, Return, V3!Goto, V3!Return
<1>3. ASSUME NEW label, WriteAnyway(t, e, label)
      PROVE  /\ \E ok \in BOOLEAN : V3!Write(t, e, ok)
             /\ V3!Goto(t, label)
             /\ UNCHANGED status
  BY <1>1, <1>3 DEF WriteAnyway, Goto, V3!Goto
<1>4. ASSUME Write(t, e, "return"), pc[t] \notin {"idle", "return"}
      PROVE  V3!WriteLast(t, pc[t], e)
  <2>1. PICK ok \in BOOLEAN : /\ V3!Write(t, e, ok)
                              /\ IF ok THEN V3!Goto(t, "return") /\ UNCHANGED status
                                       ELSE V3!Return(t, "error")
    BY <1>2, <1>4
  <2>2. status = [status EXCEPT ![t] = "ok"]
    BY <1>4 DEF PortsControl
  <2>3. V3!Return(t, IF ok THEN "ok" ELSE "error")
    BY <2>1, <2>2 DEF V3!Return
  <2>4. QED
    BY <2>1, <2>3 DEF V3!WriteLast
<1>5. QED
  BY <1>2, <1>3, <1>4

(* The host port of the VSI is the one that version 3 finds.               *)
LEMMA PortsHostPort ==
  ASSUME PortParams, NEW i, TxAccVsiFound(i)
  PROVE  V3!HasHostPort(i) /\ ReadHostPort(i) = V3!HostPort(i)
<1>1. V3!EncodeTxAccVsiTableEntry(i.src_port) = TxAccVsiKey(i)
  BY DEF V3!EncodeTxAccVsiTableEntry, V3!Byte, TxAccVsiKey,
         EncodeTxAccVsiTableEntry, EncodeByteValue
<1>2. QED
  BY <1>1, PortTableIs
     DEF TxAccVsiFound, ReadHostPort, V3!HasHostPort, V3!HostPort

(* A call of thread t goes on as in version 3.                             *)
LEMMA PortsCall ==
  ASSUME PortParams, PortsControl, NEW t \in Threads, CallStep(t)
  PROVE  V3!CallStep(t)
<1>1. CASE SessionStep(t) /\ UNCHANGED portsVars
  BY <1>1, PortsSession DEF V3!CallStep, portsVars, V3!portsVars
<1>2. CASE FetchP4Info(t)
  <2>1. FirstStep(api[t], insert[t], info[t])
          = V3!FirstLabel(api[t], insert[t], info[t])
    BY PortsFirstStep DEF PortsControl
  <2>2. QED
    BY <1>2, <2>1, PortsSession
       DEF FetchP4Info, portsVars,
           V3!FetchP4Info, V3!portsVars, V3!CallStep
<1>3. CASE WriteVlanPushTableEntry(t)
  BY <1>3, PortsWrites, PortsEncoders
     DEF WriteVlanPushTableEntry, V3!WriteVlanPushTableEntry,
         V3!ConfigVlanEntry, V3!CallStep
<1>4. CASE WriteVlanPopTableEntry(t)
  BY <1>4, PortsWrites, PortsEncoders
     DEF WriteVlanPopTableEntry, V3!WriteVlanPopTableEntry,
         V3!ConfigVlanEntry, V3!CallStep
<1>5. CASE ReadTxAccVsiTableEntry(t)
  <2>1. V3!GetTxAccVsiPort(t)
    BY <1>5, PortsHostPort
       DEF ReadTxAccVsiTableEntry, Goto, Return,
           V3!GetTxAccVsiPort, V3!Goto, V3!Return
  <2>2. QED
    BY <2>1 DEF V3!ConfigSrcPortEntry, V3!CallStep
<1>6. CASE ConfigureVsiSrcPortTableEntry(t)
  BY <1>6, PortsWrites, PortsEncoders
     DEF ConfigureVsiSrcPortTableEntry, V3!WriteVsiSrcPortTableEntry,
         V3!ConfigSrcPortEntry, V3!CallStep
<1>7. CASE WriteTunnelSrcPort(t)
  BY <1>7, PortsWrites, PortsEncoders
     DEF WriteTunnelSrcPort, V3!WriteTunnelSrcPortEntry, V3!CallStep
<1>8. CASE WriteRxTunnelSrcPortTableEntry(t)
  BY <1>8, PortsWrites, PortsEncoders
     DEF WriteRxTunnelSrcPortTableEntry, V3!WriteRxTunnelSrcPortTableEntry,
         V3!CallStep
<1>9. CASE ReadVmSrcTableEntry(t)
  <2>1. V3!ReadVmSrcTableEntry(t)
    BY <1>9, PortsSession, PortsEncoders, PortsLabels
       DEF ReadVmSrcTableEntry, Read, Goto, portsVars,
           V3!ReadVmSrcTableEntry, V3!Goto, V3!portsVars
  <2>2. QED
    BY <2>1 DEF V3!ConfigIpMacMapEntry, V3!CallStep
<1>10. CASE WriteSrcIpMacMapTableEntry(t)
  BY <1>10, PortsWrites, PortsEncoders, PortsLabels
     DEF WriteSrcIpMacMapTableEntry, V3!WriteSrcIpMacMapTableEntry,
         V3!ConfigIpMacMapEntry, V3!CallStep
<1>11. CASE ReadVmDstTableEntry(t)
  <2>1. V3!ReadVmDstTableEntry(t)
    BY <1>11, PortsSession, PortsEncoders, PortsLabels
       DEF ReadVmDstTableEntry, Read, Goto, portsVars,
           V3!ReadVmDstTableEntry, V3!Goto, V3!portsVars
  <2>2. QED
    BY <2>1 DEF V3!ConfigIpMacMapEntry, V3!CallStep
<1>12. CASE WriteDstIpMacMapTableEntry(t)
  BY <1>12, PortsWrites, PortsEncoders
     DEF WriteDstIpMacMapTableEntry, V3!WriteDstIpMacMapTableEntry,
         V3!ConfigIpMacMapEntry, V3!CallStep
<1>13. CASE EndCall(t)
  BY <1>13, PortsSession DEF EndCall, V3!EndCall, V3!CallStep
<1>14. QED
  BY <1>1, <1>2, <1>3, <1>4, <1>5, <1>6, <1>7, <1>8, <1>9, <1>10, <1>11, <1>12, <1>13
     DEF CallStep

(* Every step is a step of version 3, or none.                             *)
LEMMA PortsStep ==
  ASSUME PortParams, PortsControl, [Next]_vars
  PROVE  [V3!Next]_(V3!vars)
<1>1. CASE UNCHANGED vars
  BY <1>1 DEF vars, sessionVars, portsVars,
              V3!vars, V3!sessionVars, V3!portsVars
<1>2. CASE Environment /\ UNCHANGED portsVars
  BY <1>2, PortsSession DEF portsVars, V3!portsVars, V3!Next
<1>3. ASSUME NEW t \in Threads, StartCall(t)
      PROVE  V3!StartCall(t)
  <2>1. ASSUME NEW a, NEW ins, NEW i, Call(t, a, ins, i)
        PROVE  V3!DoConfig(t, a, ins, i)
    BY <2>1, PortsSession DEF Call, V3!DoConfig
  <2>2. QED
    BY <1>3, <2>1
       DEF StartCall, ConfigVlanEntry, ConfigSrcPortEntry,
           ConfigTunnelSrcPortEntry, ConfigRxTunnelSrcEntry,
           ConfigIpMacMapEntry, V3!StartCall, V3!DoConfigVlanEntry,
           V3!DoConfigSrcPortEntry, V3!DoConfigTunnelSrcPortEntry,
           V3!DoConfigRxTunnelSrcEntry, V3!DoConfigIpMacMapEntry
<1>4. QED
  BY <1>1, <1>2, <1>3, PortsCall DEF Next, V3!Next

(* The default build programs the smaller tables as version 3 does, for    *)
(* every interleaving and every failure, if what version 1 takes for       *)
(* granted of TX_ACC_VSI_TABLE holds.                                      *)
THEOREM PortsImplementsV3 ==
  ASSUME PortParams
  PROVE  Spec => ImplementsV3Ports
BY PortsStart, PortsStep, PortsControlStep, PTL
   DEF Spec, ImplementsV3Ports, V3!Spec

(* V3, version 3 as the mapping has it, is the one that is proved about.   *)
LEMMA PortsSameStart == V3!PortsInit => PortsV3!PortsInit
BY DEF V3!PortsInit, V3!SessionInit, V3!NoElectionId, V3!NoInfo,
       PortsV3!PortsInit, PortsV3!SessionInit, PortsV3!NoElectionId, PortsV3!NoInfo

(* The same of the steps: the two are one formula.                         *)
LEMMA PortsSameStep == V3!Next => PortsV3!Next
BY PTL DEF V3!AF_INET, V3!AF_INET6, V3!Accepts, V3!Apply,
       V3!Arbitrate, V3!ArbitrationFails, V3!BeginSession, V3!Byte,
       V3!CallEntries, V3!CallStep, V3!CanWrite,
       V3!ConfigIpMacMapEntry, V3!ConfigSrcPortEntry, V3!ConfigVlanEntry,
       V3!DoConfig, V3!DoConfigIpMacMapEntry, V3!DoConfigRxTunnelSrcEntry,
       V3!DoConfigSrcPortEntry, V3!DoConfigTunnelSrcPortEntry,
       V3!DoConfigVlanEntry, V3!DstLabel, V3!EmptyEntry,
       V3!EncodeDstIpMacMapTableEntry, V3!EncodeRxTunnelTableEntry,
       V3!EncodeSrcIpMacMapTableEntry, V3!EncodeSrcPortTableEntry,
       V3!EncodeTxAccVsiTableEntry, V3!EncodeV6RxTunnelTableEntry,
       V3!EncodeVlanPopTableEntry, V3!EncodeVlanPushTableEntry,
       V3!EndCall, V3!EndSession, V3!Entry, V3!Environment,
       V3!FetchP4Info, V3!FirstLabel, V3!GetPipelineConfig,
       V3!GetTxAccVsiPort, V3!Goto, V3!HasHostPort, V3!HasKey,
       V3!Higher, V3!HoldsStream, V3!HostPort, V3!IsV4,
       V3!IsV6, V3!NewElectionId, V3!Next, V3!NoElectionId,
       V3!NoInfo, V3!OnVlan, V3!OpenStream,
       V3!PrepareRxTunnelSrcPortTableEntry, V3!ReadVmDstTableEntry,
       V3!ReadVmSrcTableEntry, V3!Return, V3!SameKey,
       V3!SendReadRequest, V3!SendWriteRequest, V3!SessionStep,
       V3!SrcLabel, V3!StartCall, V3!StartHistory, V3!StreamClosed,
       V3!Tick, V3!TimeBasedElectionId, V3!UnsetAction,
       V3!ValidIpAddr, V3!Vni, V3!WellFormed, V3!Word,
       V3!Write, V3!WriteDstIpMacMapTableEntry, V3!WriteHistory,
       V3!WriteLast, V3!WriteRxTunnelSrcPortTableEntry,
       V3!WriteSrcIpMacMapTableEntry, V3!WriteTunnelSrcPortEntry,
       V3!WriteVlanPopTableEntry, V3!WriteVlanPushTableEntry,
       V3!WriteVsiSrcPortTableEntry, V3!portsVars, PortsV3!AF_INET,
       PortsV3!AF_INET6, PortsV3!Accepts, PortsV3!Apply, PortsV3!Arbitrate,
       PortsV3!ArbitrationFails, PortsV3!BeginSession, PortsV3!Byte, PortsV3!CallEntries,
       PortsV3!CallStep, PortsV3!CanWrite, PortsV3!ConfigIpMacMapEntry,
       PortsV3!ConfigSrcPortEntry, PortsV3!ConfigVlanEntry, PortsV3!DoConfig,
       PortsV3!DoConfigIpMacMapEntry, PortsV3!DoConfigRxTunnelSrcEntry,
       PortsV3!DoConfigSrcPortEntry, PortsV3!DoConfigTunnelSrcPortEntry,
       PortsV3!DoConfigVlanEntry, PortsV3!DstLabel, PortsV3!EmptyEntry,
       PortsV3!EncodeDstIpMacMapTableEntry, PortsV3!EncodeRxTunnelTableEntry,
       PortsV3!EncodeSrcIpMacMapTableEntry, PortsV3!EncodeSrcPortTableEntry,
       PortsV3!EncodeTxAccVsiTableEntry, PortsV3!EncodeV6RxTunnelTableEntry,
       PortsV3!EncodeVlanPopTableEntry, PortsV3!EncodeVlanPushTableEntry, PortsV3!EndCall,
       PortsV3!EndSession, PortsV3!Entry, PortsV3!Environment, PortsV3!FetchP4Info,
       PortsV3!FirstLabel, PortsV3!GetPipelineConfig, PortsV3!GetTxAccVsiPort, PortsV3!Goto,
       PortsV3!HasHostPort, PortsV3!HasKey, PortsV3!Higher, PortsV3!HoldsStream,
       PortsV3!HostPort, PortsV3!IsV4, PortsV3!IsV6, PortsV3!NewElectionId, PortsV3!Next,
       PortsV3!NoElectionId, PortsV3!NoInfo, PortsV3!OnVlan, PortsV3!OpenStream,
       PortsV3!PrepareRxTunnelSrcPortTableEntry, PortsV3!ReadVmDstTableEntry,
       PortsV3!ReadVmSrcTableEntry, PortsV3!Return, PortsV3!SameKey,
       PortsV3!SendReadRequest, PortsV3!SendWriteRequest, PortsV3!SessionStep,
       PortsV3!SrcLabel, PortsV3!StartCall, PortsV3!StartHistory, PortsV3!StreamClosed,
       PortsV3!Tick, PortsV3!TimeBasedElectionId, PortsV3!UnsetAction, PortsV3!ValidIpAddr,
       PortsV3!Vni, PortsV3!WellFormed, PortsV3!Word, PortsV3!Write,
       PortsV3!WriteDstIpMacMapTableEntry, PortsV3!WriteHistory, PortsV3!WriteLast,
       PortsV3!WriteRxTunnelSrcPortTableEntry, PortsV3!WriteSrcIpMacMapTableEntry,
       PortsV3!WriteTunnelSrcPortEntry, PortsV3!WriteVlanPopTableEntry,
       PortsV3!WriteVlanPushTableEntry, PortsV3!WriteVsiSrcPortTableEntry, PortsV3!portsVars

(* The ports of the table are two bytes each, its keys are one.            *)
LEMMA PortTableRange ==
  ASSUME PortParams
  PROVE  /\ PortsV3!TxAccVsiAssumption
         /\ \A k \in DOMAIN PortTable : TwoBytes(PortTable[k]) = PortTable[k]
<1>1. DOMAIN TxAccVsiParam \subseteq 0 .. 255
  BY SMT DEF PortParams
<1>2. DOMAIN PortTable \subseteq DOMAIN TxAccVsiParam
  BY SMT DEF PortTable
<1>3. ASSUME NEW k \in DOMAIN PortTable
      PROVE  /\ PortTable[k] \in Nat
             /\ TwoBytes(PortTable[k]) = PortTable[k]
  <2> DEFINE b == TxAccVsiParam[k]
  <2>1. PortTable[k] = b[3] * 256 + b[4]
    BY <1>3, SMT DEF PortTable, PortValue
  <2>2. b[3] \in Octets /\ b[4] \in Octets
    BY <1>2, <1>3, EntryBytes, SMT
  <2> HIDE DEF b
  <2>3. b[3] * 256 + b[4] \in Nat /\ TwoBytes(b[3] * 256 + b[4]) = b[3] * 256 + b[4]
    BY <2>2, PortRange, Zenon
  <2>4. QED
    BY <2>1, <2>3, Zenon
<1>4. PortsV3!TxAccVsiAssumption
  BY <1>1, <1>2, <1>3 DEF PortsV3!TxAccVsiAssumption
<1>5. QED
  BY <1>3, <1>4, Zenon

(* So its behaviours are those that the theorems on version 3 are about.   *)
LEMMA PortsIsV3 ==
  ASSUME PortParams
  PROVE  Spec => PortsV3!Spec
<1>1. [V3!Next]_(V3!vars) => [PortsV3!Next]_(PortsV3!vars)
  BY PortsSameStep DEF V3!vars, V3!sessionVars, V3!portsVars,
                       PortsV3!vars, PortsV3!sessionVars, PortsV3!portsVars
<1>2. QED
  BY PortsStart, PortsStep, PortsControlStep, PortsSameStart, <1>1, PTL
     DEF Spec, PortsV3!Spec

(* So in the default build too the smaller calls report an error or did    *)
(* complete work, the IP/MAC map call, which reports nothing, does it if   *)
(* nothing stands in its way, and a tag that is popped was pushed.         *)
THEOREM PortsIsTruthful ==
  ASSUME PortParams,
         PortsV3!ThreadIdAssumption, PortsV3!MaxClockAssumption, PortsV3!PortsAssumption
  PROVE  Spec =>
           [](PortsV3!PortsStatusTruthful /\ PortsV3!IpMacMapDone /\ PortsV3!PopBacked)
<1>1. PortsV3!TxAccVsiAssumption
  BY PortTableRange
<1>2. PortsV3!Spec => []PortsV3!PortsStatusTruthful
  BY <1>1, PortsV3!PortsStatusIsTruthful
<1>3. PortsV3!Spec => []PortsV3!IpMacMapDone
  BY <1>1, PortsV3!IpMacMapIsDone
<1>4. PortsV3!Spec => []PortsV3!PopBacked
  BY <1>1, PortsV3!PopIsBacked
<1>5. QED
  BY PortsIsV3, <1>2, <1>3, <1>4, PTL

(* Why the source port table is right: what the steps of a call know of    *)
(* its port.                                                               *)
PortKnown(t) ==
  /\ pc[t] \in {"arbitrate", "pipeline"} /\ api[t] = "srcPort" => info[t] \in SrcPorts
  /\ pc[t] \in {"arbitrate", "pipeline"} /\ api[t] = "tunnelSrcPort" => info[t] \in TunnelSrcPorts
  /\ pc[t] = "readTxAcc" => info[t] \in SrcPorts
  /\ pc[t] = "writeTunnelPort" => info[t] \in TunnelSrcPorts
  /\ pc[t] = "writeVsiPort" =>
       \E k \in DOMAIN PortTable : info[t].src_port = PortTable[k]

HostPortInv ==
  /\ PortsControl
  /\ \A t \in Threads : PortKnown(t)
  /\ HostPortMapped

(* A write adds at most its entry.                                         *)
LEMMA PortsWriteAdds ==
  ASSUME NEW t, NEW e, NEW label, Write(t, e, label) \/ WriteAnyway(t, e, label)
  PROVE  /\ entries' \subseteq entries \cup {e}
         /\ pc' = [pc EXCEPT ![t] = label] \/ pc' = [pc EXCEPT ![t] = "return"]
         /\ UNCHANGED <<api, info>>
BY DEF Write, WriteAnyway, SendWriteRequest, Apply,
       Goto, Return

(* The entries of the other tables.                                        *)
LEMMA PortsOtherTables ==
  ASSUME NEW i
  PROVE  /\ EncodeVlanPushTableEntry(i).table # "SOURCE_PORT_TO_BRIDGE_MAP_TABLE"
         /\ EncodeVlanPopTableEntry(i).table # "SOURCE_PORT_TO_BRIDGE_MAP_TABLE"
         /\ EncodeSrcIpMacMapTableEntry(i).table # "SOURCE_PORT_TO_BRIDGE_MAP_TABLE"
         /\ EncodeDstIpMacMapTableEntry(i).table # "SOURCE_PORT_TO_BRIDGE_MAP_TABLE"
         /\ RxTunnelEntry(i).table # "SOURCE_PORT_TO_BRIDGE_MAP_TABLE"
         /\ EncodeSrcPortTableEntry(i).key[1] = TwoBytes(i.src_port)
BY DEF EncodeVlanPushTableEntry, EncodeVlanPopTableEntry,
       EncodeSrcIpMacMapTableEntry, EncodeDstIpMacMapTableEntry,
       RxTunnelEntry, EncodeRxTunnelTableEntry, EncodeV6RxTunnelTableEntry,
       EmptyEntry, EncodeSrcPortTableEntry, Entry

(* Which call starts with which step.                                      *)
LEMMA PortsFirstOf ==
  ASSUME NEW a \in PortApis, NEW ins, NEW i
  PROVE  /\ FirstStep(a, ins, i) \notin {"arbitrate", "pipeline", "writeVsiPort"}
         /\ FirstStep(a, ins, i) = "readTxAcc" => a = "srcPort"
         /\ FirstStep(a, ins, i) = "writeTunnelPort" => a = "tunnelSrcPort"
<1>1. CASE a = "vlan"
  <2>1. FirstStep(a, ins, i) = "push"
    BY <1>1, Zenon DEF FirstStep
  <2>2. QED
    BY <2>1
<1>2. CASE a = "srcPort"
  <2>1. FirstStep(a, ins, i) = "readTxAcc"
    BY <1>2, Zenon DEF FirstStep
  <2>2. QED
    BY <1>2, <2>1
<1>3. CASE a = "tunnelSrcPort"
  <2>1. FirstStep(a, ins, i) = "writeTunnelPort"
    BY <1>3, Zenon DEF FirstStep
  <2>2. QED
    BY <1>3, <2>1
<1>4. CASE a = "rxTunnel"
  <2>1. FirstStep(a, ins, i) = "writeRx"
    BY <1>4, Zenon DEF FirstStep
  <2>2. QED
    BY <2>1
<1>5. CASE a = "ipMacMap"
  <2>1. FirstStep(a, ins, i) = IF ins THEN "readSrc" ELSE TrySrcIp(ins, i)
    BY <1>5 DEF FirstStep
  <2>2. QED
    BY <2>1 DEF TrySrcIp, TryDstIp
<1>6. QED
  BY <1>1, <1>2, <1>3, <1>4, <1>5 DEF PortApis

(* A step of a call keeps what is known of its port.                       *)
LEMMA PortKnownStep ==
  ASSUME PortParams, PortsV3!PortsAssumption, HostPortInv,
         NEW t \in Threads, CallStep(t)
  PROVE  PortKnown(t)'
<1>0. pc = [u \in Threads |-> pc[u]] /\ info = [u \in Threads |-> info[u]] /\ PortKnown(t)
  BY DEF HostPortInv, PortsControl
<1>1. CASE SessionStep(t) /\ UNCHANGED portsVars
  BY <1>0, <1>1 DEF PortKnown, SessionStep, Arbitrate, ArbitrationFails,
                    Goto, Return, portsVars
<1>2. CASE FetchP4Info(t)
  <2>1. /\ pc[t] = "pipeline" /\ UNCHANGED <<api, info>>
        /\ pc'[t] = FirstStep(api[t], insert[t], info[t])
    BY <1>0, <1>2 DEF FetchP4Info, GetPipelineConfig, Goto, portsVars
  <2>2. api[t] \in PortApis
    BY DEF HostPortInv, PortsControl
  <2>3. QED
    BY <1>0, <2>1, <2>2, PortsFirstOf DEF PortKnown
<1>3. CASE ReadTxAccVsiTableEntry(t)
  <2>1. CASE pc'[t] = "return"
    BY <2>1 DEF PortKnown
  <2>2. CASE pc'[t] # "return"
    <3>1. /\ pc[t] = "readTxAcc" /\ TxAccVsiFound(info[t])
          /\ info' = [info EXCEPT ![t].src_port = ReadHostPort(info[t])]
          /\ pc'[t] = "writeVsiPort"
      BY <1>0, <1>3, <2>2 DEF ReadTxAccVsiTableEntry, Goto, Return
    <3>2. info'[t].src_port = ReadHostPort(info[t])
      BY <1>0, <3>1 DEF PortKnown, PortsV3!PortsAssumption, PortsV3!SrcPortInfo
    <3>3. \E k \in DOMAIN PortTable : ReadHostPort(info[t]) = PortTable[k]
      BY <3>1, PortsHostPort DEF V3!HasHostPort, V3!HostPort
    <3>4. QED
      BY <3>1, <3>2, <3>3 DEF PortKnown
  <2>3. QED
    BY <2>1, <2>2
<1>4. ASSUME NEW e, NEW label \in {"pop", "return", "readDst", "writeDst"},
             Write(t, e, label) \/ WriteAnyway(t, e, label)
      PROVE  PortKnown(t)'
  BY <1>0, <1>4, PortsWriteAdds DEF PortKnown
<1>5. ASSUME NEW e, NEW found \in {"return", "readDst"},
             NEW absent \in {"return", "writeSrc", "readDst", "writeDst"},
             Read(t, e, found, absent)
      PROVE  PortKnown(t)'
  BY <1>0, <1>5 DEF PortKnown, Read, Goto
<1>6. CASE EndCall(t)
  BY <1>0, <1>6 DEF PortKnown, EndCall, EndSession, Goto
<1>7. CASE \/ WriteVlanPushTableEntry(t) \/ WriteVlanPopTableEntry(t)
           \/ ConfigureVsiSrcPortTableEntry(t) \/ WriteTunnelSrcPort(t)
           \/ WriteRxTunnelSrcPortTableEntry(t) \/ WriteDstIpMacMapTableEntry(t)
  BY <1>4, <1>7
     DEF WriteVlanPushTableEntry, WriteVlanPopTableEntry,
         ConfigureVsiSrcPortTableEntry, WriteTunnelSrcPort,
         WriteRxTunnelSrcPortTableEntry, WriteDstIpMacMapTableEntry
<1>8. CASE WriteSrcIpMacMapTableEntry(t)
  BY <1>4, <1>8 DEF WriteSrcIpMacMapTableEntry, TryDstIp
<1>9. CASE ReadVmSrcTableEntry(t) \/ ReadVmDstTableEntry(t)
  BY <1>5, <1>9 DEF ReadVmSrcTableEntry, ReadVmDstTableEntry,
                    TrySrcIp, TryDstIp
<1>10. QED
  BY <1>1, <1>2, <1>3, <1>6, <1>7, <1>8, <1>9 DEF CallStep

(* A write of an entry for a known port keeps the table right.             *)
LEMMA HostPortWrite ==
  ASSUME HostPortMapped, NEW e, entries' \subseteq entries \cup {e},
         e.table = "SOURCE_PORT_TO_BRIDGE_MAP_TABLE" =>
           \/ \E k \in DOMAIN PortTable : e.key[1] = PortTable[k]
           \/ \E sp \in TunnelSrcPorts : e.key[1] = TwoBytes(sp.src_port)
  PROVE  HostPortMapped'
<1> SUFFICES ASSUME NEW f \in entries', f.table = "SOURCE_PORT_TO_BRIDGE_MAP_TABLE"
             PROVE  \/ \E k \in DOMAIN PortTable : f.key[1] = PortTable[k]
                    \/ \E sp \in TunnelSrcPorts : f.key[1] = TwoBytes(sp.src_port)
  BY DEF HostPortMapped
<1>1. f \in entries \/ f = e
  OBVIOUS
<1>2. QED
  BY <1>1, Zenon DEF HostPortMapped

(* A step of a call keeps the table right.                                 *)
LEMMA HostPortStep ==
  ASSUME PortParams, HostPortInv, NEW t \in Threads, CallStep(t)
  PROVE  HostPortMapped'
<1>0. HostPortMapped /\ PortKnown(t)
  BY DEF HostPortInv
<1>1. ASSUME entries' = entries
      PROVE  HostPortMapped'
  BY <1>0, <1>1 DEF HostPortMapped
<1>2. ASSUME NEW e, NEW label, Write(t, e, label) \/ WriteAnyway(t, e, label),
             e.table # "SOURCE_PORT_TO_BRIDGE_MAP_TABLE"
      PROVE  HostPortMapped'
  BY <1>0, <1>2, PortsWriteAdds, HostPortWrite
<1>3. CASE \/ SessionStep(t) \/ FetchP4Info(t) \/ ReadTxAccVsiTableEntry(t)
           \/ ReadVmSrcTableEntry(t) \/ ReadVmDstTableEntry(t) \/ EndCall(t)
  BY <1>1, <1>3
     DEF SessionStep, Arbitrate, ArbitrationFails, FetchP4Info,
         GetPipelineConfig, ReadTxAccVsiTableEntry, ReadVmSrcTableEntry,
         ReadVmDstTableEntry, Read, EndCall, EndSession
<1>4. CASE \/ WriteVlanPushTableEntry(t) \/ WriteVlanPopTableEntry(t)
           \/ WriteRxTunnelSrcPortTableEntry(t)
           \/ WriteSrcIpMacMapTableEntry(t) \/ WriteDstIpMacMapTableEntry(t)
  BY <1>2, <1>4, PortsOtherTables
     DEF WriteVlanPushTableEntry, WriteVlanPopTableEntry,
         WriteRxTunnelSrcPortTableEntry, WriteSrcIpMacMapTableEntry,
         WriteDstIpMacMapTableEntry
<1>5. CASE ConfigureVsiSrcPortTableEntry(t)
  <2> DEFINE e == EncodeSrcPortTableEntry(info[t])
  <2>1. pc[t] = "writeVsiPort" /\ Write(t, e, "return")
    BY <1>5 DEF ConfigureVsiSrcPortTableEntry
  <2>2. PICK k \in DOMAIN PortTable : info[t].src_port = PortTable[k]
    BY <1>0, <2>1 DEF PortKnown
  <2>3. e.key[1] = PortTable[k]
    BY <2>2, PortsOtherTables, PortTableRange
  <2>4. entries' \subseteq entries \cup {e}
    BY <2>1, PortsWriteAdds
  <2> HIDE DEF e
  <2>5. QED
    BY <1>0, <2>3, <2>4, HostPortWrite
<1>6. CASE WriteTunnelSrcPort(t)
  <2> DEFINE e == EncodeSrcPortTableEntry(info[t])
  <2>1. pc[t] = "writeTunnelPort" /\ Write(t, e, "return")
    BY <1>6 DEF WriteTunnelSrcPort
  <2>2. info[t] \in TunnelSrcPorts /\ e.key[1] = TwoBytes(info[t].src_port)
    BY <1>0, <2>1, PortsOtherTables DEF PortKnown
  <2>3. entries' \subseteq entries \cup {e}
    BY <2>1, PortsWriteAdds
  <2> HIDE DEF e
  <2>4. QED
    BY <1>0, <2>2, <2>3, HostPortWrite
<1>7. QED
  BY <1>3, <1>4, <1>5, <1>6 DEF CallStep

(* What is known of the port of a call only depends on the call.           *)
LEMMA PortKnownOther ==
  ASSUME PortsControl, NEW t \in Threads, NEW u \in Threads, u # t, PortKnown(u),
         StartCall(t) \/ CallStep(t)
  PROVE  PortKnown(u)'
<1>1. pc'[u] = pc[u] /\ api'[u] = api[u] /\ info'[u] = info[u]
  BY DEF PortsControl, StartCall, ConfigVlanEntry, ConfigSrcPortEntry,
         ConfigTunnelSrcPortEntry, ConfigRxTunnelSrcEntry,
         ConfigIpMacMapEntry, Call, BeginSession,
         CallStep, SessionStep, Arbitrate, ArbitrationFails,
         FetchP4Info, GetPipelineConfig, WriteVlanPushTableEntry,
         WriteVlanPopTableEntry, ReadTxAccVsiTableEntry,
         ConfigureVsiSrcPortTableEntry, WriteTunnelSrcPort,
         WriteRxTunnelSrcPortTableEntry, ReadVmSrcTableEntry,
         WriteSrcIpMacMapTableEntry, ReadVmDstTableEntry,
         WriteDstIpMacMapTableEntry, EndCall, EndSession,
         Write, WriteAnyway, Read, Goto, Return,
         portsVars
<1>2. QED
  BY <1>1 DEF PortKnown

(* Every source port that is mapped to a bridge is a host port that the    *)
(* user gave some VSI, although version 1 puts it together byte by byte,   *)
(* or the port that OVS named for a tunnel.                                *)
THEOREM HostPortIsMapped ==
  ASSUME PortParams, PortsV3!PortsAssumption
  PROVE  Spec => []HostPortMapped
<1>1. Init => HostPortInv
  <2>1. Init => PortsControl
    BY PortsStart
  <2>2. Init => HostPortMapped /\ \A t \in Threads : PortKnown(t)
    BY DEF Init, SessionInit, HostPortMapped, PortKnown
  <2>3. QED
    BY <2>1, <2>2 DEF HostPortInv
<1>2. ASSUME HostPortInv, [Next]_vars
      PROVE  HostPortInv'
  <2>1. PortsControl'
    BY <1>2, PortsControlStep DEF HostPortInv
  <2>2. CASE UNCHANGED <<pc, api, info, entries>>
    BY <1>2, <2>1, <2>2 DEF HostPortInv, PortKnown, HostPortMapped
  <2>3. ASSUME NEW t \in Threads, CallStep(t)
        PROVE  HostPortInv'
    BY <1>2, <2>1, <2>3, PortKnownStep, PortKnownOther, HostPortStep DEF HostPortInv
  <2>4. ASSUME NEW t \in Threads, StartCall(t)
        PROVE  HostPortInv'
    <3>1. PortKnown(t)' /\ entries' = entries
      BY <1>2, <2>4 DEF HostPortInv, PortsControl, PortKnown, StartCall,
             ConfigVlanEntry, ConfigSrcPortEntry, ConfigTunnelSrcPortEntry,
             ConfigRxTunnelSrcEntry, ConfigIpMacMapEntry, Call,
             BeginSession, Goto
    <3>2. HostPortMapped'
      BY <1>2, <3>1 DEF HostPortInv, HostPortMapped
    <3>3. QED
      BY <1>2, <2>1, <2>4, <3>1, <3>2, PortKnownOther DEF HostPortInv
  <2>5. CASE UNCHANGED vars
    BY <2>2, <2>5 DEF vars, sessionVars, portsVars
  <2>6. CASE Environment /\ UNCHANGED portsVars
    BY <2>2, <2>6 DEF portsVars, Environment, Tick, StreamClosed
  <2>7. QED
    BY <1>2, <2>3, <2>4, <2>5, <2>6 DEF Next
<1>3. HostPortInv => HostPortMapped
  BY DEF HostPortInv
<1>4. QED
  BY <1>1, <1>2, <1>3, PTL DEF Spec

-----------------------------------------------------------------------------
(***************************************************************************)
(* ovsp4rt_config_fdb_entry on ES2K.                                       *)
(***************************************************************************)
Fdb   == INSTANCE V1ConfigFdb WITH Target <- "ES2K"
FdbV3 == INSTANCE Es2kFdbService_proofs WITH pc <- Fdb!V3pc, TxAccVsi <- Fdb!PortTable

(* The two versions encode a MAC address alike, whatever is behind it.     *)
LEMMA FdbEncoders ==
  ASSUME NEW i, NEW ins
  PROVE  /\ Fdb!EncodeFdbTxVlanTableEntry(i) = Fdb!V3!EncodeFdbTxVlanTableEntry(i)
         /\ Fdb!EncodeFdbRxVlanTableEntry(i) = Fdb!V3!EncodeFdbRxVlanTableEntry(i)
         /\ Fdb!EncodeFdbSmacTableEntry(i) = Fdb!V3!EncodeFdbSmacTableEntry(i)
         /\ Fdb!EncodeL2ToTunnelV4(i) = Fdb!V3!EncodeL2ToTunnelV4(i)
         /\ Fdb!EncodeL2ToTunnelV6(i) = Fdb!V3!EncodeL2ToTunnelV6(i)
         /\ Fdb!FdbTunnelEntry(i, ins) = Fdb!V3!PrepareFdbTunnelTableEntry(i, ins)
         /\ Fdb!FdbTunnelEntry(i, TRUE) = Fdb!V3!PrepareFdbTableV4TunnelEntry(i)
         /\ Fdb!L2TunnelEntry(i) = Fdb!V3!PrepareL2TunnelTableEntry(i)
<1>1. /\ Fdb!EncodeFdbTxVlanTableEntry(i) = Fdb!V3!EncodeFdbTxVlanTableEntry(i)
      /\ Fdb!EncodeFdbRxVlanTableEntry(i) = Fdb!V3!EncodeFdbRxVlanTableEntry(i)
      /\ Fdb!EncodeFdbSmacTableEntry(i) = Fdb!V3!EncodeFdbSmacTableEntry(i)
      /\ Fdb!EncodeL2ToTunnelV4(i) = Fdb!V3!EncodeL2ToTunnelV4(i)
      /\ Fdb!EncodeL2ToTunnelV6(i) = Fdb!V3!EncodeL2ToTunnelV6(i)
      /\ Fdb!EncodeFdbTableEntryforV4VxlanTunnel(i) = Fdb!V3!EncodeFdbTableEntryforV4VxlanTunnel(i)
      /\ Fdb!EncodeFdbTableEntryforV4GeneveTunnel(i) = Fdb!V3!EncodeFdbTableEntryforV4GeneveTunnel(i)
  BY DEF Fdb!AF_INET, Fdb!AF_INET6, Fdb!BothFamily, Fdb!EncodeByteValue,
         Fdb!EncodeFdbRxVlanTableEntry, Fdb!EncodeFdbSmacTableEntry,
         Fdb!EncodeFdbTableEntryforV4GeneveTunnel, Fdb!EncodeFdbTableEntryforV4VxlanTunnel,
         Fdb!EncodeFdbTxVlanTableEntry, Fdb!EncodeL2ToTunnelV4, Fdb!EncodeL2ToTunnelV6,
         Fdb!EncodeTunnelId, Fdb!Entry, Fdb!MacKey, Fdb!BuiltFor, Fdb!Underlay, Fdb!UnsetAction,
         Fdb!Untagged,
         Fdb!V3!AF_INET, Fdb!V3!AF_INET6, Fdb!V3!ByFamilyAndMode, Fdb!V3!Byte,
         Fdb!V3!EncodeFdbRxVlanTableEntry, Fdb!V3!EncodeFdbSmacTableEntry,
         Fdb!V3!EncodeFdbTableEntryforV4GeneveTunnel,
         Fdb!V3!EncodeFdbTableEntryforV4VxlanTunnel, Fdb!V3!EncodeFdbTxVlanTableEntry,
         Fdb!V3!EncodeL2FwdTxTablePrologue, Fdb!V3!EncodeL2ToTunnelV4,
         Fdb!V3!EncodeL2ToTunnelV6, Fdb!V3!Entry, Fdb!V3!IsV4, Fdb!V3!IsV6, Fdb!V3!TunnelId,
         Fdb!V3!UnsetAction, Fdb!V3!Untagged
<1>2. [Fdb!EncodeFdbTableEntryforV4VxlanTunnel(i) EXCEPT
         !.action = [name |-> Fdb!UnsetAction, params |-> <<>>]]
        = Fdb!V3!EncodeL2FwdTxTablePrologue(i, Fdb!V3!UnsetAction, <<>>)
  BY DEF Fdb!EncodeFdbTableEntryforV4VxlanTunnel, Fdb!BuiltFor, Fdb!MacKey, Fdb!Entry,
         Fdb!UnsetAction, Fdb!V3!EncodeL2FwdTxTablePrologue, Fdb!V3!Entry, Fdb!V3!UnsetAction
<1>3. Fdb!EmptyEntry = Fdb!V3!EmptyEntry
  BY DEF Fdb!EmptyEntry, Fdb!Entry, Fdb!V3!EmptyEntry, Fdb!V3!Entry
<1>4. QED
  BY <1>1, <1>2, <1>3
     DEF Fdb!FdbTunnelEntry, Fdb!OfType, Fdb!L2TunnelEntry, Fdb!BothFamily, Fdb!AF_INET6,
         Fdb!V3!PrepareFdbTunnelTableEntry, Fdb!V3!PrepareFdbTableV4TunnelEntry, Fdb!V3!ByType,
         Fdb!V3!PrepareL2TunnelTableEntry, Fdb!V3!IsV6, Fdb!V3!AF_INET6

(* The requests are the same.                                              *)
LEMMA FdbRequests ==
  ASSUME NEW t, NEW e, NEW es, NEW ins, NEW ok
  PROVE  /\ Fdb!SendReadRequest(t, e, ok) => Fdb!V3!SendReadRequest(t, e, ok)
         /\ Fdb!SendWriteRequest(t, e, ins, ok) => Fdb!V3!SendWriteRequest(t, e, ins, ok)
         /\ Fdb!CanWrite(t) = Fdb!V3!CanWrite(t)
         /\ Fdb!HasKey(es, e) = Fdb!V3!HasKey(es, e)
BY DEF Fdb!Accepts, Fdb!Apply, Fdb!CanWrite, Fdb!HasKey, Fdb!SameKey, Fdb!SendReadRequest,
       Fdb!SendWriteRequest, Fdb!UnsetAction, Fdb!WellFormed, Fdb!V3!Accepts, Fdb!V3!Apply,
       Fdb!V3!CanWrite, Fdb!V3!HasKey, Fdb!V3!SameKey, Fdb!V3!SendReadRequest,
       Fdb!V3!SendWriteRequest, Fdb!V3!UnsetAction, Fdb!V3!WellFormed

(* Which kind of address goes with which step.                             *)
FdbControl ==
  /\ pc = [t \in Threads |-> pc[t]]
  /\ info \in [Threads -> FdbV3!LearnInfo]
  /\ \A t \in Threads : /\ pc[t] = "readFdbTunnel" => info[t].is_tunnel
                        /\ pc[t] \in {"readFdbVlan", "readL2V6"} => ~info[t].is_tunnel

(* Version 3 sees a call of version 1 at the step V3Label.                 *)
V3Label(label) == IF label \in {"readFdbTunnel", "readFdbVlan"} THEN "readTx" ELSE label

(* A jump of version 1 is a jump of version 3.                             *)
LEMMA FdbGoto ==
  ASSUME FdbControl, NEW t \in Threads
  PROVE  /\ Fdb!V3pc[t] = V3Label(pc[t])
         /\ \A label : Fdb!Goto(t, label) => Fdb!V3!Goto(t, V3Label(label))
<1>1. Fdb!V3pc[t] = V3Label(pc[t])
  BY DEF Fdb!V3pc, V3Label
<1>2. ASSUME NEW label, pc' = [pc EXCEPT ![t] = label]
      PROVE  Fdb!V3pc' = [Fdb!V3pc EXCEPT ![t] = V3Label(label)]
  BY <1>2 DEF Fdb!V3pc, V3Label, FdbControl
<1>3. QED
  BY <1>1, <1>2 DEF Fdb!Goto, Fdb!V3!Goto

(* A step of no call is no jump.                                           *)
LEMMA FdbSteady ==
  ASSUME pc' = pc
  PROVE  Fdb!V3pc' = Fdb!V3pc
BY DEF Fdb!V3pc

(* The session is the same.                                                *)
LEMMA FdbSession ==
  ASSUME FdbControl, NEW t \in Threads
  PROVE  /\ Fdb!SessionStep(t) => Fdb!V3!SessionStep(t)
         /\ Fdb!BeginSession(t) => Fdb!V3!BeginSession(t)
         /\ \A label : Fdb!GetPipelineConfig(t, label) => Fdb!V3!GetPipelineConfig(t, V3Label(label))
         /\ Fdb!EndSession(t) => Fdb!V3!EndSession(t)
         /\ \A st : Fdb!Return(t, st) => Fdb!V3!Return(t, st)
<1>1. /\ V3Label("arbitrate") = "arbitrate" /\ V3Label("pipeline") = "pipeline"
      /\ V3Label("return") = "return" /\ V3Label("idle") = "idle"
  BY DEF V3Label
<1>2. \A st : Fdb!Return(t, st) => Fdb!V3!Return(t, st)
  BY <1>1, FdbGoto DEF Fdb!Return, Fdb!V3!Return
<1>3. \A id : Fdb!OpenStream(id) => Fdb!V3!OpenStream(id)
  BY DEF Fdb!OpenStream, Fdb!Higher, Fdb!V3!OpenStream, Fdb!V3!Higher
<1>4. Fdb!SessionStep(t) => Fdb!V3!SessionStep(t)
  BY <1>1, <1>2, <1>3, FdbGoto
     DEF Fdb!SessionStep, Fdb!Arbitrate, Fdb!ArbitrationFails,
         Fdb!V3!SessionStep, Fdb!V3!Arbitrate, Fdb!V3!ArbitrationFails
<1>5. Fdb!BeginSession(t) => Fdb!V3!BeginSession(t)
  BY <1>1, FdbGoto
     DEF Fdb!BeginSession, Fdb!NewElectionId, Fdb!TimeBasedElectionId,
         Fdb!V3!BeginSession, Fdb!V3!NewElectionId, Fdb!V3!TimeBasedElectionId
<1>6. \A label : Fdb!GetPipelineConfig(t, label) => Fdb!V3!GetPipelineConfig(t, V3Label(label))
  BY <1>1, FdbGoto DEF Fdb!GetPipelineConfig, Fdb!V3!GetPipelineConfig
<1>7. Fdb!EndSession(t) => Fdb!V3!EndSession(t)
  BY <1>1, FdbGoto DEF Fdb!EndSession, Fdb!NoElectionId, Fdb!V3!EndSession, Fdb!V3!NoElectionId
<1>8. QED
  BY <1>2, <1>4, <1>5, <1>6, <1>7

(* The clock and the server's streams are the same.                        *)
LEMMA FdbEnvironment ==
  ASSUME Fdb!Environment
  PROVE  Fdb!V3!Environment
<1>1. \A t \in Threads : Fdb!V3!HoldsStream(t) => Fdb!HoldsStream(t)
  BY DEF Fdb!HoldsStream, Fdb!V3!HoldsStream, Fdb!V3pc
<1>2. UNCHANGED Fdb!V3pc
  BY FdbSteady DEF Fdb!Environment, Fdb!Tick, Fdb!StreamClosed
<1>3. QED
  BY <1>1, <1>2 DEF Fdb!Environment, Fdb!Tick, Fdb!StreamClosed,
                    Fdb!V3!Environment, Fdb!V3!Tick, Fdb!V3!StreamClosed

(* The host port of the VSI is the one that version 3 finds.               *)
LEMMA FdbHostPort ==
  ASSUME Fdb!PortParams
  PROVE  /\ FdbV3!TxAccVsiAssumption
         /\ \A i : Fdb!TxAccVsiFound(i) => /\ Fdb!V3!HasHostPort(i)
                                           /\ Fdb!ReadHostPort(i) = Fdb!V3!HostPort(i)
                                           /\ Fdb!ReadHostPort(i) \in Nat
<1>1. /\ Fdb!PortTable = PortTable
      /\ PortParams
      /\ \A b : Fdb!HostSp(b) = HostSp(b)
  BY SMT DEF Fdb!PortTable, Fdb!PortValue, Fdb!PortParams, Fdb!HostSp, Fdb!ShiftIn,
             Fdb!TwoBytes, PortTable, PortValue, PortParams, HostSp, ShiftIn, TwoBytes
<1>2. FdbV3!TxAccVsiAssumption
  BY <1>1, PortTableRange DEF PortsV3!TxAccVsiAssumption, FdbV3!TxAccVsiAssumption
<1>3. \A i : Fdb!V3!EncodeTxAccVsiTableEntry(i.src_port) = Fdb!TxAccVsiKey(i)
  BY DEF Fdb!V3!EncodeTxAccVsiTableEntry, Fdb!V3!Byte, Fdb!TxAccVsiKey,
         Fdb!EncodeTxAccVsiTableEntry, Fdb!EncodeByteValue
<1>4. \A i : Fdb!TxAccVsiFound(i) => /\ Fdb!V3!HasHostPort(i)
                                     /\ Fdb!ReadHostPort(i) = Fdb!V3!HostPort(i)
  BY <1>1, <1>3, PortTableIs
     DEF Fdb!TxAccVsiFound, Fdb!ReadHostPort, Fdb!V3!HasHostPort, Fdb!V3!HostPort
<1>5. \A i : Fdb!V3!HasHostPort(i) => Fdb!V3!HostPort(i) \in Nat
  BY <1>2 DEF FdbV3!TxAccVsiAssumption, Fdb!V3!HasHostPort, Fdb!V3!HostPort
<1>6. QED
  BY <1>2, <1>4, <1>5

(* Changes of a learn_info.                                                *)
LEMMA FdbInfoTypes ==
  ASSUME NEW i \in FdbV3!LearnInfo
  PROVE  /\ [i EXCEPT !.is_tunnel = TRUE] \in FdbV3!LearnInfo
         /\ [i EXCEPT !.is_tunnel = TRUE, !.local_family = Fdb!AF_INET6,
                      !.remote_family = Fdb!AF_INET6] \in FdbV3!LearnInfo
         /\ \A n \in Nat : [i EXCEPT !.src_port = n] \in FdbV3!LearnInfo
         /\ i.is_tunnel \in BOOLEAN
         /\ [i EXCEPT !.is_tunnel = i.is_tunnel] = i
<1>1. [i EXCEPT !.is_tunnel = TRUE] \in FdbV3!LearnInfo
  BY DEF FdbV3!LearnInfo
<1>2. [i EXCEPT !.is_tunnel = TRUE, !.local_family = Fdb!AF_INET6,
                !.remote_family = Fdb!AF_INET6] \in FdbV3!LearnInfo
  BY DEF FdbV3!LearnInfo, Fdb!AF_INET6
<1>3. \A n \in Nat : [i EXCEPT !.src_port = n] \in FdbV3!LearnInfo
  BY DEF FdbV3!LearnInfo
<1>4. i.is_tunnel \in BOOLEAN /\ [i EXCEPT !.is_tunnel = i.is_tunnel] = i
  BY DEF FdbV3!LearnInfo
<1>5. QED
  BY <1>1, <1>2, <1>3, <1>4

(* The initial states are those of version 3.                              *)
LEMMA FdbStart ==
  ASSUME FdbV3!InfosAssumption
  PROVE  Fdb!Init => Fdb!V3!FdbInit /\ FdbControl
<1> SUFFICES ASSUME Fdb!Init
             PROVE  Fdb!V3!FdbInit /\ FdbControl
  OBVIOUS
<1>1. Fdb!V3pc = [t \in Threads |-> "idle"]
  BY DEF Fdb!Init, Fdb!SessionInit, Fdb!V3pc
<1>2. Fdb!V3!FdbInit
  BY <1>1 DEF Fdb!Init, Fdb!SessionInit, Fdb!NoElectionId,
              Fdb!V3!FdbInit, Fdb!V3!SessionInit, Fdb!V3!NoElectionId
<1>3. Fdb!V3!NoInfo \in FdbV3!LearnInfo
  BY DEF FdbV3!InfosAssumption, Fdb!V3!NoInfo
<1>4. FdbControl
  BY <1>3 DEF Fdb!Init, Fdb!SessionInit, FdbControl
<1>5. QED
  BY <1>2, <1>4

(* A step of version 1 changes the control of one call.                    *)
LEMMA FdbControlStep ==
  ASSUME Fdb!PortParams, FdbV3!InfosAssumption, FdbControl, [Fdb!Next]_Fdb!vars
  PROVE  FdbControl'
<1>1. ASSUME NEW t \in Threads, pc' = [pc EXCEPT ![t] = pc'[t]],
             info' = [info EXCEPT ![t] = info'[t]], info'[t] \in FdbV3!LearnInfo,
             pc'[t] = "readFdbTunnel" => info'[t].is_tunnel,
             pc'[t] \in {"readFdbVlan", "readL2V6"} => ~info'[t].is_tunnel
      PROVE  FdbControl'
  BY <1>1 DEF FdbControl
<1>2. ASSUME NEW t \in Threads, NEW label, pc' = [pc EXCEPT ![t] = label], info' = info,
             label = "readFdbTunnel" => info[t].is_tunnel,
             label \in {"readFdbVlan", "readL2V6"} => ~info[t].is_tunnel
      PROVE  FdbControl'
  BY <1>2 DEF FdbControl
<1>3. CASE UNCHANGED <<pc, info>>
  BY <1>3 DEF FdbControl
<1>4. CASE UNCHANGED Fdb!vars
  BY <1>3, <1>4 DEF Fdb!vars, Fdb!sessionVars
<1>5. CASE Fdb!Environment /\ UNCHANGED <<insert, info, wrote, disturbed>>
  BY <1>3, <1>5 DEF Fdb!Environment, Fdb!Tick, Fdb!StreamClosed
<1>6. ASSUME NEW t \in Threads, NEW ins, NEW i \in FdbV3!LearnInfo, Fdb!ConfigFdbEntry(t, ins, i)
      PROVE  FdbControl'
  <2>1. /\ pc' = [pc EXCEPT ![t] = "arbitrate"] /\ pc'[t] = "arbitrate"
        /\ info' = [info EXCEPT ![t] = i] /\ info'[t] = i
    BY <1>6 DEF Fdb!ConfigFdbEntry, Fdb!BeginSession, Fdb!Goto, FdbControl
  <2>2. QED
    BY <1>1, <2>1
<1>7. ASSUME NEW t \in Threads, Fdb!CallStep(t)
      PROVE  FdbControl'
  <2>0. info[t] \in FdbV3!LearnInfo /\ info = [info EXCEPT ![t] = info[t]]
    BY DEF FdbControl
  <2>1. CASE Fdb!SessionStep(t) /\ UNCHANGED <<insert, info, wrote, disturbed>>
    BY <1>2, <2>1 DEF Fdb!SessionStep, Fdb!Arbitrate, Fdb!ArbitrationFails, Fdb!Goto, Fdb!Return
  <2>2. CASE Fdb!FetchP4Info(t)
    BY <1>2, <2>2 DEF Fdb!FetchP4Info, Fdb!GetPipelineConfig, Fdb!Goto
  <2>3. CASE Fdb!ReadFdbTunnelTableEntry(t) \/ Fdb!ReadFdbVlanTableEntry(t)
    BY <1>2, <2>3 DEF Fdb!ReadFdbTunnelTableEntry, Fdb!ReadFdbVlanTableEntry, Fdb!Goto
  <2>4. ASSUME NEW j \in {info[t], [info[t] EXCEPT !.is_tunnel = TRUE],
                           [info[t] EXCEPT !.is_tunnel = TRUE, !.local_family = Fdb!AF_INET6,
                                           !.remote_family = Fdb!AF_INET6]},
               NEW label \in {"readL2V6", "writeTxVlan"},
               info' = [info EXCEPT ![t] = j],
               Fdb!Goto(t, IF info'[t].is_tunnel THEN "writeTunnel" ELSE label)
        PROVE  FdbControl'
    <3>1. j \in FdbV3!LearnInfo
      BY <2>0, FdbInfoTypes
    <3>2. info'[t] = j
      BY <2>4 DEF FdbControl
    <3>3. pc'[t] = IF j.is_tunnel THEN "writeTunnel" ELSE label
      BY <2>4, <3>2 DEF FdbControl, Fdb!Goto
    <3>4. pc' = [pc EXCEPT ![t] = pc'[t]]
      BY <2>4, <3>2, <3>3 DEF Fdb!Goto
    <3>5. QED
      BY <1>1, <2>4, <3>1, <3>2, <3>3, <3>4
  <2>5. CASE Fdb!ReadL2ToTunnelV4TableEntry(t) \/ Fdb!ReadL2ToTunnelV6TableEntry(t)
    BY <2>0, <2>4, <2>5 DEF Fdb!ReadL2ToTunnelV4TableEntry, Fdb!ReadL2ToTunnelV6TableEntry
  <2>6. ASSUME NEW e, NEW label \in {"writeL2", "writeSmac", "readTxAcc", "return"},
               Fdb!Write(t, e, label)
        PROVE  FdbControl'
    BY <1>2, <2>6 DEF Fdb!Write, Fdb!Goto
  <2>7. CASE \/ Fdb!WriteFdbTunnelTableEntry(t) \/ Fdb!WriteL2TunnelTableEntry(t)
             \/ Fdb!WriteFdbRxVlanTableEntry(t) \/ Fdb!WriteFdbTxVlanTableEntry(t)
             \/ Fdb!WriteFdbSmacTableEntry(t)
    BY <2>6, <2>7
       DEF Fdb!WriteFdbTunnelTableEntry, Fdb!WriteL2TunnelTableEntry,
           Fdb!WriteFdbRxVlanTableEntry, Fdb!WriteFdbTxVlanTableEntry, Fdb!WriteFdbSmacTableEntry
  <2>8. CASE Fdb!ReadTxAccVsiTableEntry(t)
    <3>1. CASE info' = info
      BY <1>2, <2>8, <3>1 DEF Fdb!ReadTxAccVsiTableEntry, Fdb!Goto, Fdb!Return
    <3>2. CASE info' # info
      <4>1. /\ Fdb!TxAccVsiFound(info[t])
            /\ info' = [info EXCEPT ![t].src_port = Fdb!ReadHostPort(info[t])]
            /\ pc' = [pc EXCEPT ![t] = "writeTxVlan"]
        BY <2>8, <3>2 DEF Fdb!ReadTxAccVsiTableEntry, Fdb!Goto
      <4>2. info' = [info EXCEPT ![t] = info'[t]] /\ info'[t] \in FdbV3!LearnInfo
        <5>1. Fdb!ReadHostPort(info[t]) \in Nat
          BY <4>1, FdbHostPort
        <5>2. [info[t] EXCEPT !.src_port = Fdb!ReadHostPort(info[t])] \in FdbV3!LearnInfo
          BY <2>0, <5>1, FdbInfoTypes
        <5>3. info' = [info EXCEPT ![t] = [info[t] EXCEPT !.src_port = Fdb!ReadHostPort(info[t])]]
          BY <4>1
        <5>4. info'[t] = [info[t] EXCEPT !.src_port = Fdb!ReadHostPort(info[t])]
          BY <5>3 DEF FdbControl
        <5>5. QED
          BY <5>2, <5>3, <5>4
      <4>3. pc'[t] = "writeTxVlan"
        BY <4>1 DEF FdbControl
      <4>4. QED
        BY <1>1, <4>1, <4>2, <4>3
    <3>3. QED
      BY <3>1, <3>2
  <2>9. CASE Fdb!EndCall(t)
    <3>1. Fdb!V3!NoInfo \in FdbV3!LearnInfo
      BY DEF FdbV3!InfosAssumption, Fdb!V3!NoInfo
    <3>2. /\ pc' = [pc EXCEPT ![t] = "idle"] /\ pc'[t] = "idle"
          /\ info' = [info EXCEPT ![t] = Fdb!V3!NoInfo] /\ info'[t] = Fdb!V3!NoInfo
      BY <2>9 DEF Fdb!EndCall, Fdb!EndSession, Fdb!Goto, FdbControl
    <3>3. QED
      BY <1>1, <3>1, <3>2
  <2>10. QED
    BY <1>7, <2>1, <2>2, <2>3, <2>5, <2>7, <2>8, <2>9 DEF Fdb!CallStep
<1>8. QED
  BY <1>4, <1>5, <1>6, <1>7 DEF Fdb!Next, FdbV3!InfosAssumption

(* A read of version 1 is a read of version 3.                             *)
LEMMA FdbRead ==
  ASSUME NEW t, NEW e, NEW ok, Fdb!Read(t, e, ok)
  PROVE  Fdb!V3!Read(t, e, ok) /\ UNCHANGED status
BY FdbRequests DEF Fdb!Read, Fdb!V3!Read

(* The same of a write, whose status neither version looks at.             *)
LEMMA FdbWrite ==
  ASSUME FdbControl, NEW t \in Threads, NEW e,
         NEW label \in {"writeL2", "writeSmac", "readTxAcc", "return"}, Fdb!Write(t, e, label)
  PROVE  Fdb!V3!Write(t, e, label)
<1>1. Fdb!V3!Goto(t, label)
  BY FdbGoto DEF Fdb!Write, V3Label
<1>2. QED
  BY <1>1, FdbRequests DEF Fdb!Write, Fdb!V3!Write

(* A call of thread t goes on as in version 3.                             *)
LEMMA FdbCall ==
  ASSUME Fdb!PortParams, FdbControl, NEW t \in Threads, Fdb!CallStep(t)
  PROVE  Fdb!V3!CallStep(t)
<1>0. /\ info[t] \in FdbV3!LearnInfo /\ info = [info EXCEPT ![t] = info[t]]
      /\ Fdb!V3pc[t] = V3Label(pc[t])
  BY FdbGoto DEF FdbControl
<1>1. CASE Fdb!SessionStep(t) /\ UNCHANGED <<insert, info, wrote, disturbed>>
  BY <1>1, FdbSession DEF Fdb!V3!CallStep, Fdb!V3!fdbVars
<1>2. CASE Fdb!FetchP4Info(t)
  <2>1. Fdb!V3!GetPipelineConfig(t, IF insert[t] THEN "readTx" ELSE "readL2V4")
    BY <1>2, FdbSession DEF Fdb!FetchP4Info, V3Label
  <2>2. QED
    BY <1>2, <2>1 DEF Fdb!FetchP4Info, Fdb!V3!FetchP4Info, Fdb!V3!fdbVars, Fdb!V3!CallStep
<1>3. ASSUME NEW ok \in BOOLEAN, Fdb!V3pc[t] = "readTx",
             Fdb!Read(t, Fdb!V3!TxEntryToRead(info[t]), ok),
             Fdb!Goto(t, IF ok THEN "return" ELSE IF info[t].is_tunnel THEN "writeTunnel" ELSE "writeRx"),
             UNCHANGED info
      PROVE  Fdb!V3!CallStep(t)
  <2>1. Fdb!V3!Goto(t, IF ok THEN "return"
                       ELSE IF info[t].is_tunnel THEN "writeTunnel" ELSE "writeRx")
    BY <1>3, FdbGoto DEF V3Label
  <2>2. Fdb!V3!ReadFdbTxEntry(t)
    BY <1>3, <2>1, FdbRead DEF Fdb!V3!ReadFdbTxEntry
  <2>3. QED
    BY <2>2 DEF Fdb!V3!CallStep
<1>4. CASE Fdb!ReadFdbTunnelTableEntry(t)
  <2>1. info[t].is_tunnel /\ Fdb!V3pc[t] = "readTx"
    BY <1>0, <1>4 DEF Fdb!ReadFdbTunnelTableEntry, FdbControl, V3Label
  <2>2. Fdb!V3!TxEntryToRead(info[t]) = Fdb!FdbTunnelEntry(info[t], TRUE)
    BY <2>1, FdbEncoders DEF Fdb!V3!TxEntryToRead
  <2>3. QED
    BY <1>3, <1>4, <2>1, <2>2 DEF Fdb!ReadFdbTunnelTableEntry
<1>5. CASE Fdb!ReadFdbVlanTableEntry(t)
  <2>1. ~info[t].is_tunnel /\ Fdb!V3pc[t] = "readTx"
    BY <1>0, <1>5 DEF Fdb!ReadFdbVlanTableEntry, FdbControl, V3Label
  <2>2. Fdb!V3!TxEntryToRead(info[t]) = Fdb!EncodeFdbTxVlanTableEntry(info[t])
    BY <2>1, FdbEncoders DEF Fdb!V3!TxEntryToRead
  <2>3. QED
    BY <1>3, <1>5, <2>1, <2>2 DEF Fdb!ReadFdbVlanTableEntry
<1>6. CASE Fdb!ReadL2ToTunnelV4TableEntry(t)
  <2>1. PICK ok \in BOOLEAN :
          /\ Fdb!Read(t, Fdb!EncodeL2ToTunnelV4(info[t]), ok)
          /\ info' = IF ok THEN [info EXCEPT ![t] = [info[t] EXCEPT !.is_tunnel = TRUE]] ELSE info
    BY <1>6 DEF Fdb!ReadL2ToTunnelV4TableEntry
  <2>2. [info[t] EXCEPT !.is_tunnel = info[t].is_tunnel \/ ok]
          = IF ok THEN [info[t] EXCEPT !.is_tunnel = TRUE] ELSE info[t]
    BY <1>0, FdbInfoTypes
  <2>3. info' = [info EXCEPT ![t].is_tunnel = @ \/ ok]
    BY <1>0, <2>1, <2>2
  <2>4. /\ Fdb!V3pc[t] = "readL2V4"
        /\ Fdb!V3!Goto(t, IF info'[t].is_tunnel THEN "writeTunnel" ELSE "readL2V6")
    BY <1>0, <1>6, FdbGoto DEF Fdb!ReadL2ToTunnelV4TableEntry, V3Label
  <2>5. Fdb!V3!Read(t, Fdb!V3!EncodeL2ToTunnelV4(info[t]), ok) /\ UNCHANGED status
    BY <2>1, FdbRead, FdbEncoders
  <2>6. QED
    BY <2>3, <2>4, <2>5 DEF Fdb!V3!ReadL2ToTunnelV4, Fdb!V3!CallStep
<1>7. CASE Fdb!ReadL2ToTunnelV6TableEntry(t)
  <2>1. PICK ok \in BOOLEAN :
          /\ Fdb!Read(t, Fdb!EncodeL2ToTunnelV6(info[t]), ok)
          /\ info' = IF ok THEN [info EXCEPT ![t] = [info[t] EXCEPT !.is_tunnel = TRUE,
                                                         !.local_family = Fdb!AF_INET6,
                                                         !.remote_family = Fdb!AF_INET6]]
                           ELSE info
    BY <1>7 DEF Fdb!ReadL2ToTunnelV6TableEntry
  <2>2. info' = [info EXCEPT ![t] = IF ok THEN Fdb!V3!FoundInV6(@) ELSE @]
    BY <1>0, <2>1 DEF Fdb!V3!FoundInV6, Fdb!AF_INET6, Fdb!V3!AF_INET6
  <2>3. info'[t].is_tunnel = ok
    <3>1. CASE ok
      BY <1>0, <2>1, <3>1 DEF FdbV3!LearnInfo, FdbControl
    <3>2. CASE ~ok
      BY <1>0, <1>7, <2>1, <3>2, FdbInfoTypes DEF FdbControl, Fdb!ReadL2ToTunnelV6TableEntry
    <3>3. QED
      BY <3>1, <3>2
  <2>4. /\ Fdb!V3pc[t] = "readL2V6"
        /\ Fdb!V3!Goto(t, IF ok THEN "writeTunnel" ELSE "writeTxVlan")
    BY <1>0, <1>7, <2>3, FdbGoto DEF Fdb!ReadL2ToTunnelV6TableEntry, V3Label
  <2>5. Fdb!V3!Read(t, Fdb!V3!EncodeL2ToTunnelV6(info[t]), ok) /\ UNCHANGED status
    BY <2>1, FdbRead, FdbEncoders
  <2>6. QED
    BY <2>2, <2>4, <2>5 DEF Fdb!V3!ReadL2ToTunnelV6, Fdb!V3!CallStep
<1>8. CASE Fdb!WriteFdbTunnelTableEntry(t)
  <2>1. Fdb!V3pc[t] = "writeTunnel" /\ Fdb!Write(t, Fdb!FdbTunnelEntry(info[t], insert[t]), "writeL2")
    BY <1>0, <1>8 DEF Fdb!WriteFdbTunnelTableEntry, V3Label
  <2>2. Fdb!V3!Write(t, Fdb!FdbTunnelEntry(info[t], insert[t]), "writeL2")
    BY <2>1, FdbWrite
  <2>3. Fdb!FdbTunnelEntry(info[t], insert[t]) = Fdb!V3!PrepareFdbTunnelTableEntry(info[t], insert[t])
    BY FdbEncoders
  <2>4. QED
    BY <2>1, <2>2, <2>3 DEF Fdb!V3!WriteFdbTunnel, Fdb!V3!CallStep
<1>9. CASE Fdb!WriteL2TunnelTableEntry(t)
  <2>1. Fdb!V3pc[t] = "writeL2" /\ Fdb!Write(t, Fdb!L2TunnelEntry(info[t]), "writeSmac")
    BY <1>0, <1>9 DEF Fdb!WriteL2TunnelTableEntry, V3Label
  <2>2. Fdb!V3!Write(t, Fdb!L2TunnelEntry(info[t]), "writeSmac")
    BY <2>1, FdbWrite
  <2>3. Fdb!L2TunnelEntry(info[t]) = Fdb!V3!PrepareL2TunnelTableEntry(info[t])
    BY FdbEncoders
  <2>4. QED
    BY <2>1, <2>2, <2>3 DEF Fdb!V3!WriteL2Tunnel, Fdb!V3!CallStep
<1>10. CASE Fdb!WriteFdbRxVlanTableEntry(t)
  <2>1. Fdb!V3pc[t] = "writeRx" /\ Fdb!Write(t, Fdb!EncodeFdbRxVlanTableEntry(info[t]), "readTxAcc")
    BY <1>0, <1>10 DEF Fdb!WriteFdbRxVlanTableEntry, V3Label
  <2>2. Fdb!V3!Write(t, Fdb!EncodeFdbRxVlanTableEntry(info[t]), "readTxAcc")
    BY <2>1, FdbWrite
  <2>3. Fdb!EncodeFdbRxVlanTableEntry(info[t]) = Fdb!V3!EncodeFdbRxVlanTableEntry(info[t])
    BY FdbEncoders
  <2>4. QED
    BY <2>1, <2>2, <2>3 DEF Fdb!V3!WriteFdbRxVlan, Fdb!V3!CallStep
<1>11. CASE Fdb!ReadTxAccVsiTableEntry(t)
  <2>1. Fdb!V3!UpdateFdbSrcPortInfo(t)
    BY <1>0, <1>11, FdbHostPort, FdbGoto, FdbSession
       DEF Fdb!ReadTxAccVsiTableEntry, Fdb!V3!UpdateFdbSrcPortInfo, V3Label
  <2>2. QED
    BY <2>1 DEF Fdb!V3!CallStep
<1>12. CASE Fdb!WriteFdbTxVlanTableEntry(t)
  <2>1. Fdb!V3pc[t] = "writeTxVlan" /\ Fdb!Write(t, Fdb!EncodeFdbTxVlanTableEntry(info[t]), "writeSmac")
    BY <1>0, <1>12 DEF Fdb!WriteFdbTxVlanTableEntry, V3Label
  <2>2. Fdb!V3!Write(t, Fdb!EncodeFdbTxVlanTableEntry(info[t]), "writeSmac")
    BY <2>1, FdbWrite
  <2>3. Fdb!EncodeFdbTxVlanTableEntry(info[t]) = Fdb!V3!EncodeFdbTxVlanTableEntry(info[t])
    BY FdbEncoders
  <2>4. QED
    BY <2>1, <2>2, <2>3 DEF Fdb!V3!WriteFdbTxVlan, Fdb!V3!CallStep
<1>13. CASE Fdb!WriteFdbSmacTableEntry(t)
  <2>1. Fdb!V3pc[t] = "writeSmac" /\ Fdb!Write(t, Fdb!EncodeFdbSmacTableEntry(info[t]), "return")
    BY <1>0, <1>13 DEF Fdb!WriteFdbSmacTableEntry, V3Label
  <2>2. Fdb!V3!Write(t, Fdb!EncodeFdbSmacTableEntry(info[t]), "return")
    BY <2>1, FdbWrite
  <2>3. Fdb!EncodeFdbSmacTableEntry(info[t]) = Fdb!V3!EncodeFdbSmacTableEntry(info[t])
    BY FdbEncoders
  <2>4. QED
    BY <2>1, <2>2, <2>3 DEF Fdb!V3!WriteFdbSmac, Fdb!V3!CallStep
<1>14. CASE Fdb!EndCall(t)
  BY <1>14, FdbSession DEF Fdb!EndCall, Fdb!V3!EndCall, Fdb!V3!CallStep
<1>15. QED
  BY <1>1, <1>2, <1>4, <1>5, <1>6, <1>7, <1>8, <1>9, <1>10, <1>11, <1>12, <1>13, <1>14
     DEF Fdb!CallStep

(* Every step is a step of version 3, or none.                             *)
LEMMA FdbStep ==
  ASSUME Fdb!PortParams, FdbControl, [Fdb!Next]_Fdb!vars
  PROVE  [Fdb!V3!Next]_(Fdb!V3!vars)
<1>1. CASE UNCHANGED Fdb!vars
  BY <1>1, FdbSteady DEF Fdb!vars, Fdb!sessionVars,
                         Fdb!V3!vars, Fdb!V3!sessionVars, Fdb!V3!fdbVars
<1>2. CASE Fdb!Environment /\ UNCHANGED <<insert, info, wrote, disturbed>>
  BY <1>2, FdbEnvironment DEF Fdb!V3!fdbVars, Fdb!V3!Next
<1>3. ASSUME NEW t \in Threads, NEW ins, NEW i, Fdb!ConfigFdbEntry(t, ins, i)
      PROVE  Fdb!V3!ConfigFdbEntry(t, ins, i)
  BY <1>3, FdbSession DEF Fdb!ConfigFdbEntry, Fdb!V3!ConfigFdbEntry
<1>4. QED
  BY <1>1, <1>2, <1>3, FdbCall DEF Fdb!Next, Fdb!V3!Next, Fdb!V3!StartCall

(* The default build learns and forgets MAC addresses on ES2K as version 3 *)
(* does, for every interleaving and every failure: one function that       *)
(* ignores errors takes the steps of version 3's tree of functions.        *)
THEOREM FdbImplementsV3 ==
  ASSUME Fdb!PortParams, FdbV3!InfosAssumption
  PROVE  Fdb!Spec => Fdb!ImplementsV3Fdb
BY FdbStart, FdbStep, FdbControlStep, PTL
   DEF Fdb!Spec, Fdb!ImplementsV3Fdb, Fdb!V3!Spec

(* The version 3 of Fdb is the one that is proved about.                   *)
LEMMA FdbSameStart == Fdb!V3!FdbInit => FdbV3!FdbInit
BY DEF Fdb!V3!FdbInit, Fdb!V3!SessionInit, Fdb!V3!NoElectionId, Fdb!V3!NoInfo,
       FdbV3!FdbInit, FdbV3!SessionInit, FdbV3!NoElectionId, FdbV3!NoInfo

(* The same of the steps: the two are one formula.                         *)
LEMMA FdbSameStep == Fdb!V3!Next => FdbV3!Next
BY PTL DEF Fdb!V3!AF_INET, Fdb!V3!AF_INET6, Fdb!V3!Accepts, Fdb!V3!ActiveOn, Fdb!V3!Apply,
       Fdb!V3!Arbitrate, Fdb!V3!ArbitrationFails, Fdb!V3!BeginSession,
       Fdb!V3!ByFamilyAndMode, Fdb!V3!ByType, Fdb!V3!Byte, Fdb!V3!CallStep, Fdb!V3!CanWrite,
       Fdb!V3!ConfigFdbEntry, Fdb!V3!DisturbIf, Fdb!V3!EmptyEntry,
       Fdb!V3!EncodeFdbRxVlanTableEntry, Fdb!V3!EncodeFdbSmacTableEntry,
       Fdb!V3!EncodeFdbTableEntryforV4GeneveTunnel,
       Fdb!V3!EncodeFdbTableEntryforV4VxlanTunnel, Fdb!V3!EncodeFdbTxVlanTableEntry,
       Fdb!V3!EncodeL2FwdTxTablePrologue, Fdb!V3!EncodeL2ToTunnelV4,
       Fdb!V3!EncodeL2ToTunnelV6, Fdb!V3!EncodeTxAccVsiTableEntry, Fdb!V3!EndCall,
       Fdb!V3!EndSession, Fdb!V3!Entry, Fdb!V3!Environment, Fdb!V3!FetchP4Info,
       Fdb!V3!FoundInV6, Fdb!V3!GetPipelineConfig, Fdb!V3!Goto, Fdb!V3!HasHostPort,
       Fdb!V3!HasKey, Fdb!V3!Higher, Fdb!V3!HoldsStream, Fdb!V3!HostPort, Fdb!V3!IsV4,
       Fdb!V3!IsV6, Fdb!V3!NewElectionId, Fdb!V3!Next, Fdb!V3!NoElectionId, Fdb!V3!NoInfo,
       Fdb!V3!OnOtherBridge, Fdb!V3!OpenStream, Fdb!V3!PrepareFdbTableV4TunnelEntry,
       Fdb!V3!PrepareFdbTunnelTableEntry, Fdb!V3!PrepareL2TunnelTableEntry, Fdb!V3!Read,
       Fdb!V3!ReadFdbTxEntry, Fdb!V3!ReadL2ToTunnelV4, Fdb!V3!ReadL2ToTunnelV6,
       Fdb!V3!Return, Fdb!V3!SameKey, Fdb!V3!SendReadRequest, Fdb!V3!SendWriteRequest,
       Fdb!V3!SessionStep, Fdb!V3!StartCall, Fdb!V3!StreamClosed, Fdb!V3!Tick,
       Fdb!V3!TimeBasedElectionId, Fdb!V3!TunnelId, Fdb!V3!TxEntryToRead,
       Fdb!V3!UnsetAction, Fdb!V3!Untagged, Fdb!V3!UpdateFdbSrcPortInfo, Fdb!V3!WellFormed,
       Fdb!V3!Write, Fdb!V3!WriteFdbRxVlan, Fdb!V3!WriteFdbSmac, Fdb!V3!WriteFdbTunnel,
       Fdb!V3!WriteFdbTxVlan, Fdb!V3!WriteL2Tunnel, Fdb!V3!fdbVars, FdbV3!AF_INET,
       FdbV3!AF_INET6, FdbV3!Accepts, FdbV3!ActiveOn, FdbV3!Apply, FdbV3!Arbitrate,
       FdbV3!ArbitrationFails, FdbV3!BeginSession, FdbV3!ByFamilyAndMode, FdbV3!ByType,
       FdbV3!Byte, FdbV3!CallStep, FdbV3!CanWrite, FdbV3!ConfigFdbEntry, FdbV3!DisturbIf,
       FdbV3!EmptyEntry, FdbV3!EncodeFdbRxVlanTableEntry, FdbV3!EncodeFdbSmacTableEntry,
       FdbV3!EncodeFdbTableEntryforV4GeneveTunnel,
       FdbV3!EncodeFdbTableEntryforV4VxlanTunnel, FdbV3!EncodeFdbTxVlanTableEntry,
       FdbV3!EncodeL2FwdTxTablePrologue, FdbV3!EncodeL2ToTunnelV4, FdbV3!EncodeL2ToTunnelV6,
       FdbV3!EncodeTxAccVsiTableEntry, FdbV3!EndCall, FdbV3!EndSession, FdbV3!Entry,
       FdbV3!Environment, FdbV3!FetchP4Info, FdbV3!FoundInV6, FdbV3!GetPipelineConfig,
       FdbV3!Goto, FdbV3!HasHostPort, FdbV3!HasKey, FdbV3!Higher, FdbV3!HoldsStream,
       FdbV3!HostPort, FdbV3!IsV4, FdbV3!IsV6, FdbV3!NewElectionId, FdbV3!Next,
       FdbV3!NoElectionId, FdbV3!NoInfo, FdbV3!OnOtherBridge, FdbV3!OpenStream,
       FdbV3!PrepareFdbTableV4TunnelEntry, FdbV3!PrepareFdbTunnelTableEntry,
       FdbV3!PrepareL2TunnelTableEntry, FdbV3!Read, FdbV3!ReadFdbTxEntry,
       FdbV3!ReadL2ToTunnelV4, FdbV3!ReadL2ToTunnelV6, FdbV3!Return, FdbV3!SameKey,
       FdbV3!SendReadRequest, FdbV3!SendWriteRequest, FdbV3!SessionStep, FdbV3!StartCall,
       FdbV3!StreamClosed, FdbV3!Tick, FdbV3!TimeBasedElectionId, FdbV3!TunnelId,
       FdbV3!TxEntryToRead, FdbV3!UnsetAction, FdbV3!Untagged, FdbV3!UpdateFdbSrcPortInfo,
       FdbV3!WellFormed, FdbV3!Write, FdbV3!WriteFdbRxVlan, FdbV3!WriteFdbSmac,
       FdbV3!WriteFdbTunnel, FdbV3!WriteFdbTxVlan, FdbV3!WriteL2Tunnel, FdbV3!fdbVars

(* So its behaviours are those that the theorems on version 3 are about.   *)
LEMMA FdbIsV3 ==
  ASSUME Fdb!PortParams, FdbV3!InfosAssumption
  PROVE  Fdb!Spec => FdbV3!Spec
<1>1. [Fdb!V3!Next]_(Fdb!V3!vars) => [FdbV3!Next]_(FdbV3!vars)
  BY FdbSameStep DEF Fdb!V3!vars, Fdb!V3!sessionVars, Fdb!V3!fdbVars,
                     FdbV3!vars, FdbV3!sessionVars, FdbV3!fdbVars
<1>2. QED
  BY FdbStart, FdbStep, FdbControlStep, FdbSameStart, <1>1, PTL DEF Fdb!Spec, FdbV3!Spec

(* So ovsp4rt_config_fdb_entry of the default build, which returns nothing *)
(* and ignores every error, leaves a MAC address learned completely or not *)
(* at all unless it was disturbed, did its work when it ends as the        *)
(* primary without an error of its own, deletes what the tables hold, and  *)
(* implements the FDB service of version 3.                                *)
THEOREM FdbIsTruthful ==
  ASSUME Fdb!PortParams,
         FdbV3!ThreadIdAssumption, FdbV3!MaxClockAssumption, FdbV3!InfosAssumption
  PROVE  Fdb!Spec => /\ [](FdbV3!FdbAllOrNothing /\ FdbV3!FdbReturnTruthful)
                     /\ [](FdbV3!DeleteClassifies /\ FdbV3!LiveIdsDiffer)
                     /\ FdbV3!ImplementsFdbService
<1>1. FdbV3!TxAccVsiAssumption
  BY FdbHostPort
<1>2. FdbV3!Spec => []FdbV3!FdbAllOrNothing
  BY <1>1, FdbV3!FdbIsAllOrNothing
<1>3. FdbV3!Spec => []FdbV3!FdbReturnTruthful
  BY <1>1, FdbV3!FdbStatusIsTruthful
<1>4. FdbV3!Spec => []FdbV3!DeleteClassifies
  BY <1>1, FdbV3!FdbDeleteClassifies
<1>5. FdbV3!Spec => []FdbV3!LiveIdsDiffer
  BY <1>1, FdbV3!FdbLiveIdsDiffer
<1>6. FdbV3!Spec => FdbV3!ImplementsFdbService
  BY <1>1, FdbV3!FdbServiceIsImplemented
<1>7. QED
  BY FdbIsV3, <1>2, <1>3, <1>4, <1>5, <1>6, PTL
=============================================================================
