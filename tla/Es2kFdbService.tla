--------------------------- MODULE Es2kFdbService ---------------------------
(***************************************************************************)
(* ConfigFdbEntry on ES2K implements FdbService.                           *)
(*                                                                         *)
(* An address is known when all its entries are there.  A call that learns *)
(* takes effect with its last write, a call that forgets with its first.   *)
(***************************************************************************)
EXTENDS Es2kConfigFdb

(* The entries that the call of thread t is to install.  From              *)
(* UpdateFdbSrcPortInfo on, src_port is the host port.                     *)
ImageOf(t) ==
  LET i == info[t] IN
  IF pc[t] \in {"writeTxVlan", "writeSmac"} /\ ~i.is_tunnel
    THEN {EncodeFdbTxVlanTableEntry(i), EncodeFdbSmacTableEntry(i)}
  ELSE IF i.is_tunnel \/ HasHostPort(i) THEN FdbImage(i) ELSE {}

ImagesOf == {{}} \cup {FdbImage(i) : i \in {j \in InsertInfos : j.is_tunnel \/ HasHostPort(j)}}

InProgress(t) == pc[t] \notin {"idle", "return"}

(* A partial entry is one that is being made or removed while a call on    *)
(* the address is in progress; without such a call it would be a thing     *)
(* known of the address that nobody asked for.                             *)
KnownOf(m) ==
  IF \/ m \in disturbed
     \/ /\ \E t \in Threads : InProgress(t) /\ info[t].mac_addr = m
        /\ FdbEntries(m) \notin ImagesOf
    THEN {}
    ELSE FdbEntries(m)

RequestOf(t) ==
  IF ~InProgress(t) THEN [op |-> "none"]
  ELSE [op |-> IF insert[t] THEN "learn" ELSE "forget", mac |-> info[t].mac_addr,
        image |-> IF insert[t] THEN ImageOf(t) ELSE {}]

(* The state of the service.                                               *)
fdb     == [m \in Macs |-> KnownOf(m)]
request == [t \in Threads |-> RequestOf(t)]

Service == INSTANCE FdbService WITH
  Callers <- Threads, Images <- ImagesOf, lost <- disturbed

(* ConfigFdbEntry is atomic for OVS: every step of every call, interleaved *)
(* with the others and with any failure, is a step of the FDB service.  An *)
(* address is learned only by a call that asked for it, from unknown and   *)
(* with exactly the entries of that call; it is forgotten only by a call   *)
(* that asked for that; and a call never disturbs another address.         *)
ImplementsFdbService == Service!Spec
=============================================================================
