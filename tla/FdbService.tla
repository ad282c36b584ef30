----------------------------- MODULE FdbService -----------------------------
(***************************************************************************)
(* What ovsp4rt_config_fdb_entry promises to OVS, without tables, RPCs or  *)
(* sessions: a forwarding database in which a MAC address is learned and   *)
(* forgotten in one step, by a call that asks for it.  A call may also end *)
(* without any effect.                                                     *)
(*                                                                         *)
(* The promise is kept for a MAC address until it is lost, which can only  *)
(* happen while a call on that address is in progress.                     *)
(***************************************************************************)
CONSTANTS
  Callers,   \* threads that make calls
  Macs,      \* MAC addresses
  Images     \* what can be known of a MAC address; {} stands for nothing

VARIABLES
  fdb,       \* what is known of each MAC address
  request,   \* per caller: its call in progress
  lost       \* MAC addresses about which nothing is promised any more

vars == <<fdb, request, lost>>

NoRequest == [op |-> "none"]
Requests  == [op : {"learn", "forget"}, mac : Macs, image : Images]

Init ==
  /\ fdb = [m \in Macs |-> {}]
  /\ request = [c \in Callers |-> NoRequest]
  /\ lost = {}

(* A step on m that makes x known of it, or loses it.                      *)
Becomes(m, x) ==
  /\ lost' \in {lost, lost \cup {m}}
  /\ fdb' = [fdb EXCEPT ![m] = IF m \in lost' THEN {} ELSE x]

Call(c) ==
  /\ request[c] = NoRequest
  /\ request'[c] \in Requests
  /\ request' = [request EXCEPT ![c] = request'[c]]
  /\ Becomes(request'[c].mac, fdb[request'[c].mac])

(* An unknown address becomes known, as the caller asked, and the call is  *)
(* complete.                                                               *)
Learn(c) ==
  /\ request[c].op = "learn"
  /\ fdb[request[c].mac] = {}
  /\ request' = [request EXCEPT ![c] = NoRequest]
  /\ Becomes(request[c].mac, request[c].image)

Forget(c) ==
  /\ request[c].op = "forget"
  /\ UNCHANGED request
  /\ Becomes(request[c].mac, {})

(* Anything else that happens during a call, and its end.                  *)
Lose(c) ==
  /\ request[c] # NoRequest
  /\ UNCHANGED request
  /\ Becomes(request[c].mac, fdb[request[c].mac])

Complete(c) ==
  /\ request[c] # NoRequest
  /\ request' = [request EXCEPT ![c] = NoRequest]
  /\ Becomes(request[c].mac, fdb[request[c].mac])

Next == \E c \in Callers :
  \/ Call(c) \/ Learn(c) \/ Forget(c) \/ Lose(c) \/ Complete(c)

Spec == Init /\ [][Next]_vars
=============================================================================
