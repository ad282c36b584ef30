------------------------------ MODULE MCFdbRace -----------------------------
(***************************************************************************)
(* Two threads that learn and forget MAC addresses.  A behaviour has the   *)
(* learn_infos of one offer.                                               *)
(***************************************************************************)
EXTENDS MCFdb

VARIABLE offer

(* Two MAC addresses of the two kinds; one MAC address of both.            *)
SameMac == {Vlan(1, 1, 17), Tunnel(1, 1, "VXLAN", AF_INET, 9)}
Offers  == {TwoMacs, SameMac}
Offered == UNION Offers

Calls(t) == pc[t] = "idle" /\ pc'[t] # "idle"

MCInit == FdbInit /\ offer \in Offers
MCNext ==
  /\ Next
  /\ UNCHANGED offer
  /\ \A t \in Threads : Calls(t) /\ insert'[t] => info'[t] \in offer

MCSpec == MCInit /\ [][MCNext]_<<vars, offer>>
=============================================================================
