----------------------------- MODULE P4rtTables -----------------------------
(***************************************************************************)
(* The match-action tables of the switch, as the P4Runtime server in       *)
(* infrap4d exposes them to ovs-p4rt.  The server (Stratum) and the        *)
(* target driver are not in this repository: what is stated here is what   *)
(* the callers in ovs-p4rt/sidecar rely on -- a table holds at most one    *)
(* entry per key, INSERT fails when the key exists, DELETE and an exact    *)
(* read fail when it does not.                                             *)
(***************************************************************************)
EXTENDS Integers

(* A table entry: the table, the match key (a tuple of numbers, one per    *)
(* match field in the order the encoder adds them) and the action with its *)
(* parameters.                                                             *)
Entry(table, key, name, params) ==
  [table |-> table, key |-> key, action |-> [name |-> name, params |-> params]]

(* What an encoder leaves in the request when no branch applies: table id  *)
(* 0 and no match field.                                                   *)
EmptyEntry == Entry("none", <<>>, "none", <<>>)

(* The name of an action whose id the encoder never set.                   *)
UnsetAction == "unset"

SameKey(e, f) == e.table = f.table /\ e.key = f.key

HasKey(es, e) == \E f \in es : SameKey(e, f)

(* The server refuses a request that names no table, and an INSERT whose   *)
(* action has no id.                                                       *)
WellFormed(e, insert) ==
  /\ e.table # "none"
  /\ insert => e.action.name # UnsetAction

Accepts(es, e, insert) ==
  /\ WellFormed(e, insert)
  /\ insert # HasKey(es, e)

Apply(es, e, insert) ==
  IF insert THEN es \cup {e} ELSE {f \in es : ~SameKey(e, f)}
=============================================================================
