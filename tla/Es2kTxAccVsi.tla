---------------------------- MODULE Es2kTxAccVsi ----------------------------
(***************************************************************************)
(* TX_ACC_VSI_TABLE: the port that the user gave each VSI of the host.     *)
(* The calls only read it.                                                 *)
(***************************************************************************)
EXTENDS Es2kEncoders

CONSTANT TxAccVsi   \* the port parameter of the table's entries, by key

ASSUME TxAccVsiAssumption ==
  /\ DOMAIN TxAccVsi \subseteq 0 .. 255
  /\ \A k \in DOMAIN TxAccVsi : TxAccVsi[k] \in Nat

(* Mutant of HostPort: the VSI number for the port, its offset taken off   *)
(* once more.                                                              *)
HostPort_OffsetTwice(i) == EncodeTxAccVsiTableEntry(i.src_port) - 16

(* The port parameter of the entry that the key of i.src_port selects.     *)
HostPort(i) == TxAccVsi[EncodeTxAccVsiTableEntry(i.src_port)]

HasHostPort(i) == EncodeTxAccVsiTableEntry(i.src_port) \in DOMAIN TxAccVsi
=============================================================================
