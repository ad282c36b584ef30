----------------------------- MODULE V1TxAccVsi -----------------------------
(***************************************************************************)
(* How version 1 of the core finds the host port of a VSI: it reads the    *)
(* VSI's entry of TX_ACC_VSI_TABLE and puts the port together from the     *)
(* bytes of an action parameter.                                           *)
(***************************************************************************)
EXTENDS V1Encoders, Sequences

CONSTANTS
  TxAccVsiParam,  \* the table's entries: the bytes of the port parameter, most
                  \* significant first, or <<>> for another action; by key
  CharSigned      \* TRUE iff char is signed (x86), FALSE if not (ARM)

(* The parameter has 32 bits; the code takes four bytes without a look at  *)
(* the length of the value, so four bytes it is.  This is the parameter's  *)
(* value.  Here and below only the low 16 bits are kept, all that the      *)
(* encoders use of a port.                                                 *)
PortValue(b) == b[3] * 256 + b[4]

(* Mutant of ShiftIn: shifts by a nibble.                                  *)
ShiftIn_Nibble(h, c) == TwoBytes(h * 16 + c)

(* host_sp << 8 | int(s2[param_bytes]): a signed char of 128 or more comes *)
(* with its sign bits, which cover the bytes shifted in before it.         *)
ShiftIn(h, c) == IF CharSigned /\ c >= 128 THEN 65280 + c ELSE TwoBytes(h * 256 + c)

HostSp(b) ==
  IF b = <<>> THEN 0 ELSE ShiftIn(ShiftIn(ShiftIn(ShiftIn(0, b[1]), b[2]), b[3]), b[4])

TxAccVsiKey(i) == EncodeTxAccVsiTableEntry(i.src_port)
TxAccVsiFound(i) == TxAccVsiKey(i) \in DOMAIN TxAccVsiParam
ReadHostPort(i) == HostSp(TxAccVsiParam[TxAccVsiKey(i)])

(* The ports of the entries that have one.                                 *)
PortTable == [k \in {j \in DOMAIN TxAccVsiParam : TxAccVsiParam[j] # <<>>}
                |-> PortValue(TxAccVsiParam[k])]

(* What version 1 takes for granted of the table: every entry has a port,  *)
(* and where char is signed no port ends in a byte of 128 or more.  (The   *)
(* sign bits of the other bytes are shifted out.)                          *)
PortParams ==
  /\ DOMAIN TxAccVsiParam \subseteq 0 .. 255
  /\ \A k \in DOMAIN TxAccVsiParam : /\ TxAccVsiParam[k] \in [1 .. 4 -> 0 .. 255]
                                     /\ CharSigned => TxAccVsiParam[k][4] < 128
=============================================================================
