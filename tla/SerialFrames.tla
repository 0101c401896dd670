---------------------------- MODULE SerialFrames ----------------------------
(***************************************************************************)
(* The format both ends of the serial line agree on: the mark 0xaa 0x55,   *)
(* the length of the data, the data, and the XOR of its bytes.             *)
(***************************************************************************)
EXTENDS Integers, Sequences, SequencesExt

CONSTANT Xor8(_, _)           \* ^ on bytes

Byte == 0..255

ASSUME XorAssumption == \A a, b \in Byte : Xor8(a, b) \in Byte

RunningXor(data) == FoldLeft(Xor8, 0, data)

\* start_tx_frame and add_tx_data: what goes into the ring for a frame.
TxFrame(data) == <<170, 85, Len(data)>> \o data \o <<RunningXor(data)>>
=============================================================================
