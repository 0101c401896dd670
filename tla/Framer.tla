------------------------------- MODULE Framer -------------------------------
(***************************************************************************)
(* The frame grabber (framer/main.c), an AVR between the bus and the       *)
(* serial line.  The receive interrupt collects the bytes of a bus frame   *)
(* and, when the frame ends with a valid CRC and there is room, copies it  *)
(* into the transmit ring; the main loop takes single bytes out of the     *)
(* ring and writes them to the line.  The interrupt may come between any   *)
(* two steps of the main loop but for those under cli().                   *)
(*                                                                         *)
(* LEDs and the watchdog are left out.  The interrupt's loop over several  *)
(* bytes that wait in the UART is one step a byte.                         *)
(***************************************************************************)
EXTENDS SerialFrames

CONSTANTS
    RECV_BUF_SIZE,        \* 64
    TRANSMIT_BUF_SIZE     \* 250

ASSUME BuffersAssumption ==
    /\ RECV_BUF_SIZE \in 2..250
    /\ TRANSMIT_BUF_SIZE \in 2..255

VARIABLES
    recv_buffer,    \* the first recv_pos bytes of recv_buffer
    recv_valid,
    tx_buffer, tx_write_pos, tx_read_pos,
    main            \* where the main loop is: "check", "write", "advance"

ring == <<tx_buffer, tx_write_pos, tx_read_pos>>
framerVars == <<recv_buffer, recv_valid, ring, main>>

-----------------------------------------------------------------------------
Slots == 0..TRANSMIT_BUF_SIZE - 1

FramerTypeOK ==
    /\ recv_buffer \in Seq(Byte) /\ Len(recv_buffer) <= RECV_BUF_SIZE
    /\ recv_valid \in BOOLEAN
    /\ tx_buffer \in [Slots -> Byte]
    /\ tx_write_pos \in Slots
    /\ tx_read_pos \in Slots
    /\ main \in {"check", "write", "advance"}

FramerInit ==
    /\ recv_buffer = <<>>
    /\ recv_valid = FALSE
    /\ tx_buffer = [p \in Slots |-> 0]
    /\ tx_write_pos = 0
    /\ tx_read_pos = 0
    /\ main = "check"

-----------------------------------------------------------------------------
\* calc_checksum: shift left through the polynomial, then add the next byte.
CrcStep(crc, b) ==
    Xor8(IF crc >= 128 THEN ((2 * Xor8(crc, 12)) % 256) + 1 ELSE 2 * crc, b)
CalcChecksum(data) == FoldLeft(CrcStep, 0, data)

\* Faulty: frame start, length and checksum are counted as three bytes.
EnoughTxSpaceShort(needed) ==
    (IF tx_write_pos >= tx_read_pos
     THEN TRANSMIT_BUF_SIZE - (tx_write_pos - tx_read_pos)
     ELSE tx_read_pos - tx_write_pos) >= needed + 3

\* enough_tx_space: an equal read and write position means an empty ring, so
\* one byte more is asked for than the frame takes.
EnoughTxSpace(needed) ==
    (IF tx_write_pos >= tx_read_pos
     THEN TRANSMIT_BUF_SIZE - (tx_write_pos - tx_read_pos)
     ELSE tx_read_pos - tx_write_pos) >= (needed + 5) % 256

\* Faulty: the position is compared with > instead of >=.
CopyWrapsLate(bytes) ==
    /\ tx_buffer' = [p \in Slots |->
         LET i == ((p - tx_write_pos) % (TRANSMIT_BUF_SIZE + 1)) + 1
         IN  IF i \in DOMAIN bytes THEN bytes[i] ELSE tx_buffer[p]]
    /\ tx_write_pos' = (tx_write_pos + Len(bytes)) % (TRANSMIT_BUF_SIZE + 1)

\* copy_to_tx_buffer for every byte of a sequence.
CopyToTxBuffer(bytes) ==
    /\ tx_buffer' = [p \in Slots |->
         LET i == ((p - tx_write_pos) % TRANSMIT_BUF_SIZE) + 1
         IN  IF i \in DOMAIN bytes THEN bytes[i] ELSE tx_buffer[p]]
    /\ tx_write_pos' = (tx_write_pos + Len(bytes)) % TRANSMIT_BUF_SIZE

-----------------------------------------------------------------------------
\* The frame in recv_buffer, without its CRC, passes all the checks of the
\* interrupt: it is longer than a byte, intact, and there is room for it.
Payload == Front(recv_buffer)

Accepted ==
    /\ recv_valid
    /\ Len(recv_buffer) > 1
    /\ CalcChecksum(Payload) = Last(recv_buffer)
    /\ EnoughTxSpace(Len(Payload))

\* SIG_UART_RECV for a byte with a frame error: the end of a bus frame.
ReceiveBreak ==
    /\ IF Accepted THEN CopyToTxBuffer(TxFrame(Payload))
                   ELSE UNCHANGED <<tx_buffer, tx_write_pos>>
    /\ recv_buffer' = <<>>
    /\ recv_valid' = TRUE
    /\ UNCHANGED <<tx_read_pos, main>>

\* SIG_UART_RECV for any other byte; what does not fit is dropped.
ReceiveByte(b) ==
    /\ recv_buffer' = IF recv_valid /\ Len(recv_buffer) < RECV_BUF_SIZE
                      THEN Append(recv_buffer, b) ELSE recv_buffer
    /\ UNCHANGED <<recv_valid, ring, main>>

\* The main loop.  uart_write gets its byte before the read position moves, and
\* the interrupt may fill the ring in between.
HasData ==
    /\ main = "check"
    /\ tx_write_pos # tx_read_pos
    /\ main' = "write"
    /\ UNCHANGED <<recv_buffer, recv_valid, ring>>

UartWrite ==
    /\ main = "write"
    /\ main' = "advance"
    /\ UNCHANGED <<recv_buffer, recv_valid, ring>>

Written == tx_buffer[tx_read_pos]

Advance ==
    /\ main = "advance"
    /\ main' = "check"
    /\ tx_read_pos' = (tx_read_pos + 1) % TRANSMIT_BUF_SIZE
    /\ UNCHANGED <<recv_buffer, recv_valid, tx_buffer, tx_write_pos>>

\* The bytes in the ring that have not been written to the line.
Unwritten ==
    LET count == (tx_write_pos - tx_read_pos) % TRANSMIT_BUF_SIZE
        skip  == IF main = "advance" THEN 1 ELSE 0
    IN  [i \in 1..count - skip |->
           tx_buffer[(tx_read_pos + skip + i - 1) % TRANSMIT_BUF_SIZE]]
=============================================================================
