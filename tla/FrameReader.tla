---------------------------- MODULE FrameReader ----------------------------
(***************************************************************************)
(* IoHandler: the state machine that cuts the bytes of the serial line or  *)
(* of the TCP connection into frames and hands every frame with a valid    *)
(* checksum to handleIncomingMessage.                                      *)
(*                                                                         *)
(* A frame of length 0 is not treated specially by the code: m_pos is      *)
(* compared after its increment, so the data of such a frame never ends.   *)
(***************************************************************************)
EXTENDS SerialFrames

VARIABLES
    reader,      \* the fields of the IoHandler, and what it handed on
    m_active     \* IoHandler::m_active

readerVars == <<reader, m_active>>

\* A new IoHandler.  m_length and m_checkSum are set before they are read.
NewReader ==
    [state |-> "Syncing", pos |-> 0, length |-> 0, checkSum |-> 0, data |-> <<>>,
     delivered |-> <<>>]    \* handed on by the last call of readComplete

ReaderTypeOK ==
    /\ reader.state \in {"Syncing", "Length", "Data", "Checksum"}
    /\ reader.pos \in Nat
    /\ reader.length \in 0..255
    /\ reader.checkSum \in 0..255
    /\ reader.data \in Seq(0..255)
    /\ m_active \in BOOLEAN

ReaderInit == reader = NewReader /\ m_active = TRUE

-----------------------------------------------------------------------------
(* readComplete, one operator per state, for one byte. *)

Sync(r, b) ==
    IF r.pos = 0 /\ b = 170 THEN [r EXCEPT !.pos = 1]
    ELSE IF r.pos = 1 /\ b = 85 THEN [r EXCEPT !.state = "Length", !.pos = 0]
    ELSE [r EXCEPT !.pos = 0]

TakeLength(r, b) ==
    [r EXCEPT !.state = "Data", !.pos = 0, !.length = b, !.checkSum = 0]

\* Faulty: the position is compared before it is incremented.
TakeDataTooLong(r, b) ==
    [r EXCEPT !.data = Append(@, b),
              !.checkSum = Xor8(@, b),
              !.pos = @ + 1,
              !.state = IF r.pos = r.length THEN "Checksum" ELSE @]

TakeData(r, b) ==
    [r EXCEPT !.data = Append(@, b),
              !.checkSum = Xor8(@, b),
              !.pos = @ + 1,
              !.state = IF r.pos + 1 = r.length THEN "Checksum" ELSE @]

\* Faulty: m_data is not cleared.
TakeChecksumKeepsData(r, b) ==
    [r EXCEPT !.delivered = IF r.checkSum = b THEN Append(@, r.data) ELSE @,
              !.state = "Syncing", !.pos = 0]

TakeChecksum(r, b) ==
    [r EXCEPT !.delivered = IF r.checkSum = b THEN Append(@, r.data) ELSE @,
              !.data = <<>>, !.state = "Syncing", !.pos = 0]

Feed(r, b) ==
    CASE r.state = "Syncing"  -> Sync(r, b)
      [] r.state = "Length"   -> TakeLength(r, b)
      [] r.state = "Data"     -> TakeData(r, b)
      [] r.state = "Checksum" -> TakeChecksum(r, b)

-----------------------------------------------------------------------------
ReadComplete(bytes) ==
    /\ m_active
    /\ reader' = FoldLeft(Feed, [reader EXCEPT !.delivered = <<>>], bytes)
    /\ UNCHANGED m_active

\* readComplete with an error, close(), or TcpHandler's watchdog.
DoClose ==
    /\ m_active
    /\ m_active' = FALSE
    /\ reader' = [reader EXCEPT !.delivered = <<>>]

\* Faulty: the new handler takes up where the old one was.
NewHandlerContinues ==
    /\ ~m_active
    /\ m_active' = TRUE
    /\ UNCHANGED reader

\* main's loop makes a new handler for the same line.
NewHandler ==
    /\ ~m_active
    /\ m_active' = TRUE
    /\ reader' = NewReader
=============================================================================
