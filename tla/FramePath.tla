----------------------------- MODULE FramePath -----------------------------
(***************************************************************************)
(* The way of a bus frame: the bus, the framer, the serial line, and the   *)
(* collector's reader.  What the framer accepts is to reach                *)
(* handleIncomingMessage whole, once and in order.                         *)
(*                                                                         *)
(* With MayClose the collector may lose the line and open it again, in the *)
(* middle of a frame.                                                      *)
(***************************************************************************)
EXTENDS Framer, FrameReader

CONSTANTS
    BusFrames,      \* what devices put on the bus, CRC included
    MayClose,       \* BOOLEAN
    LineCapacity    \* bound: bytes written and not read

ASSUME FramePathAssumption ==
    /\ BusFrames \subseteq Seq(Byte)
    /\ MayClose \in BOOLEAN
    /\ LineCapacity \in Nat \ {0}

VARIABLES
    bus,           \* the rest of the frame that is on the bus
    line,          \* bytes on the serial line
    undelivered    \* history: frames accepted and not handed on, kept as
                   \* long as nothing can be lost (~MayClose)

vars == <<framerVars, readerVars, bus, line, undelivered>>

Init ==
    /\ FramerInit
    /\ ReaderInit
    /\ \E f \in BusFrames : \E n \in 0..Len(f) : bus = SubSeq(f, n + 1, Len(f))
    /\ line = <<>>
    /\ undelivered = <<>>

-----------------------------------------------------------------------------
\* The framer may be switched on in the middle of a frame (Init).
BusByte ==
    /\ bus # <<>>
    /\ ReceiveByte(Head(bus))
    /\ bus' = Tail(bus)
    /\ UNCHANGED <<readerVars, line, undelivered>>

BusBreak ==
    /\ bus = <<>>
    /\ ReceiveBreak
    /\ bus' \in BusFrames
    /\ undelivered' = IF Accepted /\ ~MayClose
                      THEN Append(undelivered, Payload) ELSE undelivered
    /\ UNCHANGED <<readerVars, line>>

\* A byte that is written while the line is closed is lost.
LineWrite ==
    /\ Len(line) < LineCapacity
    /\ UartWrite
    /\ line' = IF m_active THEN Append(line, Written) ELSE line
    /\ UNCHANGED <<readerVars, bus, undelivered>>

MainLoop ==
    \/ LineWrite
    \/ /\ HasData \/ Advance
       /\ UNCHANGED <<readerVars, bus, line, undelivered>>

\* The reader gets some of the bytes that are there.
LineRead ==
    \E n \in 1..Len(line) :
        /\ ReadComplete(SubSeq(line, 1, n))
        /\ line' = SubSeq(line, n + 1, Len(line))
        /\ undelivered' = IF MayClose THEN <<>>
                          ELSE SubSeq(undelivered, Len(reader'.delivered) + 1,
                                      Len(undelivered))
        /\ UNCHANGED <<framerVars, bus>>

LineClosed ==
    /\ MayClose
    /\ DoClose
    /\ line' = <<>>
    /\ UNCHANGED <<framerVars, bus, undelivered>>

LineOpened ==
    /\ NewHandler
    /\ UNCHANGED <<framerVars, bus, line, undelivered>>

Next ==
    \/ BusByte
    \/ BusBreak
    \/ MainLoop
    \/ LineRead
    \/ LineClosed
    \/ LineOpened

Spec == Init /\ [][Next]_vars

\* The framer's main loop runs between interrupts and the collector reads what
\* arrives.  Nothing is assumed of the bus.
FairSpec == Spec /\ WF_vars(MainLoop) /\ WF_vars(LineRead)

-----------------------------------------------------------------------------
(* Properties *)

\* readComplete hands on at least one frame.
Delivery == LineRead /\ reader'.delivered # <<>>

\* The buffers and positions of framer and reader stay within their bounds.
TypeOK ==
    /\ FramerTypeOK
    /\ ReaderTypeOK
    /\ Len(line) <= LineCapacity

\* The ring never overwrites a byte it has yet to send, at whatever positions
\* interrupt and main loop are: ring and line hold the end of the frames that
\* were accepted and not handed on, and nothing else.
NothingOverwritten ==
    ~MayClose =>
        IsSuffix(line \o Unwritten,
                 FlattenSeq([i \in DOMAIN undelivered |-> TxFrame(undelivered[i])]))

\* handleIncomingMessage gets what the framer accepted, in that order, each
\* frame once and with the bytes it had on the bus.
DeliveredInOrder ==
    [][LineRead /\ ~MayClose => IsPrefix(reader'.delivered, undelivered)]_vars

\* As long as accepted frames are under way, frames are handed on.
FramesKeepFlowing ==
    <>[](undelivered = <<>>) \/ []<><<Delivery>>_vars

\* However often the line is lost in the middle of a frame, what the reader hands
\* on is a frame that was on the bus: true as long as no frame has the byte that
\* starts the mark in its data.
NeverForged ==
    \A i \in DOMAIN reader.delivered :
        \E f \in BusFrames : reader.delivered[i] = Front(f)

\* Once the line stays open, the reader finds the frames again, given frames
\* whose checksum is not the first byte of the mark: after such a checksum the
\* mark is overlooked (Syncing with m_pos 1 and another 0xaa).
Resynchronises ==
    LET accepted == BusBreak /\ Accepted /\ RunningXor(Payload) # 170
    IN  (<>[]m_active /\ []<><<accepted>>_vars) => []<><<Delivery>>_vars
=============================================================================
