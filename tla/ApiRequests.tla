---------------------------- MODULE ApiRequests ----------------------------
(***************************************************************************)
(* The request engine of ApiCommandParser as functions on the parser's     *)
(* fields: what a command, a message from the bus and a timeout do to one  *)
(* parser, what it sends and what its client is told.  A read command is a *)
(* chain of requests: a range is read piece by piece (continueRequest) and *)
(* may be followed by another one (startRequest in handleResponse).        *)
(*                                                                         *)
(* A byte of a device is named by where it is stored, so that a response   *)
(* put together from the wrong pieces is told apart.  Its value matters in *)
(* one place: whether a record of a list is unset, which is left open.     *)
(***************************************************************************)
EXTENDS ApiCommands

CONSTANTS
    MaxRequestRetries,   \* 5
    Garbage              \* what the fields the constructor leaves
                         \* uninitialised may hold: [dest, type, offset]

ASSUME RetriesAssumption == MaxRequestRetries \in Nat \ {0}

\* Whatever they hold, m_requestDestination and m_requestType are of type uint8_t
\* and m_requestOffset is a size_t.
ASSUME GarbageAssumption ==
    \A g \in Garbage : g.dest \in 0..255 /\ g.type \in 0..255 /\ g.offset \in Nat

-----------------------------------------------------------------------------
\* A request as it goes over the bus (m_activeRequest).  The data of a read is
\* the number of bytes asked for.
Request(dest, type, offset, data, read) ==
    [dest |-> dest, type |-> type, offset |-> offset, data |-> data,
     read |-> read]

NewParser(g) ==
    [active |-> <<>>,        \* m_activeRequest
     retriesLeft |-> 0,      \* m_retriesLeft
     dest |-> g.dest,        \* m_requestDestination
     type |-> g.type,        \* m_requestType
     offset |-> g.offset,    \* m_requestOffset
     length |-> 0,           \* m_requestLength
     response |-> <<>>,      \* m_requestResponse
     parsed |-> 0,           \* m_parsePosition
     raw |-> FALSE]          \* m_outputRawData

(* What a method leaves behind: the parser, what it sent, the line that ends *)
(* the command, and what it announced as if a device had broadcast it.       *)
Stay(p) == [parser |-> p, sends |-> <<>>, reply |-> "none", broadcast |-> <<>>]

\* The method sent p's active request (sendActiveRequest).
Ask(p) == [Stay(p) EXCEPT !.sends = p.active]

\* The command is over and p is free for the next one.
Finish(p, reply) ==
    [Stay([p EXCEPT !.active = <<>>]) EXCEPT !.reply = reply]

\* handleResponse returned false: the command failed, and p stays busy.
Fail(p) == [Stay(p) EXCEPT !.reply = "FAIL"]

-----------------------------------------------------------------------------
SendCommand(p, request) ==
    [p EXCEPT !.active = <<request>>, !.retriesLeft = MaxRequestRetries]

\* continueRequest returns More(p).
More(p) == Len(p.response) < p.length

ContinueRequest(p) ==
    IF More(p)
    THEN SendCommand(p, Request(p.dest, p.type,
                                (p.offset + Len(p.response)) % 256,
                                <<(p.length - Len(p.response)) % 256>>, TRUE))
    ELSE p

\* Faulty: m_requestResponse is not cleared.
StartRequestUncleared(p, dest, type, offset, length, raw) ==
    ContinueRequest([p EXCEPT !.dest = dest, !.type = type, !.offset = offset,
                              !.length = length, !.parsed = 0, !.raw = raw])

StartRequest(p, dest, type, offset, length, raw) ==
    ContinueRequest([p EXCEPT !.dest = dest, !.type = type, !.offset = offset,
                              !.length = length, !.response = <<>>,
                              !.parsed = 0, !.raw = raw])

\* parse, for a line that is one of Commands.
Parse(p, c) ==
    IF p.active # <<>> THEN [Stay(p) EXCEPT !.reply = "ERRBUSY"]
    ELSE IF c.read
    THEN Ask(StartRequest(p, c.dest, c.type, c.offset, c.length, c.raw))
    ELSE Ask(SendCommand(p, Request(c.dest, c.type, c.offset, c.data, FALSE)))

-----------------------------------------------------------------------------
(* handleResponse *)

\* The range read after the one of `type' at `dest', if there is one.
Range4(dest, type, offset, length) ==
    <<[dest |-> dest, type |-> type, offset |-> offset, length |-> length]>>

FollowUp(dest, type) ==
    CASE type = 2 /\ dest = UBA    -> Range4(BC10, 2, 0, 3)
      [] type = 2 /\ dest = BC10   -> Range4(RC3x, 2, 0, 3)
      [] type = 16                 -> Range4(dest, 17, 0, 5 * ErrorRecordSize)
      [] type = 18                 -> Range4(dest, 19, 0, 4 * ErrorRecordSize)
      [] type = 21                 -> Range4(UBA, 22, 0, 20)
      [] type \in HkBases          -> Range4(RC3x, type + 1, 0, 20)
      [] type - 1 \in HkBases      -> Range4(RC3x, type + 1, 85, 2)
      [] type = 51                 -> Range4(UBA, 52, 0, 12)
      [] type = 52                 -> Range4(RC3x, 55, 0, 12)
      [] OTHER                     -> <<>>

ErrorLists == 16..19
OneAnswer == {2, 21, 22, 28, 51, 52, 55, 165} \cup {t + 1 : t \in HkBases}
Pieces == HkBases \cup {164}

\* The response is complete: go on to the next range or report success.
Advance(p) ==
    LET next == FollowUp(p.dest, p.type)
    IN  IF next = <<>> THEN Finish(p, "OK")
        ELSE Ask(StartRequest(p, next[1].dest, next[1].type, next[1].offset,
                              next[1].length, FALSE))

\* Ask for the rest of the range, or advance.
Proceed(p) == IF More(p) THEN Ask(ContinueRequest(p)) ELSE Advance(p)

\* loopOverResponse: the first unset record among those now complete ends the
\* list, wherever it is.
LoopOverResponse(p, size) ==
    LET complete == (Len(p.response) \div size) * size
    IN  {Proceed([p EXCEPT !.parsed = complete])}
        \cup {Advance([p EXCEPT !.parsed = k]) :
                k \in {j \in p.parsed + 1 .. complete : j % size = 0}}

IsHoliday(p) ==
    p.type \in ScheduleTypes /\ p.offset > 80 /\ p.offset \notin {84, 85}
IsSchedule(p) ==
    p.type \in {56, 57} \/ (p.type \in ScheduleTypes /\ p.offset <= 80)

HandleResponse(p) ==
    IF p.type \in ErrorLists THEN LoopOverResponse(p, ErrorRecordSize)
    ELSE IF IsSchedule(p) THEN LoopOverResponse(p, ScheduleEntrySize)
    ELSE IF p.type \in Pieces THEN {Proceed(p)}
    ELSE IF IsHoliday(p) /\ Len(p.response) < 2 * HolidayEntrySize THEN {Fail(p)}
    ELSE IF p.type \in OneAnswer \cup ScheduleTypes THEN {Advance(p)}
    ELSE {Fail(p)}

-----------------------------------------------------------------------------
Acknowledge == 255

\* Faulty: any piece of the table is taken for the next one.
AnswersAnyOffset(p, m) == m.source = p.dest /\ m.type = p.type

Answers(p, m) ==
    /\ m.source = p.dest /\ m.type = p.type
    /\ m.offset = Len(p.response) + p.offset

Receive(p, m) ==
    IF m.data = <<>> THEN [p EXCEPT !.length = Len(p.response)]
    ELSE [p EXCEPT !.response = @ \o m.data]

\* Faulty: a refusal leaves m_activeRequest set.
HandleAcknowledgeStaysBusy(p, status) ==
    IF status = 4 THEN Fail(p)
    ELSE [Finish(p, "OK") EXCEPT !.broadcast = p.active]

\* A write was acknowledged, or refused with status 4.
HandleAcknowledge(p, status) ==
    IF status = 4 THEN Finish(p, "FAIL")
    ELSE [Finish(p, "OK") EXCEPT !.broadcast = p.active]

\* onIncomingMessage: the possible outcomes.
OnIncomingMessage(p, m) ==
    IF p.active = <<>> THEN {Stay(p)}
    ELSE IF m.type = Acknowledge THEN {HandleAcknowledge(p, m.offset)}
    ELSE IF ~Answers(p, m) THEN {Stay(p)}
    ELSE IF p.raw THEN
        {IF More(Receive(p, m)) THEN Ask(ContinueRequest(Receive(p, m)))
         ELSE Finish(Receive(p, m), "OK")}
    ELSE HandleResponse(Receive(p, m))

\* Faulty: retries without end, once too often, once too rarely, not at all.
OnTimeoutForEver(p) ==
    IF p.active = <<>> THEN Stay(p) ELSE Ask([p EXCEPT !.retriesLeft = @ - 1])

OnTimeoutTooLate(p) ==
    IF p.active = <<>> THEN Stay(p)
    ELSE IF p.retriesLeft = 0 THEN Finish(p, "ERRTIMEOUT")
    ELSE Ask([p EXCEPT !.retriesLeft = @ - 1])

OnTimeoutTooEarly(p) ==
    IF p.active = <<>> THEN Stay(p)
    ELSE IF p.retriesLeft <= 2 THEN Finish(p, "ERRTIMEOUT")
    ELSE Ask([p EXCEPT !.retriesLeft = @ - 1])

OnTimeoutNoResend(p) ==
    IF p.active = <<>> \/ p.retriesLeft > 1 THEN Stay(p)
    ELSE Finish(p, "ERRTIMEOUT")

OnTimeout(p) ==
    IF p.active = <<>> THEN Stay(p)
    ELSE IF p.retriesLeft = 1
    THEN Finish([p EXCEPT !.retriesLeft = 0], "ERRTIMEOUT")
    ELSE Ask([p EXCEPT !.retriesLeft = @ - 1])

-----------------------------------------------------------------------------
(***************************************************************************)
(* External: what a device may answer to a request.  It sends the next     *)
(* bytes it has, at most as many as were asked for, or none, and           *)
(* acknowledges a write with a status.                                     *)
(***************************************************************************)
Stored(dest, type, offset, count) ==
    [i \in 1..count |-> <<dest, type, offset + i - 1>>]

DeviceAnswers(r, pieces) ==
    IF r.read
    THEN {[source |-> r.dest, type |-> r.type, offset |-> r.offset,
           data |-> Stored(r.dest, r.type, r.offset, n)] :
             n \in {k \in pieces : k <= r.data[1]}}
    ELSE {[source |-> r.dest, type |-> Acknowledge, offset |-> status,
           data |-> <<>>] : status \in {1, 4}}

FinalReplies == {"OK", "FAIL", "ERRTIMEOUT"}

\* The ranges the read commands show.
InitialRanges ==
    {[dest |-> c.dest, type |-> c.type, offset |-> c.offset, length |-> c.length] :
       c \in {x \in Commands : x.read /\ ~x.raw}}
After(ranges) ==
    ranges \cup {FollowUp(r.dest, r.type)[1] :
                   r \in {x \in ranges : FollowUp(x.dest, x.type) # <<>>}}
ReadRanges == After(After(InitialRanges))

Readable(r) ==
    \E x \in ReadRanges :
        /\ x.dest = r.dest /\ x.type = r.type
        /\ x.offset <= r.offset /\ r.offset + Len(r.data) <= x.offset + x.length
=============================================================================
