------------------------- MODULE ApiCommandParser -------------------------
(***************************************************************************)
(* One ApiCommandParser and everything that can call it: its client types  *)
(* commands, the sender reports timeouts, and messages for this PC arrive. *)
(* A message may answer any request the parser has ever sent, at any time  *)
(* and any number of times: the answer may be late, may have been asked    *)
(* for by a retry, or may have overtaken another one.                      *)
(***************************************************************************)
EXTENDS ApiRequests, FiniteSets

CONSTANTS
    Lines,        \* the commands the client types, a subset of Commands
    Pieces0,      \* how many bytes a device may answer with
    MaxAsked      \* bound: different requests sent in a behaviour

ASSUME LinesAssumption == Lines \subseteq Commands
ASSUME PiecesAssumption == Pieces0 \subseteq Nat

VARIABLES
    parser,     \* the fields of the parser
    asked,      \* the requests it has sent
    attempts,   \* how often it has sent its active request
    awaiting,   \* a command has been accepted and not been answered
    reply       \* what the last call told the client

vars == <<parser, asked, attempts, awaiting, reply>>

Init ==
    /\ \E g \in Garbage : parser = NewParser(g)
    /\ asked = {}
    /\ attempts = 0
    /\ awaiting = FALSE
    /\ reply = "none"

ToSet(s) == {s[i] : i \in DOMAIN s}

Become(outcome) ==
    /\ parser' = outcome.parser
    /\ asked' = asked \cup ToSet(outcome.sends)
    /\ attempts' = IF outcome.sends = <<>> THEN attempts
                   ELSE IF outcome.parser.retriesLeft = MaxRequestRetries THEN 1
                   ELSE attempts + 1
    /\ reply' = outcome.reply

ParseLine(c) ==
    /\ Become(Parse(parser, c))
    /\ awaiting' = (awaiting \/ (reply' # "ERRBUSY" /\ parser'.active # <<>>))

\* onIncomingMessage returned with this outcome.
MessageHandled(outcome) ==
    /\ Become(outcome)
    /\ Cardinality(asked') <= MaxAsked
    /\ awaiting' = (awaiting /\ reply' \notin FinalReplies)

AnswerArrives ==
    \E r \in asked : \E m \in DeviceAnswers(r, Pieces0) :
        \E outcome \in OnIncomingMessage(parser, m) : MessageHandled(outcome)

TimeoutReported ==
    /\ parser.active # <<>>
    /\ Become(OnTimeout(parser))
    /\ awaiting' = (awaiting /\ reply' \notin FinalReplies)

Next ==
    \/ Cardinality(asked) < MaxAsked /\ \E c \in Lines : ParseLine(c)
    \/ AnswerArrives
    \/ TimeoutReported

Spec == Init /\ [][Next]_vars

-----------------------------------------------------------------------------
(* Properties *)

\* At most one request is active, and m_retriesLeft, unsigned in the code, is not
\* decremented below 0.
TypeOK ==
    /\ Len(parser.active) <= 1
    /\ parser.retriesLeft \in 0..MaxRequestRetries
    /\ attempts \in 0..MaxRequestRetries + 1
    /\ awaiting \in BOOLEAN
    /\ reply \in FinalReplies \cup {"none", "ERRBUSY"}

\* Whatever answers arrive late, twice or out of order, the bytes collected in
\* m_requestResponse are those stored from m_requestOffset on, without a gap or
\* a repetition, at the device and in the table that were asked for.
ResponseContiguous ==
    parser.response =
        Stored(parser.dest, parser.type, parser.offset, Len(parser.response))

\* While a read is under way the request that is out asks for exactly what the
\* parser lacks, at the offset onIncomingMessage will accept.  Offsets are
\* uint8_t on the bus and size_t in the comparison: a raw read that crosses the
\* end of a table never matches, so it is left out.
RequestInSync ==
    awaiting /\ parser.active[1].read /\ parser.offset + parser.length <= 256 =>
        /\ parser.active[1] = Request(parser.dest, parser.type,
                                      parser.offset + Len(parser.response),
                                      <<parser.length - Len(parser.response)>>,
                                      TRUE)

\* A request is sent at most MaxRequestRetries times.
AttemptsBounded == attempts <= MaxRequestRetries

\* A parser that is busy has a command to answer, unless a holiday that came
\* too short made that command fail in handleResponse, the one failure that
\* leaves m_activeRequest set (even when the request is a later write, and the
\* holiday the late answer to a read that had timed out).
BusyMeansAwaiting ==
    parser.active # <<>> /\ ~awaiting =>
        IsHoliday(parser) /\ Len(parser.response) < 2 * HolidayEntrySize

\* A setting is stored where a read command shows it: what is written lies
\* within a range that some read command asks for, but for the commands that
\* set something in motion.  customschedule with index 0 is another exception,
\* it writes behind the schedule.
WritesAreReadable ==
    \A r \in asked :
        \/ r.read
        \/ Readable(r)
        \/ <<r.dest, r.type>> \in Triggers
        \/ IndexZero(r)
=============================================================================
