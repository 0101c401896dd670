----------------------- MODULE ApiCommandParserProofs -----------------------
(***************************************************************************)
(* The properties of one parser, for every set of command lines, any       *)
(* number of retries, and devices that answer any request ever sent, in    *)
(* pieces of any size, at any time and any number of times.                *)
(***************************************************************************)
EXTENDS ApiCommandParser, ApiRequestsProofs

-----------------------------------------------------------------------------
(* The inductive invariant *)

\* What was sent: requests the bus can carry, the active one among them.
SentInv ==
    /\ asked \subseteq Requests
    /\ parser.active # <<>> => parser.active[1] \in asked

\* What was sent of the active request and what is left of its retries are all of
\* them, counting the first time.
RetriesInv ==
    /\ attempts \in 0..MaxRequestRetries
    /\ parser.active # <<>> =>
         attempts + parser.retriesLeft = MaxRequestRetries + 1

\* A client waits for what the active request asks for; with nobody waiting, the
\* parser is free or has had a holiday that was too short.
WaitingInv ==
    /\ awaiting \in BOOLEAN /\ reply \in FinalReplies \cup {"none", "ERRBUSY"}
    /\ awaiting => parser.active # <<>> /\ InSync(parser)
    /\ parser.active # <<>> /\ ~awaiting => ShortHoliday(parser)

\* Once a read went out, m_requestType is one that handleResponse knows, or the
\* read is a raw one.  Before, it is what the constructor found.
KnownInv == (\E r \in asked : r.read) => Known(parser)

IInv ==
    /\ WellFormed(parser) /\ Contiguous(parser)
    /\ SentInv /\ RetriesInv /\ WaitingInv /\ KnownInv

-----------------------------------------------------------------------------
(* One call *)

\* A request that was sent is the only one in the list.
LEMMA OneSent ==
    ASSUME NEW x
    PROVE  ToSet(<<x>>) = {x} /\ ToSet(<<>>) = {}
BY DEF ToSet

\* Nothing was sent, and the active request is gone or the same.
LEMMA NothingSent ==
    ASSUME IInv, NEW o, Become(o), o.sends = <<>>,
           \/ o.parser.active = <<>>
           \/ /\ o.parser.active = parser.active
              /\ o.parser.retriesLeft = parser.retriesLeft
    PROVE  asked' = asked /\ SentInv' /\ RetriesInv'
<1>1. parser' = o.parser /\ attempts' = attempts /\ asked' = asked \cup ToSet(<<>>)
  BY DEF Become
<1>2. asked' = asked
  BY <1>1, OneSent
<1>3. SentInv'
  BY <1>1, <1>2 DEF IInv, SentInv
<1>4. RetriesInv'
  BY <1>1 DEF IInv, RetriesInv
<1> QED BY <1>2, <1>3, <1>4

\* A new request was sent.
LEMMA NewSent ==
    ASSUME IInv, NEW o, Become(o), Asked(o), WellFormed(o.parser)
    PROVE  asked' = asked \cup {o.sends[1]} /\ SentInv' /\ RetriesInv'
<1>1. /\ parser' = o.parser /\ attempts' = 1 /\ asked' = asked \cup ToSet(o.sends)
      /\ o.sends = o.parser.active /\ o.parser.retriesLeft = MaxRequestRetries
  BY DEF Become, Asked
<1>2. o.sends = <<o.sends[1]>> /\ o.sends[1] \in Requests
  BY <1>1 DEF WellFormed, Asked
<1>3. asked' = asked \cup {o.sends[1]}
  BY <1>1, <1>2, OneSent
<1>4. SentInv'
  BY <1>1, <1>2, <1>3 DEF IInv, SentInv
<1>5. RetriesInv'
  BY <1>1, RetriesAssumption DEF RetriesInv
<1> QED BY <1>3, <1>4, <1>5

\* The active request was sent again.
LEMMA SentAgain ==
    ASSUME IInv, NEW o, Become(o), parser.active # <<>>,
           o.sends = parser.active, o.parser.active = parser.active,
           o.parser.retriesLeft = parser.retriesLeft - 1, o.parser.retriesLeft # 0
    PROVE  asked' = asked /\ SentInv' /\ RetriesInv'
<1>1. /\ parser.active = <<parser.active[1]>> /\ parser.active[1] \in asked
      /\ parser.retriesLeft \in 0..MaxRequestRetries
      /\ attempts \in 0..MaxRequestRetries
      /\ attempts + parser.retriesLeft = MaxRequestRetries + 1
  BY DEF IInv, WellFormed, SentInv, RetriesInv
<1>2. o.parser.retriesLeft # MaxRequestRetries
  BY <1>1, RetriesAssumption
<1>3. /\ parser' = o.parser /\ attempts' = attempts + 1
      /\ asked' = asked \cup ToSet(parser.active)
  BY <1>2 DEF Become
<1>4. asked' = asked
  <2>1. PICK x \in asked : parser.active = <<x>>
    BY <1>1
  <2>2. asked' = asked \cup {x}
    BY <1>3, <2>1, OneSent
  <2> QED BY <2>2
<1>5. SentInv'
  BY <1>1, <1>3, <1>4 DEF IInv, SentInv
<1>6. RetriesInv'
  BY <1>1, <1>3, RetriesAssumption DEF RetriesInv
<1> QED BY <1>4, <1>5, <1>6

-----------------------------------------------------------------------------
(* The invariant is inductive *)

\* A parser that was just constructed.
LEMMA InitInv == Init => IInv
<1> SUFFICES ASSUME Init PROVE IInv
  OBVIOUS
<1>1. PICK g \in Garbage : parser = NewParser(g)
  BY DEF Init
<1>2. WellFormed(parser) /\ Contiguous(parser) /\ parser.active = <<>>
  BY <1>1, NewParserIs
<1>3. SentInv /\ KnownInv
  BY <1>2 DEF Init, SentInv, KnownInv
<1>4. RetriesInv
  BY <1>2, RetriesAssumption DEF Init, RetriesInv
<1>5. WaitingInv
  BY <1>2 DEF Init, WaitingInv, FinalReplies
<1> QED BY <1>2, <1>3, <1>4, <1>5 DEF IInv

\* The client types a line.
LEMMA ParseLineInv ==
    ASSUME IInv, NEW c \in Lines, ParseLine(c)
    PROVE  IInv'
<1> DEFINE o == Parse(parser, c)
<1>1. c \in Commands
  BY LinesAssumption
<1>2. /\ Become(o) /\ parser' = o.parser /\ reply' = o.reply
      /\ awaiting' = (awaiting \/ (o.reply # "ERRBUSY" /\ o.parser.active # <<>>))
  BY DEF ParseLine, Become
<1>3. WellFormed(parser) /\ Contiguous(parser)
  BY DEF IInv
<1>4. Sound(parser, o.parser) /\ ParsedTo(parser, c, o) /\ AsksFor(c, o)
  BY <1>1, <1>3, ParseEnds
<1> HIDE DEF o
<1>5. \/ /\ parser.active # <<>> /\ o.parser = parser
         /\ o.sends = <<>> /\ o.reply = "ERRBUSY"
      \/ parser.active = <<>> /\ Asked(o)
      \/ /\ parser.active = <<>> /\ o.parser.active = <<>>
         /\ o.sends = <<>> /\ o.reply = "none"
  BY <1>4 DEF ParsedTo
<1>6. o.sends # <<>> /\ o.sends[1].read => Known(o.parser)
  BY <1>4 DEF AsksFor
<1>7. WellFormed(parser') /\ Contiguous(parser') /\ (Known(parser) => Known(parser'))
  BY <1>2, <1>4 DEF Sound
<1>8. CASE /\ parser.active # <<>> /\ o.parser = parser
           /\ o.sends = <<>> /\ o.reply = "ERRBUSY"
  <2>1. asked' = asked /\ SentInv' /\ RetriesInv'
    BY <1>2, <1>8, NothingSent
  <2>2. WaitingInv'
    BY <1>2, <1>8 DEF IInv, WaitingInv
  <2>3. KnownInv'
    BY <1>7, <2>1 DEF IInv, KnownInv
  <2> QED BY <1>7, <2>1, <2>2, <2>3 DEF IInv
<1>9. CASE parser.active = <<>> /\ Asked(o)
  <2>1. asked' = asked \cup {o.sends[1]} /\ SentInv' /\ RetriesInv'
    BY <1>2, <1>7, <1>9, NewSent
  <2>2. o.parser.active # <<>> /\ o.sends # <<>> /\ InSync(o.parser) /\ o.reply = "none"
    BY <1>9 DEF Asked
  <2>3. WaitingInv'
    BY <1>2, <2>2 DEF WaitingInv
  <2>4. KnownInv'
    BY <1>2, <1>6, <1>7, <2>1, <2>2 DEF IInv, KnownInv
  <2> QED BY <1>7, <2>1, <2>3, <2>4 DEF IInv
<1>10. CASE /\ parser.active = <<>> /\ o.parser.active = <<>>
            /\ o.sends = <<>> /\ o.reply = "none"
  <2>1. asked' = asked /\ SentInv' /\ RetriesInv'
    BY <1>2, <1>10, NothingSent
  <2>2. WaitingInv'
    BY <1>2, <1>10 DEF IInv, WaitingInv
  <2>3. KnownInv'
    BY <1>7, <2>1 DEF IInv, KnownInv
  <2> QED BY <1>7, <2>1, <2>2, <2>3 DEF IInv
<1> QED BY <1>5, <1>8, <1>9, <1>10

\* A device says something.
LEMMA AnswerInv ==
    ASSUME IInv, AnswerArrives
    PROVE  IInv'
<1>1. PICK r \in asked : \E m \in DeviceAnswers(r, Pieces0) :
         \E o \in OnIncomingMessage(parser, m) : MessageHandled(o)
  BY DEF AnswerArrives
<1>2. PICK m \in DeviceAnswers(r, Pieces0) :
         \E o \in OnIncomingMessage(parser, m) : MessageHandled(o)
  BY <1>1
<1>3. PICK o \in OnIncomingMessage(parser, m) : MessageHandled(o)
  BY <1>2
<1>4. /\ Become(o) /\ parser' = o.parser /\ reply' = o.reply
      /\ awaiting' = (awaiting /\ o.reply \notin FinalReplies)
  BY <1>3 DEF MessageHandled, Become
<1>5. WellFormed(parser) /\ Contiguous(parser)
  BY DEF IInv
<1>6. IsMessage(m) /\ (~r.read => m.type = Acknowledge)
  BY PiecesAssumption, DevicesSay DEF IInv, SentInv
<1>7. /\ Kept(parser, o)
      /\ o = Stay(parser) \/ (parser.active # <<>> /\ Ended(parser, o))
      /\ ShortHoliday(parser) => o = Stay(parser) \/ Over(o) \/ ShortHoliday(o.parser)
      /\ m.type = Acknowledge => o = Stay(parser) \/ Over(o)
  BY <1>5, <1>6, MessageEnds
<1>8. WellFormed(parser') /\ Contiguous(parser') /\ (Known(parser) => Known(parser'))
  BY <1>4, <1>7 DEF Kept, Sound
<1>9. Known(parser) \/ o = Stay(parser) \/ Over(o)
  BY <1>6, <1>7 DEF IInv, KnownInv
<1>10. CASE o = Stay(parser)
  <2>1. o.parser = parser /\ o.sends = <<>> /\ o.reply = "none"
    BY <1>10 DEF Stay
  <2>2. asked' = asked /\ SentInv' /\ RetriesInv'
    BY <1>4, <2>1, NothingSent
  <2>3. WaitingInv'
    BY <1>4, <2>1 DEF IInv, WaitingInv, FinalReplies
  <2>4. KnownInv'
    BY <1>8, <2>2 DEF IInv, KnownInv
  <2> QED BY <1>8, <2>2, <2>3, <2>4 DEF IInv
<1>11. CASE Over(o)
  <2>1. o.parser.active = <<>> /\ o.sends = <<>> /\ o.reply \in FinalReplies
    BY <1>11 DEF Over
  <2>2. asked' = asked /\ SentInv' /\ RetriesInv'
    BY <1>4, <2>1, NothingSent
  <2>3. WaitingInv'
    BY <1>4, <2>1 DEF IInv, WaitingInv
  <2>4. KnownInv'
    BY <1>8, <2>2 DEF IInv, KnownInv
  <2> QED BY <1>8, <2>2, <2>3, <2>4 DEF IInv
<1>12. CASE Known(parser) /\ parser.active # <<>> /\ Asked(o) /\ ~Over(o) /\ o # Stay(parser)
  <2>1. asked' = asked \cup {o.sends[1]} /\ SentInv' /\ RetriesInv'
    BY <1>4, <1>8, <1>12, NewSent
  <2>2. o.parser.active # <<>> /\ InSync(o.parser) /\ o.reply = "none"
    BY <1>12 DEF Asked
  <2>3. WaitingInv'
    <3>1. ~awaiting => ShortHoliday(o.parser)
      BY <1>7, <1>12 DEF IInv, WaitingInv
    <3> QED BY <1>4, <2>2, <3>1 DEF IInv, WaitingInv, FinalReplies
  <2>4. KnownInv'
    BY <1>8, <1>12 DEF KnownInv
  <2> QED BY <1>8, <2>1, <2>3, <2>4 DEF IInv
<1>13. CASE Known(parser) /\ parser.active # <<>> /\ FailedFor(parser, o)
  <2>1. /\ o.parser.active = parser.active /\ o.parser.retriesLeft = parser.retriesLeft
        /\ o.sends = <<>> /\ o.reply = "FAIL" /\ ShortHoliday(o.parser)
    BY <1>13 DEF FailedFor
  <2>2. asked' = asked /\ SentInv' /\ RetriesInv'
    BY <1>4, <2>1, NothingSent
  <2>3. WaitingInv'
    BY <1>4, <2>1 DEF IInv, WaitingInv, FinalReplies
  <2>4. KnownInv'
    BY <1>8, <2>2 DEF IInv, KnownInv
  <2> QED BY <1>8, <2>2, <2>3, <2>4 DEF IInv
<1> QED BY <1>7, <1>9, <1>10, <1>11, <1>12, <1>13 DEF Ended, ReadsOn

\* The sender reports a timeout.
LEMMA TimeoutInv ==
    ASSUME IInv, TimeoutReported
    PROVE  IInv'
<1> DEFINE o == OnTimeout(parser)
<1>1. /\ Become(o) /\ parser' = o.parser /\ reply' = o.reply /\ parser.active # <<>>
      /\ awaiting' = (awaiting /\ o.reply \notin FinalReplies)
  BY DEF TimeoutReported, Become
<1>2. WellFormed(parser) /\ Contiguous(parser)
  BY DEF IInv
<1>3. Kept(parser, o)
  BY <1>2, TimeoutEnds
<1>4. \/ Over(o)
      \/ /\ o.parser.active = parser.active /\ o.sends = parser.active
         /\ o.reply = "none" /\ o.parser.retriesLeft = parser.retriesLeft - 1
         /\ o.parser.retriesLeft # 0
         /\ InSync(parser) => InSync(o.parser)
         /\ ShortHoliday(parser) => ShortHoliday(o.parser)
  BY <1>1, <1>2, TimeoutEnds
<1> HIDE DEF o
<1>5. WellFormed(parser') /\ Contiguous(parser') /\ (Known(parser) => Known(parser'))
  BY <1>1, <1>3 DEF Kept, Sound
<1>6. CASE Over(o)
  <2>1. o.parser.active = <<>> /\ o.sends = <<>> /\ o.reply \in FinalReplies
    BY <1>6 DEF Over
  <2>2. asked' = asked /\ SentInv' /\ RetriesInv'
    BY <1>1, <2>1, NothingSent
  <2>3. WaitingInv'
    BY <1>1, <2>1 DEF IInv, WaitingInv
  <2>4. KnownInv'
    BY <1>5, <2>2 DEF IInv, KnownInv
  <2> QED BY <1>5, <2>2, <2>3, <2>4 DEF IInv
<1>7. CASE /\ o.parser.active = parser.active /\ o.sends = parser.active
           /\ o.reply = "none" /\ o.parser.retriesLeft = parser.retriesLeft - 1
           /\ o.parser.retriesLeft # 0
           /\ InSync(parser) => InSync(o.parser)
           /\ ShortHoliday(parser) => ShortHoliday(o.parser)
  <2>1. asked' = asked /\ SentInv' /\ RetriesInv'
    BY <1>1, <1>7, SentAgain
  <2>2. WaitingInv'
    BY <1>1, <1>7 DEF IInv, WaitingInv, FinalReplies
  <2>3. KnownInv'
    BY <1>5, <2>1 DEF IInv, KnownInv
  <2> QED BY <1>5, <2>1, <2>2, <2>3 DEF IInv
<1> QED BY <1>4, <1>6, <1>7

\* No step of a parser and its callers breaks the invariant.
LEMMA NextInv == IInv /\ [Next]_vars => IInv'
<1> SUFFICES ASSUME IInv, [Next]_vars PROVE IInv'
  OBVIOUS
<1>1. CASE \E c \in Lines : ParseLine(c)
  BY <1>1, ParseLineInv
<1>2. CASE AnswerArrives
  BY <1>2, AnswerInv
<1>3. CASE TimeoutReported
  BY <1>3, TimeoutInv
<1>4. CASE UNCHANGED vars
  BY <1>4 DEF vars, IInv, SentInv, RetriesInv, WaitingInv, KnownInv
<1> QED BY <1>1, <1>2, <1>3, <1>4 DEF Next

\* The invariant holds of every state of every behaviour.
LEMMA Invariance == Spec => []IInv
BY InitInv, NextInv, PTL DEF Spec

-----------------------------------------------------------------------------
(* What a client can rely on *)

\* At most one request is active, and m_retriesLeft is not decremented below 0.
THEOREM TypeCorrect == Spec => []TypeOK
<1>1. IInv => TypeOK
  <2> SUFFICES ASSUME IInv PROVE TypeOK
    OBVIOUS
  <2>1. Len(parser.active) <= 1
    <3>1. parser.active = <<>> \/ \E x : parser.active = <<x>>
      BY DEF IInv, WellFormed
    <3>2. Len(<<>>) = 0 /\ \A x : Len(<<x>>) = 1
      OBVIOUS
    <3>3. Len(parser.active) = 0 \/ Len(parser.active) = 1
      BY <3>1, <3>2
    <3>4. \A n : n = 0 \/ n = 1 => n <= 1
      OBVIOUS
    <3> QED BY <3>3, <3>4, Zenon
  <2>2. attempts \in 0..MaxRequestRetries + 1
    BY RetriesAssumption DEF IInv, RetriesInv
  <2> QED BY <2>1, <2>2 DEF IInv, WellFormed, WaitingInv, TypeOK
<1> QED BY <1>1, Invariance, PTL

\* m_requestResponse is one range of bytes of the table asked for, without a gap or
\* a repetition, whatever answers come late, twice or out of order.
THEOREM ResponsesAreRanges == Spec => []ResponseContiguous
<1>1. IInv => ResponseContiguous
  BY DEF IInv, Contiguous, ResponseContiguous
<1> QED BY <1>1, Invariance, PTL

\* While a client waits for a read, the request that is out asks for exactly what
\* the parser lacks, where the range is within the table.
THEOREM RequestsAskForTheRest == Spec => []RequestInSync
<1>1. IInv => RequestInSync
  <2> SUFFICES ASSUME IInv, awaiting, parser.active[1].read,
                      parser.offset + parser.length <= 256
               PROVE  parser.active[1] =
                        Request(parser.dest, parser.type,
                                parser.offset + Len(parser.response),
                                <<parser.length - Len(parser.response)>>, TRUE)
    BY DEF RequestInSync
  <2>1. parser.active = <<Lacking(parser)>> /\ More(parser)
    BY DEF IInv, WaitingInv, InSync
  <2>2. /\ Len(parser.response) \in Nat /\ parser.offset \in Nat
        /\ parser.length \in 0..255
    BY DEF IInv, WellFormed, Contiguous
  <2>3. /\ (parser.offset + Len(parser.response)) % 256
             = parser.offset + Len(parser.response)
        /\ (parser.length - Len(parser.response)) % 256
             = parser.length - Len(parser.response)
    <3>1. \A i \in 0..255 : i % 256 = i
      OBVIOUS
    <3>2. /\ parser.offset + Len(parser.response) \in 0..255
          /\ parser.length - Len(parser.response) \in 0..255
      <4> DEFINE have == Len(parser.response)
      <4>1. /\ have \in Nat /\ parser.offset \in Nat /\ parser.length \in 0..255
            /\ have < parser.length /\ parser.offset + parser.length <= 256
        BY <2>1, <2>2 DEF More
      <4> HIDE DEF have
      <4>2. \A o \in Nat, l \in 0..255, n \in Nat :
               n < l /\ o + l <= 256 => o + n \in 0..255 /\ l - n \in 0..255
        OBVIOUS
      <4>3. parser.offset + have \in 0..255 /\ parser.length - have \in 0..255
        BY <4>1, <4>2, Zenon
      <4> QED BY <4>3 DEF have
    <3> QED BY <3>1, <3>2
  <2>4. parser.active[1] = Lacking(parser)
    BY <2>1
  <2> QED BY <2>3, <2>4 DEF Lacking
<1> QED BY <1>1, Invariance, PTL

\* onTimeout sends a request MaxRequestRetries times at most.
THEOREM RequestsAreBounded == Spec => []AttemptsBounded
<1>1. IInv => AttemptsBounded
  BY RetriesAssumption DEF IInv, RetriesInv, AttemptsBounded
<1> QED BY <1>1, Invariance, PTL

\* A parser is busy only with a command its client waits for, but for the holiday
\* that came too short.
THEOREM BusyForAReason == Spec => []BusyMeansAwaiting
<1>1. IInv => BusyMeansAwaiting
  BY DEF IInv, WaitingInv, ShortHoliday, BusyMeansAwaiting
<1> QED BY <1>1, Invariance, PTL

-----------------------------------------------------------------------------
(* Where a setting can be read *)

\* n bytes from offset on lie within a range that some read command asks for.
Shown(dest, type, offset, n) ==
    \E x \in ReadRanges :
        /\ x.dest = dest /\ x.type = type
        /\ x.offset <= offset /\ offset + n <= x.offset + x.length

Findable(c) ==
    \/ c.read \/ Readable(c)
    \/ <<c.dest, c.type>> \in Triggers \/ IndexZero(c)
AllFindable(S) == \A c \in S : Findable(c)

\* The range that a read command begins with, and those that follow it.
LEMMA RangesFollow ==
    ASSUME NEW x \in InitialRanges
    PROVE  /\ x \in ReadRanges
           /\ FollowUp(x.dest, x.type) # <<>> =>
                LET y == FollowUp(x.dest, x.type)[1]
                IN  /\ y \in ReadRanges
                    /\ FollowUp(y.dest, y.type) # <<>> =>
                         FollowUp(y.dest, y.type)[1] \in ReadRanges
<1>1. \A ranges : \A r \in ranges :
         /\ r \in After(ranges)
         /\ FollowUp(r.dest, r.type) # <<>> => FollowUp(r.dest, r.type)[1] \in After(ranges)
  BY Zenon DEF After
<1>2. x \in After(InitialRanges)
  BY <1>1, Zenon
<1>3. FollowUp(x.dest, x.type) # <<>> =>
        FollowUp(x.dest, x.type)[1] \in After(InitialRanges)
  BY <1>1, Zenon
<1> QED BY <1>1, <1>2, <1>3, Zenon DEF ReadRanges

Area(dest, type, offset, length) ==
    [dest |-> dest, type |-> type, offset |-> offset, length |-> length]

\* A read command's own range.
LEMMA RangeOfRead ==
    ASSUME NEW name, NEW dest, NEW type, NEW offset, NEW length,
           Reads(name, dest, type, offset, length) \in Commands
    PROVE  Area(dest, type, offset, length) \in InitialRanges
<1> DEFINE c == Reads(name, dest, type, offset, length)
<1>1. /\ c.read /\ ~c.raw /\ c.dest = dest /\ c.type = type
      /\ c.offset = offset /\ c.length = length
  BY DEF Reads
<1>2. c \in {x \in Commands : x.read /\ ~x.raw}
  BY <1>1
<1>3. Area(dest, type, offset, length) = Area(c.dest, c.type, c.offset, c.length)
  BY <1>1
<1> HIDE DEF c
<1> QED BY <1>2, <1>3, Zenon DEF InitialRanges, Area

\* What lies within a range is shown.
LEMMA ShownIn ==
    ASSUME NEW dest, NEW type, NEW from \in Nat, NEW length \in Nat,
           Area(dest, type, from, length) \in ReadRanges,
           NEW offset \in Nat, NEW n \in Nat, from <= offset, offset + n <= from + length
    PROVE  Shown(dest, type, offset, n)
<1> DEFINE x == Area(dest, type, from, length)
<1>1. x.dest = dest /\ x.type = type /\ x.offset = from /\ x.length = length
  BY DEF Area
<1> HIDE DEF x
<1>2. x.offset <= offset /\ offset + n <= x.offset + x.length
  BY <1>1
<1>3. x \in ReadRanges
  BY DEF x
<1> QED BY <1>1, <1>2, <1>3, Zenon DEF Shown

\* A write to such a place.
LEMMA SendsFindable ==
    ASSUME NEW dest, NEW type, NEW offset \in 0..255, NEW data,
           Shown(dest, type, offset, Len(data))
    PROVE  \A name : Findable(Sends(name, dest, type, offset, data))
<1> SUFFICES ASSUME NEW name PROVE Findable(Sends(name, dest, type, offset, data))
  OBVIOUS
<1> DEFINE c == Sends(name, dest, type, offset, data)
<1>1. c.dest = dest /\ c.type = type /\ c.data = data /\ c.offset = offset % 256
  BY DEF Sends
<1>2. offset % 256 = offset
  OBVIOUS
<1>3. c.offset = offset
  BY <1>1, <1>2
<1> HIDE DEF c
<1>4. Readable(c)
  BY <1>1, <1>3, Zenon DEF Shown, Readable
<1> QED BY <1>4, Zenon DEF Findable, c

\* The commands that send one byte.
LEMMA ChoiceFindable ==
    ASSUME NEW dest, NEW type, NEW offset \in 0..255, Shown(dest, type, offset, 1)
    PROVE  /\ \A name, values : AllFindable(Choice(name, dest, type, offset, values))
           /\ \A name, multiplier, min, max :
                AllFindable(SingleByteValue(name, dest, type, offset, multiplier, min, max))
           /\ \A name, min, max :
                AllFindable(IntParameter(name, dest, type, offset, min, max))
<1>1. \A v : Len(<<v>>) = 1
  OBVIOUS
<1>2. \A name, v : Findable(Sends(name, dest, type, offset, <<v>>))
  BY <1>1, SendsFindable
<1>3. \A name, values : AllFindable(Choice(name, dest, type, offset, values))
  BY <1>2, Zenon DEF AllFindable, Choice
<1> QED BY <1>3, Zenon DEF SingleByteValue, IntParameter

\* The commands that set something in motion.
LEMMA TriggersFindable ==
    ASSUME NEW dest, NEW type, <<dest, type>> \in Triggers
    PROVE  \A name, offset, data : Findable(Sends(name, dest, type, offset, data))
BY DEF Findable, Sends

\* A read changes nothing.
LEMMA ReadsFindable ==
    \A name, dest, type, offset, length : Findable(Reads(name, dest, type, offset, length))
BY DEF Findable, Reads

\* The commands of one circuit that read.
LEMMA HkReads ==
    ASSUME NEW type \in HkBases
    PROVE  /\ Reads("hk requestdata", RC3x, type, 0, 42) \in Commands
           /\ Reads("hk getactiveschedule", RC3x, type + 2, 84, 1) \in Commands
           /\ Reads("hk getvacation", RC3x, type + 2, 87, 2 * HolidayEntrySize) \in Commands
           /\ Reads("hk getholiday", RC3x, type + 2, 93, 2 * HolidayEntrySize) \in Commands
           /\ \A s \in 1..2 : Reads("hk getcustomschedule", RC3x, type + (s - 1) * 3 + 2,
                                    0, 42 * ScheduleEntrySize) \in Commands
<1>1. HkCommands(type) \subseteq Commands
  BY Zenon DEF Commands
<1>2. HkModes(type) \subseteq HkCommands(type) /\ HkSchedules(type) \subseteq HkCommands(type)
  BY Zenon DEF HkCommands
<1>3. Reads("hk requestdata", RC3x, type, 0, 42) \in HkModes(type)
  BY Zenon DEF HkModes
<1>4. /\ Reads("hk getactiveschedule", RC3x, type + 2, 84, 1) \in HkSchedules(type)
      /\ Reads("hk getvacation", RC3x, type + 2, 87, 2 * HolidayEntrySize) \in HkSchedules(type)
      /\ Reads("hk getholiday", RC3x, type + 2, 93, 2 * HolidayEntrySize) \in HkSchedules(type)
  BY Zenon DEF HkSchedules
<1>5. ASSUME NEW s \in 1..2
      PROVE  Reads("hk getcustomschedule", RC3x, type + (s - 1) * 3 + 2,
                   0, 42 * ScheduleEntrySize) \in HkSchedules(type)
  <2> DEFINE r == Reads("hk getcustomschedule", RC3x, type + (s - 1) * 3 + 2,
                        0, 42 * ScheduleEntrySize)
  <2>1. r \in GetSchedule("hk getcustomschedule", type + (s - 1) * 3 + 2)
    BY Zenon DEF GetSchedule
  <2> DEFINE U(k) == CustomSchedule("hk customschedule", type + (k - 1) * 3 + 2)
                     \cup GetSchedule("hk getcustomschedule", type + (k - 1) * 3 + 2)
  <2>2. UNION {U(k) : k \in 1..2} \subseteq HkSchedules(type)
    BY Zenon DEF HkSchedules
  <2> HIDE DEF r
  <2>3. r \in U(s)
    BY <2>1
  <2> HIDE DEF U
  <2>4. r \in UNION {U(k) : k \in 1..2}
    BY <2>3, Zenon
  <2> QED BY <2>2, <2>4, Zenon DEF r
<1> QED BY <1>1, <1>2, <1>3, <1>4, <1>5, Zenon

\* What is shown of a circuit: its settings, its two schedules, and behind the first
\* of them which one is active, how long to pause and to stay up, and two holidays.
LEMMA HkShown ==
    ASSUME NEW type \in HkBases
    PROVE  /\ \A offset \in 0..41 : Shown(RC3x, type, offset, 1)
           /\ Shown(RC3x, type, 32, 2)
           /\ \A offset \in 84..86 : Shown(RC3x, type + 2, offset, 1)
           /\ Shown(RC3x, type + 2, 87, 6) /\ Shown(RC3x, type + 2, 93, 6)
           /\ \A offset \in 0..82, s \in 1..2 :
                Shown(RC3x, type + (s - 1) * 3 + 2, offset, 2)
<1>1. Area(RC3x, type, 0, 42) \in InitialRanges
  BY HkReads, RangeOfRead
<1>2. Area(RC3x, type, 0, 42) \in ReadRanges
  BY <1>1, RangesFollow, Zenon
<1>3. Area(RC3x, type + 2, 85, 2) \in ReadRanges
  <2> DEFINE x == Area(RC3x, type, 0, 42)
             y == Area(RC3x, type + 1, 0, 20)
             z == Area(RC3x, type + 2, 85, 2)
  <2>1. x.dest = RC3x /\ x.type = type /\ y.dest = RC3x /\ y.type = type + 1
    BY DEF Area
  <2>2. type \in {61, 71, 81, 91} /\ type \in Int
    BY DEF HkBases
  <2>3. FollowUp(RC3x, type) = <<y>>
    BY <2>2 DEF FollowUp, HkBases, Range4, Area
  <2>4. FollowUp(RC3x, type + 1) = <<z>>
    <3>1. (type + 1) + 1 = type + 2
      BY <2>2
    <3>2. type + 1 \notin {2, 16, 18, 21, 51, 52} /\ type + 1 \notin HkBases
      BY <2>2 DEF HkBases
    <3>3. (type + 1) - 1 \in HkBases
      BY <2>2 DEF HkBases
    <3>4. FollowUp(RC3x, type + 1) = Range4(RC3x, (type + 1) + 1, 85, 2)
      BY <3>2, <3>3 DEF FollowUp
    <3> QED BY <3>1, <3>4 DEF Range4, Area
  <2> HIDE DEF x, y, z
  <2>5. <<y>> # <<>> /\ <<y>>[1] = y /\ <<z>> # <<>> /\ <<z>>[1] = z
    OBVIOUS
  <2>6. x \in InitialRanges
    BY <1>1 DEF x
  <2>7. z \in ReadRanges
    BY <2>1, <2>3, <2>4, <2>5, <2>6, RangesFollow
  <2> QED BY <2>7 DEF z
<1>4. Area(RC3x, type + 2, 84, 1) \in ReadRanges
  BY HkReads, RangeOfRead, RangesFollow, Zenon
<1>5. /\ Area(RC3x, type + 2, 87, 6) \in ReadRanges
      /\ Area(RC3x, type + 2, 93, 6) \in ReadRanges
  <2>1. 2 * HolidayEntrySize = 6
    BY DEF HolidayEntrySize
  <2>2. /\ Area(RC3x, type + 2, 87, 2 * HolidayEntrySize) \in InitialRanges
        /\ Area(RC3x, type + 2, 93, 2 * HolidayEntrySize) \in InitialRanges
    BY HkReads, RangeOfRead, Zenon
  <2> QED BY <2>1, <2>2, RangesFollow
<1>6. ASSUME NEW s \in 1..2
      PROVE  Area(RC3x, type + (s - 1) * 3 + 2, 0, 84) \in ReadRanges
  <2>1. 42 * ScheduleEntrySize = 84
    BY DEF ScheduleEntrySize
  <2>2. Area(RC3x, type + (s - 1) * 3 + 2, 0, 42 * ScheduleEntrySize) \in InitialRanges
    BY HkReads, RangeOfRead, Zenon
  <2> QED BY <2>1, <2>2, RangesFollow
<1>7. \A offset \in 0..41 : Shown(RC3x, type, offset, 1)
  BY <1>2, ShownIn
<1>8. Shown(RC3x, type, 32, 2)
  BY <1>2, ShownIn
<1>9. \A offset \in 84..86 : Shown(RC3x, type + 2, offset, 1)
  BY <1>3, <1>4, ShownIn
<1>10. Shown(RC3x, type + 2, 87, 6) /\ Shown(RC3x, type + 2, 93, 6)
  BY <1>5, ShownIn
<1>11. \A offset \in 0..82, s \in 1..2 : Shown(RC3x, type + (s - 1) * 3 + 2, offset, 2)
  BY <1>6, ShownIn
<1> QED BY <1>7, <1>8, <1>9, <1>10, <1>11

\* What is shown of the hot water, the boiler and the room controller.
LEMMA DevicesShown ==
    /\ \A offset \in 0..9 : Shown(UBA, 51, offset, 1)
    /\ \A offset \in 0..11 : Shown(RC3x, 55, offset, 1)
    /\ \A offset \in 0..82, type \in {56, 57} : Shown(RC3x, type, offset, 2)
    /\ \A offset \in 0..24 : Shown(RC3x, 165, offset, 1)
    /\ Shown(RC3x, 164, 0, 21) /\ Shown(RC3x, 164, 21, 21)
    /\ Shown(UBA, 21, 0, 5)
    /\ \A offset \in 0..18 : Shown(UBA, 22, offset, 1) /\ Shown(UBA, 22, offset, 2)
<1>1. /\ Reads("ww requestdata", UBA, 51, 0, 10) \in Commands
      /\ Reads("ww getcustomschedule", RC3x, 56, 0, 42 * ScheduleEntrySize) \in Commands
      /\ Reads("ww zirkpump getcustomschedule", RC3x, 57, 0, 42 * ScheduleEntrySize)
           \in Commands
  <2>1. WwCommands \subseteq Commands /\ ZirkPumpCommands \subseteq Commands
    BY Zenon DEF Commands
  <2>2. /\ Reads("ww requestdata", UBA, 51, 0, 10) \in WwCommands
        /\ GetSchedule("ww getcustomschedule", 56) \subseteq WwCommands
    BY Zenon DEF WwCommands
  <2>3. GetSchedule("ww zirkpump getcustomschedule", 57) \subseteq ZirkPumpCommands
    BY Zenon DEF ZirkPumpCommands
  <2> QED BY <2>1, <2>2, <2>3, Zenon DEF GetSchedule
<1>2. /\ Reads("rc requestdata", RC3x, 165, 0, 25) \in Commands
      /\ Reads("rc getcontactinfo", RC3x, 164, 0, 42) \in Commands
  <2>1. RcCommands \subseteq Commands
    BY Zenon DEF Commands
  <2>2. Reads("rc requestdata", RC3x, 165, 0, 25) \in RcCommands
    BY Zenon DEF RcCommands
  <2>3. Reads("rc getcontactinfo", RC3x, 164, 0, 42) \in RcCommands
    BY Zenon DEF RcCommands
  <2> QED BY <2>1, <2>2, <2>3, Zenon
<1>3. Reads("uba requestdata", UBA, 21, 0, 5) \in Commands
  <2>1. UbaCommands \subseteq Commands
    BY Zenon DEF Commands
  <2>2. Reads("uba requestdata", UBA, 21, 0, 5) \in UbaCommands
    BY Zenon DEF UbaCommands
  <2> QED BY <2>1, <2>2, Zenon
<1>4. 42 * ScheduleEntrySize = 84
  BY DEF ScheduleEntrySize
<1>5. /\ Area(UBA, 51, 0, 10) \in InitialRanges
      /\ Area(RC3x, 56, 0, 42 * ScheduleEntrySize) \in InitialRanges
      /\ Area(RC3x, 57, 0, 42 * ScheduleEntrySize) \in InitialRanges
  BY <1>1, RangeOfRead, Zenon
<1>6. /\ Area(RC3x, 165, 0, 25) \in InitialRanges /\ Area(RC3x, 164, 0, 42) \in InitialRanges
      /\ Area(UBA, 21, 0, 5) \in InitialRanges
  <2>1. Area(RC3x, 165, 0, 25) \in InitialRanges
    BY <1>2, RangeOfRead, Zenon
  <2>2. Area(RC3x, 164, 0, 42) \in InitialRanges
    BY <1>2, RangeOfRead, Zenon
  <2>3. Area(UBA, 21, 0, 5) \in InitialRanges
    BY <1>3, RangeOfRead, Zenon
  <2> QED BY <2>1, <2>2, <2>3
<1>7. /\ Area(UBA, 51, 0, 10) \in ReadRanges /\ Area(RC3x, 165, 0, 25) \in ReadRanges
      /\ Area(RC3x, 164, 0, 42) \in ReadRanges /\ Area(UBA, 21, 0, 5) \in ReadRanges
  BY <1>5, <1>6, RangesFollow, Zenon
<1>8. Area(RC3x, 56, 0, 84) \in ReadRanges /\ Area(RC3x, 57, 0, 84) \in ReadRanges
  BY <1>4, <1>5, RangesFollow
<1>9. Area(UBA, 22, 0, 20) \in ReadRanges
  <2> DEFINE x == Area(UBA, 21, 0, 5)  y == Area(UBA, 22, 0, 20)
  <2>1. x.dest = UBA /\ x.type = 21
    BY DEF Area
  <2>2. FollowUp(UBA, 21) = <<y>>
    BY DEF FollowUp, HkBases, Range4, Area
  <2> HIDE DEF x, y
  <2>3. <<y>> # <<>> /\ <<y>>[1] = y
    OBVIOUS
  <2>4. x \in InitialRanges
    BY <1>6 DEF x
  <2>5. y \in ReadRanges
    BY <2>1, <2>2, <2>3, <2>4, RangesFollow
  <2> QED BY <2>5 DEF y
<1>10. Area(RC3x, 55, 0, 12) \in ReadRanges
  <2> DEFINE x == Area(UBA, 51, 0, 10)  y == Area(UBA, 52, 0, 12)
             z == Area(RC3x, 55, 0, 12)
  <2>1. x.dest = UBA /\ x.type = 51 /\ y.dest = UBA /\ y.type = 52
    BY DEF Area
  <2>2. FollowUp(UBA, 51) = <<y>>
    BY DEF FollowUp, HkBases, Range4, Area
  <2>3. FollowUp(UBA, 52) = <<z>>
    BY DEF FollowUp, HkBases, Range4, Area
  <2> HIDE DEF x, y, z
  <2>4. <<y>> # <<>> /\ <<y>>[1] = y /\ <<z>> # <<>> /\ <<z>>[1] = z
    OBVIOUS
  <2>5. x \in InitialRanges
    BY <1>5 DEF x
  <2>6. z \in ReadRanges
    BY <2>1, <2>2, <2>3, <2>4, <2>5, RangesFollow
  <2> QED BY <2>6 DEF z
<1>11. \A offset \in 0..9 : Shown(UBA, 51, offset, 1)
  BY <1>7, ShownIn
<1>12. \A offset \in 0..11 : Shown(RC3x, 55, offset, 1)
  BY <1>10, ShownIn
<1>13. \A offset \in 0..82 : Shown(RC3x, 56, offset, 2) /\ Shown(RC3x, 57, offset, 2)
  BY <1>8, ShownIn
<1>14. \A offset \in 0..24 : Shown(RC3x, 165, offset, 1)
  BY <1>7, ShownIn
<1>15. Shown(RC3x, 164, 0, 21) /\ Shown(RC3x, 164, 21, 21)
  BY <1>7, ShownIn
<1>16. Shown(UBA, 21, 0, 5)
  BY <1>7, ShownIn
<1>17. \A offset \in 0..18 : Shown(UBA, 22, offset, 1) /\ Shown(UBA, 22, offset, 2)
  BY <1>9, ShownIn
<1> QED BY <1>11, <1>12, <1>13, <1>14, <1>15, <1>16, <1>17

\* A schedule's entries are shown by getcustomschedule, but for entry 0.
LEMMA ScheduleFindable ==
    ASSUME NEW type \in {56, 57} \cup ScheduleTypes,
           \A offset \in 0..82 : Shown(RC3x, type, offset, 2)
    PROVE  /\ \A name : AllFindable(CustomSchedule(name, type))
           /\ \A name : AllFindable(GetSchedule(name, type))
<1>1. ASSUME NEW name, NEW index \in 0..42, NEW entry \in ScheduleEntries
      PROVE  Findable(Sends(name, RC3x, type, (index - 1) * ScheduleEntrySize, entry))
  <2>1. Len(entry) = 2
    <3>1. \A a, b : Len(<<a, b>>) = 2
      OBVIOUS
    <3>2. \E a, b : entry = <<a, b>>
      BY DEF ScheduleEntries
    <3> QED BY <3>1, <3>2, Zenon
  <2>2. CASE index = 0
    <3> DEFINE c == Sends(name, RC3x, type, (index - 1) * ScheduleEntrySize, entry)
    <3>1. c.type = type /\ c.offset = ((index - 1) * ScheduleEntrySize) % 256
      BY DEF Sends
    <3>2. ((index - 1) * ScheduleEntrySize) % 256 = 254
      <4> DEFINE k == (index - 1) * ScheduleEntrySize
      <4>1. k \in Int /\ k + 256 = 254
        BY <2>2 DEF ScheduleEntrySize
      <4> HIDE DEF k
      <4>2. k % 256 = (k + 256) % 256
        BY <4>1
      <4>3. 254 % 256 = 254
        OBVIOUS
      <4> QED BY <4>1, <4>2, <4>3 DEF k
    <3> HIDE DEF c
    <3>3. IndexZero(c)
      BY <3>1, <3>2 DEF IndexZero
    <3> QED BY <3>3, Zenon DEF Findable, c
  <2>3. CASE index # 0
    <3> DEFINE offset == (index - 1) * ScheduleEntrySize
    <3>1. offset \in 0..82 /\ offset \in 0..255
      BY <2>3 DEF ScheduleEntrySize
    <3> HIDE DEF offset
    <3>2. Shown(RC3x, type, offset, Len(entry))
      BY <2>1, <3>1
    <3>3. Findable(Sends(name, RC3x, type, offset, entry))
      BY <3>1, <3>2, SendsFindable, Zenon
    <3> QED BY <3>3 DEF offset
  <2> QED BY <2>2, <2>3
<1>2. \A name : AllFindable(CustomSchedule(name, type))
  BY <1>1, Zenon DEF AllFindable, CustomSchedule
<1>3. \A name : AllFindable(GetSchedule(name, type))
  BY ReadsFindable, Zenon DEF AllFindable, GetSchedule
<1> QED BY <1>2, <1>3

\* The holidays.
LEMMA HolidayFindable ==
    ASSUME NEW type, NEW offset \in 0..255, Shown(RC3x, type, offset, 6)
    PROVE  \A name : AllFindable(SetHoliday(name, type, offset))
<1>1. \A b, e : Len(HolidayEntry(b) \o HolidayEntry(e)) = 6
  BY DEF HolidayEntry
<1>2. \A name, b, e :
        Findable(Sends(name, RC3x, type, offset, HolidayEntry(b) \o HolidayEntry(e)))
  BY <1>1, SendsFindable
<1> QED BY <1>2, Zenon DEF AllFindable, SetHoliday

Only(S, name, dest, type, offset, n) ==
    \A c \in S : \E data : Len(data) = n /\ c = Sends(name, dest, type, offset, data)

\* Sets of commands that send the same number of bytes to one place.
LEMMA AllSendsFindable ==
    ASSUME NEW dest, NEW type, NEW offset \in 0..255, NEW n,
           Shown(dest, type, offset, n), NEW name, NEW S,
           Only(S, name, dest, type, offset, n)
    PROVE  AllFindable(S)
<1>1. \A data : Len(data) = n => Findable(Sends(name, dest, type, offset, data))
  BY SendsFindable
<1> QED BY <1>1, Zenon DEF AllFindable, Only

\* handleRcCommand
LEMMA RcFindable == AllFindable(RcCommands)
<1> DEFINE
      R == {Reads("rc requestdata", RC3x, 165, 0, 25),
            Reads("rc getcontactinfo", RC3x, 164, 0, 42),
            Reads("rc geterrors", RC3x, 18, 0, 4 * ErrorRecordSize)}
      A == SingleByteValue("rc mintemperature", RC3x, 165, 5, 1, -30, 0)
      B == Choice("rc buildingtype", RC3x, 165, 6, 0..2)
      C == Choice("rc outdoortempdamping", RC3x, 165, 21, OnOff)
      D == {Sends("rc setcontactinfo", RC3x, 164, (line - 1) * 21,
                  [i \in 1..21 |-> 32]) : line \in 1..2}
      E == {Sends("rc settime", RC3x, 6, 0, [i \in 1..SystemTimeRecordSize |-> 0])}
<1>1. RcCommands = R \cup A \cup B \cup C \cup D \cup E
  BY Zenon DEF RcCommands
<1>2. AllFindable(R)
  BY ReadsFindable, Zenon DEF AllFindable
<1>3. /\ Shown(RC3x, 165, 5, 1) /\ 5 \in 0..255 /\ Shown(RC3x, 165, 6, 1) /\ 6 \in 0..255
      /\ Shown(RC3x, 165, 21, 1) /\ 21 \in 0..255
  BY DevicesShown
<1>4. AllFindable(A)
  BY <1>3, ChoiceFindable, Zenon
<1>5. AllFindable(B)
  BY <1>3, ChoiceFindable, Zenon
<1>6. AllFindable(C)
  BY <1>3, ChoiceFindable, Zenon
<1>7. AllFindable(D)
  <2> DEFINE text == [i \in 1..21 |-> 32]
  <2>1. Len(text) = 21
    OBVIOUS
  <2> HIDE DEF text
  <2>2. Findable(Sends("rc setcontactinfo", RC3x, 164, 0, text))
    <3>1. 0 \in 0..255 /\ Shown(RC3x, 164, 0, Len(text))
      BY <2>1, DevicesShown
    <3> QED BY <3>1, SendsFindable, Zenon
  <2>3. Findable(Sends("rc setcontactinfo", RC3x, 164, 21, text))
    <3>1. 21 \in 0..255 /\ Shown(RC3x, 164, 21, Len(text))
      BY <2>1, DevicesShown
    <3> QED BY <3>1, SendsFindable, Zenon
  <2>4. \A line \in 1..2 : (line - 1) * 21 = 0 \/ (line - 1) * 21 = 21
    OBVIOUS
  <2> SUFFICES ASSUME NEW line \in 1..2
               PROVE  Findable(Sends("rc setcontactinfo", RC3x, 164, (line - 1) * 21, text))
    BY Zenon DEF AllFindable, text
  <2> QED BY <2>2, <2>3, <2>4
<1>8. AllFindable(E)
  <2>1. <<RC3x, 6>> \in Triggers
    BY DEF Triggers
  <2> QED BY <2>1, TriggersFindable, Zenon DEF AllFindable
<1> HIDE DEF R, A, B, C, D, E
<1> QED BY <1>1, <1>2, <1>4, <1>5, <1>6, <1>7, <1>8, Zenon DEF AllFindable

\* handleUbaCommand
LEMMA UbaFindable == AllFindable(UbaCommands)
<1> DEFINE
      R == {Reads("uba requestdata", UBA, 21, 0, 5),
            Reads("uba geterrors", UBA, 16, 0, 8 * ErrorRecordSize),
            Reads("uba checkmaintenanceneeded", UBA, 28, 5, 3)}
      V == IntParameter("uba antipendel", UBA, 22, 6, 0, 120)
      W == SingleByteValue("uba hyst on", UBA, 22, 5, 1, -20, -1)
      X == SingleByteValue("uba hyst off", UBA, 22, 4, 1, 1, 20)
      Y == IntParameter("uba pumpdelay", UBA, 22, 8, 0, 120)
      A == {Sends("uba burnermodulation", UBA, 22, 2, mm) :
              mm \in {x \in MinMax : x[2] <= x[1]}}
      B == {Sends("uba pumpmodulation", UBA, 22, 9, mm) :
              mm \in {x \in MinMax : x[2] <= x[1]}}
      C == {Sends("uba schedulemaintenance", UBA, 21, 0, <<0, 60, 1, 1, 4>>)}
      D == {Sends("uba schedulemaintenance", UBA, 21, 0, <<1, h, 1, 1, 4>>) : h \in 0..60}
      E == {Sends("uba schedulemaintenance", UBA, 21, 0, <<2, 60>> \o HolidayEntry(d)) :
              d \in Dates}
      F == {Sends("uba testmode", UBA, 29, 0,
                  <<mode>> \o [i \in 1..10 |-> 0]) : mode \in {90, 0}}
<1>1. UbaCommands = R \cup V \cup W \cup X \cup A \cup B \cup Y \cup C \cup D \cup E \cup F
  BY Zenon DEF UbaCommands
<1>2. AllFindable(R)
  BY ReadsFindable, Zenon DEF AllFindable
<1>3. /\ Shown(UBA, 22, 6, 1) /\ Shown(UBA, 22, 5, 1) /\ Shown(UBA, 22, 4, 1)
      /\ Shown(UBA, 22, 8, 1) /\ Shown(UBA, 22, 2, 2) /\ Shown(UBA, 22, 9, 2)
      /\ Shown(UBA, 21, 0, 5)
  BY DevicesShown
<1>4. /\ 6 \in 0..255 /\ 5 \in 0..255 /\ 4 \in 0..255 /\ 8 \in 0..255 /\ 2 \in 0..255
      /\ 9 \in 0..255 /\ 0 \in 0..255
  OBVIOUS
<1>5. AllFindable(V)
  BY <1>3, <1>4, ChoiceFindable, Zenon
<1>6. AllFindable(W)
  BY <1>3, <1>4, ChoiceFindable, Zenon
<1>7. AllFindable(X)
  BY <1>3, <1>4, ChoiceFindable, Zenon
<1>8. AllFindable(Y)
  BY <1>3, <1>4, ChoiceFindable, Zenon
<1>9. \A mm \in MinMax : Len(mm) = 2
  BY DEF MinMax
<1>10. AllFindable(A)
  <2>1. Only(A, "uba burnermodulation", UBA, 22, 2, 2)
    BY <1>9, Zenon DEF Only
  <2> HIDE DEF A
  <2>2. Shown(UBA, 22, 2, 2) /\ 2 \in 0..255
    BY <1>3, <1>4
  <2> QED BY <2>1, <2>2, AllSendsFindable, Zenon
<1>11. AllFindable(B)
  <2>1. Only(B, "uba pumpmodulation", UBA, 22, 9, 2)
    BY <1>9, Zenon DEF Only
  <2> HIDE DEF B
  <2>2. Shown(UBA, 22, 9, 2) /\ 9 \in 0..255
    BY <1>3, <1>4
  <2> QED BY <2>1, <2>2, AllSendsFindable, Zenon
<1>12. /\ Len(<<0, 60, 1, 1, 4>>) = 5 /\ \A h : Len(<<1, h, 1, 1, 4>>) = 5
       /\ \A d : Len(<<2, 60>> \o HolidayEntry(d)) = 5
  BY DEF HolidayEntry
<1>13. AllFindable(C)
  <2>1. Only(C, "uba schedulemaintenance", UBA, 21, 0, 5)
    BY <1>12, Zenon DEF Only
  <2> HIDE DEF C
  <2>2. Shown(UBA, 21, 0, 5) /\ 0 \in 0..255
    BY <1>3, <1>4
  <2> QED BY <2>1, <2>2, AllSendsFindable, Zenon
<1>14. AllFindable(D)
  <2>1. Only(D, "uba schedulemaintenance", UBA, 21, 0, 5)
    BY <1>12, Zenon DEF Only
  <2> HIDE DEF D
  <2>2. Shown(UBA, 21, 0, 5) /\ 0 \in 0..255
    BY <1>3, <1>4
  <2> QED BY <2>1, <2>2, AllSendsFindable, Zenon
<1>15. AllFindable(E)
  <2>1. Only(E, "uba schedulemaintenance", UBA, 21, 0, 5)
    BY <1>12, Zenon DEF Only
  <2> HIDE DEF E
  <2>2. Shown(UBA, 21, 0, 5) /\ 0 \in 0..255
    BY <1>3, <1>4
  <2> QED BY <2>1, <2>2, AllSendsFindable, Zenon
<1>16. AllFindable(F)
  <2>1. <<UBA, 29>> \in Triggers
    BY DEF Triggers
  <2> QED BY <2>1, TriggersFindable, Zenon DEF AllFindable
<1> HIDE DEF R, A, B, C, D, E, F, V, W, X, Y
<1> QED BY <1>1, <1>2, <1>5, <1>6, <1>7, <1>8, <1>10, <1>11, <1>13, <1>14, <1>15, <1>16,
           Zenon DEF AllFindable

\* handleWwCommand, handleThermDesinfectCommand and handleZirkPumpCommand
LEMMA WwFindable ==
    AllFindable(WwCommands) /\ AllFindable(ThermDesinfectCommands)
    /\ AllFindable(ZirkPumpCommands)
<1>1. /\ \A o \in {2, 7, 8} : Shown(UBA, 51, o, 1) /\ o \in 0..255
      /\ \A o \in {0, 1, 2, 3, 4, 5, 6, 8, 9} : Shown(RC3x, 55, o, 1) /\ o \in 0..255
  BY DevicesShown
<1>2. /\ \A o \in {2, 7, 8} : \A name, min, max :
           AllFindable(IntParameter(name, UBA, 51, o, min, max))
      /\ \A o \in {6, 8} : \A name, min, max :
           AllFindable(IntParameter(name, RC3x, 55, o, min, max))
      /\ \A o \in {0, 1, 2, 3, 4, 5, 9} : \A name, values :
           AllFindable(Choice(name, RC3x, 55, o, values))
  BY <1>1, ChoiceFindable
<1>3. \A name, values : AllFindable(Choice(name, UBA, 53, 0, values))
  <2>1. <<UBA, 53>> \in Triggers
    BY DEF Triggers
  <2> QED BY <2>1, TriggersFindable, Zenon DEF AllFindable, Choice
<1>4. \A type \in {56, 57} : \A name :
         /\ AllFindable(CustomSchedule(name, type))
         /\ AllFindable(GetSchedule(name, type))
  BY DevicesShown, ScheduleFindable
<1>5. AllFindable(WwCommands)
  <2> DEFINE
        R == {Reads("ww requestdata", UBA, 51, 0, 10)}
        A == Choice("ww mode", RC3x, 55, 2, 0..2)
        B == IntParameter("ww temperature", UBA, 51, 2, 30, 80)
        C == IntParameter("ww limittemperature", RC3x, 55, 8, 30, 80)
        D == Choice("ww loadonce", UBA, 53, 0, {35})
        E == Choice("ww cancelload", UBA, 53, 0, {3})
        F == Choice("ww showloadindicator", RC3x, 55, 9, OnOff)
        G == GetSchedule("ww getcustomschedule", 56)
        H == CustomSchedule("ww customschedule", 56)
        I == Choice("ww selectschedule", RC3x, 55, 0, OnOff)
  <2>1. WwCommands = R \cup A \cup B \cup C \cup D \cup E \cup F \cup G \cup H \cup I
    BY Zenon DEF WwCommands
  <2>2. AllFindable(R)
    BY ReadsFindable, Zenon DEF AllFindable
  <2>3. AllFindable(A) /\ AllFindable(F) /\ AllFindable(I)
    BY <1>2
  <2>4. AllFindable(B) /\ AllFindable(C)
    BY <1>2
  <2>5. AllFindable(D) /\ AllFindable(E)
    BY <1>3
  <2>6. AllFindable(G) /\ AllFindable(H)
    BY <1>4
  <2> HIDE DEF R, A, B, C, D, E, F, G, H, I
  <2> QED BY <2>1, <2>2, <2>3, <2>4, <2>5, <2>6, Zenon DEF AllFindable
<1>6. AllFindable(ThermDesinfectCommands)
  <2> DEFINE
        A == Choice("ww thermdesinfect mode", RC3x, 55, 4, OnOff)
        B == Choice("ww thermdesinfect day", RC3x, 55, 5, 0..7)
        C == IntParameter("ww thermdesinfect hour", RC3x, 55, 6, 0, 23)
        D == IntParameter("ww thermdesinfect temperature", UBA, 51, 8, 60, 80)
  <2>1. ThermDesinfectCommands = A \cup B \cup C \cup D
    BY Zenon DEF ThermDesinfectCommands
  <2>2. AllFindable(A) /\ AllFindable(B)
    BY <1>2
  <2>3. AllFindable(C) /\ AllFindable(D)
    BY <1>2
  <2> HIDE DEF A, B, C, D
  <2> QED BY <2>1, <2>2, <2>3, Zenon DEF AllFindable
<1>7. AllFindable(ZirkPumpCommands)
  <2> DEFINE
        A == Choice("ww zirkpump mode", RC3x, 55, 3, 0..2)
        B == IntParameter("ww zirkpump count", UBA, 51, 7, 1, 7)
        C == GetSchedule("ww zirkpump getcustomschedule", 57)
        D == CustomSchedule("ww zirkpump customschedule", 57)
        E == Choice("ww zirkpump selectschedule", RC3x, 55, 1, OnOff)
  <2>1. ZirkPumpCommands = A \cup B \cup C \cup D \cup E
    BY Zenon DEF ZirkPumpCommands
  <2>2. AllFindable(A) /\ AllFindable(B) /\ AllFindable(E)
    BY <1>2
  <2>3. AllFindable(C) /\ AllFindable(D)
    BY <1>4
  <2> HIDE DEF A, B, C, D, E
  <2> QED BY <2>1, <2>2, <2>3, Zenon DEF AllFindable
<1> QED BY <1>5, <1>6, <1>7

\* handleHkCommand, for one circuit.
LEMMA HkFindable ==
    ASSUME NEW type \in HkBases
    PROVE  AllFindable(HkCommands(type))
<1>1. /\ \A o \in {0, 1, 2, 3, 4, 6, 7, 15, 16, 17, 19, 22, 23, 25, 28,
                   37, 38, 39, 40, 41} : Shown(RC3x, type, o, 1) /\ o \in 0..255
      /\ \A o \in {84, 85, 86} : Shown(RC3x, type + 2, o, 1) /\ o \in 0..255
  BY HkShown
<1>2. /\ \A o \in {0, 7, 19, 25, 28, 37, 41} : \A name, values :
           AllFindable(Choice(name, RC3x, type, o, values))
      /\ \A o \in {1, 2, 3, 4, 6, 15, 16, 17, 22, 23, 38, 39, 40} : \A name, multiplier, min, max :
           AllFindable(SingleByteValue(name, RC3x, type, o, multiplier, min, max))
      /\ \A name, values : AllFindable(Choice(name, RC3x, type + 2, 84, values))
      /\ \A o \in {85, 86} : \A name, min, max :
           AllFindable(IntParameter(name, RC3x, type + 2, o, min, max))
  BY <1>1, ChoiceFindable
<1>3. /\ \A name : AllFindable(SetHoliday(name, type + 2, 87))
      /\ \A name : AllFindable(SetHoliday(name, type + 2, 93))
  <2>1. 87 \in 0..255 /\ 93 \in 0..255
    OBVIOUS
  <2> QED BY <2>1, HkShown, HolidayFindable
<1>4. ASSUME NEW s \in 1..2
      PROVE  \A name : /\ AllFindable(CustomSchedule(name, type + (s - 1) * 3 + 2))
                       /\ AllFindable(GetSchedule(name, type + (s - 1) * 3 + 2))
  <2> DEFINE t == type + (s - 1) * 3 + 2
  <2>1. t \in {56, 57} \cup ScheduleTypes
    <3>1. t \in {type + 2, type + 5}
      BY DEF HkBases
    <3> HIDE DEF t
    <3> QED BY <3>1, Zenon DEF ScheduleTypes
  <2>2. \A offset \in 0..82 : Shown(RC3x, t, offset, 2)
    BY HkShown
  <2> HIDE DEF t
  <2>3. \A name : AllFindable(CustomSchedule(name, t)) /\ AllFindable(GetSchedule(name, t))
    BY <2>1, <2>2, ScheduleFindable
  <2> QED BY <2>3 DEF t
<1>5. AllFindable(HkModes(type))
  <2> DEFINE
        R == {Reads("hk requestdata", RC3x, type, 0, 42)}
        A == Choice("hk mode", RC3x, type, 7, 0..2)
        B == SingleByteValue("hk daytemperature", RC3x, type, 2, 2, 5, 30)
        C == SingleByteValue("hk nighttemperature", RC3x, type, 1, 2, 5, 30)
        D == Choice("hk temperatureoverride", RC3x, type, 37, {0} \cup 10..60)
        E == SingleByteValue("hk vacationtemperature", RC3x, type, 3, 2, 5, 30)
        F == SetHoliday("hk holidaymode", type + 2, 93)
        G == SetHoliday("hk vacationmode", type + 2, 87)
        H == IntParameter("hk partymode", RC3x, type + 2, 86, 0, 99)
        I == IntParameter("hk pausemode", RC3x, type + 2, 85, 0, 99)
  <2>1. HkModes(type) = R \cup A \cup B \cup C \cup D \cup E \cup F \cup G \cup H \cup I
    BY Zenon DEF HkModes
  <2>2. AllFindable(R)
    BY ReadsFindable, Zenon DEF AllFindable
  <2>3. AllFindable(A) /\ AllFindable(D)
    BY <1>2
  <2>4. AllFindable(B) /\ AllFindable(C) /\ AllFindable(E)
    BY <1>2
  <2>5. AllFindable(F) /\ AllFindable(G)
    BY <1>3
  <2>6. AllFindable(H) /\ AllFindable(I)
    BY <1>2
  <2> HIDE DEF R, A, B, C, D, E, F, G, H, I
  <2> QED BY <2>1, <2>2, <2>3, <2>4, <2>5, <2>6, Zenon DEF AllFindable
<1>6. AllFindable(HkSchedules(type))
  <2> DEFINE
        U(s) == CustomSchedule("hk customschedule", type + (s - 1) * 3 + 2)
                \cup GetSchedule("hk getcustomschedule", type + (s - 1) * 3 + 2)
        A == UNION {U(s) : s \in 1..2}
        R == {Reads("hk getactiveschedule", RC3x, type + 2, 84, 1),
              Reads("hk getvacation", RC3x, type + 2, 87, 2 * HolidayEntrySize),
              Reads("hk getholiday", RC3x, type + 2, 93, 2 * HolidayEntrySize)}
        B == Choice("hk selectschedule", RC3x, type + 2, 84, 0..10)
  <2>1. HkSchedules(type) = A \cup R \cup B
    BY Zenon DEF HkSchedules
  <2>2. AllFindable(R)
    BY ReadsFindable, Zenon DEF AllFindable
  <2>3. \A s \in 1..2 : AllFindable(U(s))
    BY <1>4, Zenon DEF AllFindable
  <2> HIDE DEF U
  <2>4. AllFindable(A)
    BY <2>3, Zenon DEF AllFindable
  <2>5. AllFindable(B)
    BY <1>2
  <2> HIDE DEF A, B, R
  <2> QED BY <2>1, <2>2, <2>4, <2>5, Zenon DEF AllFindable
<1>7. AllFindable(HkSettings(type))
  <2> DEFINE
        A == Choice("hk scheduleoptimizer", RC3x, type, 19, OnOff)
        B == Choice("hk reductionmode", RC3x, type, 25, 0..3)
        C == HkHeatingSystem(type)
        D == Choice("hk vacationreductionmode", RC3x, type, 41, {2, 3})
        E == Choice("hk frostprotectmode", RC3x, type, 28, 0..2)
        F == Choice("hk heatingsystem", RC3x, type, 0, 0..4)
        G == {Sends("hk heatingsystem", RC3x, type, 32, system_control) :
                system_control \in (0..3) \X (0..1)}
  <2>1. HkSettings(type) = A \cup B \cup C \cup D \cup E
    BY Zenon DEF HkSettings
  <2>2. AllFindable(A) /\ AllFindable(B)
    BY <1>2
  <2>3. AllFindable(D) /\ AllFindable(E)
    BY <1>2
  <2>4. C = F \/ C = G \/ C = {}
    BY Zenon DEF HkHeatingSystem
  <2>5. AllFindable(F)
    BY <1>2
  <2>6. AllFindable(G)
    <3>1. \A x \in (0..3) \X (0..1) : Len(x) = 2
      OBVIOUS
    <3>2. Only(G, "hk heatingsystem", RC3x, type, 32, 2)
      BY <3>1, Zenon DEF Only
    <3> HIDE DEF G
    <3>3. Shown(RC3x, type, 32, 2) /\ 32 \in 0..255
      BY HkShown
    <3> QED BY <3>2, <3>3, AllSendsFindable, Zenon
  <2>7. AllFindable({})
    BY DEF AllFindable
  <2> HIDE DEF A, B, C, D, E, F, G
  <2>8. AllFindable(C)
    BY <2>4, <2>5, <2>6, <2>7, Zenon
  <2> QED BY <2>1, <2>2, <2>3, <2>8, Zenon DEF AllFindable
<1>8. AllFindable(HkLimits(type))
  <2> DEFINE
        A == SingleByteValue("hk mintemperature", RC3x, type, 16, 1, 5, 70)
        B == SingleByteValue("hk maxtemperature", RC3x, type, 15, 1, 30, 90)
        C == SingleByteValue("hk maxroomeffect", RC3x, type, 4, 2, 0, 10)
        D == SingleByteValue("hk roomtemperatureoffset", RC3x, type, 6, 2, -5, 5)
        E == SingleByteValue("hk designtemperature", RC3x, type, 17, 1, 30, 90)
        F == SingleByteValue("hk frostprotecttemperature", RC3x, type, 23, 1, -20, 10)
        G == SingleByteValue("hk summerwinterthreshold", RC3x, type, 22, 1, 0, 30)
        H == SingleByteValue("hk reducedmodethreshold", RC3x, type, 39, 1, -20, 10)
        I == SingleByteValue("hk vacationreducedmodethreshold", RC3x, type, 40, 1, -20, 10)
        J == SingleByteValue("hk cancelreducedmodethreshold", RC3x, type, 38, 1, -31, 10)
  <2>1. HkLimits(type) = A \cup B \cup C \cup D \cup E \cup F \cup G \cup H \cup I \cup J
    BY Zenon DEF HkLimits
  <2>2. AllFindable(A) /\ AllFindable(B) /\ AllFindable(C)
    BY <1>2
  <2>3. AllFindable(D) /\ AllFindable(E) /\ AllFindable(F)
    BY <1>2
  <2>4. AllFindable(G) /\ AllFindable(H)
    BY <1>2
  <2>5. AllFindable(I) /\ AllFindable(J)
    BY <1>2
  <2> HIDE DEF A, B, C, D, E, F, G, H, I, J
  <2> QED BY <2>1, <2>2, <2>3, <2>4, <2>5, Zenon DEF AllFindable
<1> QED BY <1>5, <1>6, <1>7, <1>8, Zenon DEF AllFindable, HkCommands

\* Every command, the raw ones apart.
LEMMA CommandsFindable == AllFindable(Commands \ RawReadWrite)
<1>1. \A type \in HkBases : AllFindable(HkCommands(type))
  BY HkFindable
<1>2. Findable(Reads("getversion", UBA, 2, 0, 3))
  BY ReadsFindable, Zenon
<1>3. ASSUME NEW c \in Commands \ RawReadWrite PROVE Findable(c)
  <2>1. \/ \E type \in HkBases : c \in HkCommands(type)
        \/ c \in WwCommands \/ c \in ThermDesinfectCommands
        \/ c \in ZirkPumpCommands \/ c \in RcCommands \/ c \in UbaCommands
        \/ c = Reads("getversion", UBA, 2, 0, 3)
    BY Zenon DEF Commands
  <2> QED BY <1>1, <1>2, <2>1, WwFindable, RcFindable, UbaFindable, Zenon DEF AllFindable
<1> QED BY <1>3, Zenon DEF AllFindable

\* What keeps it true: only parse makes a write, of what was typed, and what is
\* sent again was sent before.  It does not need what is known of the fields that
\* the constructor leaves alone, so it survives a parser that starts anew.
FoundInv ==
    /\ WellFormed(parser) /\ Contiguous(parser)
    /\ SentInv /\ WritesAreReadable

\* What one call sends is found if its requests are.
LEMMA SendsFound ==
    ASSUME FoundInv, NEW o, Become(o), WellFormed(o.parser), Contiguous(o.parser),
           \/ o.sends = <<>> /\ (o.parser.active = <<>> \/ o.parser.active = parser.active)
           \/ o.sends = parser.active /\ o.parser.active = parser.active
           \/ o.sends # <<>> /\ o.sends = o.parser.active /\ Findable(o.sends[1])
    PROVE  FoundInv'
<1>1. parser' = o.parser /\ asked' = asked \cup ToSet(o.sends)
  BY DEF Become
<1>2. /\ asked \subseteq Requests /\ WritesAreReadable
      /\ parser.active # <<>> => parser.active = <<parser.active[1]>> /\ parser.active[1] \in asked
  BY DEF FoundInv, SentInv, WellFormed
<1>3. CASE \/ o.sends = <<>> /\ (o.parser.active = <<>> \/ o.parser.active = parser.active)
           \/ o.sends = parser.active /\ o.parser.active = parser.active
  <2>1. asked' = asked
    <3>1. CASE o.sends = <<>>
      BY <1>1, <3>1, OneSent
    <3>2. CASE o.sends # <<>>
      <4>1. PICK x \in asked : o.sends = <<x>>
        BY <1>2, <1>3, <3>2
      <4> QED BY <1>1, <4>1, OneSent
    <3> QED BY <3>1, <3>2
  <2>2. SentInv' /\ WritesAreReadable'
    BY <1>1, <1>2, <1>3, <2>1 DEF SentInv, WritesAreReadable
  <2> QED BY <1>1, <2>2 DEF FoundInv
<1>4. CASE o.sends # <<>> /\ o.sends = o.parser.active /\ Findable(o.sends[1])
  <2>1. PICK x \in Requests : o.sends = <<x>> /\ o.parser.active = <<x>>
    BY <1>4 DEF WellFormed
  <2>2. asked' = asked \cup {x}
    BY <1>1, <2>1, OneSent
  <2>3. Findable(x)
    BY <1>4, <2>1
  <2>4. SentInv'
    BY <1>1, <1>2, <2>1, <2>2 DEF SentInv
  <2>5. WritesAreReadable'
    BY <1>2, <2>2, <2>3 DEF WritesAreReadable, Findable
  <2> QED BY <1>1, <2>4, <2>5 DEF FoundInv
<1> QED BY <1>3, <1>4

\* A line asks for a range, or writes what the line says where it says.
LEMMA ParseLineFound ==
    ASSUME Lines \cap RawReadWrite = {}, FoundInv, NEW c \in Lines, ParseLine(c)
    PROVE  FoundInv'
<1> DEFINE o == Parse(parser, c)
<1>1. c \in Commands \ RawReadWrite
  BY LinesAssumption
<1>2. Become(o)
  BY DEF ParseLine
<1>3. WellFormed(parser) /\ Contiguous(parser)
  BY DEF FoundInv
<1>4. Sound(parser, o.parser) /\ ParsedTo(parser, c, o)
  BY <1>1, <1>3, ParseEnds
<1>5. Asked(o) => Findable(o.sends[1])
  <2> SUFFICES ASSUME Asked(o) PROVE Findable(o.sends[1])
    OBVIOUS
  <2>0. parser.active = <<>>
    BY DEF Asked, Parse, Stay
  <2>1. CASE c.read
    <3> DEFINE q == StartRequest(parser, c.dest, c.type, c.offset, c.length, c.raw)
    <3>1. o = Ask(q)
      BY <2>0, <2>1 DEF Parse
    <3>2. o.sends = q.active
      BY <3>1 DEF Ask, Stay
    <3>3. q.active = <<>> \/ q.active[1].read
      BY <2>0 DEF StartRequest, ContinueRequest, SendCommand, Request
    <3> QED BY <3>2, <3>3 DEF Asked, Findable
  <2>2. CASE ~c.read
    <3> DEFINE r == Request(c.dest, c.type, c.offset, c.data, FALSE)
    <3>1. o = Ask(SendCommand(parser, r))
      BY <2>0, <2>2 DEF Parse
    <3>2. o.sends = <<r>>
      <4> HIDE DEF r
      <4> QED BY <3>1 DEF Ask, Stay, SendCommand
    <3>3. Findable(c)
      BY <1>1, CommandsFindable DEF AllFindable
    <3>4. r.dest = c.dest /\ r.type = c.type /\ r.offset = c.offset /\ r.data = c.data
      BY DEF Request
    <3> HIDE DEF r
    <3>5. Findable(r)
      BY <2>2, <3>3, <3>4 DEF Findable, Readable, IndexZero
    <3> QED BY <3>2, <3>5
  <2> QED BY <2>1, <2>2
<1> HIDE DEF o
<1> QED BY <1>2, <1>4, <1>5, SendsFound DEF Sound, ParsedTo, Asked

\* A message makes the parser ask for a range, or nothing.
LEMMA AnswerFound ==
    ASSUME FoundInv, AnswerArrives
    PROVE  FoundInv'
<1>1. PICK r \in asked : \E m \in DeviceAnswers(r, Pieces0) :
         \E o \in OnIncomingMessage(parser, m) : MessageHandled(o)
  BY DEF AnswerArrives
<1>2. PICK m \in DeviceAnswers(r, Pieces0) :
         \E o \in OnIncomingMessage(parser, m) : MessageHandled(o)
  BY <1>1
<1>3. PICK o \in OnIncomingMessage(parser, m) : MessageHandled(o)
  BY <1>2
<1>4. Become(o)
  BY <1>3 DEF MessageHandled
<1>5. WellFormed(parser) /\ Contiguous(parser)
  BY DEF FoundInv
<1>6. IsMessage(m)
  BY PiecesAssumption, DevicesSay DEF FoundInv, SentInv
<1>7. Kept(parser, o) /\ (o = Stay(parser) \/ Ended(parser, o))
  BY <1>5, <1>6, MessageEnds
<1>8. WellFormed(o.parser) /\ Contiguous(o.parser)
  BY <1>7 DEF Kept, Sound
<1>9. o = Stay(parser) => o.sends = <<>> /\ o.parser = parser
  BY DEF Stay
<1> QED BY <1>4, <1>7, <1>8, <1>9, SendsFound
        DEF Ended, Over, ReadsOn, Asked, FailedFor, Findable

\* A timeout repeats what was sent, or sends nothing.
LEMMA TimeoutFound ==
    ASSUME FoundInv, TimeoutReported
    PROVE  FoundInv'
<1> DEFINE o == OnTimeout(parser)
<1>1. Become(o) /\ parser.active # <<>>
  BY DEF TimeoutReported
<1>2. WellFormed(parser) /\ Contiguous(parser)
  BY DEF FoundInv
<1>3. Kept(parser, o)
  BY <1>2, TimeoutEnds
<1>4. Over(o) \/ (o.parser.active = parser.active /\ o.sends = parser.active)
  BY <1>1, <1>2, TimeoutEnds
<1> HIDE DEF o
<1> QED BY <1>1, <1>3, <1>4, SendsFound DEF Kept, Sound, Over

\* Whatever a user can set with a command and the device keeps, some read command
\* shows, unless the client uses the raw command, which writes anywhere.
THEOREM WritesCanBeRead ==
    ASSUME Lines \cap RawReadWrite = {}
    PROVE  Spec => []WritesAreReadable
<1>1. Init => FoundInv
  BY NewParserIs DEF Init, FoundInv, SentInv, WritesAreReadable
<1>2. FoundInv /\ [Next]_vars => FoundInv'
  <2> SUFFICES ASSUME FoundInv, [Next]_vars PROVE FoundInv'
    OBVIOUS
  <2>1. CASE \E c \in Lines : ParseLine(c)
    BY <2>1, ParseLineFound
  <2>2. CASE AnswerArrives
    BY <2>2, AnswerFound
  <2>3. CASE TimeoutReported
    BY <2>3, TimeoutFound
  <2>4. CASE UNCHANGED vars
    BY <2>4 DEF vars, FoundInv, SentInv, WritesAreReadable
  <2> QED BY <2>1, <2>2, <2>3, <2>4 DEF Next
<1>3. FoundInv => WritesAreReadable
  BY DEF FoundInv
<1> QED BY <1>1, <1>2, <1>3, PTL DEF Spec
=============================================================================
