------------------------- MODULE ApiRequestsProofs -------------------------
(***************************************************************************)
(* What the methods of ApiCommandParser preserve, for every state of the   *)
(* parser's fields they may find, every command, and every message a       *)
(* device can send.  The lemmas are about the operators of ApiRequests;    *)
(* the modules that call them from their actions cite them.                *)
(***************************************************************************)
EXTENDS ApiRequests, SequenceTheorems, TLAPS

-----------------------------------------------------------------------------
(* What is known of a parser. *)

\* The devices asked, those of the fields not initialised included; the types of the
\* tables, and what a request carries: the number of bytes to read, or a command's.
Dests == {UBA, BC10, RC3x} \cup {c.dest : c \in Commands} \cup {g.dest : g \in Garbage}
Types == Int \cup {c.type : c \in Commands}
Payloads == {<<n>> : n \in 0..255} \cup {c.data : c \in Commands}

Requests ==
    [dest : Dests, type : Types, offset : 0..255, data : Payloads, read : BOOLEAN]

\* The record that NewParser makes, with these fields.
Fields(active, retriesLeft, dest, type, offset, length, response, parsed, raw) ==
    [active |-> active, retriesLeft |-> retriesLeft, dest |-> dest, type |-> type,
     offset |-> offset, length |-> length, response |-> response,
     parsed |-> parsed, raw |-> raw]

HasFields(p) ==
    p = Fields(p.active, p.retriesLeft, p.dest, p.type, p.offset, p.length,
               p.response, p.parsed, p.raw)

\* A parser: at most one request, which has a retry left while it is
\* active, and a range that no read command takes beyond 255 bytes.
WellFormed(p) ==
    /\ HasFields(p)
    /\ p.active = <<>> \/ (p.active = <<p.active[1]>> /\ p.active[1] \in Requests)
    /\ p.retriesLeft \in 0..MaxRequestRetries
    /\ p.active # <<>> => p.retriesLeft # 0
    /\ p.dest \in Dests /\ p.type \in Int
    /\ p.offset \in Nat /\ p.length \in 0..255 /\ p.raw \in BOOLEAN

\* The bytes of the response are the ones stored from the offset on.
Contiguous(p) ==
    /\ Len(p.response) \in Nat
    /\ p.response = Stored(p.dest, p.type, p.offset, Len(p.response))

\* The request that asks for what the parser lacks.
Lacking(p) ==
    Request(p.dest, p.type, (p.offset + Len(p.response)) % 256,
            <<(p.length - Len(p.response)) % 256>>, TRUE)

\* The active request, if it is a read, is that one, and there is something lacking.
InSync(p) ==
    p.active # <<>> /\ p.active[1].read => p.active = <<Lacking(p)>> /\ More(p)

\* The types handleResponse knows: those the read commands ask for.
KnownTypes == ErrorLists \cup {56, 57} \cup Pieces \cup OneAnswer \cup ScheduleTypes
Known(p) == p.raw \/ p.type \in KnownTypes

\* A holiday came too short, the one failure that leaves the parser busy.
ShortHoliday(p) ==
    ~p.raw /\ IsHoliday(p) /\ Len(p.response) < 2 * HolidayEntrySize

\* What a device says: bytes it has stored, or an acknowledgement.
IsMessage(m) ==
    /\ m.offset \in 0..255
    /\ m.type # Acknowledge =>
         \E n \in Nat : m.data = Stored(m.source, m.type, m.offset, n)

\* The ways a call can end: the command is over; the next request went out, with
\* all its retries; or the command failed and the request stays.
Over(o) ==
    o.parser.active = <<>> /\ o.sends = <<>> /\ o.reply \in FinalReplies

Asked(o) ==
    /\ o.sends # <<>> /\ o.sends = o.parser.active /\ o.reply = "none"
    /\ o.parser.retriesLeft = MaxRequestRetries
    /\ InSync(o.parser)

ReadsOn(o) == Asked(o) /\ o.sends[1].read

FailedFor(p, o) ==
    /\ o.parser.active = p.active /\ o.parser.retriesLeft = p.retriesLeft
    /\ o.sends = <<>> /\ o.reply = "FAIL"
    /\ ShortHoliday(o.parser) \/ ~Known(p)

\* The range asked for ends within the table.
InTable(p) == p.offset + p.length <= 256

\* What every call leaves of p.
Sound(p, q) == WellFormed(q) /\ Contiguous(q) /\ (Known(p) => Known(q))

\* What a call from the sender leaves.
Kept(p, o) ==
    /\ Sound(p, o.parser)
    /\ InTable(p) => InTable(o.parser)
Ended(p, o) == Over(o) \/ ReadsOn(o) \/ FailedFor(p, o)

-----------------------------------------------------------------------------
(* Bytes *)

BytesOf(dest, type) == {<<dest, type, k>> : k \in Nat}

\* The bytes of a range are as many as were asked for.
LEMMA StoredLen ==
    ASSUME NEW dest, NEW type, NEW offset \in Nat, NEW n \in Nat
    PROVE  /\ Stored(dest, type, offset, n) \in Seq(BytesOf(dest, type))
           /\ Len(Stored(dest, type, offset, n)) = n
           /\ n = 0 => Stored(dest, type, offset, n) = <<>>
<1>1. \A i \in 1..n : offset + i - 1 \in Nat
  OBVIOUS
<1>2. \A i \in 1..n : <<dest, type, offset + i - 1>> \in BytesOf(dest, type)
  BY <1>1 DEF BytesOf
<1>3. Stored(dest, type, offset, n) \in [1..n -> BytesOf(dest, type)]
  BY <1>2 DEF Stored
<1>4. Stored(dest, type, offset, n) \in Seq(BytesOf(dest, type))
  BY <1>3
<1>5. Len(Stored(dest, type, offset, n)) = n
  BY <1>3, <1>4
<1>6. n = 0 => Stored(dest, type, offset, n) = <<>>
  BY <1>4, <1>5
<1> QED BY <1>4, <1>5, <1>6

\* n bytes behind the first m make a range of m + n bytes.
Adjoin(dest, type, offset, m, n) ==
    Stored(dest, type, offset, m) \o Stored(dest, type, offset + m, n)
      = Stored(dest, type, offset, m + n)

\* Two ranges, one behind the other, are one range.
LEMMA StoredAppend ==
    ASSUME NEW dest, NEW type, NEW offset \in Nat, NEW m \in Nat, NEW n \in Nat
    PROVE  Adjoin(dest, type, offset, m, n)
<1> DEFINE S == BytesOf(dest, type)
           a == Stored(dest, type, offset, m)
           b == Stored(dest, type, offset + m, n)
           c == Stored(dest, type, offset, m + n)
<1>0. offset + m \in Nat /\ m + n \in Nat
  OBVIOUS
<1>1. /\ a \in Seq(S) /\ Len(a) = m
      /\ b \in Seq(S) /\ Len(b) = n
      /\ c \in Seq(S) /\ Len(c) = m + n
  BY <1>0, StoredLen
<1>2. /\ \A i \in 1..m : a[i] = <<dest, type, offset + i - 1>>
      /\ \A i \in 1..n : b[i] = <<dest, type, offset + m + i - 1>>
      /\ \A i \in 1..m + n : c[i] = <<dest, type, offset + i - 1>>
  BY DEF Stored
<1> HIDE DEF S, a, b, c
<1>3. /\ a \o b \in Seq(S) /\ Len(a \o b) = m + n
      /\ \A i \in 1..m + n : (a \o b)[i] = IF i <= m THEN a[i] ELSE b[i - m]
  BY <1>1, ConcatProperties
<1>4. ASSUME NEW i \in 1..m + n
      PROVE  (a \o b)[i] = c[i]
  <2>1. CASE i <= m
    <3>1. i \in 1..m
      BY <2>1
    <3> QED BY <1>2, <1>3, <2>1, <3>1
  <2>2. CASE ~(i <= m)
    <3>1. i - m \in 1..n /\ offset + m + (i - m) - 1 = offset + i - 1
      BY <2>2
    <3>2. b[i - m] = <<dest, type, offset + m + (i - m) - 1>>
      BY <1>2, <3>1
    <3>3. c[i] = <<dest, type, offset + i - 1>>
      BY <1>2
    <3>4. (a \o b)[i] = b[i - m]
      BY <1>3, <2>2
    <3> QED BY <3>1, <3>2, <3>3, <3>4
  <2> QED BY <2>1, <2>2
<1>5. a \o b = c
  <2> DEFINE d == a \o b
  <2>1. d \in Seq(S) /\ Len(d) = Len(c) /\ \A i \in 1..Len(d) : d[i] = c[i]
    BY <1>1, <1>3, <1>4
  <2> HIDE DEF d
  <2>2. d = c
    BY <1>1, <2>1, SeqEqual
  <2> QED BY <2>2 DEF d
<1> QED BY <1>5 DEF a, b, c, Adjoin

-----------------------------------------------------------------------------
(* Fields *)

\* An update of one field leaves a parser's record with the others.
LEMMA Updates ==
    ASSUME NEW p, HasFields(p), NEW a, NEW r, NEW n
    PROVE  /\ [p EXCEPT !.active = a] =
                Fields(a, p.retriesLeft, p.dest, p.type, p.offset,
                       p.length, p.response, p.parsed, p.raw)
           /\ [p EXCEPT !.retriesLeft = r] =
                Fields(p.active, r, p.dest, p.type, p.offset,
                       p.length, p.response, p.parsed, p.raw)
           /\ [p EXCEPT !.active = a, !.retriesLeft = r] =
                Fields(a, r, p.dest, p.type, p.offset,
                       p.length, p.response, p.parsed, p.raw)
           /\ [p EXCEPT !.length = n] =
                Fields(p.active, p.retriesLeft, p.dest, p.type, p.offset,
                       n, p.response, p.parsed, p.raw)
           /\ [p EXCEPT !.response = a] =
                Fields(p.active, p.retriesLeft, p.dest, p.type, p.offset,
                       p.length, a, p.parsed, p.raw)
           /\ [p EXCEPT !.parsed = n] =
                Fields(p.active, p.retriesLeft, p.dest, p.type, p.offset,
                       p.length, p.response, n, p.raw)
<1>1. [p EXCEPT !.active = a] =
         Fields(a, p.retriesLeft, p.dest, p.type, p.offset,
                p.length, p.response, p.parsed, p.raw)
  BY DEF HasFields, Fields
<1>2. [p EXCEPT !.retriesLeft = r] =
         Fields(p.active, r, p.dest, p.type, p.offset,
                p.length, p.response, p.parsed, p.raw)
  BY DEF HasFields, Fields
<1>3. [p EXCEPT !.active = a, !.retriesLeft = r] =
         Fields(a, r, p.dest, p.type, p.offset,
                p.length, p.response, p.parsed, p.raw)
  <2> SUFFICES ASSUME NEW q, q = [p EXCEPT !.active = a, !.retriesLeft = r]
               PROVE  q = Fields(a, r, p.dest, p.type, p.offset,
                                 p.length, p.response, p.parsed, p.raw)
    OBVIOUS
  <2>1. DOMAIN q = {"active", "retriesLeft", "dest", "type", "offset", "length",
                    "response", "parsed", "raw"}
    BY DEF HasFields, Fields
  <2>2. /\ q.active = a /\ q.retriesLeft = r /\ q.dest = p.dest /\ q.type = p.type
        /\ q.offset = p.offset /\ q.length = p.length /\ q.response = p.response
        /\ q.parsed = p.parsed /\ q.raw = p.raw
    BY DEF HasFields, Fields
  <2>3. q = [k \in DOMAIN q |-> q[k]]
    OBVIOUS
  <2> QED BY <2>1, <2>2, <2>3 DEF Fields
<1>4. [p EXCEPT !.length = n] =
         Fields(p.active, p.retriesLeft, p.dest, p.type, p.offset,
                n, p.response, p.parsed, p.raw)
  BY DEF HasFields, Fields
<1>5. [p EXCEPT !.response = a] =
         Fields(p.active, p.retriesLeft, p.dest, p.type, p.offset,
                p.length, a, p.parsed, p.raw)
  BY DEF HasFields, Fields
<1>6. [p EXCEPT !.parsed = n] =
         Fields(p.active, p.retriesLeft, p.dest, p.type, p.offset,
                p.length, p.response, n, p.raw)
  BY DEF HasFields, Fields
<1> QED BY <1>1, <1>2, <1>3, <1>4, <1>5, <1>6

\* So does what startRequest assigns before it calls continueRequest.
LEMMA RangeUpdate ==
    ASSUME NEW p, HasFields(p), NEW dest, NEW type, NEW offset, NEW length, NEW raw
    PROVE  StartRequest(p, dest, type, offset, length, raw)
             = ContinueRequest(Fields(p.active, p.retriesLeft, dest, type, offset,
                                      length, <<>>, 0, raw))
<1> SUFFICES ASSUME NEW q,
                    q = [p EXCEPT !.dest = dest, !.type = type, !.offset = offset,
                                  !.length = length, !.response = <<>>,
                                  !.parsed = 0, !.raw = raw]
             PROVE  q = Fields(p.active, p.retriesLeft, dest, type, offset, length,
                               <<>>, 0, raw)
  BY DEF StartRequest
<1>1. DOMAIN q = {"active", "retriesLeft", "dest", "type", "offset", "length",
                  "response", "parsed", "raw"}
  BY DEF HasFields, Fields
<1>2. /\ q.active = p.active /\ q.retriesLeft = p.retriesLeft /\ q.dest = dest
      /\ q.type = type /\ q.offset = offset /\ q.length = length
      /\ q.response = <<>> /\ q.parsed = 0 /\ q.raw = raw
  BY DEF HasFields, Fields
<1>3. q = [k \in DOMAIN q |-> q[k]]
  OBVIOUS
<1> QED BY <1>1, <1>2, <1>3 DEF Fields

\* The fields of such a record.
LEMMA FieldsOf ==
    ASSUME NEW a, NEW r, NEW d, NEW t, NEW o, NEW l, NEW s, NEW n, NEW w
    PROVE  LET q == Fields(a, r, d, t, o, l, s, n, w)
           IN  /\ HasFields(q)
               /\ q.active = a /\ q.retriesLeft = r /\ q.dest = d /\ q.type = t
               /\ q.offset = o /\ q.length = l /\ q.response = s /\ q.parsed = n
               /\ q.raw = w
BY DEF HasFields, Fields

\* sendCommand makes the request the active one.
LEMMA SendCommandKeeps ==
    ASSUME NEW p, WellFormed(p), Contiguous(p), NEW request \in Requests
    PROVE  LET q == SendCommand(p, request)
           IN  /\ WellFormed(q) /\ Contiguous(q) /\ (Known(p) => Known(q))
               /\ q.active = <<request>> /\ q.retriesLeft = MaxRequestRetries
               /\ q.dest = p.dest /\ q.type = p.type /\ q.offset = p.offset
               /\ q.length = p.length /\ q.response = p.response /\ q.raw = p.raw
<1> DEFINE q == SendCommand(p, request)
<1>1. q = Fields(<<request>>, MaxRequestRetries, p.dest, p.type, p.offset,
                p.length, p.response, p.parsed, p.raw)
  <2>1. HasFields(p)
    BY DEF WellFormed
  <2>2. SendCommand(p, request)
          = [p EXCEPT !.active = <<request>>, !.retriesLeft = MaxRequestRetries]
    BY Zenon DEF SendCommand
  <2> QED BY <2>1, <2>2, Updates, Zenon
<1> HIDE DEF q
<1>2. /\ HasFields(q) /\ q.active = <<request>> /\ q.retriesLeft = MaxRequestRetries
      /\ q.dest = p.dest /\ q.type = p.type /\ q.offset = p.offset
      /\ q.length = p.length /\ q.response = p.response /\ q.raw = p.raw
  BY <1>1, FieldsOf
<1>3. MaxRequestRetries \in 0..MaxRequestRetries /\ MaxRequestRetries # 0
  BY RetriesAssumption
<1>4. q.active[1] = request
  BY <1>2
<1>5. WellFormed(q)
  BY <1>1, <1>2, <1>3, <1>4 DEF WellFormed
<1>6. Contiguous(q) /\ (Known(p) => Known(q))
  BY <1>2 DEF Contiguous, Known
<1> QED BY <1>2, <1>5, <1>6 DEF q

-----------------------------------------------------------------------------
(* Requests *)

\* A number taken for a byte is one.
LEMMA ByteRange ==
    ASSUME NEW i \in Int
    PROVE  i % 256 \in 0..255
OBVIOUS

\* continueRequest asks for what is lacking, if anything is.
LEMMA ContinueRequestAsks ==
    ASSUME NEW p, WellFormed(p), Contiguous(p), More(p)
    PROVE  /\ ReadsOn(Ask(ContinueRequest(p))) /\ Kept(p, Ask(ContinueRequest(p)))
           /\ ContinueRequest(p).raw = p.raw /\ ContinueRequest(p).type = p.type
           /\ ContinueRequest(p).dest = p.dest
           /\ InTable(p) => InTable(ContinueRequest(p))
<1> DEFINE q == ContinueRequest(p)  r == Lacking(p)  o == Ask(q)
<1>1. q = SendCommand(p, r)
  BY DEF ContinueRequest, Lacking
<1>2. Len(p.response) \in Nat /\ p.length \in 0..255 /\ p.offset \in Nat
  BY DEF WellFormed, Contiguous
<1>3. r \in Requests /\ r.read
  <2>1. (p.offset + Len(p.response)) % 256 \in 0..255
    <3>1. p.offset + Len(p.response) \in Int
      BY <1>2
    <3> QED BY <3>1, ByteRange
  <2>2. <<(p.length - Len(p.response)) % 256>> \in Payloads
    <3>1. \A i \in 0..255, j \in Nat : i - j \in Int
      OBVIOUS
    <3>2. p.length - Len(p.response) \in Int
      BY <1>2, <3>1, Zenon
    <3>3. (p.length - Len(p.response)) % 256 \in 0..255
      BY <3>2, ByteRange
    <3> QED BY <3>3, Zenon DEF Payloads
  <2>3. p.dest \in Dests /\ p.type \in Types
    BY DEF WellFormed, Types
  <2> QED BY <2>1, <2>2, <2>3 DEF Requests, Lacking, Request
<1> HIDE DEF q, r
<1>4. /\ WellFormed(q) /\ Contiguous(q) /\ (Known(p) => Known(q))
      /\ q.active = <<r>> /\ q.retriesLeft = MaxRequestRetries
      /\ q.dest = p.dest /\ q.type = p.type /\ q.offset = p.offset
      /\ q.length = p.length /\ q.response = p.response /\ q.raw = p.raw
  BY <1>1, <1>3, SendCommandKeeps
<1>5. Lacking(q) = r /\ More(q)
  BY <1>4 DEF Lacking, More, r
<1>6. o.parser = q /\ o.sends = q.active /\ o.reply = "none"
  BY DEF Ask, Stay
<1>7. InSync(q)
  BY <1>4, <1>5 DEF InSync
<1>8. InTable(p) => InTable(q)
  BY <1>4 DEF InTable
<1>9. ReadsOn(o) /\ Kept(p, o)
  <2> HIDE DEF o
  <2>1. Asked(o) /\ Kept(p, o)
    BY <1>4, <1>6, <1>7, <1>8 DEF Asked, Kept, Sound
  <2> QED BY <1>3, <1>4, <1>6, <2>1 DEF ReadsOn
<1> QED BY <1>4, <1>8, <1>9 DEF q

\* q is p with a new range begun, asked for unless it is empty.
Started(p, q, dest, type, offset, length, raw) ==
    /\ WellFormed(q) /\ Contiguous(q)
    /\ raw \/ type \in KnownTypes => Known(q)
    /\ length # 0 => ReadsOn(Ask(q))
    /\ length = 0 => q.active = p.active /\ q.retriesLeft = p.retriesLeft
    /\ q.dest = dest
    /\ offset + length <= 256 => InTable(q)

\* startRequest leaves an empty response, and asks for the range if it is not empty.
LEMMA StartRequestAsks ==
    ASSUME NEW p, WellFormed(p), NEW dest \in Dests, NEW type \in Int,
           NEW offset \in Nat, NEW length \in 0..255, NEW raw \in BOOLEAN
    PROVE  Started(p, StartRequest(p, dest, type, offset, length, raw),
                   dest, type, offset, length, raw)
<1> DEFINE s == Fields(p.active, p.retriesLeft, dest, type, offset, length, <<>>, 0, raw)
           q == ContinueRequest(s)
<1>1. StartRequest(p, dest, type, offset, length, raw) = q
  BY RangeUpdate DEF WellFormed
<1> HIDE DEF s
<1>2. /\ HasFields(s) /\ s.active = p.active /\ s.retriesLeft = p.retriesLeft
      /\ s.dest = dest /\ s.type = type /\ s.offset = offset /\ s.length = length
      /\ s.response = <<>> /\ s.raw = raw
  BY FieldsOf DEF s
<1>3. WellFormed(s)
  BY <1>2 DEF WellFormed
<1>4. Contiguous(s)
  <2>1. Len(s.response) = 0
    BY <1>2
  <2>2. Stored(dest, type, offset, 0) = <<>>
    BY StoredLen
  <2> QED BY <1>2, <2>1, <2>2 DEF Contiguous
<1>5. More(s) <=> length # 0
  <2>1. Len(s.response) = 0
    BY <1>2
  <2> QED BY <1>2, <2>1 DEF More
<1>6. /\ raw \/ type \in KnownTypes => Known(s)
      /\ offset + length <= 256 => InTable(s)
  BY <1>2 DEF Known, InTable
<1>7. CASE length = 0
  <2>1. q = s
    BY <1>5, <1>7 DEF ContinueRequest
  <2> QED BY <1>1, <1>2, <1>3, <1>4, <1>7, <1>6, <2>1 DEF Started
<1>8. CASE length # 0
  <2>1. /\ ReadsOn(Ask(q)) /\ Kept(s, Ask(q)) /\ q.type = s.type /\ q.dest = s.dest
        /\ InTable(s) => InTable(q)
    BY <1>3, <1>4, <1>5, <1>8, ContinueRequestAsks
  <2>2. Ask(q).parser = q
    BY DEF Ask, Stay
  <2> QED BY <1>1, <1>2, <1>8, <1>6, <2>1, <2>2 DEF Kept, Sound, Started
<1> QED BY <1>7, <1>8

-----------------------------------------------------------------------------
(* Responses *)

\* The tables of the schedules of the four circuits.
LEMMA ScheduleTypesAre == ScheduleTypes = {63, 66, 73, 76, 83, 86, 93, 96}
<1>1. ScheduleTypes = {61 + 2, 61 + 5} \cup {71 + 2, 71 + 5}
                        \cup {81 + 2, 81 + 5} \cup {91 + 2, 91 + 5}
  BY DEF ScheduleTypes, HkBases
<1> QED BY <1>1

\* The range of a follow-up.
LEMMA RangeOf ==
    ASSUME NEW dest, NEW type, NEW offset, NEW length
    PROVE  LET f == Range4(dest, type, offset, length)
           IN  /\ f[1].type = type /\ f[1].offset = offset /\ f[1].length = length
               /\ f[1].dest = dest
BY DEF Range4

\* A range that follows another is one handleResponse knows, and not empty; a
\* schedule or a holiday is followed by none.
LEMMA FollowUpIs ==
    ASSUME NEW dest, NEW type \in Int, FollowUp(dest, type) # <<>>
    PROVE  LET next == FollowUp(dest, type)[1]
           IN  /\ next.type \in Int /\ next.offset \in Nat /\ next.length \in 1..255
               /\ next.offset + next.length <= 256
               /\ next.dest \in {dest, UBA, BC10, RC3x}
               /\ next.type \in KnownTypes
               /\ type \notin ScheduleTypes
<1> DEFINE f == FollowUp(dest, type)
<1>1. CASE type = 2
  <2>1. f = Range4(BC10, 2, 0, 3) \/ f = Range4(RC3x, 2, 0, 3)
    BY <1>1 DEF FollowUp, HkBases
  <2>2. 2 \in KnownTypes
    BY DEF KnownTypes, OneAnswer
  <2>3. type \notin ScheduleTypes
    BY <1>1, ScheduleTypesAre
  <2> HIDE DEF f
  <2>4. /\ f[1].type = 2 /\ f[1].offset = 0 /\ f[1].length = 3
        /\ f[1].dest \in {BC10, RC3x}
    BY <2>1, RangeOf
  <2> QED BY <2>2, <2>3, <2>4 DEF f
<1>2. CASE type \in {16, 18}
  <2>1. \/ type = 16 /\ f = Range4(dest, 17, 0, 5 * ErrorRecordSize)
        \/ type = 18 /\ f = Range4(dest, 19, 0, 4 * ErrorRecordSize)
    BY <1>2 DEF FollowUp, HkBases
  <2>2. 17 \in KnownTypes /\ 19 \in KnownTypes
    BY DEF KnownTypes, ErrorLists
  <2>3. type \notin ScheduleTypes
    BY <1>2, ScheduleTypesAre
  <2>4. /\ f[1].type \in {17, 19} /\ f[1].offset = 0
        /\ f[1].length \in {5 * ErrorRecordSize, 4 * ErrorRecordSize}
    BY <2>1, RangeOf
  <2> HIDE DEF f
  <2>5. f[1].dest = dest
    <3>1. /\ Range4(dest, 17, 0, 5 * ErrorRecordSize)[1].dest = dest
          /\ Range4(dest, 19, 0, 4 * ErrorRecordSize)[1].dest = dest
      BY RangeOf
    <3> QED BY <2>1, <3>1, Zenon
  <2>6. f[1].length \in {60, 48}
    BY <2>4 DEF ErrorRecordSize
  <2>7. /\ f[1].type \in Int /\ f[1].offset \in Nat /\ f[1].length \in 1..255
        /\ f[1].offset + f[1].length <= 256
    BY <2>4, <2>6
  <2>8. f[1].type \in KnownTypes
    BY <2>2, <2>4
  <2> QED BY <2>3, <2>5, <2>7, <2>8 DEF f
<1>3. CASE type \in {21, 51, 52}
  <2>1. \/ f = Range4(UBA, 22, 0, 20)
        \/ f = Range4(UBA, 52, 0, 12)
        \/ f = Range4(RC3x, 55, 0, 12)
    <3>1. type = 21 => f = Range4(UBA, 22, 0, 20)
      BY DEF FollowUp, HkBases
    <3>2. type = 51 => f = Range4(UBA, 52, 0, 12)
      BY DEF FollowUp, HkBases
    <3>3. type = 52 => f = Range4(RC3x, 55, 0, 12)
      BY DEF FollowUp, HkBases
    <3> QED BY <1>3, <3>1, <3>2, <3>3
  <2>2. 22 \in KnownTypes /\ 52 \in KnownTypes /\ 55 \in KnownTypes
    BY DEF KnownTypes, OneAnswer
  <2>3. type \notin ScheduleTypes
    BY <1>3, ScheduleTypesAre
  <2>4. /\ f[1].type \in {22, 52, 55} /\ f[1].offset = 0 /\ f[1].length \in {20, 12}
        /\ f[1].dest \in {UBA, RC3x}
    BY <2>1, RangeOf
  <2> QED BY <2>2, <2>3, <2>4
<1>4. CASE type \in HkBases \/ type - 1 \in HkBases
  <2>1. type \in {61, 71, 81, 91, 62, 72, 82, 92}
    BY <1>4 DEF HkBases
  <2>2. \/ type \in {61, 71, 81, 91} /\ f = Range4(RC3x, type + 1, 0, 20)
        \/ type \in {62, 72, 82, 92} /\ f = Range4(RC3x, type + 1, 85, 2)
    BY <2>1 DEF FollowUp, HkBases
  <2>3. type + 1 \in KnownTypes
    <3>1. {62, 72, 82, 92} \subseteq OneAnswer
      <4>1. \A t \in HkBases : t + 1 \in OneAnswer
        BY DEF OneAnswer
      <4>2. 61 + 1 \in OneAnswer /\ 71 + 1 \in OneAnswer
            /\ 81 + 1 \in OneAnswer /\ 91 + 1 \in OneAnswer
        BY <4>1 DEF HkBases
      <4> QED BY <4>2
    <3>2. {63, 73, 83, 93} \subseteq ScheduleTypes
      BY ScheduleTypesAre
    <3>3. type + 1 \in {62, 72, 82, 92} \/ type + 1 \in {63, 73, 83, 93}
      BY <2>1
    <3> QED BY <3>1, <3>2, <3>3 DEF KnownTypes
  <2>4. type \notin ScheduleTypes
    BY <2>1, ScheduleTypesAre
  <2>5. /\ f[1].type = type + 1 /\ f[1].offset \in {0, 85} /\ f[1].length \in {20, 2}
        /\ f[1].dest = RC3x
    BY <2>2, RangeOf
  <2> QED BY <2>3, <2>4, <2>5
<1>5. type \in {2, 16, 18, 21, 51, 52} \/ type \in HkBases \/ type - 1 \in HkBases
  BY DEF FollowUp
<1> QED BY <1>1, <1>2, <1>3, <1>4, <1>5

\* What handleResponse starts for it is asked for.
LEMMA FollowUpAsks ==
    ASSUME NEW p, WellFormed(p), NEW x, x.dest \in Dests, x.type \in Int,
           x.offset \in Nat, x.length \in 0..255, x.length # 0, x.type \in KnownTypes,
           x.offset + x.length <= 256
    PROVE  LET q == StartRequest(p, x.dest, x.type, x.offset, x.length, FALSE)
           IN  /\ WellFormed(q) /\ Contiguous(q) /\ Known(q) /\ ReadsOn(Ask(q))
               /\ InTable(q)
<1> DEFINE q == StartRequest(p, x.dest, x.type, x.offset, x.length, FALSE)
<1>1. Started(p, q, x.dest, x.type, x.offset, x.length, FALSE)
  BY StartRequestAsks
<1> HIDE DEF q
<1> QED BY <1>1 DEF Started, q

\* A command that is over leaves the parser free.
LEMMA FinishEnds ==
    ASSUME NEW p, WellFormed(p), Contiguous(p), NEW reply \in FinalReplies,
           NEW broadcast
    PROVE  LET o == Finish(p, reply)  b == [o EXCEPT !.broadcast = broadcast]
           IN  Over(o) /\ Kept(p, o) /\ Over(b) /\ Kept(p, b)
<1> DEFINE q == [p EXCEPT !.active = <<>>]  o == Finish(p, reply)
           b == [o EXCEPT !.broadcast = broadcast]
<1>1. /\ o.parser = q /\ o.sends = <<>> /\ o.reply = reply
      /\ b.parser = q /\ b.sends = <<>> /\ b.reply = reply
  BY DEF Finish, Stay
<1>2. q = Fields(<<>>, p.retriesLeft, p.dest, p.type, p.offset,
                 p.length, p.response, p.parsed, p.raw)
  BY Updates DEF WellFormed
<1> HIDE DEF q, o, b
<1>3. /\ HasFields(q) /\ q.active = <<>> /\ q.retriesLeft = p.retriesLeft
      /\ q.dest = p.dest /\ q.type = p.type /\ q.offset = p.offset
      /\ q.length = p.length /\ q.response = p.response /\ q.raw = p.raw
  BY <1>2, FieldsOf
<1>4. /\ WellFormed(q) /\ Contiguous(q) /\ (Known(p) => Known(q))
      /\ InTable(p) => InTable(q)
  BY <1>3 DEF WellFormed, Contiguous, Known, InTable
<1>5. Over(o) /\ Kept(p, o) /\ Over(b) /\ Kept(p, b)
  BY <1>1, <1>3, <1>4 DEF Over, Kept, Sound
<1> QED BY <1>5 DEF o, b

\* A complete response ends the command or leads to the next range.
LEMMA AdvanceEnds ==
    ASSUME NEW p, WellFormed(p), Contiguous(p)
    PROVE  /\ Over(Advance(p)) \/ ReadsOn(Advance(p))
           /\ Kept(p, Advance(p))
           /\ p.type \in ScheduleTypes => Over(Advance(p))
<1> DEFINE next == FollowUp(p.dest, p.type)
<1>1. CASE next = <<>>
  BY <1>1, FinishEnds DEF Advance, FinalReplies
<1>2. CASE next # <<>>
  <2> DEFINE x == next[1]
             q == StartRequest(p, x.dest, x.type, x.offset, x.length, FALSE)
  <2>1. Advance(p) = Ask(q)
    BY <1>2 DEF Advance
  <2>2. /\ x.type \in Int /\ x.offset \in Nat /\ x.length \in 0..255 /\ x.length # 0
        /\ x.offset + x.length <= 256 /\ x.dest \in Dests
        /\ x.type \in KnownTypes /\ p.type \notin ScheduleTypes
    <3>1. p.type \in Int
      BY DEF WellFormed
    <3>2. /\ x.type \in Int /\ x.offset \in Nat /\ x.length \in 1..255
          /\ x.offset + x.length <= 256 /\ x.dest \in {p.dest, UBA, BC10, RC3x}
          /\ x.type \in KnownTypes /\ p.type \notin ScheduleTypes
      BY <1>2, <3>1, FollowUpIs
    <3>3. x.length \in 0..255 /\ x.length # 0
      <4>1. \A i \in 1..255 : i \in 0..255 /\ i # 0
        OBVIOUS
      <4> QED BY <3>2, <4>1, Zenon
    <3>4. x.dest \in Dests
      BY <3>2 DEF WellFormed, Dests
    <3> QED BY <3>2, <3>3, <3>4
  <2> HIDE DEF x
  <2>3. /\ WellFormed(q) /\ Contiguous(q) /\ Known(q) /\ ReadsOn(Ask(q))
        /\ InTable(q)
    BY <2>2, FollowUpAsks
  <2>4. Ask(q).parser = q
    BY DEF Ask, Stay
  <2> HIDE DEF q
  <2>5. Kept(p, Ask(q))
    BY <2>2, <2>3, <2>4 DEF Kept, Sound
  <2> QED BY <2>1, <2>2, <2>3, <2>5
<1> QED BY <1>1, <1>2

\* Part of a response leads to the next request or ends the command.
LEMMA ProceedEnds ==
    ASSUME NEW p, WellFormed(p), Contiguous(p)
    PROVE  (Over(Proceed(p)) \/ ReadsOn(Proceed(p))) /\ Kept(p, Proceed(p))
BY ContinueRequestAsks, AdvanceEnds DEF Proceed

\* m_parsePosition is of no account for what is asked for.
LEMMA ParsedKeeps ==
    ASSUME NEW p, WellFormed(p), Contiguous(p), NEW n
    PROVE  LET q == [p EXCEPT !.parsed = n]
           IN  /\ WellFormed(q) /\ Contiguous(q) /\ (Known(p) <=> Known(q))
               /\ InTable(p) <=> InTable(q)
               /\ q.type = p.type /\ q.dest = p.dest
<1> DEFINE q == [p EXCEPT !.parsed = n]
<1>1. q = Fields(p.active, p.retriesLeft, p.dest, p.type, p.offset,
                 p.length, p.response, n, p.raw)
  BY Updates DEF WellFormed
<1> HIDE DEF q
<1>2. /\ HasFields(q) /\ q.active = p.active /\ q.retriesLeft = p.retriesLeft
      /\ q.dest = p.dest /\ q.type = p.type /\ q.offset = p.offset
      /\ q.length = p.length /\ q.response = p.response /\ q.raw = p.raw
  BY <1>1, FieldsOf
<1>3. WellFormed(q) /\ Contiguous(q) /\ (Known(p) <=> Known(q))
  BY <1>2 DEF WellFormed, Contiguous, Known
<1>4. InTable(p) <=> InTable(q)
  BY <1>2 DEF InTable
<1> QED BY <1>2, <1>3, <1>4 DEF q

\* A list leads to the next request or ends the command.
LEMMA LoopEnds ==
    ASSUME NEW p, WellFormed(p), Contiguous(p), NEW size,
           NEW o \in LoopOverResponse(p, size)
    PROVE  (Over(o) \/ ReadsOn(o)) /\ Kept(p, o)
<1>1. PICK n : \/ o = Proceed([p EXCEPT !.parsed = n])
               \/ o = Advance([p EXCEPT !.parsed = n])
  BY DEF LoopOverResponse
<1> DEFINE q == [p EXCEPT !.parsed = n]
<1>2. /\ WellFormed(q) /\ Contiguous(q) /\ (Known(p) <=> Known(q))
      /\ (InTable(p) <=> InTable(q)) /\ q.dest = p.dest
  BY ParsedKeeps
<1> HIDE DEF q
<1>3. o = Proceed(q) \/ o = Advance(q)
  BY <1>1 DEF q
<1>4. (Over(o) \/ ReadsOn(o)) /\ Kept(q, o)
  BY <1>2, <1>3, ProceedEnds, AdvanceEnds
<1> QED BY <1>2, <1>4 DEF Kept, Sound

\* handleResponse ends the command, asks for more, or fails: for a holiday that is
\* too short, or a type it does not know.  A holiday it never asks for twice.
LEMMA HandleResponseEnds ==
    ASSUME NEW p, WellFormed(p), Contiguous(p), ~p.raw, NEW o \in HandleResponse(p)
    PROVE  /\ Ended(p, o) /\ Kept(p, o)
           /\ IsHoliday(p) => Over(o) \/ o = Fail(p)
<1>1. Fail(p).parser = p /\ Fail(p).sends = <<>> /\ Fail(p).reply = "FAIL"
  BY DEF Fail, Stay
<1>2. Kept(p, Fail(p))
  BY <1>1 DEF Kept, Sound
<1>3. ShortHoliday(p) \/ ~Known(p) => FailedFor(p, Fail(p))
  BY <1>1 DEF FailedFor
<1>4. IsHoliday(p) => p.type \notin ErrorLists /\ ~IsSchedule(p) /\ p.type \notin Pieces
  <2> SUFFICES ASSUME IsHoliday(p)
               PROVE  p.type \notin ErrorLists /\ ~IsSchedule(p) /\ p.type \notin Pieces
    OBVIOUS
  <2>1. p.type \in {63, 66, 73, 76, 83, 86, 93, 96} /\ p.offset > 80 /\ p.offset \in Nat
    BY ScheduleTypesAre DEF IsHoliday, WellFormed
  <2>2. p.type \notin ErrorLists /\ p.type \notin Pieces
    BY <2>1 DEF ErrorLists, Pieces, HkBases
  <2>3. ~IsSchedule(p)
    BY <2>1 DEF IsSchedule
  <2> QED BY <2>2, <2>3
<1>5. CASE p.type \in ErrorLists
  <2>1. o \in LoopOverResponse(p, ErrorRecordSize)
    BY <1>5 DEF HandleResponse
  <2> QED BY <1>4, <1>5, <2>1, LoopEnds DEF Ended
<1>6. CASE p.type \notin ErrorLists /\ IsSchedule(p)
  <2>1. o \in LoopOverResponse(p, ScheduleEntrySize)
    BY <1>6 DEF HandleResponse
  <2> QED BY <1>4, <1>6, <2>1, LoopEnds DEF Ended
<1>7. CASE p.type \notin ErrorLists /\ ~IsSchedule(p) /\ p.type \in Pieces
  <2>1. o = Proceed(p)
    BY <1>7 DEF HandleResponse
  <2> QED BY <1>4, <1>7, <2>1, ProceedEnds DEF Ended
<1>8. CASE p.type \notin ErrorLists /\ ~IsSchedule(p) /\ p.type \notin Pieces
  <2>1. CASE IsHoliday(p) /\ Len(p.response) < 2 * HolidayEntrySize
    <3>1. o = Fail(p)
      BY <1>8, <2>1 DEF HandleResponse
    <3>2. ShortHoliday(p)
      BY <2>1 DEF ShortHoliday
    <3> QED BY <1>2, <1>3, <3>1, <3>2 DEF Ended
  <2>2. CASE /\ ~(IsHoliday(p) /\ Len(p.response) < 2 * HolidayEntrySize)
             /\ p.type \in OneAnswer \cup ScheduleTypes
    <3>1. o = Advance(p)
      BY <1>8, <2>2 DEF HandleResponse
    <3>2. IsHoliday(p) => Over(o)
      BY <3>1, AdvanceEnds DEF IsHoliday
    <3> QED BY <3>1, <3>2, AdvanceEnds DEF Ended
  <2>3. CASE /\ ~(IsHoliday(p) /\ Len(p.response) < 2 * HolidayEntrySize)
             /\ p.type \notin OneAnswer \cup ScheduleTypes
    <3>1. o = Fail(p)
      BY <1>8, <2>3 DEF HandleResponse
    <3>2. ~Known(p)
      BY <1>8, <2>3 DEF Known, KnownTypes, IsSchedule
    <3> QED BY <1>2, <1>3, <2>3, <3>1, <3>2 DEF Ended, IsHoliday
  <2> QED BY <2>1, <2>2, <2>3
<1> QED BY <1>5, <1>6, <1>7, <1>8

-----------------------------------------------------------------------------
(* The calls into a parser *)

\* A message that is accepted as the next piece continues the response.
LEMMA ReceiveKeeps ==
    ASSUME NEW p, WellFormed(p), Contiguous(p), NEW m, IsMessage(m),
           m.type # Acknowledge, Answers(p, m)
    PROVE  LET q == Receive(p, m)
           IN  /\ WellFormed(q) /\ Contiguous(q) /\ (Known(p) <=> Known(q))
               /\ q.active = p.active /\ q.retriesLeft = p.retriesLeft
               /\ q.raw = p.raw /\ (IsHoliday(p) <=> IsHoliday(q))
               /\ q.dest = p.dest /\ (InTable(p) => InTable(q))
<1> DEFINE q == Receive(p, m)  have == Len(p.response)
<1>1. /\ HasFields(p) /\ have \in Nat /\ p.offset \in Nat
      /\ p.response = Stored(p.dest, p.type, p.offset, have)
  BY DEF WellFormed, Contiguous
<1>2. PICK n \in Nat : m.data = Stored(p.dest, p.type, p.offset + have, n)
  <2>1. m.source = p.dest /\ m.type = p.type /\ m.offset = p.offset + have
    BY <1>1 DEF Answers
  <2> QED BY <2>1 DEF IsMessage
<1>3. CASE m.data = <<>>
  <2>1. q = Fields(p.active, p.retriesLeft, p.dest, p.type, p.offset,
                   have, p.response, p.parsed, p.raw)
    BY <1>1, <1>3, Updates DEF Receive
  <2>2. have \in 0..255 /\ p.offset + have <= 256
    <3>1. m.offset = have + p.offset /\ m.offset \in 0..255
      BY DEF Answers, IsMessage
    <3> HIDE DEF have
    <3>2. \A i \in Nat, j \in Nat, k \in 0..255 :
             k = i + j => i \in 0..255 /\ j + i <= 256
      OBVIOUS
    <3> QED BY <1>1, <3>1, <3>2, Zenon
  <2> HIDE DEF q, have
  <2>3. /\ HasFields(q) /\ q.active = p.active /\ q.retriesLeft = p.retriesLeft
        /\ q.dest = p.dest /\ q.type = p.type /\ q.offset = p.offset
        /\ q.length = have /\ q.response = p.response /\ q.raw = p.raw
    BY <2>1, FieldsOf
  <2>4. WellFormed(q) /\ Contiguous(q) /\ (Known(p) <=> Known(q))
    BY <2>2, <2>3 DEF WellFormed, Contiguous, Known
  <2>5. IsHoliday(p) <=> IsHoliday(q)
    BY <2>3 DEF IsHoliday
  <2>6. InTable(q)
    BY <2>2, <2>3, Zenon DEF InTable
  <2> QED BY <2>3, <2>4, <2>5, <2>6 DEF q
<1>4. CASE m.data # <<>>
  <2> DEFINE all == p.response \o m.data
  <2>1. q = Fields(p.active, p.retriesLeft, p.dest, p.type, p.offset,
                   p.length, all, p.parsed, p.raw)
    BY <1>1, <1>4, Updates DEF Receive
  <2>2. all = Stored(p.dest, p.type, p.offset, have + n)
    <3> HIDE DEF have
    <3>1. Adjoin(p.dest, p.type, p.offset, have, n)
      BY <1>1, StoredAppend
    <3> QED BY <1>1, <1>2, <3>1 DEF Adjoin
  <2>3. have + n \in Nat /\ Len(all) = have + n
    <3>1. \A k \in Nat : p.offset \in Nat => Len(Stored(p.dest, p.type, p.offset, k)) = k
      BY StoredLen
    <3> HIDE DEF have, all
    <3>2. have + n \in Nat
      BY <1>1
    <3>3. Len(Stored(p.dest, p.type, p.offset, have + n)) = have + n
      BY <1>1, <3>1, <3>2
    <3> QED BY <2>2, <3>2, <3>3
  <2> HIDE DEF q, have, all
  <2>4. /\ HasFields(q) /\ q.active = p.active /\ q.retriesLeft = p.retriesLeft
        /\ q.dest = p.dest /\ q.type = p.type /\ q.offset = p.offset
        /\ q.length = p.length /\ q.response = all /\ q.raw = p.raw
    BY <2>1, FieldsOf
  <2>5. WellFormed(q) /\ Contiguous(q) /\ (Known(p) <=> Known(q))
    BY <2>2, <2>3, <2>4 DEF WellFormed, Contiguous, Known
  <2>6. IsHoliday(p) <=> IsHoliday(q)
    BY <2>4 DEF IsHoliday
  <2>7. InTable(p) => InTable(q)
    BY <2>4 DEF InTable
  <2> QED BY <2>4, <2>5, <2>6, <2>7 DEF q
<1> QED BY <1>3, <1>4

\* onIncomingMessage leaves the parser alone, or ends a command as Ended says; and
\* where a holiday was too short it goes on waiting for a longer one.
LEMMA MessageEnds ==
    ASSUME NEW p, WellFormed(p), Contiguous(p), NEW m, IsMessage(m),
           NEW o \in OnIncomingMessage(p, m)
    PROVE  /\ Kept(p, o)
           /\ o = Stay(p) \/ (p.active # <<>> /\ Ended(p, o))
           /\ ShortHoliday(p) => o = Stay(p) \/ Over(o) \/ ShortHoliday(o.parser)
           /\ m.type = Acknowledge => o = Stay(p) \/ Over(o)
           /\ p.active # <<>> /\ (m.type = Acknowledge \/ Answers(p, m)) => Ended(p, o)
<1>1. Stay(p).parser = p
  BY DEF Stay
<1>2. CASE p.active = <<>> \/ (m.type # Acknowledge /\ ~Answers(p, m))
  <2>1. o = Stay(p)
    BY <1>2 DEF OnIncomingMessage
  <2>2. Kept(p, o)
    BY <1>1, <2>1 DEF Kept, Sound
  <2> QED BY <1>2, <2>1, <2>2
<1>3. CASE p.active # <<>> /\ m.type = Acknowledge
  <2>1. o = HandleAcknowledge(p, m.offset)
    BY <1>3 DEF OnIncomingMessage
  <2>2. Over(o) /\ Kept(p, o)
    BY <2>1, FinishEnds DEF HandleAcknowledge, FinalReplies
  <2> QED BY <1>3, <2>2 DEF Ended
<1>4. CASE p.active # <<>> /\ m.type # Acknowledge /\ Answers(p, m)
  <2> DEFINE q == Receive(p, m)
  <2>1. /\ WellFormed(q) /\ Contiguous(q) /\ (Known(p) <=> Known(q))
        /\ q.active = p.active /\ q.retriesLeft = p.retriesLeft
        /\ q.raw = p.raw /\ (IsHoliday(p) <=> IsHoliday(q))
        /\ q.dest = p.dest /\ (InTable(p) => InTable(q))
    BY <1>4, ReceiveKeeps
  <2> HIDE DEF q
  <2>2. CASE p.raw
    <3>1. o = IF More(q) THEN Ask(ContinueRequest(q)) ELSE Finish(q, "OK")
      BY <1>4, <2>2 DEF OnIncomingMessage, q
    <3>2. (Over(o) \/ ReadsOn(o)) /\ Kept(q, o)
      BY <2>1, <3>1, ContinueRequestAsks, FinishEnds DEF FinalReplies
    <3> QED BY <1>4, <2>1, <2>2, <3>2 DEF Ended, Kept, Sound, ShortHoliday
  <2>3. CASE ~p.raw
    <3>1. o \in HandleResponse(q)
      BY <1>4, <2>3 DEF OnIncomingMessage, q
    <3>2. ~q.raw
      BY <2>1, <2>3
    <3>3. /\ Ended(q, o) /\ Kept(q, o)
          /\ IsHoliday(q) => Over(o) \/ o = Fail(q)
      BY <2>1, <3>1, <3>2, HandleResponseEnds
    <3>4. Kept(p, o) /\ Ended(p, o)
      BY <2>1, <3>3 DEF Kept, Sound, Ended, FailedFor
    <3>5. ShortHoliday(p) => Over(o) \/ ShortHoliday(o.parser)
      <4> SUFFICES ASSUME ShortHoliday(p), ~Over(o) PROVE ShortHoliday(o.parser)
        OBVIOUS
      <4>1. o = Fail(q) /\ o.reply = "FAIL" /\ o.parser = q
        BY <2>1, <3>3 DEF ShortHoliday, Fail, Stay
      <4>2. ~ReadsOn(o)
        BY <4>1 DEF ReadsOn, Asked
      <4>3. Known(q)
        <5>1. p.type \in ScheduleTypes
          BY DEF ShortHoliday, IsHoliday
        <5> QED BY <2>1, <5>1 DEF Known, KnownTypes
      <4> QED BY <3>3, <4>2, <4>3 DEF Ended, FailedFor
    <3> QED BY <1>4, <3>4, <3>5
  <2> QED BY <2>2, <2>3
<1> QED BY <1>2, <1>3, <1>4

\* A timeout ends the command with ERRTIMEOUT or repeats the request, with one
\* retry less; the response it has stays.
LEMMA TimeoutEnds ==
    ASSUME NEW p, WellFormed(p), Contiguous(p)
    PROVE  LET o == OnTimeout(p)
           IN  /\ Kept(p, o)
               /\ \/ p.active = <<>> /\ o = Stay(p)
                  \/ /\ p.active # <<>> /\ Over(o) /\ o.reply = "ERRTIMEOUT"
                     /\ p.retriesLeft = 1
                  \/ /\ p.active # <<>> /\ o.parser.active = p.active
                     /\ o.sends = p.active /\ o.reply = "none"
                     /\ o.parser.retriesLeft = p.retriesLeft - 1
                     /\ o.parser.retriesLeft # 0
                     /\ InSync(p) => InSync(o.parser)
                     /\ ShortHoliday(p) => ShortHoliday(o.parser)
<1> DEFINE o == OnTimeout(p)
<1>1. HasFields(p) /\ p.retriesLeft \in 0..MaxRequestRetries
  BY DEF WellFormed
<1>2. CASE p.active = <<>>
  <2>1. o = Stay(p) /\ Stay(p).parser = p
    BY <1>2 DEF OnTimeout, Stay
  <2> QED BY <1>2, <2>1 DEF Kept, Sound
<1>3. CASE p.active # <<>> /\ p.retriesLeft = 1
  <2> DEFINE r == [p EXCEPT !.retriesLeft = 0]  q == [r EXCEPT !.active = <<>>]
  <2>1. r = Fields(p.active, 0, p.dest, p.type, p.offset,
                   p.length, p.response, p.parsed, p.raw)
    BY <1>1, Updates
  <2>2. o.parser = q /\ o.sends = <<>> /\ o.reply = "ERRTIMEOUT"
    BY <1>3 DEF OnTimeout, Finish, Stay
  <2> HIDE DEF r, o
  <2>3. /\ HasFields(r) /\ r.dest = p.dest /\ r.type = p.type /\ r.offset = p.offset
        /\ r.length = p.length /\ r.response = p.response /\ r.raw = p.raw
        /\ r.parsed = p.parsed /\ r.retriesLeft = 0
    BY <2>1, FieldsOf
  <2>4. q = Fields(<<>>, 0, p.dest, p.type, p.offset,
                   p.length, p.response, p.parsed, p.raw)
    <3>1. q = Fields(<<>>, r.retriesLeft, r.dest, r.type, r.offset,
                     r.length, r.response, r.parsed, r.raw)
      BY <2>3, Updates
    <3> QED BY <2>3, <3>1
  <2> HIDE DEF q
  <2>5. /\ HasFields(q) /\ q.active = <<>> /\ q.retriesLeft = 0
        /\ q.dest = p.dest /\ q.type = p.type /\ q.offset = p.offset
        /\ q.length = p.length /\ q.response = p.response /\ q.raw = p.raw
    BY <2>4, FieldsOf
  <2>6. 0 \in 0..MaxRequestRetries
    BY RetriesAssumption
  <2>7. /\ WellFormed(q) /\ Contiguous(q) /\ (Known(p) => Known(q))
        /\ InTable(p) => InTable(q)
    BY <2>5, <2>6 DEF WellFormed, Contiguous, Known, InTable
  <2>8. Over(o) /\ Kept(p, o)
    BY <2>2, <2>5, <2>7 DEF Over, Kept, Sound, FinalReplies
  <2> QED BY <1>3, <2>2, <2>8 DEF o
<1>4. CASE p.active # <<>> /\ p.retriesLeft # 1
  <2> DEFINE n == p.retriesLeft - 1  q == [p EXCEPT !.retriesLeft = n]
  <2>1. q = Fields(p.active, n, p.dest, p.type, p.offset,
                   p.length, p.response, p.parsed, p.raw)
    BY <1>1, Updates
  <2>2. o = Ask(q)
    BY <1>4 DEF OnTimeout
  <2>3. o.parser = q /\ o.sends = q.active /\ o.reply = "none"
    BY <2>2 DEF Ask, Stay
  <2>4. n \in 0..MaxRequestRetries /\ n # 0
    BY <1>1, <1>4, RetriesAssumption DEF WellFormed
  <2> HIDE DEF q, o, n
  <2>5. /\ HasFields(q) /\ q.active = p.active /\ q.retriesLeft = n
        /\ q.dest = p.dest /\ q.type = p.type /\ q.offset = p.offset
        /\ q.length = p.length /\ q.response = p.response /\ q.raw = p.raw
    BY <2>1, FieldsOf
  <2>6. /\ WellFormed(q) /\ Contiguous(q) /\ (Known(p) => Known(q))
        /\ InTable(p) => InTable(q)
    BY <2>4, <2>5 DEF WellFormed, Contiguous, Known, InTable
  <2>7. Lacking(q) = Lacking(p) /\ (More(q) <=> More(p))
    BY <2>5 DEF Lacking, More
  <2>8. InSync(p) => InSync(q)
    BY <2>5, <2>7 DEF InSync
  <2>9. ShortHoliday(p) => ShortHoliday(q)
    BY <2>5 DEF ShortHoliday, IsHoliday
  <2>10. Kept(p, o)
    BY <2>3, <2>5, <2>6 DEF Kept, Sound
  <2> QED BY <1>4, <2>3, <2>4, <2>5, <2>8, <2>9, <2>10 DEF n, o
<1> QED BY <1>2, <1>3, <1>4
-----------------------------------------------------------------------------
(* Commands *)

\* Some bytes that a table can hold.
IsRange(offset, length) ==
    offset \in 0..255 /\ length \in 1..255 /\ offset + length <= 256

\* A command's first request: a byte for its offset; a read asks for at most 255
\* bytes and, unless it is a raw one, for a range of a table handleResponse knows.
Proper(c) ==
    /\ c.read \in BOOLEAN /\ c.offset \in 0..255
    /\ c.read => /\ c.type \in Int /\ c.length \in 0..255 /\ c.raw \in BOOLEAN
                 /\ c.raw \/ (c.type \in KnownTypes /\ IsRange(c.offset, c.length))

AllProper(S) == \A c \in S : Proper(c)

\* Two sets of commands at a time.
LEMMA BothProper ==
    ASSUME NEW S, NEW T, AllProper(S), AllProper(T)
    PROVE  AllProper(S \cup T)
BY DEF AllProper

\* The ones that sendCommand puts together.
LEMMA SendsProper ==
    ASSUME NEW name, NEW dest, NEW type, NEW offset \in Int, NEW data
    PROVE  Proper(Sends(name, dest, type, offset, data))
<1>1. offset % 256 \in 0..255
  BY ByteRange
<1> QED BY <1>1 DEF Proper, Sends

\* A set of commands that sendCommand puts together from different data.
LEMMA AllSendsProper ==
    ASSUME NEW name, NEW dest, NEW type, NEW offset \in Int, NEW S,
           \A c \in S : \E data : c = Sends(name, dest, type, offset, data)
    PROVE  AllProper(S)
<1>1. \A data : Proper(Sends(name, dest, type, offset, data))
  BY SendsProper, Zenon
<1> QED BY <1>1, Zenon DEF AllProper

\* The ones that startRequest puts together.
LEMMA ReadsProper ==
    ASSUME NEW name, NEW dest, NEW type \in Int, NEW offset, NEW length,
           IsRange(offset, length), type \in KnownTypes
    PROVE  Proper(Reads(name, dest, type, offset, length))
<1>1. offset \in 0..255 /\ length \in 0..255
  BY DEF IsRange
<1> QED BY <1>1 DEF Proper, Reads

\* The commands that send one byte.
LEMMA ChoiceProper ==
    ASSUME NEW name, NEW dest, NEW type, NEW offset \in Int, NEW values
    PROVE  AllProper(Choice(name, dest, type, offset, values))
BY SendsProper DEF AllProper, Choice

\* The ones that take the byte from a number.
LEMMA ValueProper ==
    ASSUME NEW name, NEW dest, NEW type, NEW offset \in Int, NEW multiplier, NEW min, NEW max
    PROVE  /\ AllProper(SingleByteValue(name, dest, type, offset, multiplier, min, max))
           /\ AllProper(IntParameter(name, dest, type, offset, min, max))
BY ChoiceProper DEF SingleByteValue, IntParameter

\* holidaymode and vacationmode.
LEMMA SetHolidayProper ==
    ASSUME NEW name, NEW type, NEW offset \in Int
    PROVE  AllProper(SetHoliday(name, type, offset))
BY SendsProper DEF AllProper, SetHoliday

\* The types of the tables that the read commands ask for.
LEMMA TypesOfReads ==
    /\ {2, 16, 18, 21, 28, 51, 56, 57, 164, 165} \subseteq KnownTypes \cap Int
    /\ HkBases \subseteq KnownTypes \cap Int
    /\ \A t \in HkBases : t + 2 \in KnownTypes /\ t + 2 \in Int
    /\ \A t \in HkBases : t + 5 \in KnownTypes /\ t + 5 \in Int
<1>1. {2, 16, 18, 21, 28, 51, 56, 57, 164, 165} \subseteq KnownTypes
  <2>1. {16, 18} \subseteq ErrorLists
    BY DEF ErrorLists
  <2>2. {2, 21, 28, 51, 165} \subseteq OneAnswer
    BY DEF OneAnswer
  <2>3. 164 \in Pieces
    BY DEF Pieces
  <2> QED BY <2>1, <2>2, <2>3 DEF KnownTypes
<1>2. HkBases \subseteq KnownTypes /\ HkBases \subseteq Int
  BY DEF KnownTypes, Pieces, HkBases
<1>3. \A t \in HkBases : t + 2 \in ScheduleTypes /\ t + 5 \in ScheduleTypes
  BY DEF ScheduleTypes
<1> QED BY <1>1, <1>2, <1>3 DEF KnownTypes

\* The offsets of the commands are numbers.
LEMMA Offsets ==
    /\ 0 \in Int /\ 1 \in Int /\ 2 \in Int /\ 3 \in Int /\ 4 \in Int /\ 5 \in Int
    /\ 6 \in Int /\ 7 \in Int /\ 8 \in Int /\ 9 \in Int /\ 15 \in Int /\ 16 \in Int
    /\ 17 \in Int /\ 19 \in Int /\ 21 \in Int /\ 22 \in Int /\ 23 \in Int
    /\ 25 \in Int /\ 28 \in Int /\ 32 \in Int /\ 37 \in Int /\ 38 \in Int
    /\ 39 \in Int /\ 40 \in Int /\ 41 \in Int /\ 84 \in Int /\ 85 \in Int
    /\ 86 \in Int /\ 87 \in Int /\ 93 \in Int
OBVIOUS

\* getcustomschedule and customschedule.
LEMMA ScheduleProper ==
    ASSUME NEW name, NEW type
    PROVE  /\ AllProper(CustomSchedule(name, type))
           /\ type \in KnownTypes /\ type \in Int => AllProper(GetSchedule(name, type))
<1>1. \A index \in 0..42 : (index - 1) * ScheduleEntrySize \in Int
  BY DEF ScheduleEntrySize
<1>2. AllProper(CustomSchedule(name, type))
  BY <1>1, SendsProper DEF AllProper, CustomSchedule
<1>3. IsRange(0, 42 * ScheduleEntrySize)
  BY DEF ScheduleEntrySize, IsRange
<1> QED BY <1>2, <1>3, ReadsProper DEF AllProper, GetSchedule

\* hk1 to hk4.
LEMMA HkProper ==
    ASSUME NEW type \in HkBases
    PROVE  AllProper(HkCommands(type))
<1>1. /\ type \in KnownTypes /\ type \in Int
      /\ type + 2 \in KnownTypes /\ type + 2 \in Int
      /\ type + 5 \in KnownTypes /\ type + 5 \in Int
  BY TypesOfReads
<1>2. AllProper(HkModes(type))
  <2>1. Proper(Reads("hk requestdata", RC3x, type, 0, 42))
    <3>1. IsRange(0, 42)
      BY DEF IsRange
    <3> QED BY <1>1, <3>1, ReadsProper, Zenon
  <2>2. /\ AllProper(Choice("hk mode", RC3x, type, 7, 0..2))
        /\ AllProper(Choice("hk temperatureoverride", RC3x, type, 37, {0} \cup 10..60))
    BY Offsets, ChoiceProper, Zenon
  <2>3. /\ AllProper(SingleByteValue("hk daytemperature", RC3x, type, 2, 2, 5, 30))
        /\ AllProper(SingleByteValue("hk nighttemperature", RC3x, type, 1, 2, 5, 30))
        /\ AllProper(SingleByteValue("hk vacationtemperature", RC3x, type, 3, 2, 5, 30))
        /\ AllProper(IntParameter("hk partymode", RC3x, type + 2, 86, 0, 99))
        /\ AllProper(IntParameter("hk pausemode", RC3x, type + 2, 85, 0, 99))
    BY Offsets, ValueProper, Zenon
  <2>4. /\ AllProper(SetHoliday("hk holidaymode", type + 2, 93))
        /\ AllProper(SetHoliday("hk vacationmode", type + 2, 87))
    BY Offsets, SetHolidayProper, Zenon
  <2> QED BY <2>1, <2>2, <2>3, <2>4, Zenon DEF AllProper, HkModes
<1>3. AllProper(HkSchedules(type))
  <2>1. /\ Proper(Reads("hk getactiveschedule", RC3x, type + 2, 84, 1))
        /\ Proper(Reads("hk getvacation", RC3x, type + 2, 87, 2 * HolidayEntrySize))
        /\ Proper(Reads("hk getholiday", RC3x, type + 2, 93, 2 * HolidayEntrySize))
    <3>1. /\ IsRange(84, 1) /\ IsRange(87, 2 * HolidayEntrySize)
          /\ IsRange(93, 2 * HolidayEntrySize)
      BY DEF HolidayEntrySize, IsRange
    <3> QED BY <1>1, <3>1, ReadsProper, Zenon
  <2>2. AllProper(Choice("hk selectschedule", RC3x, type + 2, 84, 0..10))
    BY Offsets, ChoiceProper, Zenon
  <2>3. \A schedule \in 1..2 :
           /\ type + (schedule - 1) * 3 + 2 \in KnownTypes
           /\ type + (schedule - 1) * 3 + 2 \in Int
    <3> SUFFICES ASSUME NEW schedule \in 1..2
                 PROVE  type + (schedule - 1) * 3 + 2 \in {type + 2, type + 5}
      BY <1>1
    <3>1. schedule = 1 \/ schedule = 2
      OBVIOUS
    <3> QED BY <1>1, <3>1
  <2>4. \A schedule \in 1..2 :
           /\ AllProper(CustomSchedule("hk customschedule", type + (schedule - 1) * 3 + 2))
           /\ AllProper(GetSchedule("hk getcustomschedule", type + (schedule - 1) * 3 + 2))
    BY <2>3, ScheduleProper, Zenon
  <2>5. ASSUME NEW c \in HkSchedules(type)
        PROVE  \/ \E schedule \in 1..2 :
                     \/ c \in CustomSchedule("hk customschedule",
                                             type + (schedule - 1) * 3 + 2)
                     \/ c \in GetSchedule("hk getcustomschedule",
                                          type + (schedule - 1) * 3 + 2)
               \/ c = Reads("hk getactiveschedule", RC3x, type + 2, 84, 1)
               \/ c = Reads("hk getvacation", RC3x, type + 2, 87, 2 * HolidayEntrySize)
               \/ c = Reads("hk getholiday", RC3x, type + 2, 93, 2 * HolidayEntrySize)
               \/ c \in Choice("hk selectschedule", RC3x, type + 2, 84, 0..10)
    BY Zenon DEF HkSchedules
  <2> QED BY <2>1, <2>2, <2>4, <2>5, Zenon DEF AllProper
<1>4. AllProper(HkHeatingSystem(type))
  <2>1. AllProper(Choice("hk heatingsystem", RC3x, type, 0, 0..4))
    BY Offsets, ChoiceProper, Zenon
  <2>2. AllProper({Sends("hk heatingsystem", RC3x, type, 32, system_control) :
                     system_control \in (0..3) \X (0..1)})
    <3> DEFINE S == {Sends("hk heatingsystem", RC3x, type, 32, system_control) :
                       system_control \in (0..3) \X (0..1)}
    <3>1. \A c \in S : \E data : c = Sends("hk heatingsystem", RC3x, type, 32, data)
      BY Zenon
    <3> HIDE DEF S
    <3>2. AllProper(S)
      BY <3>1, Offsets, AllSendsProper, Zenon
    <3> QED BY <3>2 DEF S
  <2>3. AllProper({})
    BY DEF AllProper
  <2> DEFINE A == Choice("hk heatingsystem", RC3x, type, 0, 0..4)
             B == {Sends("hk heatingsystem", RC3x, type, 32, system_control) :
                     system_control \in (0..3) \X (0..1)}
             C == CASE RoomControllerType = "RC30" -> A
                    [] RoomControllerType = "RC35" -> B
                    [] OTHER -> {}
  <2>7. HkHeatingSystem(type) = C
    BY DEF HkHeatingSystem
  <2>8. AllProper(A) /\ AllProper(B)
    BY <2>1, <2>2
  <2> HIDE DEF A, B
  <2>4. CASE RoomControllerType = "RC30"
    BY <2>4, <2>7, <2>8
  <2>5. CASE RoomControllerType = "RC35"
    BY <2>5, <2>7, <2>8
  <2>6. CASE RoomControllerType \notin {"RC30", "RC35"}
    BY <2>3, <2>6, <2>7
  <2> QED BY <2>4, <2>5, <2>6
<1>5. AllProper(HkSettings(type))
  <2>1. /\ AllProper(Choice("hk scheduleoptimizer", RC3x, type, 19, OnOff))
        /\ AllProper(Choice("hk reductionmode", RC3x, type, 25, 0..3))
        /\ AllProper(Choice("hk vacationreductionmode", RC3x, type, 41, {2, 3}))
        /\ AllProper(Choice("hk frostprotectmode", RC3x, type, 28, 0..2))
    BY Offsets, ChoiceProper, Zenon
  <2> QED BY <1>4, <2>1, Zenon DEF AllProper, HkSettings
<1>6. AllProper(HkLimits(type))
  <2>1. /\ AllProper(SingleByteValue("hk mintemperature", RC3x, type, 16, 1, 5, 70))
        /\ AllProper(SingleByteValue("hk maxtemperature", RC3x, type, 15, 1, 30, 90))
        /\ AllProper(SingleByteValue("hk maxroomeffect", RC3x, type, 4, 2, 0, 10))
        /\ AllProper(SingleByteValue("hk roomtemperatureoffset", RC3x, type, 6, 2, -5, 5))
        /\ AllProper(SingleByteValue("hk designtemperature", RC3x, type, 17, 1, 30, 90))
    BY Offsets, ValueProper, Zenon
  <2>2. /\ AllProper(SingleByteValue("hk frostprotecttemperature", RC3x, type, 23, 1, -20, 10))
        /\ AllProper(SingleByteValue("hk summerwinterthreshold", RC3x, type, 22, 1, 0, 30))
        /\ AllProper(SingleByteValue("hk reducedmodethreshold", RC3x, type, 39, 1, -20, 10))
        /\ AllProper(SingleByteValue("hk vacationreducedmodethreshold", RC3x, type, 40, 1, -20, 10))
        /\ AllProper(SingleByteValue("hk cancelreducedmodethreshold", RC3x, type, 38, 1, -31, 10))
    BY Offsets, ValueProper, Zenon
  <2> DEFINE
        A == SingleByteValue("hk mintemperature", RC3x, type, 16, 1, 5, 70)
        B == SingleByteValue("hk maxtemperature", RC3x, type, 15, 1, 30, 90)
        C == SingleByteValue("hk maxroomeffect", RC3x, type, 4, 2, 0, 10)
        D == SingleByteValue("hk roomtemperatureoffset", RC3x, type, 6, 2, -5, 5)
        E == SingleByteValue("hk designtemperature", RC3x, type, 17, 1, 30, 90)
        F == SingleByteValue("hk frostprotecttemperature", RC3x, type, 23, 1, -20, 10)
        G == SingleByteValue("hk summerwinterthreshold", RC3x, type, 22, 1, 0, 30)
        H == SingleByteValue("hk reducedmodethreshold", RC3x, type, 39, 1, -20, 10)
        I == SingleByteValue("hk vacationreducedmodethreshold", RC3x, type, 40, 1, -20, 10)
        J == SingleByteValue("hk cancelreducedmodethreshold", RC3x, type, 38, 1, -31, 10)
  <2>3. HkLimits(type) = A \cup B \cup C \cup D \cup E \cup F \cup G \cup H \cup I \cup J
    BY DEF HkLimits
  <2>4. /\ AllProper(A) /\ AllProper(B) /\ AllProper(C) /\ AllProper(D) /\ AllProper(E)
        /\ AllProper(F) /\ AllProper(G) /\ AllProper(H) /\ AllProper(I) /\ AllProper(J)
    BY <2>1, <2>2
  <2> HIDE DEF A, B, C, D, E, F, G, H, I, J
  <2> QED BY <2>3, <2>4, Zenon DEF AllProper
<1> QED BY <1>2, <1>3, <1>5, <1>6, Zenon DEF AllProper, HkCommands

\* raw read and raw write.
LEMMA RawProper == AllProper(RawReadWrite)
<1> SUFFICES ASSUME NEW a \in RawCommands
             PROVE  /\ Proper([Reads("raw read", a[1], a[2], a[3], a[4]) EXCEPT !.raw = TRUE])
                    /\ Proper(Sends("raw write", a[1], a[2], a[3], <<a[4]>>))
  BY DEF AllProper, RawReadWrite
<1>1. a[2] \in 0..255 /\ a[3] \in 0..255 /\ a[4] \in 0..255
  BY RawAssumption
<1>2. Proper([Reads("raw read", a[1], a[2], a[3], a[4]) EXCEPT !.raw = TRUE])
  BY <1>1 DEF Proper, Reads
<1>3. a[3] \in Int
  BY <1>1
<1> QED BY <1>2, <1>3, SendsProper

\* Every command that is accepted is one of these.
LEMMA CommandsProper == AllProper(Commands)
<1>1. /\ 2 \in KnownTypes /\ 2 \in Int /\ 16 \in KnownTypes /\ 16 \in Int
      /\ 18 \in KnownTypes /\ 18 \in Int /\ 21 \in KnownTypes /\ 21 \in Int
      /\ 28 \in KnownTypes /\ 28 \in Int /\ 51 \in KnownTypes /\ 51 \in Int
      /\ 56 \in KnownTypes /\ 56 \in Int /\ 57 \in KnownTypes /\ 57 \in Int
      /\ 164 \in KnownTypes /\ 164 \in Int /\ 165 \in KnownTypes /\ 165 \in Int
  BY TypesOfReads
<1>2. /\ IsRange(0, 25) /\ IsRange(0, 42) /\ IsRange(0, 4 * ErrorRecordSize)
      /\ IsRange(0, 5) /\ IsRange(0, 8 * ErrorRecordSize) /\ IsRange(5, 3)
      /\ IsRange(0, 10) /\ IsRange(0, 3)
  BY DEF ErrorRecordSize, IsRange
<1>3. AllProper(RcCommands)
  <2>1. /\ Proper(Reads("rc requestdata", RC3x, 165, 0, 25))
        /\ Proper(Reads("rc getcontactinfo", RC3x, 164, 0, 42))
        /\ Proper(Reads("rc geterrors", RC3x, 18, 0, 4 * ErrorRecordSize))
    BY <1>1, <1>2, ReadsProper, Zenon
  <2>2. \A line \in 1..2 : (line - 1) * 21 \in Int
    OBVIOUS
  <2>3. AllProper({Sends("rc setcontactinfo", RC3x, 164, (line - 1) * 21,
                         [i \in 1..21 |-> 32]) : line \in 1..2})
    BY <2>2, SendsProper, Zenon DEF AllProper
  <2>4. Proper(Sends("rc settime", RC3x, 6, 0, [i \in 1..SystemTimeRecordSize |-> 0]))
    BY Offsets, SendsProper, Zenon
  <2>5. AllProper(SingleByteValue("rc mintemperature", RC3x, 165, 5, 1, -30, 0))
    BY Offsets, ValueProper, Zenon
  <2>6. /\ AllProper(Choice("rc buildingtype", RC3x, 165, 6, 0..2))
        /\ AllProper(Choice("rc outdoortempdamping", RC3x, 165, 21, OnOff))
    BY Offsets, ChoiceProper, Zenon
  <2> DEFINE
        R == {Reads("rc requestdata", RC3x, 165, 0, 25),
              Reads("rc getcontactinfo", RC3x, 164, 0, 42),
              Reads("rc geterrors", RC3x, 18, 0, 4 * ErrorRecordSize)}
        A == SingleByteValue("rc mintemperature", RC3x, 165, 5, 1, -30, 0)
        B == Choice("rc buildingtype", RC3x, 165, 6, 0..2)
        C == Choice("rc outdoortempdamping", RC3x, 165, 21, OnOff)
        D == {Sends("rc setcontactinfo", RC3x, 164, (line - 1) * 21,
                    [i \in 1..21 |-> 32]) : line \in 1..2}
        E == {Sends("rc settime", RC3x, 6, 0, [i \in 1..SystemTimeRecordSize |-> 0])}
  <2>7. RcCommands = R \cup A \cup B \cup C \cup D \cup E
    BY Zenon DEF RcCommands
  <2>8. AllProper(R) /\ AllProper(E)
    BY <2>1, <2>4, Zenon DEF AllProper
  <2>9. AllProper(A) /\ AllProper(B) /\ AllProper(C) /\ AllProper(D)
    BY <2>3, <2>5, <2>6
  <2> HIDE DEF A, B, C, D, E, R
  <2> QED BY <2>7, <2>8, <2>9, Zenon DEF AllProper
<1>4. AllProper(UbaCommands)
  <2>1. /\ Proper(Reads("uba requestdata", UBA, 21, 0, 5))
        /\ Proper(Reads("uba geterrors", UBA, 16, 0, 8 * ErrorRecordSize))
        /\ Proper(Reads("uba checkmaintenanceneeded", UBA, 28, 5, 3))
    BY <1>1, <1>2, ReadsProper, Zenon
  <2>2. /\ AllProper(IntParameter("uba antipendel", UBA, 22, 6, 0, 120))
        /\ AllProper(SingleByteValue("uba hyst on", UBA, 22, 5, 1, -20, -1))
        /\ AllProper(SingleByteValue("uba hyst off", UBA, 22, 4, 1, 1, 20))
        /\ AllProper(IntParameter("uba pumpdelay", UBA, 22, 8, 0, 120))
    BY Offsets, ValueProper, Zenon
  <2> DEFINE
        A == {Sends("uba burnermodulation", UBA, 22, 2, mm) :
                mm \in {x \in MinMax : x[2] <= x[1]}}
        B == {Sends("uba pumpmodulation", UBA, 22, 9, mm) :
                mm \in {x \in MinMax : x[2] <= x[1]}}
        C == {Sends("uba schedulemaintenance", UBA, 21, 0, <<0, 60, 1, 1, 4>>)}
        D == {Sends("uba schedulemaintenance", UBA, 21, 0, <<1, h, 1, 1, 4>>) : h \in 0..60}
        E == {Sends("uba schedulemaintenance", UBA, 21, 0, <<2, 60>> \o HolidayEntry(d)) :
                d \in Dates}
        F == {Sends("uba testmode", UBA, 29, 0,
                    <<mode>> \o [i \in 1..10 |-> 0]) : mode \in {90, 0}}
        R == {Reads("uba requestdata", UBA, 21, 0, 5),
              Reads("uba geterrors", UBA, 16, 0, 8 * ErrorRecordSize),
              Reads("uba checkmaintenanceneeded", UBA, 28, 5, 3)}
        V == IntParameter("uba antipendel", UBA, 22, 6, 0, 120)
        W == SingleByteValue("uba hyst on", UBA, 22, 5, 1, -20, -1)
        X == SingleByteValue("uba hyst off", UBA, 22, 4, 1, 1, 20)
        Y == IntParameter("uba pumpdelay", UBA, 22, 8, 0, 120)
  <2>3. UbaCommands = R \cup V \cup W \cup X \cup A \cup B \cup Y \cup C \cup D \cup E \cup F
    BY Zenon DEF UbaCommands
  <2>4. AllProper(R)
    BY <2>1, Zenon DEF AllProper
  <2>5. AllProper(A)
    <3>1. \A c \in A : \E data : c = Sends("uba burnermodulation", UBA, 22, 2, data)
      BY Zenon
    <3>2. 2 \in Int
      OBVIOUS
    <3> HIDE DEF A
    <3> QED BY <3>1, <3>2, AllSendsProper, Zenon
  <2>6. AllProper(B)
    <3>1. \A c \in B : \E data : c = Sends("uba pumpmodulation", UBA, 22, 9, data)
      BY Zenon
    <3>2. 9 \in Int
      OBVIOUS
    <3> HIDE DEF B
    <3> QED BY <3>1, <3>2, AllSendsProper, Zenon
  <2>7. AllProper(C)
    <3>1. \A c \in C : \E data : c = Sends("uba schedulemaintenance", UBA, 21, 0, data)
      BY Zenon
    <3>2. 0 \in Int
      OBVIOUS
    <3> HIDE DEF C
    <3> QED BY <3>1, <3>2, AllSendsProper, Zenon
  <2>8. AllProper(D)
    <3>1. \A c \in D : \E data : c = Sends("uba schedulemaintenance", UBA, 21, 0, data)
      BY Zenon
    <3>2. 0 \in Int
      OBVIOUS
    <3> HIDE DEF D
    <3> QED BY <3>1, <3>2, AllSendsProper, Zenon
  <2>9. AllProper(E)
    <3>1. \A c \in E : \E data : c = Sends("uba schedulemaintenance", UBA, 21, 0, data)
      BY Zenon
    <3>2. 0 \in Int
      OBVIOUS
    <3> HIDE DEF E
    <3> QED BY <3>1, <3>2, AllSendsProper, Zenon
  <2>10. AllProper(F)
    <3>1. \A c \in F : \E data : c = Sends("uba testmode", UBA, 29, 0, data)
      BY Zenon
    <3>2. 0 \in Int
      OBVIOUS
    <3> HIDE DEF F
    <3> QED BY <3>1, <3>2, AllSendsProper, Zenon
  <2> HIDE DEF A, B, C, D, E, F, R
  <2>11. AllProper(V) /\ AllProper(W) /\ AllProper(X) /\ AllProper(Y)
    BY <2>2
  <2> HIDE DEF V, W, X, Y
  <2> QED BY <2>3, <2>4, <2>5, <2>6, <2>7, <2>8, <2>9, <2>10, <2>11, Zenon
          DEF AllProper
<1>5. AllProper(WwCommands)
  <2>1. Proper(Reads("ww requestdata", UBA, 51, 0, 10))
    BY <1>1, <1>2, ReadsProper, Zenon
  <2>2. /\ AllProper(GetSchedule("ww getcustomschedule", 56))
        /\ AllProper(CustomSchedule("ww customschedule", 56))
    BY <1>1, ScheduleProper, Zenon
  <2>3. /\ AllProper(IntParameter("ww temperature", UBA, 51, 2, 30, 80))
        /\ AllProper(IntParameter("ww limittemperature", RC3x, 55, 8, 30, 80))
    BY Offsets, ValueProper, Zenon
  <2>4. /\ AllProper(Choice("ww mode", RC3x, 55, 2, 0..2))
        /\ AllProper(Choice("ww loadonce", UBA, 53, 0, {35}))
        /\ AllProper(Choice("ww cancelload", UBA, 53, 0, {3}))
        /\ AllProper(Choice("ww showloadindicator", RC3x, 55, 9, OnOff))
        /\ AllProper(Choice("ww selectschedule", RC3x, 55, 0, OnOff))
    BY Offsets, ChoiceProper, Zenon
  <2> QED BY <2>1, <2>2, <2>3, <2>4, Zenon DEF AllProper, WwCommands
<1>6. AllProper(ThermDesinfectCommands)
  <2>1. /\ AllProper(IntParameter("ww thermdesinfect hour", RC3x, 55, 6, 0, 23))
        /\ AllProper(IntParameter("ww thermdesinfect temperature", UBA, 51, 8, 60, 80))
    BY Offsets, ValueProper, Zenon
  <2>2. /\ AllProper(Choice("ww thermdesinfect mode", RC3x, 55, 4, OnOff))
        /\ AllProper(Choice("ww thermdesinfect day", RC3x, 55, 5, 0..7))
    BY Offsets, ChoiceProper, Zenon
  <2> QED BY <2>1, <2>2, Zenon DEF AllProper, ThermDesinfectCommands
<1>7. AllProper(ZirkPumpCommands)
  <2>1. /\ AllProper(GetSchedule("ww zirkpump getcustomschedule", 57))
        /\ AllProper(CustomSchedule("ww zirkpump customschedule", 57))
    BY <1>1, ScheduleProper, Zenon
  <2>2. AllProper(IntParameter("ww zirkpump count", UBA, 51, 7, 1, 7))
    BY Offsets, ValueProper, Zenon
  <2>3. /\ AllProper(Choice("ww zirkpump mode", RC3x, 55, 3, 0..2))
        /\ AllProper(Choice("ww zirkpump selectschedule", RC3x, 55, 1, OnOff))
    BY Offsets, ChoiceProper, Zenon
  <2> QED BY <2>1, <2>2, <2>3, Zenon DEF AllProper, ZirkPumpCommands
<1>8. Proper(Reads("getversion", UBA, 2, 0, 3))
  BY <1>1, <1>2, ReadsProper, Zenon
<1>9. \A type \in HkBases : AllProper(HkCommands(type))
  BY HkProper
<1>10. AllProper(RawReadWrite)
  BY RawProper
<1>11. ASSUME NEW c \in Commands
       PROVE  \/ \E type \in HkBases : c \in HkCommands(type)
              \/ c \in WwCommands \/ c \in ThermDesinfectCommands
              \/ c \in ZirkPumpCommands \/ c \in RcCommands \/ c \in UbaCommands
              \/ c \in RawReadWrite \/ c = Reads("getversion", UBA, 2, 0, 3)
  BY Zenon DEF Commands
<1> QED BY <1>3, <1>4, <1>5, <1>6, <1>7, <1>8, <1>9, <1>10, <1>11, Zenon DEF AllProper
-----------------------------------------------------------------------------
(* The calls into a parser, with what its client and a device put into them *)

\* A command that is to read nothing is accepted and asks for nothing; reading
\* beyond the end of a table asks for its start.  Only raw reads can say so.
ReadsWithin(c) == c.read => IsRange(c.offset, c.length)

\* The command is refused, asks for something, or has nothing to ask for.
ParsedTo(p, c, o) ==
    \/ p.active # <<>> /\ o.parser = p /\ o.sends = <<>> /\ o.reply = "ERRBUSY"
    \/ p.active = <<>> /\ Asked(o)
    \/ /\ p.active = <<>> /\ o.parser.active = <<>> /\ ~ReadsWithin(c)
       /\ o.sends = <<>> /\ o.reply = "none"

\* A read asks for a range of its own.
AsksFor(c, o) ==
    o.sends # <<>> /\ o.sends[1].read =>
        Known(o.parser) /\ (ReadsWithin(c) => InTable(o.parser))

\* parse refuses while a request is active; else it asks for something, unless it
\* was told to read nothing.
LEMMA ParseEnds ==
    ASSUME NEW p, WellFormed(p), Contiguous(p), NEW c \in Commands
    PROVE  LET o == Parse(p, c)
           IN  Sound(p, o.parser) /\ ParsedTo(p, c, o) /\ AsksFor(c, o)
<1> DEFINE o == Parse(p, c)
<1>0. Proper(c)
  BY CommandsProper DEF AllProper
<1>1. CASE p.active # <<>>
  <2>1. o.parser = p /\ o.sends = <<>> /\ o.reply = "ERRBUSY"
    BY <1>1 DEF Parse, Stay
  <2> HIDE DEF o
  <2>2. Sound(p, o.parser)
    BY <2>1 DEF Sound
  <2> QED BY <1>1, <2>1, <2>2 DEF o, ParsedTo, AsksFor
<1>2. CASE p.active = <<>> /\ c.read
  <2> DEFINE q == StartRequest(p, c.dest, c.type, c.offset, c.length, c.raw)
  <2>1. o = Ask(q)
    BY <1>2 DEF Parse
  <2>2. /\ c.type \in Int /\ c.offset \in Nat /\ c.length \in 0..255
        /\ c.raw \in BOOLEAN /\ (c.raw \/ c.type \in KnownTypes)
    <3>1. /\ c.type \in Int /\ c.offset \in 0..255 /\ c.length \in 0..255
          /\ c.raw \in BOOLEAN /\ (c.raw \/ c.type \in KnownTypes)
      BY <1>0, <1>2, Zenon DEF Proper
    <3>2. \A i \in 0..255 : i \in Nat
      OBVIOUS
    <3> QED BY <3>1, <3>2, Zenon
  <2>0. c.dest \in Dests
    BY Zenon DEF Dests
  <2>3. Started(p, q, c.dest, c.type, c.offset, c.length, c.raw)
    BY <2>0, <2>2, StartRequestAsks
  <2>4. o.parser = q /\ o.sends = q.active /\ o.reply = "none"
    BY <2>1 DEF Ask, Stay
  <2> HIDE DEF o, q
  <2>5. WellFormed(q) /\ Contiguous(q) /\ Known(q)
    BY <2>2, <2>3 DEF Started
  <2>6. Sound(p, o.parser)
    BY <2>4, <2>5 DEF Sound
  <2>7. ReadsWithin(c) => InTable(q) /\ c.length # 0
    <3> SUFFICES ASSUME IsRange(c.offset, c.length)
                 PROVE  InTable(q) /\ c.length # 0
      BY <1>2 DEF ReadsWithin
    <3>1. c.length # 0
      BY DEF IsRange
    <3>2. c.offset + c.length <= 256
      BY DEF IsRange
    <3> QED BY <2>3, <3>1, <3>2, Zenon DEF Started
  <2>8. ParsedTo(p, c, o)
    <3>1. CASE c.length = 0
      BY <1>2, <2>3, <2>4, <2>7, <3>1 DEF ParsedTo, Started
    <3>2. CASE c.length # 0
      BY <1>2, <2>1, <2>3, <3>2 DEF ParsedTo, Started, ReadsOn
    <3> QED BY <3>1, <3>2
  <2>9. AsksFor(c, o)
    BY <2>4, <2>5, <2>7 DEF AsksFor
  <2> QED BY <2>6, <2>8, <2>9 DEF o
<1>3. CASE p.active = <<>> /\ ~c.read
  <2> DEFINE r == Request(c.dest, c.type, c.offset, c.data, FALSE)  q == SendCommand(p, r)
  <2>1. o = Ask(q)
    BY <1>3 DEF Parse
  <2>2. r \in Requests /\ ~r.read
    <3>1. c.dest \in Dests /\ c.type \in Types /\ c.data \in Payloads
      BY Zenon DEF Dests, Types, Payloads
    <3>2. c.offset \in 0..255
      BY <1>0 DEF Proper
    <3> QED BY <3>1, <3>2 DEF Requests, Request
  <2>3. o.parser = q /\ o.sends = q.active /\ o.reply = "none"
    BY <2>1 DEF Ask, Stay
  <2> HIDE DEF o, q, r
  <2>4. /\ WellFormed(q) /\ Contiguous(q) /\ (Known(p) => Known(q))
        /\ q.active = <<r>> /\ q.retriesLeft = MaxRequestRetries
    BY <2>2, SendCommandKeeps DEF q
  <2>5. o.sends # <<>> /\ ~o.sends[1].read
    BY <2>2, <2>3, <2>4
  <2>6. InSync(q)
    BY <2>2, <2>4 DEF InSync
  <2>7. Sound(p, o.parser) /\ Asked(o)
    BY <2>3, <2>4, <2>5, <2>6 DEF Sound, Asked
  <2> QED BY <1>3, <2>5, <2>7 DEF o, ParsedTo, AsksFor
<1> QED BY <1>1, <1>2, <1>3

\* The constructor leaves a parser that does nothing yet.
LEMMA NewParserIs ==
    ASSUME NEW g \in Garbage
    PROVE  /\ WellFormed(NewParser(g)) /\ Contiguous(NewParser(g))
           /\ NewParser(g).active = <<>>
<1> DEFINE q == NewParser(g)
<1>1. PICK raw \in BOOLEAN : q = Fields(<<>>, 0, g.dest, g.type, g.offset, 0, <<>>, 0, raw)
  <2>1. q = Fields(<<>>, 0, g.dest, g.type, g.offset, 0, <<>>, 0, FALSE)
    BY Zenon DEF NewParser, Fields
  <2>2. FALSE \in BOOLEAN
    OBVIOUS
  <2> HIDE DEF q
  <2> QED BY <2>1, <2>2, Zenon
<1> HIDE DEF q
<1>2. /\ HasFields(q) /\ q.active = <<>> /\ q.retriesLeft = 0 /\ q.dest = g.dest /\ q.type = g.type
      /\ q.offset = g.offset /\ q.length = 0 /\ q.response = <<>>
  BY <1>1, FieldsOf
<1>3. q.raw \in BOOLEAN
  BY <1>1, FieldsOf
<1>4. g.dest \in Dests /\ g.type \in Int /\ g.offset \in Nat
  <2>1. g.dest \in Dests
    BY Zenon DEF Dests
  <2>2. g.type \in 0..255 /\ g.offset \in Nat
    BY GarbageAssumption
  <2> QED BY <2>1, <2>2
<1>5. 0 \in 0..MaxRequestRetries /\ 0 \in 0..255
  BY RetriesAssumption
<1>6. WellFormed(q)
  <2>1. q.retriesLeft \in 0..MaxRequestRetries /\ q.length \in 0..255
    BY <1>2, <1>5, Zenon
  <2>2. q.dest \in Dests /\ q.type \in Int /\ q.offset \in Nat
    BY <1>2, <1>4, Zenon
  <2> QED BY <1>2, <1>3, <2>1, <2>2, Zenon DEF WellFormed
<1>7. Len(q.response) = 0
  BY <1>2
<1>8. Stored(q.dest, q.type, q.offset, 0) = <<>>
  <2>1. q.offset \in Nat /\ 0 \in Nat
    BY <1>2, <1>4
  <2> QED BY <2>1, StoredLen, Zenon
<1>9. Contiguous(q)
  <2>1. Len(q.response) \in Nat
    BY <1>7
  <2>2. q.response = Stored(q.dest, q.type, q.offset, Len(q.response))
    BY <1>2, <1>7, <1>8, Zenon
  <2> QED BY <2>1, <2>2 DEF Contiguous
<1> QED BY <1>2, <1>6, <1>9 DEF q

\* Devices answer a request with an acknowledgement or with bytes they have stored.
LEMMA DevicesSay ==
    ASSUME NEW r \in Requests, NEW pieces, pieces \subseteq Nat,
           NEW m \in DeviceAnswers(r, pieces)
    PROVE  IsMessage(m) /\ (~r.read => m.type = Acknowledge)
<1>1. CASE r.read
  <2>1. PICK n \in pieces :
           m = [source |-> r.dest, type |-> r.type, offset |-> r.offset,
                data |-> Stored(r.dest, r.type, r.offset, n)]
    BY <1>1 DEF DeviceAnswers
  <2>2. /\ m.offset = r.offset
        /\ m.data = Stored(m.source, m.type, m.offset, n)
    BY <2>1
  <2> QED BY <1>1, <2>2 DEF IsMessage, Requests
<1>2. CASE ~r.read
  <2>1. PICK status \in {1, 4} :
           m = [source |-> r.dest, type |-> Acknowledge, offset |-> status,
                data |-> <<>>]
    BY <1>2 DEF DeviceAnswers
  <2>2. m.type = Acknowledge /\ m.offset \in 0..255
    BY <2>1
  <2> QED BY <2>2 DEF IsMessage
<1> QED BY <1>1, <1>2


\* An answer to the active request is never passed over: as long as the range ends
\* within the table, the byte asked for first is the one the response lacks.
LEMMA AnswerEnds ==
    ASSUME NEW p, WellFormed(p), Contiguous(p), InSync(p), p.active # <<>>,
           p.active[1].read => InTable(p), NEW pieces, pieces \subseteq Nat,
           NEW m \in DeviceAnswers(p.active[1], pieces),
           NEW o \in OnIncomingMessage(p, m)
    PROVE  Ended(p, o)
<1> DEFINE r == p.active[1]
<1>1. r \in Requests
  BY DEF WellFormed
<1>2. IsMessage(m) /\ (~r.read => m.type = Acknowledge)
  BY <1>1, DevicesSay
<1>3. ASSUME r.read PROVE Answers(p, m)
  <2>1. r = Lacking(p) /\ More(p)
    BY <1>3 DEF InSync
  <2>2. /\ m.source = r.dest /\ m.type = r.type /\ m.offset = r.offset
    BY <1>3 DEF DeviceAnswers
  <2>3. /\ r.dest = p.dest /\ r.type = p.type
        /\ r.offset = (p.offset + Len(p.response)) % 256
    BY <2>1 DEF Lacking, Request
  <2>4. (p.offset + Len(p.response)) % 256 = Len(p.response) + p.offset
    <3>1. /\ p.offset \in Nat /\ p.length \in 0..255 /\ Len(p.response) \in Nat
          /\ p.offset + p.length <= 256 /\ Len(p.response) < p.length
      BY <1>3, <2>1 DEF WellFormed, Contiguous, InTable, More
    <3>2. \A i \in Nat, j \in 0..255, k \in Nat :
             i + j <= 256 /\ k < j => (i + k) % 256 = k + i
      OBVIOUS
    <3> QED BY <3>1, <3>2, Zenon
  <2> QED BY <2>2, <2>3, <2>4 DEF Answers
<1> QED BY <1>2, <1>3, MessageEnds

-----------------------------------------------------------------------------
(* What the client is told *)

BusReplies == {"none", "OK", "FAIL"}

\* Each of the ways to leave a method says one of these, or what it is given to say.
LEMMA WaysReply ==
    ASSUME NEW p
    PROVE  /\ Stay(p).reply \in BusReplies /\ Ask(p).reply \in BusReplies
           /\ Fail(p).reply \in BusReplies
           /\ Finish(p, "OK").reply \in BusReplies
           /\ Finish(p, "FAIL").reply \in BusReplies
BY DEF Stay, Ask, Fail, Finish, BusReplies

\* A client is never told of a timeout because of a message.
LEMMA MessageReplies ==
    ASSUME NEW p, NEW m, NEW o \in OnIncomingMessage(p, m)
    PROVE  o.reply \in BusReplies
<1>1. \A q : Advance(q).reply \in BusReplies
  BY WaysReply DEF Advance
<1>2. \A q : Proceed(q).reply \in BusReplies
  BY <1>1, WaysReply DEF Proceed
<1>3. \A q, size : \A x \in LoopOverResponse(q, size) : x.reply \in BusReplies
  BY <1>1, <1>2, Zenon DEF LoopOverResponse
<1>4. \A q : \A x \in HandleResponse(q) : x.reply \in BusReplies
  <2> SUFFICES ASSUME NEW q, NEW x \in HandleResponse(q)
               PROVE  x.reply \in BusReplies
    OBVIOUS
  <2>1. \/ x \in LoopOverResponse(q, ErrorRecordSize)
        \/ x \in LoopOverResponse(q, ScheduleEntrySize)
        \/ x = Proceed(q) \/ x = Advance(q) \/ x = Fail(q)
    BY Zenon DEF HandleResponse
  <2> QED BY <1>1, <1>2, <1>3, <2>1, WaysReply, Zenon
<1>5. HandleAcknowledge(p, m.offset).reply \in BusReplies
  <2>1. [Finish(p, "OK") EXCEPT !.broadcast = p.active].reply \in BusReplies
    BY DEF Finish, Stay, BusReplies
  <2> QED BY <2>1, WaysReply, Zenon DEF HandleAcknowledge
<1>6. \/ o = Stay(p) \/ o = HandleAcknowledge(p, m.offset)
      \/ o = Ask(ContinueRequest(Receive(p, m))) \/ o = Finish(Receive(p, m), "OK")
      \/ o \in HandleResponse(Receive(p, m))
  BY Zenon DEF OnIncomingMessage
<1> QED BY <1>4, <1>5, <1>6, WaysReply, Zenon
=============================================================================
