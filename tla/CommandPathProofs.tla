-------------------------- MODULE CommandPathProofs --------------------------
(***************************************************************************)
(* Proofs about a command's way through EmsCommandSender, for any number   *)
(* of clients, any commands and answers, any lengths of the timers and any *)
(* number of retries.                                                      *)
(***************************************************************************)
EXTENDS CommandPath, ApiRequestsProofs

-----------------------------------------------------------------------------
(* Types *)

Transmissions == {Outgoing(c, r) : c \in Clients, r \in Requests}
Entries == [client : Clients, msg : Transmissions]
Handlers == {Scheduler!TimedOut} \cup {Scheduler!SendOf(m) : m \in Transmissions}
Timers == {Scheduler!Off} \cup Nat
Ages == [Devices -> 0..Scheduler!Old]

\* The scheduler's fields.
SchedulerTypes ==
    /\ currentClient \in Clients \cup {NoClient}
    /\ pending \in Seq(Entries)
    /\ responseTimeout \in Timers
    /\ sendTimer \in Timers
    /\ delayed \in Transmissions \cup {NoMessage}
    /\ sendTimer # Scheduler!Off => delayed \in Transmissions
    /\ sendTimer = Scheduler!Off => delayed = NoMessage
    /\ age \in Ages
    /\ ready \in Seq(Handlers)
    /\ sent \in {<<>>} \cup {<<m>> : m \in Transmissions}

\* The clients and their parsers.
ClientTypes ==
    /\ parsers = [c \in Clients |-> parsers[c]]
    /\ \A c \in Clients : WellFormed(parsers[c]) /\ Contiguous(parsers[c])
    /\ awaiting \in [Clients -> BOOLEAN]
    /\ transmitted \in [Clients -> Int]
    /\ told = <<>> \/ told[1] \in Clients

TypesInv == SchedulerTypes /\ ClientTypes /\ bus \in Seq(Transmissions)

-----------------------------------------------------------------------------
(* The one request under way *)

ActiveOf(ps, c) == Outgoing(c, ps[c].active[1])
Mine(c) == ActiveOf(parsers, c)

\* The response timer runs or its handler is queued: the request is out.
OnTheWire ==
    responseTimeout # Scheduler!Off \/ ready = <<Scheduler!TimedOut>>

Idle ==
    /\ currentClient = NoClient /\ pending = <<>> /\ ready = <<>>
    /\ responseTimeout = Scheduler!Off /\ sendTimer = Scheduler!Off /\ bus = <<>>

\* It waits for MinDistance to pass.
Delayed ==
    /\ sendTimer # Scheduler!Off /\ delayed = Mine(currentClient)
    /\ responseTimeout = Scheduler!Off /\ ready = <<>> /\ bus = <<>>

\* The send timer's handler is queued.
Leaving ==
    /\ ready = <<Scheduler!SendOf(Mine(currentClient))>>
    /\ sendTimer = Scheduler!Off /\ responseTimeout = Scheduler!Off /\ bus = <<>>

\* It was transmitted; the bus has it or has lost it.
Out ==
    /\ responseTimeout # Scheduler!Off
    /\ sendTimer = Scheduler!Off /\ ready = <<>>
    /\ bus = <<>> \/ bus = <<Mine(currentClient)>>

\* No answer came in time; the response timer's handler is queued.
Expired ==
    /\ ready = <<Scheduler!TimedOut>>
    /\ sendTimer = Scheduler!Off /\ responseTimeout = Scheduler!Off /\ bus = <<>>

StageInv ==
    \/ Idle
    \/ currentClient \in Clients /\ (Delayed \/ Leaving \/ Out \/ Expired)

\* The clients that wait in `queue' have one entry each, their parser's active request.
QueueOf(queue, ps) ==
    /\ \A i \in DOMAIN queue : queue[i].msg = ActiveOf(ps, queue[i].client)
    /\ \A i, j \in DOMAIN queue : queue[i].client = queue[j].client => i = j

In(queue, c) == \E i \in DOMAIN queue : queue[i].client = c

QueueInv ==
    /\ QueueOf(pending, parsers)
    /\ \A i \in DOMAIN pending : pending[i].client # currentClient

Served(c) == c = currentClient \/ In(pending, c)

\* A request under way asks for what its parser lacks, within the table.
UnderWay(p) ==
    /\ p.active # <<>> /\ InSync(p)
    /\ p.active[1].read => InTable(p)

\* What went out of c's request, counting `out' that is not retried yet, and the
\* retries left are all its retries.
Accounted(c, out) ==
    transmitted[c] + parsers[c].retriesLeft = MaxRequestRetries + out

ServedInv ==
    \A c \in Clients :
        /\ transmitted[c] \in 0..MaxRequestRetries
        /\ awaiting[c] => Served(c)
        /\ Served(c) => UnderWay(parsers[c])
        /\ Served(c) => Accounted(c, IF c = currentClient /\ OnTheWire THEN 1 ELSE 0)

IInv == TypesInv /\ StageInv /\ QueueInv /\ ServedInv

-----------------------------------------------------------------------------
(* What the sender's helpers leave *)

\* A request in the sender's hands.
LEMMA OutgoingIs ==
    ASSUME NEW c \in Clients, NEW r \in Requests
    PROVE  /\ Outgoing(c, r) \in Transmissions
           /\ Outgoing(c, r).client = c /\ Outgoing(c, r).request = r
           /\ Outgoing(c, r).dest = r.dest
BY DEF Outgoing, Transmissions

\* One taken apart; the sender looks up the time of its device.
LEMMA TransmissionIs ==
    ASSUME NEW m \in Transmissions
    PROVE  /\ m.client \in Clients /\ m.request \in Requests
           /\ m = Outgoing(m.client, m.request)
           /\ m.dest \in Devices
<1>1. PICK c \in Clients, r \in Requests : m = Outgoing(c, r)
  BY DEF Transmissions
<1>2. m.client = c /\ m.request = r /\ m.dest = r.dest
  BY <1>1, OutgoingIs
<1>3. r.dest \in Dests
  BY DEF Requests
<1>4. Dests \subseteq Devices
  BY DevicesAssumption DEF Dests
<1> QED BY <1>1, <1>2, <1>3, <1>4

\* What a client called back sends joins the queue.
LEMMA QueueAfter ==
    ASSUME pending \in Seq(Entries), NEW o
    PROVE  LET queue == Scheduler!PendingAfter(Reaction(currentClient, o))
           IN  /\ o.sends = <<>> => queue = pending
               /\ \A r : o.sends = <<r>> =>
                    queue = Append(pending, [client |-> currentClient,
                                             msg |-> Outgoing(currentClient, r)])
<1> DEFINE reaction == Reaction(currentClient, o)
           added == [i \in DOMAIN reaction |-> [client |-> currentClient, msg |-> reaction[i]]]
<1>1. Scheduler!PendingAfter(reaction) = pending \o added
  BY DEF Scheduler!PendingAfter
<1>2. ASSUME o.sends = <<>> PROVE pending \o added = pending
  <2>1. reaction = <<>>
    BY <1>2 DEF Reaction
  <2>2. added = <<>>
    BY <2>1
  <2> QED BY <2>2
<1>3. ASSUME NEW r, o.sends = <<r>>
      PROVE  pending \o added
               = Append(pending, [client |-> currentClient, msg |-> Outgoing(currentClient, r)])
  <2>1. reaction = <<Outgoing(currentClient, r)>>
    BY <1>3 DEF Reaction
  <2>2. added = <<[client |-> currentClient, msg |-> Outgoing(currentClient, r)]>>
    BY <2>1
  <2> QED BY <2>2
<1> QED BY <1>1, <1>2, <1>3

\* Transmitting a request, or leaving it to the send timer.
Forwarded(m, timeout, handlers) ==
    \/ /\ sendTimer' \in Nat /\ delayed' = m
       /\ responseTimeout' = timeout /\ sent' = <<>>
       /\ ready' = handlers \o Scheduler!Superseded
    \/ /\ sendTimer' = sendTimer /\ delayed' = delayed
       /\ responseTimeout' = RequestTimeout /\ sent' = <<m>>
       /\ ready' = handlers

\* sendMessage does one or the other.
LEMMA ForwardIs ==
    ASSUME NEW m \in Transmissions, NEW timeout, NEW ages \in Ages, NEW handlers,
           \/ Scheduler!DelayMessage(m, timeout, ages, handlers)
           \/ Scheduler!SendNow(m, ages, handlers)
    PROVE  age' \in Ages /\ Forwarded(m, timeout, handlers)
<1>1. m.dest \in Devices
  BY TransmissionIs
<1>2. CASE Scheduler!DelayMessage(m, timeout, ages, handlers)
  <2>1. ages[m.dest] \in 0..Scheduler!Old /\ ages[m.dest] <= MinDistance
    BY <1>1, <1>2 DEF Scheduler!DelayMessage, Ages
  <2>2. MinDistance - ages[m.dest] \in Nat
    BY <2>1, PathAssumption DEF Scheduler!Old
  <2>3. sendTimer' \in Nat
    BY <1>2, <2>2, Zenon DEF Scheduler!DelayMessage
  <2>4. age' \in Ages
    BY <1>2 DEF Scheduler!DelayMessage
  <2> QED BY <1>2, <2>3, <2>4, Zenon DEF Scheduler!DelayMessage, Forwarded
<1>3. CASE Scheduler!SendNow(m, ages, handlers)
  <2>1. 0 \in 0..Scheduler!Old
    BY PathAssumption DEF Scheduler!Old
  <2>2. age' \in Ages
    BY <1>3, <2>1 DEF Scheduler!SendNow, Scheduler!DoSendMessage, Ages
  <2> QED BY <1>3, <2>2, Zenon DEF Scheduler!SendNow, Scheduler!DoSendMessage, Forwarded
<1> QED BY <1>2, <1>3

\* continueWithNextRequest goes idle or serves the first of the queue.
Continued(queue, timeout, handlers) ==
    \/ /\ queue = <<>> /\ currentClient' = NoClient /\ pending' = <<>>
       /\ responseTimeout' = timeout /\ ready' = handlers /\ sent' = <<>>
       /\ sendTimer' = sendTimer /\ delayed' = delayed
    \/ /\ queue # <<>> /\ currentClient' = Head(queue).client
       /\ pending' = Tail(queue)
       /\ Forwarded(Head(queue).msg, timeout, handlers)

\* What it computes is one or the other.
LEMMA ContinueIs ==
    ASSUME NEW queue \in Seq(Entries), NEW timeout, NEW ages \in Ages, NEW handlers,
           Scheduler!ContinueWithNextRequest(queue, timeout, ages, handlers)
    PROVE  age' \in Ages /\ Continued(queue, timeout, handlers)
<1>1. CASE Scheduler!GoIdle(queue, timeout, ages, handlers)
  BY <1>1, Zenon DEF Scheduler!GoIdle, Continued
<1>2. CASE Scheduler!ServeFront(queue, timeout, ages, handlers)
  <2>1. queue # <<>> /\ currentClient' = Head(queue).client /\ pending' = Tail(queue)
    BY <1>2, Zenon DEF Scheduler!ServeFront
  <2>2. Head(queue).msg \in Transmissions
    <3>1. Head(queue) \in Entries
      BY <2>1
    <3> QED BY <3>1 DEF Entries
  <2>3. \/ Scheduler!DelayMessage(Head(queue).msg, timeout, ages, handlers)
        \/ Scheduler!SendNow(Head(queue).msg, ages, handlers)
    BY <1>2, Zenon DEF Scheduler!ServeFront
  <2>4. age' \in Ages /\ Forwarded(Head(queue).msg, timeout, handlers)
    BY <2>2, <2>3, ForwardIs
  <2> QED BY <2>1, <2>4 DEF Continued
<1> QED BY <1>1, <1>2, Zenon DEF Scheduler!ContinueWithNextRequest

-----------------------------------------------------------------------------
(* The types are kept *)

\* What the last step gave to the bus.
Sents == {<<>>} \cup {<<m>> : m \in Transmissions}

\* Forwarding a request arms one of the timers.
LEMMA ForwardTypes ==
    ASSUME SchedulerTypes, NEW m \in Transmissions, NEW timeout \in Timers,
           NEW handlers \in Seq(Handlers), Forwarded(m, timeout, handlers)
    PROVE  /\ responseTimeout' \in Timers /\ sendTimer' \in Timers
           /\ delayed' \in Transmissions \cup {NoMessage}
           /\ sendTimer' # Scheduler!Off => delayed' \in Transmissions
           /\ sendTimer' = Scheduler!Off => delayed' = NoMessage
           /\ ready' \in Seq(Handlers) /\ sent' \in Sents
<1>1. Scheduler!Superseded \in Seq(Handlers)
  <2>1. delayed \in Transmissions => Scheduler!SendOf(delayed) \in Handlers
    BY DEF Handlers
  <2> QED BY <2>1 DEF Scheduler!Superseded, SchedulerTypes
<1>2. handlers \o Scheduler!Superseded \in Seq(Handlers)
  BY <1>1
<1>3. Scheduler!Off \notin Nat /\ RequestTimeout \in Timers
  BY PathAssumption DEF Scheduler!Off, Timers
<1>4. /\ sendTimer \in Timers /\ delayed \in Transmissions \cup {NoMessage}
      /\ sendTimer # Scheduler!Off => delayed \in Transmissions
      /\ sendTimer = Scheduler!Off => delayed = NoMessage
  BY DEF SchedulerTypes
<1>5. \A i \in Nat : i \in Timers
  BY DEF Timers
<1> QED BY <1>2, <1>3, <1>4, <1>5, Zenon DEF Forwarded, Sents

\* continueWithNextRequest, whatever its caller has computed.
LEMMA ContinueTypes ==
    ASSUME SchedulerTypes, NEW queue \in Seq(Entries), NEW timeout \in Timers,
           NEW handlers \in Seq(Handlers), Continued(queue, timeout, handlers),
           age' \in Ages
    PROVE  SchedulerTypes' /\ sent' \in Sents
<1>1. CASE /\ queue = <<>> /\ currentClient' = NoClient /\ pending' = <<>>
           /\ responseTimeout' = timeout /\ ready' = handlers /\ sent' = <<>>
           /\ sendTimer' = sendTimer /\ delayed' = delayed
  BY <1>1 DEF SchedulerTypes, Sents
<1>2. CASE /\ queue # <<>> /\ currentClient' = Head(queue).client
           /\ pending' = Tail(queue)
           /\ Forwarded(Head(queue).msg, timeout, handlers)
  <2>1. Head(queue) \in Entries /\ Tail(queue) \in Seq(Entries)
    BY <1>2
  <2>2. Head(queue).client \in Clients /\ Head(queue).msg \in Transmissions
    BY <2>1 DEF Entries
  <2>3. /\ responseTimeout' \in Timers /\ sendTimer' \in Timers
        /\ delayed' \in Transmissions \cup {NoMessage}
        /\ sendTimer' # Scheduler!Off => delayed' \in Transmissions
        /\ sendTimer' = Scheduler!Off => delayed' = NoMessage
        /\ ready' \in Seq(Handlers) /\ sent' \in Sents
    BY <1>2, <2>2, ForwardTypes
  <2> QED BY <1>2, <2>1, <2>2, <2>3, Zenon DEF SchedulerTypes, Sents
<1> QED BY <1>1, <1>2 DEF Continued

\* The queue with a request at its end.
LEMMA AppendTypes ==
    ASSUME pending \in Seq(Entries), NEW c \in Clients, NEW r \in Requests
    PROVE  Append(pending, [client |-> c, msg |-> Outgoing(c, r)]) \in Seq(Entries)
<1>1. [client |-> c, msg |-> Outgoing(c, r)] \in Entries
  BY OutgoingIs DEF Entries
<1> QED BY <1>1

\* A parser sends its active request, or nothing.
SendsOne(o) ==
    \/ o.sends = <<>>
    \/ \E r \in Requests : o.sends = <<r>> /\ o.parser.active = <<r>>

\* The queue after a callback.
LEMMA QueueAfterTypes ==
    ASSUME pending \in Seq(Entries), currentClient \in Clients \cup {NoClient}, NEW o,
           SendsOne(o), currentClient = NoClient => o.sends = <<>>
    PROVE  Scheduler!PendingAfter(Reaction(currentClient, o)) \in Seq(Entries)
<1>1. CASE o.sends = <<>>
  BY <1>1, QueueAfter
<1>2. ASSUME NEW r \in Requests, o.sends = <<r>>
      PROVE  Scheduler!PendingAfter(Reaction(currentClient, o)) \in Seq(Entries)
  <2>1. currentClient \in Clients
    BY <1>2
  <2>2. Append(pending, [client |-> currentClient, msg |-> Outgoing(currentClient, r)])
           \in Seq(Entries)
    BY <2>1, AppendTypes
  <2> QED BY <1>2, <2>2, QueueAfter
<1> QED BY <1>1, <1>2 DEF SendsOne

\* The client's side of a call.
LEMMA ClientBecomes ==
    ASSUME ClientTypes, NEW c \in Clients, NEW o, ParserBecomes(c, o),
           WellFormed(o.parser), Contiguous(o.parser)
    PROVE  /\ parsers'[c] = o.parser
           /\ \A d \in Clients \ {c} : parsers'[d] = parsers[d]
           /\ parsers' = [d \in Clients |-> parsers'[d]]
           /\ \A d \in Clients : WellFormed(parsers'[d]) /\ Contiguous(parsers'[d])
           /\ told' = <<>> \/ told'[1] \in Clients
<1>1. parsers' = [parsers EXCEPT ![c] = o.parser]
  BY DEF ParserBecomes
<1>2. parsers = [d \in Clients |-> parsers[d]]
  BY DEF ClientTypes
<1>3. /\ parsers'[c] = o.parser
      /\ \A d \in Clients \ {c} : parsers'[d] = parsers[d]
      /\ parsers' = [d \in Clients |-> parsers'[d]]
  BY <1>1, <1>2
<1>4. \A d \in Clients : WellFormed(parsers'[d]) /\ Contiguous(parsers'[d])
  BY <1>3, Zenon DEF ClientTypes
<1>5. told' = <<>> \/ told'[1] \in Clients
  BY DEF ParserBecomes
<1> QED BY <1>3, <1>4, <1>5

\* How often requests went out.
LEMMA CountTypes ==
    ASSUME NEW counts \in [Clients -> Int], CountFrom(counts)
    PROVE  transmitted' \in [Clients -> Int]
BY DEF CountFrom

\* The bus.
LEMMA BusTypes ==
    ASSUME NEW queue \in Seq(Transmissions), BusBecomes(queue), sent' \in Sents
    PROVE  bus' \in Seq(Transmissions)
<1>1. sent' \in Seq(Transmissions)
  <2>1. \A m \in Transmissions : <<m>> \in Seq(Transmissions)
    OBVIOUS
  <2>2. <<>> \in Seq(Transmissions)
    OBVIOUS
  <2> QED BY <2>1, <2>2, Zenon DEF Sents
<1> QED BY <1>1 DEF BusBecomes

\* A call sends what it leaves active, or nothing.
LEMMA SendsOneOf ==
    ASSUME NEW o, WellFormed(o.parser), o.sends = <<>> \/ o.sends = o.parser.active
    PROVE  SendsOne(o)
<1>1. CASE o.sends = <<>>
  BY <1>1 DEF SendsOne
<1>2. CASE o.sends # <<>>
  <2>1. o.parser.active = <<o.parser.active[1]>> /\ o.parser.active[1] \in Requests
    BY <1>2 DEF WellFormed
  <2>2. PICK r \in Requests : o.parser.active = <<r>>
    BY <2>1
  <2> QED BY <1>2, <2>2 DEF SendsOne
<1> QED BY <1>1, <1>2

\* A call leaves a parser, and sends one request at most.
Orderly(o) == WellFormed(o.parser) /\ Contiguous(o.parser) /\ SendsOne(o)

\* parse does.
LEMMA ParseOrderly ==
    ASSUME NEW p, WellFormed(p), Contiguous(p), NEW c \in Commands
    PROVE  Orderly(Parse(p, c))
<1> DEFINE o == Parse(p, c)
<1>1. Sound(p, o.parser) /\ ParsedTo(p, c, o)
  BY ParseEnds
<1> HIDE DEF o
<1>2. WellFormed(o.parser) /\ Contiguous(o.parser)
  BY <1>1 DEF Sound
<1>3. o.sends = <<>> \/ o.sends = o.parser.active
  BY <1>1 DEF ParsedTo, Asked
<1> QED BY <1>2, <1>3, SendsOneOf DEF Orderly, o

\* onIncomingMessage does.
LEMMA MessageOrderly ==
    ASSUME NEW p, WellFormed(p), Contiguous(p), NEW m, IsMessage(m),
           NEW o \in OnIncomingMessage(p, m)
    PROVE  Orderly(o)
<1>1. Kept(p, o) /\ (o = Stay(p) \/ Ended(p, o))
  BY MessageEnds
<1>2. WellFormed(o.parser) /\ Contiguous(o.parser)
  BY <1>1 DEF Kept, Sound
<1>3. o.sends = <<>> \/ o.sends = o.parser.active
  <2>1. Stay(p).sends = <<>>
    BY DEF Stay
  <2> QED BY <1>1, <2>1 DEF Ended, Over, ReadsOn, Asked, FailedFor
<1> QED BY <1>2, <1>3, SendsOneOf DEF Orderly

\* onTimeout does.
LEMMA TimeoutOrderly ==
    ASSUME NEW p, WellFormed(p), Contiguous(p)
    PROVE  Orderly(OnTimeout(p))
<1> DEFINE o == OnTimeout(p)
<1>1. /\ Kept(p, o)
      /\ \/ o = Stay(p)
         \/ Over(o)
         \/ o.parser.active = p.active /\ o.sends = p.active
  BY TimeoutEnds
<1> HIDE DEF o
<1>2. WellFormed(o.parser) /\ Contiguous(o.parser)
  BY <1>1 DEF Kept, Sound
<1>3. o.sends = <<>> \/ o.sends = o.parser.active
  <2>1. Stay(p).sends = <<>>
    BY DEF Stay
  <2> QED BY <1>1, <2>1 DEF Over
<1> QED BY <1>2, <1>3, SendsOneOf DEF Orderly, o

\* What a callback to the current client comes to.
Called(o) ==
    IF currentClient = NoClient THEN o = NobodyCalled ELSE Orderly(o)

\* The client that is called back, if any.
LEMMA CallTypes ==
    ASSUME TypesInv, NEW o, Called(o), NEW queue \in Seq(Transmissions),
           CallBack(o, queue), SchedulerTypes', sent' \in Sents
    PROVE  TypesInv'
<1>0. /\ ClientTypes /\ transmitted \in [Clients -> Int] /\ awaiting \in [Clients -> BOOLEAN]
      /\ currentClient \in Clients \cup {NoClient}
  BY DEF TypesInv, ClientTypes, SchedulerTypes
<1>1. bus' \in Seq(Transmissions)
  BY BusTypes DEF CallBack
<1>2. CASE currentClient = NoClient
  <2>1. told' = <<>> /\ UNCHANGED clientVars /\ CountFrom(transmitted)
    BY <1>2, Zenon DEF CallBack
  <2>2. transmitted' \in [Clients -> Int]
    BY <1>0, <2>1, CountTypes
  <2>3. ClientTypes'
    BY <1>0, <2>1, <2>2 DEF ClientTypes, clientVars
  <2> QED BY <1>1, <2>3 DEF TypesInv
<1>3. CASE currentClient # NoClient
  <2> DEFINE counts == IF IsNew(o) THEN [transmitted EXCEPT ![currentClient] = 0]
                       ELSE transmitted
  <2>1. /\ ParserBecomes(currentClient, o)
        /\ awaiting' = [awaiting EXCEPT ![currentClient] = @ /\ o.reply \notin FinalReplies]
        /\ CountFrom(counts)
    BY <1>3, Zenon DEF CallBack
  <2>2. counts \in [Clients -> Int]
    <3>1. [transmitted EXCEPT ![currentClient] = 0] \in [Clients -> Int]
      <4>1. \A f \in [Clients -> Int], c \in Clients : [f EXCEPT ![c] = 0] \in [Clients -> Int]
        OBVIOUS
      <4> QED BY <1>0, <1>3, <4>1
    <3> QED BY <1>0, <3>1
  <2> HIDE DEF counts
  <2>3. transmitted' \in [Clients -> Int]
    BY <2>1, <2>2, CountTypes
  <2>4. awaiting' \in [Clients -> BOOLEAN]
    BY <1>0, <2>1
  <2>5. /\ parsers' = [d \in Clients |-> parsers'[d]]
        /\ \A d \in Clients : WellFormed(parsers'[d]) /\ Contiguous(parsers'[d])
        /\ told' = <<>> \/ told'[1] \in Clients
    BY <1>0, <1>3, <2>1, ClientBecomes DEF Called, Orderly
  <2>6. ClientTypes'
    BY <2>3, <2>4, <2>5 DEF ClientTypes
  <2> QED BY <1>1, <2>6 DEF TypesInv
<1> QED BY <1>2, <1>3

\* The callback's place in the queue.
LEMMA CalledQueue ==
    ASSUME SchedulerTypes, NEW o, Called(o)
    PROVE  Scheduler!PendingAfter(Reaction(currentClient, o)) \in Seq(Entries)
<1>1. SendsOne(o) /\ (currentClient = NoClient => o.sends = <<>>)
  BY DEF Called, Orderly, NobodyCalled, SendsOne
<1> QED BY <1>1, QueueAfterTypes DEF SchedulerTypes

\* A client types a line.
LEMMA HandleRequestTypes ==
    ASSUME TypesInv, NEW c \in Clients, NEW command \in Lines, HandleRequest(c, command)
    PROVE  TypesInv'
<1> DEFINE o == Parse(parsers[c], command)
<1>1. /\ SchedulerTypes /\ ClientTypes /\ bus \in Seq(Transmissions)
      /\ transmitted \in [Clients -> Int] /\ awaiting \in [Clients -> BOOLEAN]
  BY DEF TypesInv, ClientTypes
<1>2. Orderly(o)
  BY <1>1, PathAssumption, ParseOrderly DEF ClientTypes
<1>3. /\ ParserBecomes(c, o)
      /\ awaiting' = [awaiting EXCEPT ![c] = @ \/ o.reply # "ERRBUSY"]
      /\ IF o.sends = <<>>
         THEN UNCHANGED schedulerVars /\ UNCHANGED <<bus, transmitted>>
         ELSE /\ Scheduler!SendMessage(c, Outgoing(c, o.sends[1]))
              /\ BusBecomes(bus)
              /\ CountFrom([transmitted EXCEPT ![c] = 0])
  BY Zenon DEF HandleRequest
<1> HIDE DEF o
<1>4. /\ parsers' = [d \in Clients |-> parsers'[d]]
      /\ \A d \in Clients : WellFormed(parsers'[d]) /\ Contiguous(parsers'[d])
      /\ told' = <<>> \/ told'[1] \in Clients
  BY <1>1, <1>2, <1>3, ClientBecomes DEF Orderly
<1>5. awaiting' \in [Clients -> BOOLEAN]
  BY <1>1, <1>3
<1>6. CASE o.sends = <<>>
  <2>1. SchedulerTypes' /\ bus' = bus /\ transmitted' = transmitted
    BY <1>1, <1>3, <1>6 DEF SchedulerTypes, schedulerVars
  <2> QED BY <1>1, <1>4, <1>5, <2>1 DEF TypesInv, ClientTypes
<1>7. CASE o.sends # <<>>
  <2>1. PICK r \in Requests : o.sends = <<r>>
    BY <1>2, <1>7 DEF Orderly, SendsOne
  <2>2. /\ Scheduler!SendMessage(c, Outgoing(c, r)) /\ BusBecomes(bus)
        /\ CountFrom([transmitted EXCEPT ![c] = 0])
    BY <1>3, <2>1
  <2>3. transmitted' \in [Clients -> Int]
    <3>1. [transmitted EXCEPT ![c] = 0] \in [Clients -> Int]
      BY <1>1
    <3> QED BY <2>2, <3>1, CountTypes
  <2> DEFINE queue == Append(pending, [client |-> c, msg |-> Outgoing(c, r)])
  <2>4. queue \in Seq(Entries)
    BY <1>1, AppendTypes DEF SchedulerTypes
  <2>5. SchedulerTypes' /\ sent' \in Sents
    <3>1. CASE currentClient = NoClient
      <4>1. Scheduler!ContinueWithNextRequest(queue, responseTimeout, age, ready)
        BY <2>2, <3>1 DEF Scheduler!SendMessage
      <4>2. responseTimeout \in Timers /\ age \in Ages /\ ready \in Seq(Handlers)
        BY <1>1 DEF SchedulerTypes
      <4> HIDE DEF queue
      <4>3. age' \in Ages /\ Continued(queue, responseTimeout, ready)
        BY <2>4, <4>1, <4>2, ContinueIs
      <4> QED BY <1>1, <2>4, <4>2, <4>3, ContinueTypes
    <3>2. CASE currentClient # NoClient
      <4>1. /\ pending' = queue /\ sent' = <<>>
            /\ UNCHANGED <<currentClient, Scheduler!timers, age, ready>>
        BY <2>2, <3>2 DEF Scheduler!SendMessage
      <4> HIDE DEF queue
      <4> QED BY <1>1, <2>4, <4>1 DEF Scheduler!timers, SchedulerTypes, Sents
    <3> QED BY <3>1, <3>2
  <2>6. bus' \in Seq(Transmissions)
    BY <1>1, <2>2, <2>5, BusTypes
  <2> QED BY <1>4, <1>5, <2>3, <2>5, <2>6 DEF TypesInv, ClientTypes
<1> QED BY <1>6, <1>7

\* A device answers.
LEMMA AnswerTypes ==
    ASSUME TypesInv, AnswerArrives
    PROVE  TypesInv'
<1>1. /\ SchedulerTypes /\ ClientTypes /\ bus \in Seq(Transmissions) /\ bus # <<>>
  BY DEF TypesInv, AnswerArrives
<1>2. PICK m \in DeviceAnswers(Head(bus).request, AnswerSizes) :
         \E o \in ByMessage(m) :
            /\ Scheduler!HandlePcMessage(m.source, Reaction(currentClient, o))
            /\ CallBack(o, Tail(bus))
  BY DEF AnswerArrives
<1>3. PICK o \in ByMessage(m) :
         /\ Scheduler!HandlePcMessage(m.source, Reaction(currentClient, o))
         /\ CallBack(o, Tail(bus))
  BY <1>2
<1>4. Head(bus) \in Transmissions /\ Tail(bus) \in Seq(Transmissions)
  BY <1>1
<1>5. Head(bus).request \in Requests
  BY <1>4, TransmissionIs
<1>6. IsMessage(m)
  BY <1>5, PathAssumption, DevicesSay
<1>7. Called(o)
  <2>1. CASE currentClient = NoClient
    BY <2>1 DEF ByMessage, Called
  <2>2. CASE currentClient # NoClient
    <3>1. o \in OnIncomingMessage(parsers[currentClient], m)
      BY <2>2 DEF ByMessage
    <3>2. WellFormed(parsers[currentClient]) /\ Contiguous(parsers[currentClient])
      BY <1>1, <2>2 DEF ClientTypes, SchedulerTypes
    <3> QED BY <1>6, <2>2, <3>1, <3>2, MessageOrderly DEF Called
  <2> QED BY <2>1, <2>2
<1> DEFINE queue == Scheduler!PendingAfter(Reaction(currentClient, o))
           ages == [age EXCEPT ![m.source] = 0]
<1>8. Scheduler!ContinueWithNextRequest(queue, Scheduler!Off, ages, ready)
  BY <1>3, Zenon DEF Scheduler!HandlePcMessage
<1>9. queue \in Seq(Entries)
  BY <1>1, <1>7, CalledQueue
<1>10. ages \in Ages /\ Scheduler!Off \in Timers /\ ready \in Seq(Handlers)
  <2>1. 0 \in 0..Scheduler!Old
    BY PathAssumption DEF Scheduler!Old
  <2> QED BY <1>1, <2>1 DEF SchedulerTypes, Ages, Timers
<1> HIDE DEF queue, ages
<1>11. age' \in Ages /\ Continued(queue, Scheduler!Off, ready)
  BY <1>8, <1>9, <1>10, ContinueIs
<1>12. SchedulerTypes' /\ sent' \in Sents
  BY <1>1, <1>9, <1>10, <1>11, ContinueTypes
<1> QED BY <1>3, <1>4, <1>7, <1>12, CallTypes

\* The response timer's handler runs.
LEMMA ResponseTimeoutTypes ==
    ASSUME TypesInv, HandleResponseTimeout
    PROVE  TypesInv'
<1>1. /\ SchedulerTypes /\ ClientTypes /\ bus \in Seq(Transmissions)
  BY DEF TypesInv
<1> DEFINE o == ByTimeout
           queue == Scheduler!PendingAfter(Reaction(currentClient, o))
<1>2. /\ Scheduler!HandleResponseTimeout(Reaction(currentClient, o)) /\ CallBack(o, bus)
  BY DEF HandleResponseTimeout
<1>3. Called(o)
  <2>1. CASE currentClient = NoClient
    BY <2>1 DEF ByTimeout, Called
  <2>2. CASE currentClient # NoClient
    <3>1. o = OnTimeout(parsers[currentClient])
      BY <2>2 DEF ByTimeout
    <3>2. WellFormed(parsers[currentClient]) /\ Contiguous(parsers[currentClient])
      BY <1>1, <2>2 DEF ClientTypes, SchedulerTypes
    <3> QED BY <2>2, <3>1, <3>2, TimeoutOrderly DEF Called
  <2> QED BY <2>1, <2>2
<1>4. ready # <<>>
      /\ Scheduler!ContinueWithNextRequest(queue, responseTimeout, age, Tail(ready))
  BY <1>2, Zenon DEF Scheduler!HandleResponseTimeout
<1> HIDE DEF o
<1>5. queue \in Seq(Entries)
  BY <1>1, <1>3, CalledQueue
<1>6. age \in Ages /\ responseTimeout \in Timers /\ Tail(ready) \in Seq(Handlers)
  BY <1>1, <1>4 DEF SchedulerTypes
<1> HIDE DEF queue
<1>7. age' \in Ages /\ Continued(queue, responseTimeout, Tail(ready))
  BY <1>4, <1>5, <1>6, ContinueIs
<1>8. SchedulerTypes' /\ sent' \in Sents
  BY <1>1, <1>5, <1>6, <1>7, ContinueTypes
<1> QED BY <1>1, <1>2, <1>3, <1>8, CallTypes

\* The send timer's handler runs.
LEMMA SendTimerTypes ==
    ASSUME TypesInv, HandleSendTimer
    PROVE  TypesInv'
<1>1. /\ SchedulerTypes /\ ClientTypes /\ bus \in Seq(Transmissions)
      /\ transmitted \in [Clients -> Int]
  BY DEF TypesInv, ClientTypes
<1>2. /\ Scheduler!HandleSendTimer /\ UNCHANGED clientVars /\ BusBecomes(bus)
      /\ CountFrom(transmitted) /\ told' = <<>>
  BY DEF HandleSendTimer
<1>3. PICK m \in Transmissions : Head(ready) = Scheduler!SendOf(m)
  <2>1. Head(ready) \in Handlers /\ Head(ready) # Scheduler!TimedOut
    BY <1>1, <1>2 DEF Scheduler!HandleSendTimer, SchedulerTypes
  <2> QED BY <2>1 DEF Handlers
<1>4. Head(ready).msg = m
  BY <1>3 DEF Scheduler!SendOf
<1>5. /\ sent' = <<m>> /\ responseTimeout' = RequestTimeout
      /\ age' = [age EXCEPT ![m.dest] = 0] /\ ready' = Tail(ready)
      /\ UNCHANGED <<currentClient, pending, sendTimer, delayed>>
  BY <1>2, <1>4 DEF Scheduler!HandleSendTimer, Scheduler!DoSendMessage
<1>6. age' \in Ages /\ responseTimeout' \in Timers /\ ready' \in Seq(Handlers)
  <2>1. 0 \in 0..Scheduler!Old /\ RequestTimeout \in Timers
    BY PathAssumption DEF Scheduler!Old, Timers
  <2>2. ready # <<>>
    BY <1>2 DEF Scheduler!HandleSendTimer
  <2>3. age' \in Ages
    BY <1>1, <1>5, <2>1 DEF SchedulerTypes, Ages
  <2>4. ready' \in Seq(Handlers)
    BY <1>1, <1>5, <2>2 DEF SchedulerTypes
  <2> QED BY <1>5, <2>1, <2>3, <2>4
<1>7. SchedulerTypes' /\ sent' \in Sents
  BY <1>1, <1>5, <1>6, Zenon DEF SchedulerTypes, Sents
<1>8. bus' \in Seq(Transmissions) /\ transmitted' \in [Clients -> Int]
  BY <1>1, <1>2, <1>7, BusTypes, CountTypes
<1> QED BY <1>1, <1>2, <1>7, <1>8 DEF TypesInv, ClientTypes, clientVars

\* The response timer is found to be due.
LEMMA TimeoutExpiresTypes ==
    ASSUME TypesInv, ResponseTimeoutExpires
    PROVE  TypesInv'
<1>1. /\ SchedulerTypes /\ ClientTypes /\ bus \in Seq(Transmissions)
  BY DEF TypesInv
<1>2. /\ responseTimeout' = Scheduler!Off /\ ready' = Append(ready, Scheduler!TimedOut)
      /\ sent' = <<>>
      /\ UNCHANGED <<currentClient, pending, sendTimer, delayed, age>>
      /\ bus' = (IF LateAnswers THEN bus ELSE <<>>) /\ told' = <<>>
      /\ UNCHANGED <<clientVars, transmitted>>
  BY DEF ResponseTimeoutExpires, Scheduler!ResponseTimeoutExpires
<1>3. ready' \in Seq(Handlers) /\ responseTimeout' \in Timers
  BY <1>1, <1>2 DEF SchedulerTypes, Handlers, Timers
<1>4. SchedulerTypes'
  BY <1>1, <1>2, <1>3 DEF SchedulerTypes
<1>5. bus' \in Seq(Transmissions)
  BY <1>1, <1>2
<1> QED BY <1>1, <1>2, <1>4, <1>5 DEF TypesInv, ClientTypes, clientVars

\* The send timer is found to be due, or time passes.
LEMMA TimePassesTypes ==
    ASSUME TypesInv, TimePasses
    PROVE  TypesInv'
<1>1. /\ SchedulerTypes /\ ClientTypes /\ bus \in Seq(Transmissions)
  BY DEF TypesInv
<1>2. told' = <<>> /\ UNCHANGED <<clientVars, bus, transmitted>>
  BY DEF TimePasses
<1>3. CASE Scheduler!SendTimerExpires
  <2>1. /\ sendTimer = 0 /\ sendTimer' = Scheduler!Off /\ delayed' = NoMessage
        /\ ready' = Append(ready, Scheduler!SendOf(delayed)) /\ sent' = <<>>
        /\ UNCHANGED <<currentClient, pending, responseTimeout, age>>
    BY <1>3 DEF Scheduler!SendTimerExpires
  <2>2. delayed \in Transmissions
    BY <1>1, <2>1 DEF SchedulerTypes, Scheduler!Off
  <2>3. ready' \in Seq(Handlers) /\ sendTimer' \in Timers
    BY <1>1, <2>1, <2>2 DEF SchedulerTypes, Handlers, Timers
  <2>4. SchedulerTypes'
    BY <1>1, <2>1, <2>3 DEF SchedulerTypes
  <2> QED BY <1>1, <1>2, <2>4 DEF TypesInv, ClientTypes, clientVars
<1>4. CASE Scheduler!Tick
  <2>1. /\ responseTimeout' = Scheduler!Elapse(responseTimeout)
        /\ sendTimer' = Scheduler!Elapse(sendTimer)
        /\ age' = [d \in Devices |-> IF age[d] < Scheduler!Old THEN age[d] + 1
                                     ELSE Scheduler!Old]
        /\ sent' = <<>>
        /\ UNCHANGED <<currentClient, pending, delayed, ready>>
    BY <1>4 DEF Scheduler!Tick
  <2>2. \A t \in Timers : /\ Scheduler!Elapse(t) \in Timers
                          /\ Scheduler!Elapse(t) = Scheduler!Off <=> t = Scheduler!Off
    BY DEF Scheduler!Elapse, Timers, Scheduler!Off
  <2>3. age' \in Ages
    BY <1>1, <2>1, PathAssumption DEF SchedulerTypes, Ages, Scheduler!Old
  <2>4. SchedulerTypes'
    BY <1>1, <2>1, <2>2, <2>3 DEF SchedulerTypes
  <2> QED BY <1>1, <1>2, <2>4 DEF TypesInv, ClientTypes, clientVars
<1> QED BY <1>3, <1>4 DEF TimePasses

\* A sender, its clients and a bus that have done nothing yet.
LEMMA InitTypes == Init => TypesInv
<1> SUFFICES ASSUME Init PROVE TypesInv
  OBVIOUS
<1>1. SchedulerTypes
  BY PathAssumption DEF Init, Scheduler!Init, SchedulerTypes, Ages, Timers, Scheduler!Old,
                        Scheduler!Off
<1>2. parsers \in [Clients -> {NewParser(g) : g \in Garbage}]
  BY DEF Init
<1>3. \A c \in Clients : WellFormed(parsers[c]) /\ Contiguous(parsers[c])
  <2> SUFFICES ASSUME NEW c \in Clients PROVE WellFormed(parsers[c]) /\ Contiguous(parsers[c])
    OBVIOUS
  <2>1. PICK g \in Garbage : parsers[c] = NewParser(g)
    BY <1>2
  <2> QED BY <2>1, NewParserIs
<1>4. ClientTypes
  BY <1>2, <1>3 DEF Init, ClientTypes
<1> QED BY <1>1, <1>4 DEF Init, TypesInv

\* Every step keeps the types, whether answers come late or not.
LEMMA NextTypes == TypesInv /\ [Next]_vars => TypesInv'
<1> SUFFICES ASSUME TypesInv, [Next]_vars PROVE TypesInv'
  OBVIOUS
<1>1. CASE RequestLost
  <2>1. bus' = Tail(bus) /\ bus # <<>> /\ told' = <<>>
        /\ UNCHANGED <<schedulerVars, clientVars, transmitted>>
    BY <1>1 DEF RequestLost
  <2>2. bus' \in Seq(Transmissions)
    BY <2>1 DEF TypesInv
  <2> QED BY <2>1, <2>2 DEF TypesInv, SchedulerTypes, ClientTypes, schedulerVars, clientVars
<1>2. CASE UNCHANGED vars
  BY <1>2 DEF vars, TypesInv, SchedulerTypes, ClientTypes, schedulerVars, clientVars
<1> QED BY <1>1, <1>2, HandleRequestTypes, AnswerTypes, ResponseTimeoutTypes, SendTimerTypes,
           TimeoutExpiresTypes, TimePassesTypes DEF Next, EventLoop

\* Parsers that ask their questions through one queue, with answers that may come too
\* late, twice or for somebody else, put no response together from the wrong pieces.
THEOREM ResponsesAreRanges == Spec => []ResponseContiguous
<1>1. TypesInv => ResponseContiguous
  BY DEF TypesInv, ClientTypes, Contiguous, ResponseContiguous
<1> QED BY InitTypes, NextTypes, <1>1, PTL DEF Spec

-----------------------------------------------------------------------------
(* One turn at a time.  From here on no answer comes after the response timeout, and *)
(* a raw read asks for bytes a table can hold.                                       *)

RawReadsFit == \A c \in Lines : c.read /\ c.raw => IsRange(c.offset, c.length)

\* All the other reads do.
LEMMA AllReadsFit ==
    ASSUME RawReadsFit, NEW c \in Lines
    PROVE  ReadsWithin(c)
<1>1. Proper(c)
  BY PathAssumption, CommandsProper DEF AllProper
<1> QED BY <1>1 DEF Proper, ReadsWithin, RawReadsFit

\* Who waits in a queue with one more or one less entry.
LEMMA InAppend ==
    ASSUME NEW queue \in Seq(Entries), NEW e \in Entries, NEW c
    PROVE  In(Append(queue, e), c) <=> In(queue, c) \/ c = e.client
<1> DEFINE longer == Append(queue, e)  n == Len(queue)
<1>1. /\ longer \in Seq(Entries) /\ DOMAIN longer = 1..(n + 1) /\ n \in Nat
      /\ \A i \in 1..n : longer[i] = queue[i]
      /\ longer[n + 1] = e /\ DOMAIN queue = 1..n
  OBVIOUS
<1> HIDE DEF longer, n
<1>2. \A i \in 1..(n + 1) : i \in 1..n \/ i = n + 1
  BY <1>1
<1>3. n + 1 \in 1..(n + 1) /\ 1..n \subseteq 1..(n + 1)
  BY <1>1
<1>4. In(longer, c) => In(queue, c) \/ c = e.client
  BY <1>1, <1>2 DEF In
<1>5. In(queue, c) \/ c = e.client => In(longer, c)
  BY <1>1, <1>3 DEF In
<1> QED BY <1>4, <1>5 DEF longer

\* Who is left behind the first.
LEMMA InTail ==
    ASSUME NEW queue \in Seq(Entries), queue # <<>>
    PROVE  /\ \A c : In(queue, c) <=> c = Head(queue).client \/ In(Tail(queue), c)
           /\ \A i \in DOMAIN Tail(queue) : i + 1 \in DOMAIN queue /\ Tail(queue)[i] = queue[i + 1]
           /\ Head(queue) = queue[1] /\ 1 \in DOMAIN queue
           /\ \A i \in DOMAIN Tail(queue) : i \in Nat /\ i # 0
<1> DEFINE t == Tail(queue)  n == Len(queue)
<1>1. /\ n \in Nat /\ n # 0 /\ DOMAIN queue = 1..n
      /\ DOMAIN t = 1..(n - 1) /\ Head(queue) = queue[1]
      /\ \A i \in 1..(n - 1) : t[i] = queue[i + 1]
  OBVIOUS
<1> HIDE DEF t, n
<1>2. /\ \A i \in 1..(n - 1) : i + 1 \in 1..n
      /\ \A i \in 1..n : i = 1 \/ i - 1 \in 1..(n - 1)
      /\ \A i \in 1..n : (i - 1) + 1 = i
      /\ \A i \in 1..(n - 1) : i \in Nat /\ i # 0
      /\ 1 \in 1..n
  BY <1>1
<1>3. ASSUME NEW c PROVE In(queue, c) <=> c = Head(queue).client \/ In(t, c)
  <2>1. ASSUME In(queue, c) PROVE c = Head(queue).client \/ In(t, c)
    <3>1. PICK i \in 1..n : queue[i].client = c
      BY <1>1, <2>1 DEF In
    <3>2. CASE i = 1
      BY <1>1, <3>1, <3>2
    <3>3. CASE i # 1
      <4>1. i - 1 \in 1..(n - 1) /\ (i - 1) + 1 = i
        BY <1>2, <3>3
      <4>2. t[i - 1] = queue[i]
        BY <1>1, <4>1
      <4> QED BY <1>1, <3>1, <4>1, <4>2 DEF In
    <3> QED BY <3>2, <3>3
  <2>2. ASSUME c = Head(queue).client \/ In(t, c) PROVE In(queue, c)
    <3>1. CASE c = Head(queue).client
      BY <1>1, <1>2, <3>1 DEF In
    <3>2. CASE In(t, c)
      <4>1. PICK i \in 1..(n - 1) : t[i].client = c
        BY <1>1, <3>2 DEF In
      <4> QED BY <1>1, <1>2, <4>1 DEF In
    <3> QED BY <2>2, <3>1, <3>2
  <2> QED BY <2>1, <2>2
<1> QED BY <1>1, <1>2, <1>3 DEF t

\* The queue with the active request of a client that is not in it.
LEMMA QueueGrows ==
    ASSUME NEW ps, NEW queue \in Seq(Entries), NEW e \in Entries,
           ~In(queue, e.client), QueueOf(queue, ps), e.msg = ActiveOf(ps, e.client)
    PROVE  QueueOf(Append(queue, e), ps)
<1> DEFINE longer == Append(queue, e)  n == Len(queue)
<1>1. /\ DOMAIN longer = 1..(n + 1) /\ n \in Nat
      /\ \A i \in 1..n : longer[i] = queue[i]
      /\ longer[n + 1] = e /\ DOMAIN queue = 1..n
  OBVIOUS
<1> HIDE DEF longer, n
<1>2. \A i \in 1..(n + 1) : i \in 1..n \/ i = n + 1
  BY <1>1
<1>3. \A i \in DOMAIN longer : longer[i].msg = ActiveOf(ps, longer[i].client)
  BY <1>1, <1>2 DEF QueueOf
<1>4. \A i \in 1..n : queue[i].client # e.client
  BY <1>1 DEF In
<1>5. \A i, j \in DOMAIN longer : longer[i].client = longer[j].client => i = j
  BY <1>1, <1>2, <1>4 DEF QueueOf
<1> QED BY <1>3, <1>5 DEF QueueOf, longer

\* Everybody in the queue has a request to be sent, with all its retries.
Waiting(queue, ps, counts) ==
    \A c \in Clients :
        In(queue, c) =>
            UnderWay(ps[c]) /\ counts[c] + ps[c].retriesLeft = MaxRequestRetries

\* Whoever is told nothing yet is in the queue.
AllQueued(queue, waiting, counts) ==
    \A c \in Clients : /\ counts[c] \in 0..MaxRequestRetries
                       /\ waiting[c] => In(queue, c)

\* What was counted and what is left are all the retries: one more is still within them.
LEMMA OneMore ==
    ASSUME NEW n \in 0..MaxRequestRetries, NEW k \in 0..MaxRequestRetries, k # 0,
           n + k = MaxRequestRetries
    PROVE  n + 1 \in 0..MaxRequestRetries /\ n + 1 + k = MaxRequestRetries + 1
BY RetriesAssumption

\* continueWithNextRequest begins the next client's turn, or there is none.
LEMMA ServeNext ==
    ASSUME TypesInv, TypesInv', sendTimer = Scheduler!Off,
           NEW queue \in Seq(Entries), Continued(queue, Scheduler!Off, <<>>),
           bus' = sent', NEW counts \in [Clients -> Int], CountFrom(counts),
           QueueOf(queue, parsers'), Waiting(queue, parsers', counts),
           AllQueued(queue, awaiting', counts)
    PROVE  StageInv' /\ QueueInv' /\ ServedInv'
<1>1. /\ delayed = NoMessage /\ Scheduler!Superseded = <<>>
      /\ <<>> \o <<>> = <<>>
  BY DEF TypesInv, SchedulerTypes, Scheduler!Superseded
<1>2. NoClient \notin Clients /\ RequestTimeout # Scheduler!Off /\ Scheduler!Off \notin Nat
  BY PathAssumption DEF Scheduler!Off
<1>3. \A c \in Clients : WellFormed(parsers'[c])
  BY DEF TypesInv, ClientTypes
<1>4. CASE queue = <<>>
  <2>1. /\ currentClient' = NoClient /\ pending' = <<>> /\ responseTimeout' = Scheduler!Off
        /\ ready' = <<>> /\ sent' = <<>> /\ sendTimer' = Scheduler!Off
    BY <1>4 DEF Continued
  <2>2. StageInv'
    BY <2>1 DEF StageInv, Idle
  <2>3. QueueInv'
    BY <2>1 DEF QueueInv, QueueOf
  <2>4. \A c : ~In(<<>>, c)
    BY DEF In
  <2>5. \A c \in Clients : transmitted'[c] = counts[c]
    BY <2>1 DEF CountFrom
  <2>6. \A c \in Clients : ~Served(c)'
    BY <1>2, <2>1, <2>4 DEF Served
  <2>7. ServedInv'
    BY <1>4, <2>4, <2>5, <2>6 DEF ServedInv, AllQueued
  <2> QED BY <2>2, <2>3, <2>7
<1>5. CASE queue # <<>>
  <2> DEFINE k == Head(queue).client  m == Head(queue).msg
  <2>1. k \in Clients /\ m \in Transmissions
    <3>1. Head(queue) \in Entries
      BY <1>5
    <3> QED BY <3>1 DEF Entries
  <2>2. /\ \A c : In(queue, c) <=> c = k \/ In(Tail(queue), c)
        /\ \A i \in DOMAIN Tail(queue) : /\ i + 1 \in DOMAIN queue
                                         /\ Tail(queue)[i] = queue[i + 1]
                                         /\ i \in Nat /\ i # 0
        /\ Head(queue) = queue[1] /\ 1 \in DOMAIN queue
    BY <1>5, InTail
  <2>3. /\ currentClient' = k /\ pending' = Tail(queue)
        /\ Forwarded(m, Scheduler!Off, <<>>)
    BY <1>5 DEF Continued
  <2>4. m = ActiveOf(parsers', k)
    BY <2>2 DEF QueueOf
  <2>5. /\ UnderWay(parsers'[k]) /\ parsers'[k].active = <<parsers'[k].active[1]>>
        /\ m.client = k /\ m.request = parsers'[k].active[1]
    <3>1. UnderWay(parsers'[k])
      BY <2>1, <2>2 DEF Waiting
    <3>2. parsers'[k].active = <<parsers'[k].active[1]>> /\ parsers'[k].active[1] \in Requests
      BY <1>3, <2>1, <3>1 DEF UnderWay, WellFormed
    <3> QED BY <2>1, <2>4, <3>1, <3>2, OutgoingIs DEF ActiveOf
  <2>6. QueueInv'
    <3>1. QueueOf(Tail(queue), parsers')
      <4>1. \A i \in DOMAIN Tail(queue) : Tail(queue)[i].msg = ActiveOf(parsers', Tail(queue)[i].client)
        BY <2>2 DEF QueueOf
      <4>2. \A i, j \in DOMAIN Tail(queue) :
               Tail(queue)[i].client = Tail(queue)[j].client => i = j
        <5>1. \A i, j \in Nat : i + 1 = j + 1 => i = j
          OBVIOUS
        <5>2. \A i, j \in DOMAIN Tail(queue) :
                 Tail(queue)[i].client = Tail(queue)[j].client => i + 1 = j + 1
          BY <2>2 DEF QueueOf
        <5> QED BY <2>2, <5>1, <5>2
      <4> QED BY <4>1, <4>2 DEF QueueOf
    <3>2. \A i \in DOMAIN Tail(queue) : Tail(queue)[i].client # k
      <4>1. \A i \in Nat : i # 0 => i + 1 # 1
        OBVIOUS
      <4> QED BY <2>2, <4>1 DEF QueueOf
    <3> QED BY <2>3, <3>1, <3>2 DEF QueueInv
  <2>7. \A c : Served(c)' <=> In(queue, c)
    BY <2>2, <2>3 DEF Served
  <2>8. \A c \in Clients : Served(c)' => UnderWay(parsers'[c])
    BY <2>7 DEF Waiting
  <2>9. \A c \in Clients : awaiting'[c] => Served(c)'
    BY <2>7 DEF AllQueued
  <2> HIDE DEF k, m
  <2>10. CASE /\ sendTimer' \in Nat /\ delayed' = m
              /\ responseTimeout' = Scheduler!Off /\ sent' = <<>>
              /\ ready' = <<>> \o Scheduler!Superseded
    <3>1. ready' = <<>> /\ bus' = <<>> /\ sendTimer' # Scheduler!Off
      BY <1>1, <1>2, <2>10
    <3>2. StageInv'
      BY <2>1, <2>3, <2>4, <2>10, <3>1 DEF StageInv, Delayed, Mine
    <3>3. ~OnTheWire'
      BY <2>10, <3>1 DEF OnTheWire
    <3>4. \A c \in Clients : transmitted'[c] = counts[c]
      BY <2>10 DEF CountFrom
    <3>5. \A c \in Clients : Served(c)' => Accounted(c, 0)'
      <4>1. \A i \in Int : i + 0 = i
        OBVIOUS
      <4> QED BY <2>7, <3>4, <4>1, RetriesAssumption DEF Waiting, Accounted
    <3>6. ServedInv'
      BY <2>8, <2>9, <3>3, <3>4, <3>5 DEF ServedInv, AllQueued
    <3> QED BY <2>6, <3>2, <3>6
  <2>11. CASE /\ sendTimer' = sendTimer /\ delayed' = delayed
              /\ responseTimeout' = RequestTimeout /\ sent' = <<m>>
              /\ ready' = <<>>
    <3>1. StageInv'
      BY <1>2, <2>1, <2>3, <2>4, <2>11 DEF StageInv, Out, Mine
    <3>2. OnTheWire'
      BY <1>2, <2>11 DEF OnTheWire
    <3>3. /\ transmitted'[k] = counts[k] + 1
          /\ \A c \in Clients \ {k} : transmitted'[c] = counts[c]
      BY <2>1, <2>5, <2>11 DEF CountFrom
    <3>4. \A c \in Clients : Served(c)' => counts[c] + parsers'[c].retriesLeft = MaxRequestRetries
      BY <2>7 DEF Waiting
    <3>5. Accounted(k, 1)' /\ transmitted'[k] \in 0..MaxRequestRetries
      <4>1. parsers'[k].retriesLeft \in 0..MaxRequestRetries /\ parsers'[k].retriesLeft # 0
        BY <1>3, <2>1, <2>5 DEF WellFormed, UnderWay
      <4>2. counts[k] \in 0..MaxRequestRetries
        BY <2>1 DEF AllQueued
      <4>3. counts[k] + parsers'[k].retriesLeft = MaxRequestRetries
        BY <2>1, <2>3, <3>4 DEF Served
      <4> QED BY <3>3, <4>1, <4>2, <4>3, OneMore DEF Accounted
    <3>6. \A c \in Clients \ {k} : /\ transmitted'[c] \in 0..MaxRequestRetries
                                   /\ Served(c)' => Accounted(c, 0)'
      <4>1. \A i \in Int : i + 0 = i
        OBVIOUS
      <4> QED BY <3>3, <3>4, <4>1, RetriesAssumption DEF Accounted, AllQueued
    <3>7. ServedInv'
      BY <2>3, <2>8, <2>9, <3>2, <3>5, <3>6 DEF ServedInv
    <3> QED BY <2>6, <3>1, <3>7
  <2> QED BY <2>3, <2>10, <2>11 DEF Forwarded
<1> QED BY <1>4, <1>5

-----------------------------------------------------------------------------
(* The turn of a client ends, or goes on with its next request *)

Gone(o) == o.sends = <<>> /\ o.reply \in FinalReplies

GoesOn(o) ==
    /\ o.sends # <<>> /\ o.sends = o.parser.active /\ o.reply = "none"
    /\ UnderWay(o.parser)

\* A read that goes on stays within its table.
LEMMA EndedGoes ==
    ASSUME NEW p, UnderWay(p), p.active[1].read, NEW o, Kept(p, o), Ended(p, o)
    PROVE  Gone(o) \/ (GoesOn(o) /\ IsNew(o))
<1>1. CASE Over(o)
  BY <1>1 DEF Over, Gone
<1>2. CASE FailedFor(p, o)
  BY <1>2 DEF FailedFor, Gone, FinalReplies
<1>3. CASE ReadsOn(o)
  <2>1. InTable(o.parser)
    BY DEF UnderWay, Kept
  <2> QED BY <1>3, <2>1 DEF ReadsOn, Asked, GoesOn, UnderWay, IsNew
<1> QED BY <1>1, <1>2, <1>3 DEF Ended

\* The answer to a request ends the turn or leads to a request with all its retries.
LEMMA AnswerCalls ==
    ASSUME NEW p, WellFormed(p), Contiguous(p), UnderWay(p),
           NEW m \in DeviceAnswers(p.active[1], AnswerSizes),
           NEW o \in OnIncomingMessage(p, m)
    PROVE  Gone(o) \/ (GoesOn(o) /\ IsNew(o))
<1>1. p.active[1] \in Requests
  BY DEF WellFormed, UnderWay
<1>2. IsMessage(m) /\ (~p.active[1].read => m.type = Acknowledge)
  BY <1>1, PathAssumption, DevicesSay
<1>3. Ended(p, o)
  BY PathAssumption, AnswerEnds DEF UnderWay
<1>4. Kept(p, o) /\ (m.type = Acknowledge => o = Stay(p) \/ Over(o))
  BY <1>2, MessageEnds
<1>5. CASE p.active[1].read
  BY <1>3, <1>4, <1>5, EndedGoes
<1>6. CASE ~p.active[1].read
  <2>1. Stay(p).sends = <<>> /\ Stay(p).reply = "none"
    BY DEF Stay
  <2>2. o # Stay(p)
    BY <1>3, <2>1 DEF Ended, Over, ReadsOn, Asked, FailedFor, FinalReplies
  <2> QED BY <1>2, <1>4, <1>6, <2>2 DEF Over, Gone
<1> QED BY <1>5, <1>6

\* A timeout ends it after the last retry or takes one retry.
LEMMA TimeoutCalls ==
    ASSUME NEW p, WellFormed(p), Contiguous(p), UnderWay(p)
    PROVE  LET o == OnTimeout(p)
           IN  \/ Gone(o) /\ p.retriesLeft = 1
               \/ /\ GoesOn(o) /\ ~IsNew(o)
                  /\ o.parser.retriesLeft = p.retriesLeft - 1
<1> DEFINE o == OnTimeout(p)
<1>1. Kept(p, o)
  BY TimeoutEnds
<1>2. \/ Over(o) /\ p.retriesLeft = 1
      \/ /\ o.parser.active = p.active
         /\ o.sends = p.active /\ o.reply = "none"
         /\ o.parser.retriesLeft = p.retriesLeft - 1
         /\ InSync(p) => InSync(o.parser)
  BY TimeoutEnds DEF UnderWay
<1> HIDE DEF o
<1>3. CASE Over(o) /\ p.retriesLeft = 1
  BY <1>3 DEF Over, Gone, o
<1>4. CASE /\ o.parser.active = p.active
           /\ o.sends = p.active /\ o.reply = "none"
           /\ o.parser.retriesLeft = p.retriesLeft - 1
           /\ InSync(p) => InSync(o.parser)
  <2>1. UnderWay(o.parser)
    BY <1>1, <1>4 DEF UnderWay, Kept
  <2>2. GoesOn(o)
    BY <1>4, <2>1 DEF GoesOn, UnderWay
  <2>3. p.retriesLeft \in 0..MaxRequestRetries
    BY DEF WellFormed
  <2>4. p.retriesLeft - 1 # MaxRequestRetries
    BY <2>3, RetriesAssumption
  <2>5. ~IsNew(o)
    BY <1>4, <2>4, Zenon DEF IsNew
  <2> QED BY <1>4, <2>2, <2>5 DEF o
<1> QED BY <1>2, <1>3, <1>4

\* What the count of a client called back starts from.
CountsFor(o) ==
    IF IsNew(o) THEN [transmitted EXCEPT ![currentClient] = 0] ELSE transmitted

\* The retries of the client called back, whose request has gone out once more.
LEMMA CallCounts ==
    ASSUME TypesInv, ServedInv, currentClient \in Clients, OnTheWire, NEW o,
           \/ Gone(o)
           \/ GoesOn(o) /\ IsNew(o)
           \/ /\ GoesOn(o) /\ ~IsNew(o)
              /\ o.parser.retriesLeft = parsers[currentClient].retriesLeft - 1
    PROVE  /\ CountsFor(o) \in [Clients -> Int]
           /\ \A c \in Clients : CountsFor(o)[c] \in 0..MaxRequestRetries
           /\ \A c \in Clients \ {currentClient} : CountsFor(o)[c] = transmitted[c]
           /\ GoesOn(o) => CountsFor(o)[currentClient] + o.parser.retriesLeft = MaxRequestRetries
<1> DEFINE k == currentClient
<1>1. transmitted \in [Clients -> Int]
  BY DEF TypesInv, ClientTypes
<1>2. \A c \in Clients : transmitted[c] \in 0..MaxRequestRetries
  BY DEF ServedInv
<1>3. 0 \in 0..MaxRequestRetries /\ 0 + MaxRequestRetries = MaxRequestRetries
  BY RetriesAssumption
<1>4. CASE IsNew(o)
  <2>1. CountsFor(o) = [transmitted EXCEPT ![k] = 0]
    BY <1>4 DEF CountsFor
  <2>2. \A f \in [Clients -> Int], c \in Clients : [f EXCEPT ![c] = 0] \in [Clients -> Int]
    OBVIOUS
  <2>3. CountsFor(o) \in [Clients -> Int]
    BY <1>1, <2>1, <2>2, Zenon
  <2>4. /\ CountsFor(o)[k] = 0
        /\ \A c \in Clients \ {k} : CountsFor(o)[c] = transmitted[c]
    BY <1>1, <2>1
  <2>5. o.parser.retriesLeft = MaxRequestRetries
    BY <1>4 DEF IsNew
  <2> QED BY <1>2, <1>3, <2>3, <2>4, <2>5, Zenon
<1>5. CASE ~IsNew(o)
  <2>1. CountsFor(o) = transmitted
    BY <1>5 DEF CountsFor
  <2>2. ASSUME GoesOn(o) PROVE transmitted[k] + o.parser.retriesLeft = MaxRequestRetries
    <3>1. o.parser.retriesLeft = parsers[k].retriesLeft - 1
      BY <1>5, <2>2 DEF Gone, GoesOn
    <3>2. transmitted[k] + parsers[k].retriesLeft = MaxRequestRetries + 1
      BY DEF ServedInv, Served, Accounted
    <3>3. parsers[k].retriesLeft \in 0..MaxRequestRetries
      BY DEF TypesInv, ClientTypes, WellFormed
    <3> QED BY <1>2, <3>1, <3>2, <3>3, RetriesAssumption
  <2> QED BY <1>1, <1>2, <2>1, <2>2
<1> QED BY <1>4, <1>5

\* The current client waits for nothing else.
LEMMA CurrentNotQueued ==
    ASSUME QueueInv
    PROVE  ~In(pending, currentClient)
BY DEF QueueInv, In

\* What happens to a client that is not in the queue changes nothing for those who are.
LEMMA OthersWait ==
    ASSUME TypesInv, QueueInv, ServedInv, NEW k, ~In(pending, k),
           NEW ps, \A c \in Clients \ {k} : ps[c] = parsers[c],
           NEW counts, \A c \in Clients \ {k} : counts[c] = transmitted[c]
    PROVE  QueueOf(pending, ps) /\ Waiting(pending, ps, counts)
<1>1. \A i \in DOMAIN pending : pending[i].client \in Clients \ {k}
  <2>1. \A i \in DOMAIN pending : pending[i] \in Entries
    BY DEF TypesInv, SchedulerTypes
  <2> QED BY <2>1 DEF In, Entries
<1>2. QueueOf(pending, ps)
  BY <1>1, Zenon DEF QueueInv, QueueOf, ActiveOf
<1>3. ASSUME NEW c \in Clients, In(pending, c)
      PROVE  UnderWay(ps[c]) /\ counts[c] + ps[c].retriesLeft = MaxRequestRetries
  <2>1. c # k /\ c # currentClient /\ Served(c)
    BY <1>3, CurrentNotQueued DEF Served
  <2>2. UnderWay(parsers[c]) /\ Accounted(c, 0)
    BY <2>1, Zenon DEF ServedInv
  <2>3. ps[c] = parsers[c] /\ counts[c] = transmitted[c]
    BY <2>1
  <2> QED BY <2>2, <2>3, RetriesAssumption DEF Accounted
<1> QED BY <1>2, <1>3 DEF Waiting

\* A callback to the client whose request was out, and the turn after it.
LEMMA TurnContinues ==
    ASSUME TypesInv, TypesInv', QueueInv, ServedInv, currentClient \in Clients, OnTheWire,
           sendTimer = Scheduler!Off, NEW o, Orderly(o), CallBack(o, <<>>),
           \/ Gone(o)
           \/ GoesOn(o) /\ IsNew(o)
           \/ /\ GoesOn(o) /\ ~IsNew(o)
              /\ o.parser.retriesLeft = parsers[currentClient].retriesLeft - 1,
           Continued(Scheduler!PendingAfter(Reaction(currentClient, o)), Scheduler!Off, <<>>)
    PROVE  StageInv' /\ QueueInv' /\ ServedInv'
<1> DEFINE k == currentClient
           queue == Scheduler!PendingAfter(Reaction(currentClient, o))
           counts == CountsFor(o)
<1>0. /\ ClientTypes /\ SchedulerTypes /\ k # NoClient /\ awaiting \in [Clients -> BOOLEAN]
      /\ pending \in Seq(Entries)
  BY PathAssumption DEF TypesInv, ClientTypes, SchedulerTypes
<1>1. /\ ParserBecomes(k, o) /\ CountFrom(counts) /\ BusBecomes(<<>>)
      /\ awaiting' = [awaiting EXCEPT ![k] = @ /\ o.reply \notin FinalReplies]
  BY <1>0, Zenon DEF CallBack, CountsFor
<1>2. parsers'[k] = o.parser /\ \A d \in Clients \ {k} : parsers'[d] = parsers[d]
  BY <1>0, <1>1, ClientBecomes DEF Orderly
<1>3. bus' = sent'
  <2>1. sent' = <<>> \/ \E m \in Transmissions : sent' = <<m>>
    BY DEF TypesInv, SchedulerTypes
  <2>2. Len(<<>>) < BusCapacity
    BY PathAssumption
  <2>3. <<>> \o sent' = sent'
    BY <2>1
  <2> QED BY <1>1, <2>2, <2>3 DEF BusBecomes
<1>4. /\ awaiting'[k] => o.reply \notin FinalReplies
      /\ \A d \in Clients \ {k} : awaiting'[d] = awaiting[d]
  BY <1>0, <1>1
<1>5. /\ counts \in [Clients -> Int]
      /\ \A c \in Clients : counts[c] \in 0..MaxRequestRetries
      /\ \A c \in Clients \ {k} : counts[c] = transmitted[c]
      /\ GoesOn(o) => counts[k] + o.parser.retriesLeft = MaxRequestRetries
  BY CallCounts
<1> HIDE DEF counts
<1>6. /\ QueueOf(pending, parsers') /\ Waiting(pending, parsers', counts)
      /\ ~In(pending, k)
  BY <1>2, <1>5, OthersWait, CurrentNotQueued
<1>7. \A c \in Clients \ {k} : awaiting'[c] => In(pending, c)
  BY <1>4 DEF ServedInv, Served
<1>8. CASE Gone(o)
  <2>1. queue = pending
    BY <1>0, <1>8, QueueAfter DEF Gone
  <2>2. AllQueued(queue, awaiting', counts)
    BY <1>4, <1>5, <1>7, <1>8, <2>1 DEF AllQueued, Gone
  <2> QED BY <1>0, <1>1, <1>3, <1>5, <1>6, <2>1, <2>2, ServeNext
<1>9. CASE GoesOn(o)
  <2>1. PICK r \in Requests : o.sends = <<r>> /\ o.parser.active = <<r>>
    BY <1>9 DEF Orderly, SendsOne, GoesOn
  <2> DEFINE e == [client |-> k, msg |-> Outgoing(k, r)]
  <2>2. queue = Append(pending, e)
    BY <1>0, <2>1, QueueAfter
  <2>3. e \in Entries /\ e.client = k
    BY OutgoingIs DEF Entries
  <2>4. e.msg = ActiveOf(parsers', e.client)
    BY <1>2, <2>1 DEF ActiveOf
  <2> HIDE DEF e, queue
  <2>5. queue \in Seq(Entries)
    BY <1>0, <2>2, <2>3
  <2>6. QueueOf(queue, parsers')
    BY <1>0, <1>6, <2>2, <2>3, <2>4, QueueGrows
  <2>7. \A c : In(queue, c) <=> In(pending, c) \/ c = k
    BY <1>0, <2>2, <2>3, InAppend
  <2>8. Waiting(queue, parsers', counts)
    BY <1>2, <1>5, <1>6, <1>9, <2>7 DEF Waiting, GoesOn
  <2>9. AllQueued(queue, awaiting', counts)
    BY <1>5, <1>7, <2>7 DEF AllQueued
  <2> QED BY <1>1, <1>3, <1>5, <2>5, <2>6, <2>8, <2>9, ServeNext DEF queue
<1> QED BY <1>8, <1>9

\* While the bus has a request, it is the current client's.
LEMMA OutIs ==
    ASSUME TypesInv, StageInv, bus # <<>>
    PROVE  /\ currentClient \in Clients /\ currentClient # NoClient /\ OnTheWire
           /\ bus = <<Mine(currentClient)>> /\ ready = <<>> /\ sendTimer = Scheduler!Off
<1>1. currentClient \in Clients /\ Out
  BY DEF StageInv, Idle, Delayed, Leaving, Expired
<1> QED BY <1>1, PathAssumption DEF Out, OnTheWire

\* A timeout is the current client's, and nothing is on the bus.
LEMMA ExpiredIs ==
    ASSUME TypesInv, StageInv, ready # <<>>, Head(ready) = Scheduler!TimedOut
    PROVE  /\ currentClient \in Clients /\ currentClient # NoClient /\ OnTheWire
           /\ bus = <<>> /\ Tail(ready) = <<>> /\ sendTimer = Scheduler!Off
           /\ responseTimeout = Scheduler!Off
<1>1. ~Leaving
  <2>1. \A m : Scheduler!SendOf(m) # Scheduler!TimedOut
    <3>1. \A m : Scheduler!SendOf(m).kind = "send"
      BY DEF Scheduler!SendOf
    <3>2. Scheduler!TimedOut.kind = "timeout"
      BY DEF Scheduler!TimedOut
    <3> QED BY <3>1, <3>2
  <2> QED BY <2>1 DEF Leaving
<1>2. currentClient \in Clients /\ Expired
  BY <1>1 DEF StageInv, Idle, Delayed, Out
<1> QED BY <1>2, PathAssumption DEF Expired, OnTheWire

\* The device answers: the client's turn goes on.
LEMMA AnswerStep ==
    ASSUME IInv, TypesInv', AnswerArrives
    PROVE  StageInv' /\ QueueInv' /\ ServedInv'
<1> DEFINE k == currentClient  p == parsers[k]
<1>1. TypesInv /\ StageInv /\ QueueInv /\ ServedInv /\ bus # <<>>
  BY DEF IInv, AnswerArrives
<1>2. /\ k \in Clients /\ k # NoClient /\ OnTheWire
      /\ bus = <<Mine(k)>> /\ ready = <<>> /\ sendTimer = Scheduler!Off
  BY <1>1, OutIs
<1>3. WellFormed(p) /\ Contiguous(p) /\ UnderWay(p)
  BY <1>1, <1>2 DEF TypesInv, ClientTypes, ServedInv, Served
<1>4. Head(bus).request = p.active[1] /\ Tail(bus) = <<>>
  <2>1. Mine(k).request = p.active[1]
    BY DEF Mine, ActiveOf, Outgoing
  <2> QED BY <1>2, <2>1
<1>5. PICK m \in DeviceAnswers(p.active[1], AnswerSizes) :
         \E o \in ByMessage(m) :
            /\ Scheduler!HandlePcMessage(m.source, Reaction(k, o))
            /\ CallBack(o, <<>>)
  BY <1>4 DEF AnswerArrives
<1>6. PICK o \in ByMessage(m) :
         Scheduler!HandlePcMessage(m.source, Reaction(k, o)) /\ CallBack(o, <<>>)
  BY <1>5
<1>7. o \in OnIncomingMessage(p, m)
  BY <1>2 DEF ByMessage
<1>8. Gone(o) \/ (GoesOn(o) /\ IsNew(o))
  BY <1>3, <1>7, AnswerCalls
<1>9. Orderly(o)
  <2>1. p.active[1] \in Requests
    BY <1>3 DEF WellFormed, UnderWay
  <2>2. IsMessage(m)
    BY <2>1, PathAssumption, DevicesSay
  <2> QED BY <1>3, <1>7, <2>2, MessageOrderly
<1> DEFINE queue == Scheduler!PendingAfter(Reaction(k, o))  ages == [age EXCEPT ![m.source] = 0]
<1>10. Scheduler!ContinueWithNextRequest(queue, Scheduler!Off, ages, <<>>)
  BY <1>2, <1>6, Zenon DEF Scheduler!HandlePcMessage
<1>11. queue \in Seq(Entries)
  BY <1>1, <1>2, <1>9, CalledQueue DEF TypesInv, Called
<1>12. ages \in Ages
  <2>1. 0 \in 0..Scheduler!Old
    BY PathAssumption DEF Scheduler!Old
  <2> QED BY <1>1, <2>1 DEF TypesInv, SchedulerTypes, Ages
<1> HIDE DEF ages, queue, p
<1>13. Continued(queue, Scheduler!Off, <<>>)
  BY <1>10, <1>11, <1>12, ContinueIs
<1> QED BY <1>1, <1>2, <1>6, <1>8, <1>9, <1>13, TurnContinues DEF queue

\* No answer came: the client repeats its request or gives up.
LEMMA TimeoutStep ==
    ASSUME IInv, TypesInv', HandleResponseTimeout
    PROVE  StageInv' /\ QueueInv' /\ ServedInv'
<1> DEFINE k == currentClient  p == parsers[k]  o == ByTimeout
           queue == Scheduler!PendingAfter(Reaction(k, o))
<1>1. TypesInv /\ StageInv /\ QueueInv /\ ServedInv
  BY DEF IInv
<1>2. /\ Scheduler!HandleResponseTimeout(Reaction(k, o)) /\ CallBack(o, bus)
  BY DEF HandleResponseTimeout
<1>3. /\ ready # <<>> /\ Head(ready) = Scheduler!TimedOut
      /\ Scheduler!ContinueWithNextRequest(queue, responseTimeout, age, Tail(ready))
  BY <1>2, Zenon DEF Scheduler!HandleResponseTimeout
<1>4. /\ k \in Clients /\ k # NoClient /\ OnTheWire
      /\ bus = <<>> /\ Tail(ready) = <<>> /\ sendTimer = Scheduler!Off
      /\ responseTimeout = Scheduler!Off
  BY <1>1, <1>3, ExpiredIs
<1>5. WellFormed(p) /\ Contiguous(p) /\ UnderWay(p)
  BY <1>1, <1>4 DEF TypesInv, ClientTypes, ServedInv, Served
<1>6. o = OnTimeout(p)
  BY <1>4 DEF ByTimeout
<1>7. Orderly(o)
  BY <1>5, <1>6, TimeoutOrderly
<1>8. \/ Gone(o)
      \/ GoesOn(o) /\ ~IsNew(o) /\ o.parser.retriesLeft = p.retriesLeft - 1
  BY <1>5, <1>6, TimeoutCalls
<1> HIDE DEF o
<1>9. queue \in Seq(Entries)
  BY <1>1, <1>4, <1>7, CalledQueue DEF TypesInv, Called
<1>10. age \in Ages
  BY <1>1 DEF TypesInv, SchedulerTypes
<1> HIDE DEF queue
<1>11. Continued(queue, Scheduler!Off, <<>>)
  BY <1>3, <1>4, <1>9, <1>10, ContinueIs
<1>12. CallBack(o, <<>>)
  BY <1>2, <1>4
<1> QED BY <1>1, <1>4, <1>7, <1>8, <1>11, <1>12, TurnContinues DEF queue

\* The clients and the queue are left alone, and so is what is on the wire.
LEMMA NothingServed ==
    ASSUME QueueInv, ServedInv,
           UNCHANGED <<parsers, awaiting, transmitted, currentClient, pending>>,
           OnTheWire' <=> OnTheWire
    PROVE  QueueInv' /\ ServedInv'
<1>1. QueueInv'
  BY DEF QueueInv, QueueOf, ActiveOf
<1>2. \A c \in Clients : Served(c)' <=> Served(c)
  BY DEF Served, In
<1>3. ServedInv'
  BY <1>2 DEF ServedInv, Accounted
<1> QED BY <1>1, <1>3

\* What a line comes to when its parser is free.
LEMMA AskedIs ==
    ASSUME RawReadsFit, NEW p, WellFormed(p), Contiguous(p), NEW c \in Lines
    PROVE  LET o == Parse(p, c)
           IN  \/ p.active # <<>> /\ o.parser = p /\ o.sends = <<>> /\ o.reply = "ERRBUSY"
               \/ /\ p.active = <<>> /\ GoesOn(o) /\ Orderly(o)
                  /\ o.parser.retriesLeft = MaxRequestRetries
<1> DEFINE o == Parse(p, c)
<1>1. c \in Commands
  BY PathAssumption
<1>2. Sound(p, o.parser) /\ ParsedTo(p, c, o) /\ AsksFor(c, o)
  BY <1>1, ParseEnds
<1>3. ReadsWithin(c)
  BY AllReadsFit
<1>4. Orderly(o)
  BY <1>1, ParseOrderly
<1> HIDE DEF o
<1>5. Asked(o) => GoesOn(o) /\ o.parser.retriesLeft = MaxRequestRetries
  BY <1>2, <1>3 DEF Asked, AsksFor, GoesOn, UnderWay
<1> QED BY <1>2, <1>3, <1>4, <1>5, Zenon DEF ParsedTo, o

\* A client types a line: refused, or put into the queue as the first or the last.
LEMMA HandleRequestStep ==
    ASSUME RawReadsFit, IInv, TypesInv', NEW c \in Clients, NEW command \in Lines,
           HandleRequest(c, command)
    PROVE  StageInv' /\ QueueInv' /\ ServedInv'
<1> DEFINE p == parsers[c]  o == Parse(p, command)  k == currentClient
           counts == [transmitted EXCEPT ![c] = 0]
<1>1. /\ TypesInv /\ StageInv /\ QueueInv /\ ServedInv
      /\ ClientTypes /\ SchedulerTypes /\ awaiting \in [Clients -> BOOLEAN]
      /\ transmitted \in [Clients -> Int] /\ pending \in Seq(Entries)
  BY DEF IInv, TypesInv, ClientTypes, SchedulerTypes
<1>2. WellFormed(p) /\ Contiguous(p)
  BY <1>1 DEF ClientTypes
<1>3. /\ ParserBecomes(c, o)
      /\ awaiting' = [awaiting EXCEPT ![c] = @ \/ o.reply # "ERRBUSY"]
      /\ IF o.sends = <<>>
         THEN UNCHANGED schedulerVars /\ UNCHANGED <<bus, transmitted>>
         ELSE /\ Scheduler!SendMessage(c, Outgoing(c, o.sends[1]))
              /\ BusBecomes(bus)
              /\ CountFrom(counts)
  BY Zenon DEF HandleRequest
<1>4. \/ p.active # <<>> /\ o.parser = p /\ o.sends = <<>> /\ o.reply = "ERRBUSY"
      \/ /\ p.active = <<>> /\ GoesOn(o) /\ Orderly(o)
         /\ o.parser.retriesLeft = MaxRequestRetries
  BY <1>2, AskedIs
<1> HIDE DEF o, counts
<1>5. CASE o.parser = p /\ o.sends = <<>> /\ o.reply = "ERRBUSY"
  <2>1. parsers' = parsers
    BY <1>1, <1>3, <1>5, Zenon DEF ParserBecomes, ClientTypes
  <2>2. awaiting' = awaiting
    BY <1>1, <1>3, <1>5
  <2>3. UNCHANGED schedulerVars /\ UNCHANGED <<bus, transmitted>>
    BY <1>3, <1>5
  <2>4. StageInv'
    BY <1>1, <2>1, <2>3 DEF schedulerVars, StageInv, Idle, Delayed, Leaving, Out, Expired,
                            Mine, ActiveOf
  <2>5. OnTheWire' <=> OnTheWire
    BY <2>3 DEF schedulerVars, OnTheWire
  <2> QED BY <1>1, <2>1, <2>2, <2>3, <2>4, <2>5, NothingServed DEF schedulerVars
<1>6. CASE /\ p.active = <<>> /\ GoesOn(o) /\ Orderly(o)
           /\ o.parser.retriesLeft = MaxRequestRetries
  <2>1. PICK r \in Requests : o.sends = <<r>> /\ o.parser.active = <<r>>
    BY <1>6 DEF Orderly, SendsOne, GoesOn
  <2> DEFINE e == [client |-> c, msg |-> Outgoing(c, r)]  queue == Append(pending, e)
  <2>2. /\ Scheduler!SendMessage(c, Outgoing(c, r)) /\ BusBecomes(bus)
        /\ CountFrom(counts)
    BY <1>3, <2>1
  <2>3. parsers'[c] = o.parser /\ \A d \in Clients \ {c} : parsers'[d] = parsers[d]
    BY <1>1, <1>3, <1>6, ClientBecomes DEF Orderly
  <2>4. \A d \in Clients \ {c} : awaiting'[d] = awaiting[d]
    BY <1>1, <1>3
  <2>5. ~Served(c)
    BY <1>1, <1>6 DEF ServedInv, UnderWay
  <2>6. ~In(pending, c) /\ c # k
    BY <2>5 DEF Served
  <2>7. counts \in [Clients -> Int] /\ counts[c] = 0
        /\ \A d \in Clients \ {c} : counts[d] = transmitted[d]
    <3>1. \A f \in [Clients -> Int] : [f EXCEPT ![c] = 0] \in [Clients -> Int]
      OBVIOUS
    <3>2. counts \in [Clients -> Int]
      BY <1>1, <3>1, Zenon DEF counts
    <3> QED BY <1>1, <3>2 DEF counts
  <2>8. \A d \in Clients : counts[d] \in 0..MaxRequestRetries
    BY <1>1, <2>7, RetriesAssumption DEF ServedInv
  <2>9. QueueOf(pending, parsers') /\ Waiting(pending, parsers', counts)
    BY <1>1, <2>3, <2>6, <2>7, OthersWait
  <2>10. e \in Entries /\ e.client = c
    BY OutgoingIs DEF Entries
  <2>11. e.msg = ActiveOf(parsers', e.client)
    BY <2>1, <2>3 DEF ActiveOf
  <2> HIDE DEF e
  <2>12. queue \in Seq(Entries)
    BY <1>1, <2>10
  <2>13. QueueOf(queue, parsers')
    BY <1>1, <2>6, <2>9, <2>10, <2>11, QueueGrows
  <2>14. \A d : In(queue, d) <=> In(pending, d) \/ d = c
    BY <1>1, <2>10, InAppend
  <2>15. 0 + MaxRequestRetries = MaxRequestRetries
    BY RetriesAssumption
  <2>16. Waiting(queue, parsers', counts)
    BY <1>6, <2>3, <2>7, <2>9, <2>14, <2>15, Zenon DEF Waiting, GoesOn
  <2>17. CASE k = NoClient
    <3>1. Idle
      BY <1>1, <2>17, PathAssumption DEF StageInv
    <3>2. Scheduler!ContinueWithNextRequest(queue, Scheduler!Off, age, <<>>)
      BY <2>2, <2>17, <3>1 DEF Scheduler!SendMessage, Idle, e
    <3>3. age \in Ages
      BY <1>1 DEF SchedulerTypes
    <3> HIDE DEF queue
    <3>4. Continued(queue, Scheduler!Off, <<>>)
      BY <2>12, <3>2, <3>3, ContinueIs
    <3>5. bus' = sent'
      <4>1. sent' = <<>> \/ \E m \in Transmissions : sent' = <<m>>
        BY DEF TypesInv, SchedulerTypes
      <4>2. Len(<<>>) < BusCapacity
        BY PathAssumption
      <4>3. <<>> \o sent' = sent'
        BY <4>1
      <4> QED BY <2>2, <3>1, <4>2, <4>3 DEF BusBecomes, Idle
    <3>6. \A d \in Clients : ~Served(d)
      BY <2>17, <3>1, PathAssumption DEF Served, In, Idle
    <3>7. AllQueued(queue, awaiting', counts)
      BY <1>1, <2>4, <2>8, <2>14, <3>6 DEF AllQueued, ServedInv
    <3> QED BY <1>1, <2>2, <2>7, <2>12, <2>13, <2>16, <3>1, <3>4, <3>5, <3>7, ServeNext DEF Idle
  <2>18. CASE k # NoClient
    <3>1. k \in Clients
      BY <1>1, <2>18 DEF SchedulerTypes
    <3>2. /\ pending' = queue /\ sent' = <<>>
          /\ UNCHANGED <<currentClient, Scheduler!timers, age, ready>>
      BY <2>2, <2>18 DEF Scheduler!SendMessage, e
    <3>3. bus' = bus
      <4>1. bus \in Seq(Transmissions)
        BY <1>1 DEF TypesInv
      <4> QED BY <2>2, <3>2, <4>1 DEF BusBecomes
    <3>4. /\ currentClient' = k /\ responseTimeout' = responseTimeout
          /\ sendTimer' = sendTimer /\ delayed' = delayed /\ ready' = ready
      BY <3>2 DEF Scheduler!timers
    <3>5. Mine(k)' = Mine(k)
      BY <2>3, <2>6, <3>1, <3>4 DEF Mine, ActiveOf
    <3>6. StageInv'
      BY <1>1, <2>18, <3>1, <3>3, <3>4, <3>5 DEF StageInv, Idle, Delayed, Leaving, Out, Expired
    <3>7. OnTheWire' <=> OnTheWire
      BY <3>4 DEF OnTheWire
    <3> HIDE DEF queue
    <3>8. QueueInv'
      <4>1. ~In(queue, k)
        BY <1>1, <2>6, <2>14, CurrentNotQueued
      <4> QED BY <2>13, <3>2, <3>4, <4>1 DEF QueueInv, In
    <3>9. \A d \in Clients : transmitted'[d] = counts[d]
      BY <2>2, <3>2 DEF CountFrom
    <3>10. \A d : Served(d)' <=> d = k \/ d = c \/ In(pending, d)
      BY <2>14, <3>2, <3>4 DEF Served
    <3>11. \A d \in Clients : awaiting'[d] => Served(d)'
      BY <1>1, <2>4, <3>10 DEF ServedInv, Served
    <3>12. ASSUME NEW d \in Clients, Served(d)'
           PROVE  /\ UnderWay(parsers'[d])
                  /\ Accounted(d, IF d = k /\ OnTheWire THEN 1 ELSE 0)'
      <4>1. \A i \in Int : i + 0 = i
        OBVIOUS
      <4>2. CASE d = k
        <5>1. /\ UnderWay(parsers[d])
              /\ Accounted(d, IF d = k /\ OnTheWire THEN 1 ELSE 0)
          BY <1>1, <4>2 DEF ServedInv, Served
        <5>2. parsers'[d] = parsers[d] /\ transmitted'[d] = transmitted[d]
          BY <2>3, <2>6, <2>7, <3>9, <4>2
        <5> QED BY <3>4, <3>7, <5>1, <5>2 DEF Accounted
      <4>3. CASE d # k
        <5>1. In(queue, d)
          BY <2>14, <3>10, <3>12, <4>3
        <5>2. UnderWay(parsers'[d]) /\ transmitted'[d] + parsers'[d].retriesLeft = MaxRequestRetries
          BY <2>16, <3>9, <5>1 DEF Waiting
        <5>3. Accounted(d, 0)'
          BY <4>1, <5>2, RetriesAssumption DEF Accounted
        <5> QED BY <3>4, <4>3, <5>2, <5>3
      <4> QED BY <4>2, <4>3
    <3>13. ServedInv'
      BY <2>8, <3>4, <3>9, <3>11, <3>12 DEF ServedInv
    <3> QED BY <3>6, <3>8, <3>13
  <2> QED BY <2>17, <2>18
<1> QED BY <1>4, <1>5, <1>6

\* The send timer's handler transmits the request it was armed for, the current client's.
LEMMA SendTimerStep ==
    ASSUME IInv, TypesInv', HandleSendTimer
    PROVE  StageInv' /\ QueueInv' /\ ServedInv'
<1> DEFINE k == currentClient
<1>1. /\ TypesInv /\ StageInv /\ QueueInv /\ ServedInv
      /\ transmitted \in [Clients -> Int]
  BY DEF IInv, TypesInv, ClientTypes
<1>2. /\ ready # <<>> /\ Head(ready) # Scheduler!TimedOut
      /\ sent' = <<Head(ready).msg>> /\ responseTimeout' = RequestTimeout
      /\ ready' = Tail(ready)
      /\ UNCHANGED <<currentClient, pending, sendTimer, delayed>>
      /\ UNCHANGED clientVars /\ BusBecomes(bus) /\ CountFrom(transmitted)
  BY Zenon DEF HandleSendTimer, Scheduler!HandleSendTimer, Scheduler!DoSendMessage
<1>3. k \in Clients /\ Leaving
  BY <1>1, <1>2 DEF StageInv, Idle, Delayed, Out, Expired
<1>4. Head(ready).msg = Mine(k) /\ Tail(ready) = <<>>
  BY <1>3 DEF Leaving, Scheduler!SendOf
<1>5. WellFormed(parsers[k]) /\ UnderWay(parsers[k]) /\ Served(k)
  BY <1>1, <1>3 DEF TypesInv, ClientTypes, ServedInv, Served
<1>6. /\ parsers[k].active = <<parsers[k].active[1]>>
      /\ Mine(k).client = k /\ Mine(k).request = parsers[k].active[1]
  <2>1. parsers[k].active = <<parsers[k].active[1]>>
    BY <1>5 DEF WellFormed, UnderWay
  <2> QED BY <2>1 DEF Mine, ActiveOf, Outgoing
<1>7. UNCHANGED <<parsers, awaiting>>
  BY <1>2 DEF clientVars
<1>8. bus' = <<Mine(k)>>
  <2>1. Len(<<>>) < BusCapacity
    BY PathAssumption
  <2>2. <<>> \o <<Mine(k)>> = <<Mine(k)>>
    OBVIOUS
  <2> QED BY <1>2, <1>3, <1>4, <2>1, <2>2 DEF BusBecomes, Leaving
<1>9. RequestTimeout # Scheduler!Off
  BY PathAssumption DEF Scheduler!Off
<1>10. Mine(k)' = Mine(k)
  BY <1>2, <1>7 DEF Mine, ActiveOf
<1>11. StageInv' /\ OnTheWire'
  BY <1>2, <1>3, <1>4, <1>8, <1>9, <1>10 DEF StageInv, Out, Leaving, OnTheWire
<1>12. QueueInv'
  BY <1>1, <1>2, <1>7 DEF QueueInv, QueueOf, ActiveOf
<1>13. \A c : Served(c)' <=> Served(c)
  BY <1>2 DEF Served, In
<1>14. /\ transmitted'[k] = transmitted[k] + 1
       /\ \A c \in Clients \ {k} : transmitted'[c] = transmitted[c]
  BY <1>2, <1>3, <1>4, <1>6, <1>7 DEF CountFrom
<1>15. Accounted(k, 1)' /\ transmitted'[k] \in 0..MaxRequestRetries
  <2>1. ~OnTheWire
    <3>1. \A m : Scheduler!SendOf(m).kind # Scheduler!TimedOut.kind
      BY DEF Scheduler!SendOf, Scheduler!TimedOut
    <3> QED BY <1>3, <3>1 DEF Leaving, OnTheWire
  <2>2. transmitted[k] + parsers[k].retriesLeft = MaxRequestRetries
    <3>1. Accounted(k, 0)
      BY <1>1, <1>3, <1>5, <2>1 DEF ServedInv
    <3> QED BY <3>1, RetriesAssumption DEF Accounted
  <2>3. /\ parsers[k].retriesLeft \in 0..MaxRequestRetries /\ parsers[k].retriesLeft # 0
        /\ transmitted[k] \in 0..MaxRequestRetries
    BY <1>1, <1>3, <1>5 DEF WellFormed, UnderWay, ServedInv
  <2>4. /\ transmitted[k] + 1 \in 0..MaxRequestRetries
        /\ transmitted[k] + 1 + parsers[k].retriesLeft = MaxRequestRetries + 1
    BY <2>2, <2>3, OneMore
  <2>5. /\ transmitted'[k] = transmitted[k] + 1 /\ parsers'[k] = parsers[k]
        /\ currentClient' = k
    BY <1>2, <1>7, <1>14
  <2> QED BY <2>4, <2>5, Zenon DEF Accounted
<1>16. \A c \in Clients \ {k} :
          /\ transmitted'[c] \in 0..MaxRequestRetries
          /\ Served(c)' => Accounted(c, 0)'
  <2> SUFFICES ASSUME NEW c \in Clients \ {k}
               PROVE  /\ transmitted'[c] \in 0..MaxRequestRetries
                      /\ Served(c)' => Accounted(c, 0)'
    OBVIOUS
  <2>1. /\ transmitted[c] \in 0..MaxRequestRetries
        /\ Served(c) => Accounted(c, 0)
    BY <1>1 DEF ServedInv
  <2> QED BY <1>7, <1>13, <1>14, <2>1 DEF Accounted
<1>17. ServedInv'
  BY <1>1, <1>2, <1>7, <1>11, <1>13, <1>15, <1>16 DEF ServedInv
<1> QED BY <1>11, <1>12, <1>17

\* The response timer is found to be due; with what is late lost, the bus is empty.
LEMMA TimeoutExpiresStep ==
    ASSUME LateAnswers = FALSE, IInv, ResponseTimeoutExpires
    PROVE  StageInv' /\ QueueInv' /\ ServedInv'
<1>1. StageInv /\ QueueInv /\ ServedInv
  BY DEF IInv
<1>2. /\ responseTimeout = 0 /\ responseTimeout' = Scheduler!Off
      /\ ready' = Append(ready, Scheduler!TimedOut)
      /\ UNCHANGED <<currentClient, pending, sendTimer, delayed>>
      /\ bus' = <<>> /\ UNCHANGED <<clientVars, transmitted>>
  BY DEF ResponseTimeoutExpires, Scheduler!ResponseTimeoutExpires
<1>3. 0 # Scheduler!Off
  BY DEF Scheduler!Off
<1>4. currentClient \in Clients /\ Out
  BY <1>1, <1>2, <1>3 DEF StageInv, Idle, Delayed, Leaving, Expired
<1>5. ready' = <<Scheduler!TimedOut>>
  BY <1>2, <1>4 DEF Out
<1>6. StageInv'
  BY <1>2, <1>4, <1>5 DEF StageInv, Expired, Out
<1>7. OnTheWire' <=> OnTheWire
  BY <1>2, <1>3, <1>5 DEF OnTheWire
<1> QED BY <1>1, <1>2, <1>6, <1>7, NothingServed DEF clientVars

\* The send timer is found to be due, or time passes.
LEMMA TimePassesStep ==
    ASSUME IInv, TimePasses
    PROVE  StageInv' /\ QueueInv' /\ ServedInv'
<1>1. TypesInv /\ StageInv /\ QueueInv /\ ServedInv
  BY DEF IInv
<1>2. UNCHANGED <<parsers, awaiting, bus, transmitted>>
  BY DEF TimePasses, clientVars
<1>3. CASE Scheduler!SendTimerExpires
  <2>1. /\ sendTimer = 0 /\ sendTimer' = Scheduler!Off
        /\ ready' = Append(ready, Scheduler!SendOf(delayed))
        /\ UNCHANGED <<currentClient, pending, responseTimeout>>
    BY <1>3 DEF Scheduler!SendTimerExpires
  <2>2. sendTimer # Scheduler!Off
    BY <2>1 DEF Scheduler!Off
  <2>3. currentClient \in Clients /\ Delayed
    BY <1>1, <2>2 DEF StageInv, Idle, Leaving, Out, Expired
  <2>4. Mine(currentClient)' = Mine(currentClient)
    BY <1>2, <2>1 DEF Mine, ActiveOf
  <2>5. ready' = <<Scheduler!SendOf(Mine(currentClient))>>
    BY <2>1, <2>3 DEF Delayed
  <2>6. StageInv'
    BY <1>2, <2>1, <2>3, <2>4, <2>5 DEF StageInv, Leaving, Delayed
  <2>7. OnTheWire' <=> OnTheWire
    <3>1. \A m : Scheduler!SendOf(m).kind # Scheduler!TimedOut.kind
      BY DEF Scheduler!SendOf, Scheduler!TimedOut
    <3>2. ready' # <<Scheduler!TimedOut>> /\ ready # <<Scheduler!TimedOut>>
      BY <2>3, <2>5, <3>1 DEF Delayed
    <3> QED BY <2>1, <3>2 DEF OnTheWire
  <2> QED BY <1>1, <1>2, <2>1, <2>6, <2>7, NothingServed
<1>4. CASE Scheduler!Tick
  <2>1. /\ responseTimeout' = Scheduler!Elapse(responseTimeout)
        /\ sendTimer' = Scheduler!Elapse(sendTimer)
        /\ UNCHANGED <<currentClient, pending, delayed, ready>>
    BY <1>4 DEF Scheduler!Tick
  <2>2. \A t \in Timers : Scheduler!Elapse(t) = Scheduler!Off <=> t = Scheduler!Off
    BY DEF Scheduler!Elapse, Timers, Scheduler!Off
  <2>3. /\ responseTimeout' = Scheduler!Off <=> responseTimeout = Scheduler!Off
        /\ sendTimer' = Scheduler!Off <=> sendTimer = Scheduler!Off
    BY <1>1, <2>1, <2>2 DEF TypesInv, SchedulerTypes
  <2>4. Mine(currentClient)' = Mine(currentClient)
    BY <1>2, <2>1 DEF Mine, ActiveOf
  <2>5. StageInv'
    BY <1>1, <1>2, <2>1, <2>3, <2>4 DEF StageInv, Idle, Delayed, Leaving, Out, Expired
  <2>6. OnTheWire' <=> OnTheWire
    BY <2>1, <2>3 DEF OnTheWire
  <2> QED BY <1>1, <1>2, <2>1, <2>5, <2>6, NothingServed
<1> QED BY <1>3, <1>4 DEF TimePasses

\* A request is lost on the bus.
LEMMA RequestLostStep ==
    ASSUME IInv, RequestLost
    PROVE  StageInv' /\ QueueInv' /\ ServedInv'
<1>1. TypesInv /\ StageInv /\ QueueInv /\ ServedInv /\ bus # <<>>
  BY DEF IInv, RequestLost
<1>2. bus' = Tail(bus) /\ UNCHANGED <<schedulerVars, clientVars, transmitted>>
  BY DEF RequestLost
<1>3. bus = <<Mine(currentClient)>>
  BY <1>1, OutIs
<1>4. bus' = <<>>
  BY <1>2, <1>3
<1>5. Mine(currentClient)' = Mine(currentClient)
  BY <1>2 DEF Mine, ActiveOf, schedulerVars, clientVars
<1>6. StageInv'
  BY <1>1, <1>2, <1>4, <1>5 DEF StageInv, Idle, Delayed, Leaving, Out, Expired, schedulerVars
<1>7. OnTheWire' <=> OnTheWire
  BY <1>2 DEF OnTheWire, schedulerVars
<1> QED BY <1>1, <1>2, <1>6, <1>7, NothingServed DEF schedulerVars, clientVars

\* Nothing happens.
LEMMA StutterStep ==
    ASSUME IInv, UNCHANGED vars
    PROVE  StageInv' /\ QueueInv' /\ ServedInv'
<1>1. StageInv /\ QueueInv /\ ServedInv
  BY DEF IInv
<1>2. UNCHANGED <<schedulerVars, clientVars, bus, transmitted>>
  BY DEF vars
<1>3. StageInv' /\ (OnTheWire' <=> OnTheWire)
  BY <1>1, <1>2 DEF StageInv, Idle, Delayed, Leaving, Out, Expired, Mine, ActiveOf, OnTheWire,
                    schedulerVars, clientVars
<1> QED BY <1>1, <1>2, <1>3, NothingServed DEF schedulerVars, clientVars

\* At first nobody is served.
LEMMA InitInv == Init => IInv
<1> SUFFICES ASSUME Init PROVE IInv
  OBVIOUS
<1>1. TypesInv
  BY InitTypes
<1>2. Idle
  BY DEF Init, Scheduler!Init, Idle
<1>3. \A c \in Clients : ~Served(c) /\ transmitted[c] = 0 /\ ~awaiting[c]
  BY <1>2, PathAssumption DEF Init, Idle, Served, In
<1>4. 0 \in 0..MaxRequestRetries
  BY RetriesAssumption
<1>5. ServedInv
  BY <1>3, <1>4 DEF ServedInv
<1>6. QueueInv
  BY <1>2 DEF Idle, QueueInv, QueueOf
<1> QED BY <1>1, <1>2, <1>5, <1>6 DEF IInv, StageInv

\* The inductive invariant.
LEMMA NextInv ==
    ASSUME LateAnswers = FALSE, RawReadsFit
    PROVE  IInv /\ [Next]_vars => IInv'
<1> SUFFICES ASSUME IInv, [Next]_vars PROVE IInv'
  OBVIOUS
<1>1. TypesInv'
  BY NextTypes DEF IInv
<1>2. StageInv' /\ QueueInv' /\ ServedInv'
  BY <1>1, HandleRequestStep, AnswerStep, TimeoutStep, SendTimerStep, TimeoutExpiresStep,
     TimePassesStep, RequestLostStep, StutterStep DEF Next, EventLoop
<1> QED BY <1>1, <1>2 DEF IInv

-----------------------------------------------------------------------------
(* The theorems, for a bus on which what is late is lost and raw reads within a table *)

\* A sequence of one, for the lengths.
LEMMA OneLong == \A x : Len(<<x>>) = 1 /\ Head(<<x>>) = x /\ <<x>>[1] = x
OBVIOUS

\* Clients, parsers and bus have their types; no request goes out too often.
THEOREM TypeCorrect ==
    ASSUME LateAnswers = FALSE, RawReadsFit
    PROVE  Spec => []TypeOK
<1>1. IInv => TypeOK
  <2> SUFFICES ASSUME IInv PROVE TypeOK
    OBVIOUS
  <2>1. TypesInv /\ StageInv /\ ServedInv /\ SchedulerTypes /\ ClientTypes
    BY DEF IInv, TypesInv
  <2>2. Len(<<>>) = 0 /\ Len(<<>>) <= BusCapacity /\ 1 <= BusCapacity
    BY PathAssumption
  <2>3. \A c \in Clients : Len(parsers[c].active) <= 1
    <3> SUFFICES ASSUME NEW c \in Clients PROVE Len(parsers[c].active) <= 1
      OBVIOUS
    <3>1. \/ parsers[c].active = <<>>
          \/ \E x : parsers[c].active = <<x>>
      BY <2>1 DEF ClientTypes, WellFormed
    <3>2. 0 <= 1 /\ 1 <= 1
      OBVIOUS
    <3> QED BY <2>2, <3>1, <3>2, OneLong
  <2>4. \A c \in Clients : /\ parsers[c].retriesLeft \in 0..MaxRequestRetries
                           /\ transmitted[c] \in 0..2 * MaxRequestRetries
    <3>1. \A i \in 0..MaxRequestRetries : i \in 0..2 * MaxRequestRetries
      BY RetriesAssumption
    <3> QED BY <2>1, <3>1 DEF ClientTypes, WellFormed, ServedInv
  <2>5. Len(bus) <= BusCapacity
    BY <2>1, <2>2, OutIs, OneLong
  <2> QED BY <2>1, <2>3, <2>4, <2>5 DEF SchedulerTypes, ClientTypes, TypeOK
<1> QED BY InitInv, NextInv, <1>1, PTL DEF Spec

\* Whoever waits for a reply is current or has a request in the queue: no client is forgotten.
THEOREM NobodyIsForgotten ==
    ASSUME LateAnswers = FALSE, RawReadsFit
    PROVE  Spec => []ActiveIsServed
<1>1. IInv => ActiveIsServed
  BY DEF IInv, ServedInv, Served, In, Queued, ActiveIsServed
<1> QED BY InitInv, NextInv, <1>1, PTL DEF Spec

\* Only the current client's active request is ever on the bus.
THEOREM OneRequestIsOut ==
    ASSUME LateAnswers = FALSE, RawReadsFit
    PROVE  Spec => []AnswersReachTheirClient
<1>1. IInv => AnswersReachTheirClient
  <2> SUFFICES ASSUME IInv PROVE AnswersReachTheirClient
    OBVIOUS
  <2>1. TypesInv /\ StageInv /\ ServedInv
    BY DEF IInv
  <2>2. CASE bus = <<>>
    BY <2>2 DEF AnswersReachTheirClient
  <2>3. CASE bus # <<>>
    <3> DEFINE k == currentClient
    <3>1. k \in Clients /\ bus = <<Mine(k)>>
      BY <2>1, <2>3, OutIs
    <3>2. WellFormed(parsers[k]) /\ parsers[k].active # <<>>
      BY <2>1, <3>1 DEF TypesInv, ClientTypes, ServedInv, Served, UnderWay
    <3>3. parsers[k].active = <<parsers[k].active[1]>>
      BY <3>2 DEF WellFormed
    <3>4. Mine(k).client = k /\ Mine(k).request = parsers[k].active[1]
      BY DEF Mine, ActiveOf, Outgoing
    <3>5. Len(bus) <= 1 /\ bus[1] = Mine(k)
      BY <3>1
    <3> QED BY <3>3, <3>4, <3>5 DEF AnswersReachTheirClient
  <2> QED BY <2>2, <2>3
<1> QED BY InitInv, NextInv, <1>1, PTL DEF Spec

\* Who is told what in a step.
LEMMA ToldBy ==
    ASSUME RawReadsFit, IInv, [Next]_vars, NEW c \in Clients, NEW reply,
           told' = <<c, reply>>, reply \in {"OK", "ERRTIMEOUT"}, ~UNCHANGED vars
    PROVE  /\ c = currentClient
           /\ \/ AnswerArrives /\ reply \in BusReplies
              \/ HandleResponseTimeout /\ ByTimeout.reply = reply
<1>0. /\ TypesInv /\ StageInv /\ ClientTypes
      /\ "OK" # "ERRBUSY" /\ "OK" # "none" /\ "ERRTIMEOUT" # "ERRBUSY" /\ "ERRTIMEOUT" # "none"
  BY DEF IInv, TypesInv
<1>1. told' # <<>>
  OBVIOUS
<1>2. ASSUME NEW d \in Clients, NEW command \in Lines, HandleRequest(d, command)
      PROVE  FALSE
  <2>1. /\ WellFormed(parsers[d]) /\ Contiguous(parsers[d])
    BY <1>0 DEF ClientTypes
  <2>2. Parse(parsers[d], command).reply \in {"ERRBUSY", "none"}
    BY <2>1, AskedIs DEF GoesOn
  <2>3. \/ told' = <<>>
        \/ told' = <<d, Parse(parsers[d], command).reply>>
    BY <1>2 DEF HandleRequest, ParserBecomes
  <2> QED BY <1>0, <1>1, <2>2, <2>3
<1>3. ASSUME NEW o, NEW queue, CallBack(o, queue)
      PROVE  c = currentClient /\ reply = o.reply
  <2>1. \/ told' = <<>>
        \/ told' = <<currentClient, o.reply>>
    BY <1>3, Zenon DEF CallBack, ParserBecomes
  <2> QED BY <1>1, <2>1
<1>4. ~RequestLost /\ ~HandleSendTimer /\ ~ResponseTimeoutExpires /\ ~TimePasses
  BY <1>1 DEF RequestLost, HandleSendTimer, ResponseTimeoutExpires, TimePasses
<1>5. CASE AnswerArrives
  <2>1. PICK m \in DeviceAnswers(Head(bus).request, AnswerSizes) :
           \E o \in ByMessage(m) : CallBack(o, Tail(bus))
    BY <1>5 DEF AnswerArrives
  <2>2. PICK o \in ByMessage(m) : CallBack(o, Tail(bus))
    BY <2>1
  <2>3. c = currentClient /\ reply = o.reply
    BY <1>3, <2>2
  <2>4. currentClient # NoClient
    BY <2>3, PathAssumption
  <2>5. o \in OnIncomingMessage(parsers[currentClient], m)
    BY <2>4 DEF ByMessage
  <2> QED BY <1>5, <2>3, <2>5, MessageReplies
<1>6. CASE HandleResponseTimeout
  BY <1>3, <1>6 DEF HandleResponseTimeout
<1> QED BY <1>2, <1>4, <1>5, <1>6 DEF Next, EventLoop

\* OK is the answer of a device to the client's own active request.
THEOREM OkOnlyByAnswer ==
    ASSUME LateAnswers = FALSE, RawReadsFit
    PROVE  Spec => OkIsEarned
<1>1. ASSUME IInv, [Next]_vars
      PROVE  [\A c \in Clients :
                told' = <<c, "OK">> =>
                    /\ bus # <<>>
                    /\ Head(bus) = Outgoing(c, parsers[c].active[1])]_vars
  <2> SUFFICES ASSUME ~UNCHANGED vars, NEW c \in Clients, told' = <<c, "OK">>
               PROVE  bus # <<>> /\ Head(bus) = Outgoing(c, parsers[c].active[1])
    OBVIOUS
  <2>1. /\ c = currentClient
        /\ \/ AnswerArrives
           \/ HandleResponseTimeout /\ ByTimeout.reply = "OK"
    BY <1>1, ToldBy
  <2>2. TypesInv /\ StageInv /\ ServedInv
    BY <1>1 DEF IInv
  <2>3. ByTimeout.reply # "OK"
    <3>1. WellFormed(parsers[c]) /\ Contiguous(parsers[c])
      BY <2>2 DEF TypesInv, ClientTypes
    <3>2. ByTimeout = OnTimeout(parsers[c])
      BY <2>1, PathAssumption DEF ByTimeout
    <3>3. OnTimeout(parsers[c]).reply \in {"none", "ERRTIMEOUT"}
      BY <3>1, TimeoutEnds DEF Stay
    <3> QED BY <3>2, <3>3
  <2>4. bus # <<>>
    BY <2>1, <2>3 DEF AnswerArrives
  <2>5. Head(bus) = Mine(c)
    BY <2>1, <2>2, <2>4, OutIs, OneLong
  <2> QED BY <2>4, <2>5 DEF Mine, ActiveOf
<1> QED BY InitInv, NextInv, <1>1, PTL DEF Spec, OkIsEarned

\* ERRTIMEOUT is the end of all attempts.
THEOREM TimeoutIsTheEnd ==
    ASSUME LateAnswers = FALSE, RawReadsFit
    PROVE  Spec => TimeoutAfterAllAttempts
<1>1. ASSUME IInv, [Next]_vars
      PROVE  [\A c \in Clients :
                told' = <<c, "ERRTIMEOUT">> => transmitted[c] = MaxRequestRetries]_vars
  <2> SUFFICES ASSUME ~UNCHANGED vars, NEW c \in Clients, told' = <<c, "ERRTIMEOUT">>
               PROVE  transmitted[c] = MaxRequestRetries
    OBVIOUS
  <2>1. TypesInv /\ StageInv /\ ServedInv
    BY <1>1 DEF IInv
  <2>2. /\ c = currentClient /\ HandleResponseTimeout /\ ByTimeout.reply = "ERRTIMEOUT"
    BY <1>1, ToldBy DEF BusReplies
  <2>3. ready # <<>> /\ Head(ready) = Scheduler!TimedOut
    BY <2>2 DEF HandleResponseTimeout, Scheduler!HandleResponseTimeout
  <2>4. OnTheWire
    BY <2>1, <2>3, ExpiredIs
  <2>5. /\ WellFormed(parsers[c]) /\ Contiguous(parsers[c]) /\ UnderWay(parsers[c])
        /\ Accounted(c, 1)
    BY <2>1, <2>2, <2>4 DEF TypesInv, ClientTypes, ServedInv, Served
  <2>6. ByTimeout = OnTimeout(parsers[c])
    BY <2>2, PathAssumption DEF ByTimeout
  <2>7. parsers[c].retriesLeft = 1
    BY <2>2, <2>5, <2>6, TimeoutCalls DEF GoesOn
  <2>8. transmitted[c] \in 0..MaxRequestRetries
    BY <2>1 DEF ServedInv
  <2>9. transmitted[c] + 1 = MaxRequestRetries + 1
    BY <2>5, <2>7, Zenon DEF Accounted
  <2> QED BY <2>8, <2>9, RetriesAssumption
<1> QED BY InitInv, NextInv, <1>1, PTL DEF Spec, TimeoutAfterAllAttempts
=============================================================================
