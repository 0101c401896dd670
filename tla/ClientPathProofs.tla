--------------------------- MODULE ClientPathProofs ---------------------------
(***************************************************************************)
(* Proofs about EmsCommandSender's clients as they come and go, for any    *)
(* number of connections, any commands and answers, any lengths of the     *)
(* timers and any number of retries, of outages and of connections made    *)
(* to the broker.                                                          *)
(***************************************************************************)
EXTENDS ClientPath, ApiRequestsProofs

-----------------------------------------------------------------------------
(* Types *)

Transmissions == {Outgoing(u, r) : u \in Users, r \in Requests}
Entries == {[client |-> m.client, msg |-> m] : m \in Transmissions}
Handlers == {Scheduler!TimedOut} \cup {Scheduler!SendOf(m) : m \in Transmissions}
Timers == {Scheduler!Off} \cup Nat
Ages == [Devices -> 0..Scheduler!Old]
Sents == {<<>>} \cup {<<m>> : m \in Transmissions}

\* The scheduler's fields.
SchedulerTypes ==
    /\ currentClient \in Users \cup {NoClient}
    /\ pending \in Seq(Entries)
    /\ responseTimeout \in Timers
    /\ sendTimer \in Timers
    /\ delayed \in Transmissions \cup {NoMessage}
    /\ sendTimer # Scheduler!Off => delayed \in Transmissions
    /\ sendTimer = Scheduler!Off => delayed = NoMessage
    /\ age \in Ages
    /\ ready \in Seq(Handlers)
    /\ sent \in Sents

\* What m_pendingCommands holds: a command, or a line that starts nothing.
Received == {<<>>} \cup {<<command>> : command \in Commands}

\* The parsers and the lives of their users.
UserTypes ==
    /\ parsers = [u \in Users |-> parsers[u]]
    /\ \A u \in Users : WellFormed(parsers[u]) /\ Contiguous(parsers[u])
    /\ live \subseteq Users /\ gone \subseteq Connections /\ live \cap gone = {}
    /\ \A c \in Connections \ (live \cup gone) : parsers[c].active = <<>>
    /\ waiting \in Seq(Received)

TypesInv == SchedulerTypes /\ UserTypes /\ bus \in Seq(Transmissions)

-----------------------------------------------------------------------------
(* What the sender's helpers leave *)

\* A request in the sender's hands.
LEMMA OutgoingIs ==
    ASSUME NEW c \in Users, NEW r \in Requests
    PROVE  /\ Outgoing(c, r) \in Transmissions
           /\ Outgoing(c, r).client = c /\ Outgoing(c, r).request = r
           /\ Outgoing(c, r).dest = r.dest
BY DEF Outgoing, Transmissions

\* One taken apart; the sender looks up the time of its device.
LEMMA TransmissionIs ==
    ASSUME NEW m \in Transmissions
    PROVE  /\ m.client \in Users /\ m.request \in Requests
           /\ m = Outgoing(m.client, m.request)
           /\ m.dest \in Devices
<1>1. PICK c \in Users, r \in Requests : m = Outgoing(c, r)
  BY DEF Transmissions
<1>2. m.client = c /\ m.request = r /\ m.dest = r.dest
  BY <1>1, OutgoingIs
<1>3. r.dest \in Dests
  BY DEF Requests
<1>4. Dests \subseteq Devices
  BY DevicesAssumption DEF Dests
<1> QED BY <1>1, <1>2, <1>3, <1>4

\* An entry of the queue names the client of its request.
LEMMA EntryIs ==
    ASSUME NEW e \in Entries
    PROVE  /\ e.msg \in Transmissions /\ e.client = e.msg.client /\ e.client \in Users
           /\ e = [client |-> e.client, msg |-> e.msg]
<1>1. PICK m \in Transmissions : e = [client |-> m.client, msg |-> m]
  BY DEF Entries
<1>2. m.client \in Users
  BY TransmissionIs
<1> QED BY <1>1, <1>2

\* What a client called back sends joins the queue.
LEMMA QueueAfter ==
    ASSUME pending \in Seq(Entries), NEW o
    PROVE  LET queue == Scheduler!PendingAfter(Reaction(o))
           IN  /\ o.sends = <<>> => queue = pending
               /\ \A r : o.sends = <<r>> =>
                    queue = Append(pending, [client |-> currentClient,
                                             msg |-> Outgoing(currentClient, r)])
<1> DEFINE reaction == Reaction(o)
           added == [i \in DOMAIN reaction |-> [client |-> currentClient, msg |-> reaction[i]]]
<1>1. Scheduler!PendingAfter(reaction) = pending \o added
  BY DEF Scheduler!PendingAfter
<1>2. ASSUME o.sends = <<>> PROVE pending \o added = pending
  <2>1. reaction = <<>>
    BY <1>2 DEF Reaction
  <2>2. added = <<>>
    BY <2>1
  <2> QED BY <2>2
<1>3. ASSUME NEW r, o.sends = <<r>>
      PROVE  pending \o added
               = Append(pending, [client |-> currentClient, msg |-> Outgoing(currentClient, r)])
  <2>1. reaction = <<Outgoing(currentClient, r)>>
    BY <1>3 DEF Reaction
  <2>2. added = <<[client |-> currentClient, msg |-> Outgoing(currentClient, r)]>>
    BY <2>1
  <2> QED BY <2>2
<1> QED BY <1>1, <1>2, <1>3

\* Transmitting a request, or leaving it to the send timer.
Forwarded(m, timeout, handlers) ==
    \/ /\ sendTimer' \in Nat /\ delayed' = m
       /\ responseTimeout' = timeout /\ sent' = <<>>
       /\ ready' = handlers \o Scheduler!Superseded
    \/ /\ sendTimer' = sendTimer /\ delayed' = delayed
       /\ responseTimeout' = RequestTimeout /\ sent' = <<m>>
       /\ ready' = handlers

\* sendMessage does one or the other.
LEMMA ForwardIs ==
    ASSUME NEW m \in Transmissions, NEW timeout, NEW ages \in Ages, NEW handlers,
           \/ Scheduler!DelayMessage(m, timeout, ages, handlers)
           \/ Scheduler!SendNow(m, ages, handlers)
    PROVE  age' \in Ages /\ Forwarded(m, timeout, handlers)
<1>1. m.dest \in Devices
  BY TransmissionIs
<1>2. CASE Scheduler!DelayMessage(m, timeout, ages, handlers)
  <2>1. ages[m.dest] \in 0..Scheduler!Old /\ ages[m.dest] <= MinDistance
    BY <1>1, <1>2 DEF Scheduler!DelayMessage, Ages
  <2>2. MinDistance - ages[m.dest] \in Nat
    BY <2>1, SenderAssumption DEF Scheduler!Old
  <2>3. sendTimer' \in Nat
    BY <1>2, <2>2, Zenon DEF Scheduler!DelayMessage
  <2>4. age' \in Ages
    BY <1>2 DEF Scheduler!DelayMessage
  <2> QED BY <1>2, <2>3, <2>4, Zenon DEF Scheduler!DelayMessage, Forwarded
<1>3. CASE Scheduler!SendNow(m, ages, handlers)
  <2>1. 0 \in 0..Scheduler!Old
    BY SenderAssumption DEF Scheduler!Old
  <2>2. age' \in Ages
    BY <1>3, <2>1 DEF Scheduler!SendNow, Scheduler!DoSendMessage, Ages
  <2> QED BY <1>3, <2>2, Zenon DEF Scheduler!SendNow, Scheduler!DoSendMessage, Forwarded
<1> QED BY <1>2, <1>3

\* continueWithNextRequest goes idle or serves the first of the queue.
Continued(queue, timeout, handlers) ==
    \/ /\ queue = <<>> /\ currentClient' = NoClient /\ pending' = <<>>
       /\ responseTimeout' = timeout /\ ready' = handlers /\ sent' = <<>>
       /\ sendTimer' = sendTimer /\ delayed' = delayed
    \/ /\ queue # <<>> /\ currentClient' = Head(queue).client
       /\ pending' = Tail(queue)
       /\ Forwarded(Head(queue).msg, timeout, handlers)

\* What it computes is one or the other.
LEMMA ContinueIs ==
    ASSUME NEW queue \in Seq(Entries), NEW timeout, NEW ages \in Ages, NEW handlers,
           Scheduler!ContinueWithNextRequest(queue, timeout, ages, handlers)
    PROVE  age' \in Ages /\ Continued(queue, timeout, handlers)
<1>1. CASE Scheduler!GoIdle(queue, timeout, ages, handlers)
  BY <1>1, Zenon DEF Scheduler!GoIdle, Continued
<1>2. CASE Scheduler!ServeFront(queue, timeout, ages, handlers)
  <2>1. queue # <<>> /\ currentClient' = Head(queue).client /\ pending' = Tail(queue)
    BY <1>2, Zenon DEF Scheduler!ServeFront
  <2>2. Head(queue).msg \in Transmissions
    <3>1. Head(queue) \in Entries
      BY <2>1
    <3> QED BY <3>1, EntryIs
  <2>3. \/ Scheduler!DelayMessage(Head(queue).msg, timeout, ages, handlers)
        \/ Scheduler!SendNow(Head(queue).msg, ages, handlers)
    BY <1>2, Zenon DEF Scheduler!ServeFront
  <2>4. age' \in Ages /\ Forwarded(Head(queue).msg, timeout, handlers)
    BY <2>2, <2>3, ForwardIs
  <2> QED BY <2>1, <2>4 DEF Continued
<1> QED BY <1>1, <1>2, Zenon DEF Scheduler!ContinueWithNextRequest

-----------------------------------------------------------------------------
(* The types are kept *)

\* Forwarding a request arms one of the timers.
LEMMA ForwardTypes ==
    ASSUME SchedulerTypes, NEW m \in Transmissions, NEW timeout \in Timers,
           NEW handlers \in Seq(Handlers), Forwarded(m, timeout, handlers)
    PROVE  /\ responseTimeout' \in Timers /\ sendTimer' \in Timers
           /\ delayed' \in Transmissions \cup {NoMessage}
           /\ sendTimer' # Scheduler!Off => delayed' \in Transmissions
           /\ sendTimer' = Scheduler!Off => delayed' = NoMessage
           /\ ready' \in Seq(Handlers) /\ sent' \in Sents
<1>1. Scheduler!Superseded \in Seq(Handlers)
  <2>1. delayed \in Transmissions => Scheduler!SendOf(delayed) \in Handlers
    BY DEF Handlers
  <2> QED BY <2>1 DEF Scheduler!Superseded, SchedulerTypes
<1>2. handlers \o Scheduler!Superseded \in Seq(Handlers)
  BY <1>1
<1>3. Scheduler!Off \notin Nat /\ RequestTimeout \in Timers
  BY SenderAssumption DEF Scheduler!Off, Timers
<1>4. /\ sendTimer \in Timers /\ delayed \in Transmissions \cup {NoMessage}
      /\ sendTimer # Scheduler!Off => delayed \in Transmissions
      /\ sendTimer = Scheduler!Off => delayed = NoMessage
  BY DEF SchedulerTypes
<1>5. \A i \in Nat : i \in Timers
  BY DEF Timers
<1> QED BY <1>2, <1>3, <1>4, <1>5, Zenon DEF Forwarded, Sents

\* continueWithNextRequest, whatever its caller has computed.
LEMMA ContinueTypes ==
    ASSUME SchedulerTypes, NEW queue \in Seq(Entries), NEW timeout \in Timers,
           NEW handlers \in Seq(Handlers), Continued(queue, timeout, handlers),
           age' \in Ages
    PROVE  SchedulerTypes' /\ sent' \in Sents
<1>1. CASE /\ queue = <<>> /\ currentClient' = NoClient /\ pending' = <<>>
           /\ responseTimeout' = timeout /\ ready' = handlers /\ sent' = <<>>
           /\ sendTimer' = sendTimer /\ delayed' = delayed
  BY <1>1 DEF SchedulerTypes, Sents
<1>2. CASE /\ queue # <<>> /\ currentClient' = Head(queue).client
           /\ pending' = Tail(queue)
           /\ Forwarded(Head(queue).msg, timeout, handlers)
  <2>1. Head(queue) \in Entries /\ Tail(queue) \in Seq(Entries)
    BY <1>2
  <2>2. Head(queue).client \in Users /\ Head(queue).msg \in Transmissions
    BY <2>1, EntryIs
  <2>3. /\ responseTimeout' \in Timers /\ sendTimer' \in Timers
        /\ delayed' \in Transmissions \cup {NoMessage}
        /\ sendTimer' # Scheduler!Off => delayed' \in Transmissions
        /\ sendTimer' = Scheduler!Off => delayed' = NoMessage
        /\ ready' \in Seq(Handlers) /\ sent' \in Sents
    BY <1>2, <2>2, ForwardTypes
  <2> QED BY <1>2, <2>1, <2>2, <2>3, Zenon DEF SchedulerTypes, Sents
<1> QED BY <1>1, <1>2 DEF Continued

-----------------------------------------------------------------------------
(* What calls into a parser leave *)

\* A parser, and what was sent is its active request; without a new one, the request it
\* had is active or none.
Leaves(p, q, sends) ==
    /\ WellFormed(q) /\ Contiguous(q)
    /\ sends = <<>> \/ sends = q.active
    /\ sends = <<>> => q.active = <<>> \/ q.active = p.active

\* A callback that ends a command sends nothing; one that does not frees no parser.
Reacts(p, o) ==
    /\ Leaves(p, o.parser, o.sends)
    /\ o.reply \in FinalReplies => o.sends = <<>>
    /\ o.reply \notin FinalReplies /\ o.parser.active = <<>> => p.active = <<>>

\* parse, on a line that is a command.
LEMMA ParseLeaves ==
    ASSUME NEW p, WellFormed(p), Contiguous(p), NEW c \in Commands
    PROVE  LET o == Parse(p, c) IN Leaves(p, o.parser, o.sends)
<1> DEFINE o == Parse(p, c)
<1>1. Sound(p, o.parser) /\ ParsedTo(p, c, o)
  BY ParseEnds
<1> HIDE DEF o
<1> QED BY <1>1 DEF Sound, ParsedTo, Asked, Leaves, o

\* No reply is final that says nothing.
LEMMA NoneIsNotFinal == "none" \notin FinalReplies
BY DEF FinalReplies

\* onIncomingMessage.
LEMMA MessageReacts ==
    ASSUME NEW p, WellFormed(p), Contiguous(p), NEW m, IsMessage(m),
           NEW o \in OnIncomingMessage(p, m)
    PROVE  Reacts(p, o) /\ o.reply \in BusReplies /\ (p.active = <<>> => o.reply = "none")
<1>1. Kept(p, o) /\ (o = Stay(p) \/ (p.active # <<>> /\ Ended(p, o)))
  BY MessageEnds
<1>2. WellFormed(o.parser) /\ Contiguous(o.parser)
  BY <1>1 DEF Kept, Sound
<1>3. Stay(p).parser = p /\ Stay(p).sends = <<>> /\ Stay(p).reply = "none"
  BY DEF Stay
<1>4. CASE o = Stay(p)
  BY <1>2, <1>3, <1>4, NoneIsNotFinal, MessageReplies DEF Reacts, Leaves
<1>5. CASE p.active # <<>> /\ Over(o)
  BY <1>2, <1>5, MessageReplies DEF Over, Reacts, Leaves
<1>6. CASE p.active # <<>> /\ ReadsOn(o)
  BY <1>2, <1>6, NoneIsNotFinal, MessageReplies DEF ReadsOn, Asked, Reacts, Leaves
<1>7. CASE p.active # <<>> /\ FailedFor(p, o)
  BY <1>2, <1>7, MessageReplies DEF FailedFor, Reacts, Leaves, FinalReplies
<1> QED BY <1>1, <1>4, <1>5, <1>6, <1>7 DEF Ended

\* onTimeout.
LEMMA TimeoutReacts ==
    ASSUME NEW p, WellFormed(p), Contiguous(p)
    PROVE  LET o == OnTimeout(p) IN Reacts(p, o) /\ o.reply # "OK"
<1> DEFINE o == OnTimeout(p)
<1>1. /\ Kept(p, o)
      /\ \/ p.active = <<>> /\ o = Stay(p)
         \/ p.active # <<>> /\ Over(o) /\ o.reply = "ERRTIMEOUT"
         \/ /\ p.active # <<>> /\ o.parser.active = p.active
            /\ o.sends = p.active /\ o.reply = "none"
  BY TimeoutEnds
<1> HIDE DEF o
<1>2. WellFormed(o.parser) /\ Contiguous(o.parser)
  BY <1>1 DEF Kept, Sound
<1>3. Stay(p).parser = p /\ Stay(p).sends = <<>> /\ Stay(p).reply = "none"
  BY DEF Stay
<1> QED BY <1>1, <1>2, <1>3, NoneIsNotFinal DEF Over, Reacts, Leaves, o

\* sendNextRequest.
LEMMA NextLeaves ==
    ASSUME NEW p, WellFormed(p), Contiguous(p), NEW queue \in Seq(Received)
    PROVE  LET next == SendNextRequest(p, queue)
           IN  Leaves(p, next.parser, next.sends) /\ next.waiting \in Seq(Received)
<1> DEFINE next == SendNextRequest(p, queue)
<1>0. Leaves(p, p, <<>>)
  BY DEF Leaves
<1>1. CASE queue = <<>> \/ p.active # <<>>
  <2>1. next.parser = p /\ next.sends = <<>> /\ next.waiting = queue
    BY <1>1 DEF SendNextRequest
  <2> QED BY <1>0, <2>1
<1>2. CASE queue # <<>> /\ p.active = <<>> /\ Head(queue) = <<>>
  <2>1. next.parser = p /\ next.sends = <<>> /\ next.waiting = Tail(queue)
    BY <1>2 DEF SendNextRequest
  <2> QED BY <1>0, <1>2, <2>1
<1>3. CASE queue # <<>> /\ p.active = <<>> /\ Head(queue) # <<>>
  <2>1. PICK c \in Commands : Head(queue) = <<c>>
    <3>1. Head(queue) \in Received
      BY <1>3
    <3> QED BY <1>3, <3>1 DEF Received
  <2>2. Head(queue)[1] = c
    BY <2>1
  <2>3. /\ next.parser = Parse(p, c).parser /\ next.sends = Parse(p, c).sends
        /\ next.waiting = Tail(queue)
    BY <1>3, <2>2 DEF SendNextRequest
  <2>4. Tail(queue) \in Seq(Received)
    BY <1>3
  <2> QED BY <2>3, <2>4, ParseLeaves
<1> QED BY <1>1, <1>2, <1>3

-----------------------------------------------------------------------------
(* What calling a client comes to *)

\* The other parsers are left alone.
OnlyCurrent(ps) ==
    /\ ps = [u \in Users |-> ps[u]]
    /\ \A u \in Users \ {currentClient} : ps[u] = parsers[u]

\* The parser of the current client was called, or nobody's.
Result(result) ==
    /\ OnlyCurrent(result.parsers)
    /\ currentClient \in Users =>
         Leaves(parsers[currentClient], result.parsers[currentClient], result.sends)
    /\ currentClient \notin live \cup gone => result.sends = <<>>
    /\ result.waiting \in Seq(Received)

\* Nobody is called, or not so that anybody would notice.
LEMMA UnnoticedIs ==
    ASSUME UserTypes
    PROVE  /\ Result(Unnoticed) /\ Unnoticed.told = <<>>
           /\ Unnoticed.parsers = parsers /\ Unnoticed.waiting = waiting
           /\ Unnoticed.stalled = stalled
<1>1. /\ Unnoticed.parsers = parsers /\ Unnoticed.sends = <<>> /\ Unnoticed.waiting = waiting
      /\ Unnoticed.stalled = stalled /\ Unnoticed.told = <<>>
  BY DEF Unnoticed
<1> QED BY <1>1 DEF UserTypes, Result, OnlyCurrent, Leaves

\* CommandClient, for a connection or for an adapter whose command goes on.
LEMMA ByConnectionIs ==
    ASSUME UserTypes, currentClient \in live \cup gone, NEW o,
           Reacts(parsers[currentClient], o)
    PROVE  LET result == ByConnection(o)
           IN  /\ Result(result)
               /\ result.parsers[currentClient] = o.parser
               /\ result.waiting = waiting /\ result.stalled = stalled
               /\ result.told = IF o.reply = "none" THEN <<>> ELSE <<currentClient, o.reply>>
<1> DEFINE result == ByConnection(o)
<1>0. currentClient \in Users
  BY DEF UserTypes, Users
<1>1. /\ result.parsers = [parsers EXCEPT ![currentClient] = o.parser]
      /\ result.sends = o.sends /\ result.waiting = waiting /\ result.stalled = stalled
      /\ result.told = IF o.reply = "none" THEN <<>> ELSE <<currentClient, o.reply>>
  BY Zenon DEF ByConnection, Unnoticed
<1> HIDE DEF result
<1>2. result.parsers[currentClient] = o.parser /\ OnlyCurrent(result.parsers)
  BY <1>0, <1>1 DEF UserTypes, OnlyCurrent
<1> QED BY <1>0, <1>1, <1>2 DEF UserTypes, Result, Reacts, result

\* A command waits, with the adapter's parser free, for the reason there was before or
\* for a new one.
WaitsAsBefore(ps, queue, reason) ==
    queue # <<>> /\ ps[Mqtt].active = <<>> =>
        \/ reason # "no"
        \/ waiting # <<>> /\ parsers[Mqtt].active = <<>> /\ reason = stalled

\* If it starts no command, it has a reason.
LEMMA StalledIs ==
    ASSUME NEW p, NEW queue
    PROVE  LET next == SendNextRequest(p, queue)
           IN  next.waiting # <<>> /\ next.parser.active = <<>> => Stalled(next) # "no"
BY DEF Stalled

\* The adapter, called, ends its command and starts the next one, or goes on with it.
LEMMA ByAdapterIs ==
    ASSUME UserTypes, currentClient = Mqtt, Mqtt \in live, NEW o, Reacts(parsers[Mqtt], o)
    PROVE  LET result == ByAdapter(o)
           IN  /\ Result(result)
               /\ WaitsAsBefore(result.parsers, result.waiting, result.stalled)
               /\ result.told \in {<<>>, <<currentClient, o.reply>>}
<1> DEFINE result == ByAdapter(o)  p == parsers[Mqtt]
<1>0. Mqtt \in Users
  BY DEF Users
<1>1. CASE GoesOn(o.reply)
  <2> DEFINE next == SendNextRequest(o.parser, waiting)
  <2>1. /\ result.parsers = [parsers EXCEPT ![Mqtt] = next.parser]
        /\ result.sends = next.sends /\ result.waiting = next.waiting
        /\ result.stalled = Stalled(next) /\ result.told = <<Mqtt, o.reply>>
    BY <1>1 DEF ByAdapter
  <2>2. /\ Leaves(p, o.parser, o.sends) /\ o.sends = <<>>
    BY <1>1 DEF Reacts, GoesOn
  <2>3. Leaves(o.parser, next.parser, next.sends) /\ next.waiting \in Seq(Received)
    BY <2>2, NextLeaves DEF Leaves, UserTypes
  <2>4. next.waiting # <<>> /\ next.parser.active = <<>> => Stalled(next) # "no"
    BY StalledIs
  <2> HIDE DEF result, next
  <2>5. Leaves(p, next.parser, next.sends)
    BY <2>2, <2>3 DEF Leaves
  <2>6. result.parsers[Mqtt] = next.parser /\ OnlyCurrent(result.parsers)
    BY <1>0, <2>1 DEF UserTypes, OnlyCurrent
  <2>7. Result(result)
    BY <1>0, <2>1, <2>3, <2>5, <2>6 DEF Result
  <2> QED BY <2>1, <2>4, <2>6, <2>7 DEF WaitsAsBefore, result
<1>2. CASE ~GoesOn(o.reply)
  <2>1. result = ByConnection(o)
    BY <1>2 DEF ByAdapter
  <2>2. /\ Result(result)
        /\ result.parsers[Mqtt] = o.parser
        /\ result.waiting = waiting /\ result.stalled = stalled
        /\ result.told \in {<<>>, <<currentClient, o.reply>>}
    BY <1>0, <2>1, ByConnectionIs
  <2> HIDE DEF result
  <2>3. WaitsAsBefore(result.parsers, result.waiting, result.stalled)
    BY <1>2, <2>2 DEF Reacts, GoesOn, WaitsAsBefore
  <2> QED BY <2>2, <2>3 DEF result
<1> QED BY <1>1, <1>2

\* What is called is a live client, a connection that has ended, or nobody.
LEMMA CalledBackIs ==
    ASSUME UserTypes, currentClient \in Users \cup {NoClient}, NEW outcomes,
           currentClient \in Users => \A o \in outcomes : Reacts(parsers[currentClient], o),
           NEW result \in CalledBack(outcomes)
    PROVE  /\ Result(result)
           /\ WaitsAsBefore(result.parsers, result.waiting, result.stalled)
           /\ result.told # <<>> =>
                /\ currentClient \in live
                /\ \E o \in outcomes : result.told = <<currentClient, o.reply>>
<1>1. NoClient \notin Users /\ Mqtt \notin Connections /\ live \subseteq Users
      /\ gone \subseteq Connections /\ live \cap gone = {}
  BY UsersAssumption DEF UserTypes
<1>2. \/ result = Unnoticed
      \/ currentClient \in live /\ \E o \in outcomes :
           \/ currentClient = Mqtt /\ result = ByAdapter(o)
           \/ currentClient # Mqtt /\ result = ByConnection(o)
      \/ currentClient \in gone /\ \E o \in outcomes :
           o.reply = "none" /\ result = ByConnection(o)
  <2>1. CASE currentClient = NoClient
    BY <1>1, <2>1 DEF CalledBack
  <2>2. CASE currentClient # NoClient /\ currentClient \in live
    <3>1. CalledBack(outcomes) =
            {IF currentClient = Mqtt THEN ByAdapter(o) ELSE ByConnection(o) : o \in outcomes}
      BY <1>1, <2>2 DEF CalledBack
    <3>2. PICK o \in outcomes :
             result = IF currentClient = Mqtt THEN ByAdapter(o) ELSE ByConnection(o)
      BY <3>1
    <3> QED BY <2>2, <3>2, Zenon
  <2>3. CASE currentClient # NoClient /\ currentClient \notin live /\ currentClient \in gone
    <3>1. CalledBack(outcomes) =
            {Unnoticed} \cup {ByConnection(o) : o \in {x \in outcomes : x.reply = "none"}}
      BY <1>1, <2>3 DEF CalledBack
    <3> QED BY <2>3, <3>1, Zenon
  <2>4. CASE currentClient # NoClient /\ currentClient \notin live /\ currentClient \notin gone
    <3>1. CalledBack(outcomes) = {}
      BY <1>1, <2>4 DEF CalledBack
    <3> QED BY <3>1
  <2> QED BY <2>1, <2>2, <2>3, <2>4
<1>3. CASE result = Unnoticed
  BY <1>3, UnnoticedIs DEF WaitsAsBefore
<1>4. ASSUME currentClient \in live, NEW o \in outcomes,
             currentClient = Mqtt, result = ByAdapter(o)
      PROVE  /\ Result(result)
             /\ WaitsAsBefore(result.parsers, result.waiting, result.stalled)
             /\ result.told \in {<<>>, <<currentClient, o.reply>>}
  BY <1>1, <1>4, ByAdapterIs
<1>5. ASSUME NEW o \in outcomes, currentClient \in live \cup gone, currentClient # Mqtt,
             result = ByConnection(o)
      PROVE  /\ Result(result)
             /\ WaitsAsBefore(result.parsers, result.waiting, result.stalled)
             /\ result.told = IF o.reply = "none" THEN <<>> ELSE <<currentClient, o.reply>>
  <2>1. /\ Result(result)
        /\ result.waiting = waiting /\ result.stalled = stalled
        /\ result.told = IF o.reply = "none" THEN <<>> ELSE <<currentClient, o.reply>>
    <3>1. currentClient \in Users
      BY <1>1, <1>5 DEF Users
    <3> QED BY <1>5, <3>1, ByConnectionIs
  <2>2. result.parsers[Mqtt] = parsers[Mqtt]
    BY <1>5, <2>1 DEF Result, OnlyCurrent, Users
  <2> QED BY <2>1, <2>2 DEF WaitsAsBefore
<1>6. CASE currentClient \in live /\ \E o \in outcomes :
             \/ currentClient = Mqtt /\ result = ByAdapter(o)
             \/ currentClient # Mqtt /\ result = ByConnection(o)
  <2>1. PICK o \in outcomes :
             \/ currentClient = Mqtt /\ result = ByAdapter(o)
             \/ currentClient # Mqtt /\ result = ByConnection(o)
    BY <1>6
  <2>2. currentClient \in Users /\ currentClient \in live \cup gone
    BY <1>1, <1>6
  <2>3. /\ Result(result)
        /\ WaitsAsBefore(result.parsers, result.waiting, result.stalled)
        /\ result.told \in {<<>>, <<currentClient, o.reply>>}
    BY <1>4, <1>5, <1>6, <2>1, <2>2, Zenon
  <2> QED BY <1>6, <2>3
<1>7. CASE currentClient \in gone /\ \E o \in outcomes :
             o.reply = "none" /\ result = ByConnection(o)
  <2>1. PICK o \in outcomes : o.reply = "none" /\ result = ByConnection(o)
    BY <1>7
  <2>2. currentClient # Mqtt
    BY <1>1, <1>7
  <2> QED BY <1>5, <1>7, <2>1, <2>2
<1> QED BY <1>2, <1>3, <1>6, <1>7

-----------------------------------------------------------------------------
(* The types are kept *)

Entry(u, r) == [client |-> u, msg |-> Outgoing(u, r)]

\* The entry of a request.
LEMMA EntryOf ==
    ASSUME NEW u \in Users, NEW r \in Requests
    PROVE  /\ Entry(u, r) \in Entries /\ Entry(u, r).client = u
           /\ Entry(u, r).msg = Outgoing(u, r)
BY OutgoingIs DEF Entry, Entries

\* Nothing is sent, or the request that is active now.
SendsActive(sends, p) ==
    \/ sends = <<>>
    \/ \E r \in Requests : sends = <<r>> /\ p.active = <<r>>

\* A call into a parser does that.
LEMMA LeavesSends ==
    ASSUME NEW p, NEW q, NEW sends, Leaves(p, q, sends)
    PROVE  SendsActive(sends, q)
<1>1. CASE sends = <<>>
  BY <1>1 DEF SendsActive
<1>2. CASE sends # <<>>
  <2>1. sends = q.active /\ q.active = <<q.active[1]>> /\ q.active[1] \in Requests
    BY <1>2 DEF Leaves, WellFormed
  <2>2. \E r \in Requests : q.active = <<r>>
    BY <2>1
  <2> QED BY <2>1, <2>2 DEF SendsActive
<1> QED BY <1>1, <1>2

\* The queue after a callback: as it was, or with what is active now.
QueuedAfter(queue, result) ==
    \/ result.sends = <<>> /\ queue = pending
    \/ \E r \in Requests :
         /\ currentClient \in live \cup gone
         /\ result.sends = <<r>> /\ result.parsers[currentClient].active = <<r>>
         /\ queue = Append(pending, Entry(currentClient, r))

\* That is what becomes of it.
LEMMA ResultQueue ==
    ASSUME SchedulerTypes, UserTypes, NEW result, Result(result)
    PROVE  LET queue == Scheduler!PendingAfter(Reaction(result))
           IN  queue \in Seq(Entries) /\ QueuedAfter(queue, result)
<1> DEFINE queue == Scheduler!PendingAfter(Reaction(result))
<1>1. pending \in Seq(Entries)
  BY DEF SchedulerTypes
<1>2. /\ result.sends = <<>> => queue = pending
      /\ \A r : result.sends = <<r>> => queue = Append(pending, Entry(currentClient, r))
  BY <1>1, QueueAfter DEF Entry
<1> HIDE DEF queue
<1>3. CASE result.sends = <<>>
  BY <1>1, <1>2, <1>3 DEF QueuedAfter, queue
<1>4. CASE result.sends # <<>>
  <2>1. currentClient \in live \cup gone /\ currentClient \in Users
    BY <1>4 DEF Result, UserTypes, Users
  <2>2. SendsActive(result.sends, result.parsers[currentClient])
    BY <2>1, LeavesSends DEF Result
  <2>3. PICK r \in Requests :
           result.sends = <<r>> /\ result.parsers[currentClient].active = <<r>>
    BY <1>4, <2>2 DEF SendsActive
  <2>4. queue = Append(pending, Entry(currentClient, r))
    BY <1>2, <2>3
  <2>5. queue \in Seq(Entries)
    BY <1>1, <2>1, <2>4, EntryOf
  <2> QED BY <2>1, <2>3, <2>4, <2>5 DEF QueuedAfter, queue
<1> QED BY <1>3, <1>4

\* What a client that was called back leaves.
LEMMA TakenTypes ==
    ASSUME UserTypes, NEW result, Result(result), Take(result), UNCHANGED lifeVars
    PROVE  UserTypes'
<1>1. parsers' = result.parsers /\ waiting' = result.waiting /\ UNCHANGED <<live, gone>>
  BY DEF Take, lifeVars
<1>2. parsers' = [u \in Users |-> parsers'[u]]
      /\ \A u \in Users \ {currentClient} : parsers'[u] = parsers[u]
  BY <1>1 DEF Result, OnlyCurrent
<1>3. currentClient \in Users =>
         Leaves(parsers[currentClient], parsers'[currentClient], result.sends)
  BY <1>1 DEF Result
<1>4. \A u \in Users : WellFormed(parsers'[u]) /\ Contiguous(parsers'[u])
  BY <1>2, <1>3 DEF UserTypes, Leaves
<1>5. ASSUME NEW c \in Connections \ (live \cup gone) PROVE parsers'[c].active = <<>>
  <2>1. c \in Users /\ parsers[c].active = <<>>
    BY DEF UserTypes, Users
  <2>2. CASE c # currentClient
    BY <1>2, <2>1, <2>2
  <2>3. CASE c = currentClient
    BY <1>3, <2>1, <2>3 DEF Result, Leaves
  <2> QED BY <2>2, <2>3
<1> QED BY <1>1, <1>2, <1>4, <1>5 DEF UserTypes, Result

\* The bus.
LEMMA BusTypes ==
    ASSUME NEW queue \in Seq(Transmissions), BusBecomes(queue), sent' \in Sents
    PROVE  bus' \in Seq(Transmissions)
<1>1. sent' \in Seq(Transmissions)
  <2>1. \A m \in Transmissions : <<m>> \in Seq(Transmissions)
    OBVIOUS
  <2>2. <<>> \in Seq(Transmissions)
    OBVIOUS
  <2> QED BY <2>1, <2>2, Zenon DEF Sents
<1> QED BY <1>1 DEF BusBecomes

\* Who is called by a message: its result, with what the queue becomes.
LEMMA AnswerResult ==
    ASSUME TypesInv, AnswerArrives
    PROVE  \E result : \E queue \in Seq(Entries), ages \in Ages :
             /\ Result(result) /\ Take(result) /\ QueuedAfter(queue, result)
             /\ Scheduler!ContinueWithNextRequest(queue, Scheduler!Off, ages, ready)
             /\ WaitsAsBefore(parsers', waiting', stalled')
             /\ told' # <<>> =>
                  /\ currentClient \in live /\ told'[1] = currentClient
                  /\ told'[2] = "OK" => parsers[currentClient].active # <<>>
<1>1. /\ SchedulerTypes /\ UserTypes /\ bus \in Seq(Transmissions) /\ bus # <<>>
  BY DEF TypesInv, AnswerArrives
<1> DEFINE outcomes(m) == IF currentClient = NoClient THEN {}
                          ELSE OnIncomingMessage(parsers[currentClient], m)
<1>2. PICK m \in DeviceAnswers(bus[1].request, AnswerSizes) :
         \E result \in CalledBack(outcomes(m)) :
            Scheduler!HandlePcMessage(m.source, Reaction(result)) /\ Take(result)
  BY DEF AnswerArrives
<1>3. PICK result \in CalledBack(outcomes(m)) :
         Scheduler!HandlePcMessage(m.source, Reaction(result)) /\ Take(result)
  BY <1>2
<1>4. IsMessage(m)
  <2>1. bus[1] \in Transmissions
    BY <1>1
  <2>2. bus[1].request \in Requests
    BY <2>1, TransmissionIs
  <2> QED BY <2>2, SenderAssumption, DevicesSay
<1>5. ASSUME currentClient \in Users, NEW o \in outcomes(m)
      PROVE  /\ Reacts(parsers[currentClient], o)
             /\ parsers[currentClient].active = <<>> => o.reply = "none"
  <2>1. o \in OnIncomingMessage(parsers[currentClient], m)
    BY <1>5, UsersAssumption
  <2>2. WellFormed(parsers[currentClient]) /\ Contiguous(parsers[currentClient])
    BY <1>1, <1>5 DEF UserTypes
  <2> QED BY <1>4, <2>1, <2>2, MessageReacts
<1>6. currentClient \in Users \cup {NoClient}
  BY <1>1 DEF SchedulerTypes
<1> HIDE DEF outcomes
<1>7. /\ Result(result)
      /\ WaitsAsBefore(result.parsers, result.waiting, result.stalled)
      /\ result.told # <<>> =>
           /\ currentClient \in live
           /\ \E o \in outcomes(m) : result.told = <<currentClient, o.reply>>
  BY <1>1, <1>3, <1>5, <1>6, CalledBackIs
<1> DEFINE queue == Scheduler!PendingAfter(Reaction(result))
           ages == [age EXCEPT ![m.source] = 0]
<1>8. Scheduler!ContinueWithNextRequest(queue, Scheduler!Off, ages, ready)
  BY <1>3, Zenon DEF Scheduler!HandlePcMessage
<1>9. queue \in Seq(Entries) /\ QueuedAfter(queue, result)
  BY <1>1, <1>7, ResultQueue
<1>10. ages \in Ages
  <2>1. 0 \in 0..Scheduler!Old
    BY SenderAssumption DEF Scheduler!Old
  <2> QED BY <1>1, <2>1 DEF SchedulerTypes, Ages
<1> HIDE DEF queue, ages
<1>11. WaitsAsBefore(parsers', waiting', stalled')
  BY <1>3, <1>7 DEF Take
<1>12. told' # <<>> =>
         /\ currentClient \in live /\ told'[1] = currentClient
         /\ told'[2] = "OK" => parsers[currentClient].active # <<>>
  <2> SUFFICES ASSUME told' # <<>>
               PROVE  /\ currentClient \in live /\ told'[1] = currentClient
                      /\ told'[2] = "OK" => parsers[currentClient].active # <<>>
    OBVIOUS
  <2>1. told' = result.told
    BY <1>3 DEF Take
  <2>2. PICK o \in outcomes(m) : told' = <<currentClient, o.reply>>
    BY <1>7, <2>1
  <2>3. currentClient \in live /\ currentClient \in Users
    BY <1>1, <1>7, <2>1 DEF UserTypes
  <2>4. "none" # "OK"
    OBVIOUS
  <2> QED BY <1>5, <2>2, <2>3, <2>4
<1> QED BY <1>3, <1>7, <1>8, <1>9, <1>10, <1>11, <1>12

\* Who is called by a timeout.
LEMMA TimeoutResult ==
    ASSUME TypesInv, HandleResponseTimeout
    PROVE  \E result : \E queue \in Seq(Entries) :
             /\ Result(result) /\ Take(result) /\ QueuedAfter(queue, result)
             /\ Scheduler!ContinueWithNextRequest(queue, responseTimeout, age, Tail(ready))
             /\ WaitsAsBefore(parsers', waiting', stalled')
             /\ told' # <<>> => told'[2] # "OK"
<1>1. SchedulerTypes /\ UserTypes
  BY DEF TypesInv
<1> DEFINE outcomes == IF currentClient = NoClient THEN {}
                       ELSE {OnTimeout(parsers[currentClient])}
<1>2. PICK result \in CalledBack(outcomes) :
         Scheduler!HandleResponseTimeout(Reaction(result)) /\ Take(result)
  BY DEF HandleResponseTimeout
<1>3. ASSUME currentClient \in Users, NEW o \in outcomes
      PROVE  Reacts(parsers[currentClient], o) /\ o.reply # "OK"
  <2>1. o = OnTimeout(parsers[currentClient])
    BY <1>3, UsersAssumption
  <2>2. WellFormed(parsers[currentClient]) /\ Contiguous(parsers[currentClient])
    BY <1>1, <1>3 DEF UserTypes
  <2> QED BY <2>1, <2>2, TimeoutReacts
<1>4. currentClient \in Users \cup {NoClient}
  BY <1>1 DEF SchedulerTypes
<1> HIDE DEF outcomes
<1>5. /\ Result(result)
      /\ WaitsAsBefore(result.parsers, result.waiting, result.stalled)
      /\ result.told # <<>> =>
           /\ currentClient \in live
           /\ \E o \in outcomes : result.told = <<currentClient, o.reply>>
  BY <1>1, <1>2, <1>3, <1>4, CalledBackIs
<1> DEFINE queue == Scheduler!PendingAfter(Reaction(result))
<1>6. Scheduler!ContinueWithNextRequest(queue, responseTimeout, age, Tail(ready))
  BY <1>2, Zenon DEF Scheduler!HandleResponseTimeout
<1>7. queue \in Seq(Entries) /\ QueuedAfter(queue, result)
  BY <1>1, <1>5, ResultQueue
<1> HIDE DEF queue
<1>8. WaitsAsBefore(parsers', waiting', stalled')
  BY <1>2, <1>5 DEF Take
<1>9. told' # <<>> => told'[2] # "OK"
  <2> SUFFICES ASSUME told' # <<>> PROVE told'[2] # "OK"
    OBVIOUS
  <2>1. told' = result.told
    BY <1>2 DEF Take
  <2>2. PICK o \in outcomes : told' = <<currentClient, o.reply>>
    BY <1>5, <2>1
  <2>3. currentClient \in Users
    BY <1>1, <1>5, <2>1 DEF UserTypes
  <2> QED BY <1>3, <2>2, <2>3
<1> QED BY <1>2, <1>5, <1>6, <1>7, <1>8, <1>9

\* A device answers.
LEMMA AnswerTypes ==
    ASSUME TypesInv, AnswerArrives
    PROVE  TypesInv'
<1>1. SchedulerTypes /\ UserTypes /\ bus \in Seq(Transmissions) /\ bus # <<>>
  BY DEF TypesInv, AnswerArrives
<1>2. PICK result : \E queue \in Seq(Entries), ages \in Ages :
         /\ Result(result) /\ Take(result)
         /\ Scheduler!ContinueWithNextRequest(queue, Scheduler!Off, ages, ready)
  BY AnswerResult
<1>3. PICK queue \in Seq(Entries), ages \in Ages :
         Scheduler!ContinueWithNextRequest(queue, Scheduler!Off, ages, ready)
  BY <1>2
<1>4. UNCHANGED lifeVars /\ BusBecomes(Tail(bus))
  BY DEF AnswerArrives, Unaffected
<1>5. UserTypes'
  BY <1>1, <1>2, <1>4, TakenTypes
<1>6. Scheduler!Off \in Timers /\ ready \in Seq(Handlers) /\ Tail(bus) \in Seq(Transmissions)
  BY <1>1 DEF Timers, SchedulerTypes
<1>7. age' \in Ages /\ Continued(queue, Scheduler!Off, ready)
  BY <1>3, ContinueIs
<1>8. SchedulerTypes' /\ sent' \in Sents
  BY <1>1, <1>6, <1>7, ContinueTypes
<1> QED BY <1>4, <1>5, <1>6, <1>8, BusTypes DEF TypesInv

\* The response timer's handler runs.
LEMMA TimeoutTypes ==
    ASSUME TypesInv, HandleResponseTimeout
    PROVE  TypesInv'
<1>1. SchedulerTypes /\ UserTypes /\ bus \in Seq(Transmissions)
  BY DEF TypesInv
<1>2. PICK result : \E queue \in Seq(Entries) :
         /\ Result(result) /\ Take(result)
         /\ Scheduler!ContinueWithNextRequest(queue, responseTimeout, age, Tail(ready))
  BY TimeoutResult
<1>3. PICK queue \in Seq(Entries) :
         Scheduler!ContinueWithNextRequest(queue, responseTimeout, age, Tail(ready))
  BY <1>2
<1>4. UNCHANGED lifeVars /\ BusBecomes(bus) /\ ready # <<>>
  BY DEF HandleResponseTimeout, Unaffected, Scheduler!HandleResponseTimeout
<1>5. UserTypes'
  BY <1>1, <1>2, <1>4, TakenTypes
<1>6. responseTimeout \in Timers /\ Tail(ready) \in Seq(Handlers) /\ age \in Ages
  BY <1>1, <1>4 DEF SchedulerTypes
<1>7. age' \in Ages /\ Continued(queue, responseTimeout, Tail(ready))
  BY <1>3, <1>6, ContinueIs
<1>8. SchedulerTypes' /\ sent' \in Sents
  BY <1>1, <1>6, <1>7, ContinueTypes
<1> QED BY <1>1, <1>4, <1>5, <1>8, BusTypes DEF TypesInv

\* The sender's timers.
LEMMA SenderTypes ==
    ASSUME TypesInv, SenderStep
    PROVE  TypesInv'
<1>1. SchedulerTypes /\ UserTypes /\ bus \in Seq(Transmissions)
  BY DEF TypesInv
<1>2. UserTypes'
  <2>1. UNCHANGED <<parsers, waiting, live, gone>>
    BY DEF SenderStep, Unaffected, queueVars, lifeVars
  <2> QED BY <1>1, <2>1 DEF UserTypes
<1>3. CASE Scheduler!HandleSendTimer /\ BusBecomes(bus)
  <2>1. PICK m \in Transmissions : Head(ready) = Scheduler!SendOf(m)
    <3>1. Head(ready) \in Handlers /\ Head(ready) # Scheduler!TimedOut
      BY <1>1, <1>3 DEF Scheduler!HandleSendTimer, SchedulerTypes
    <3> QED BY <3>1 DEF Handlers
  <2>2. Head(ready).msg = m
    BY <2>1 DEF Scheduler!SendOf
  <2>3. /\ sent' = <<m>> /\ responseTimeout' = RequestTimeout
        /\ age' = [age EXCEPT ![m.dest] = 0] /\ ready' = Tail(ready) /\ ready # <<>>
        /\ UNCHANGED <<currentClient, pending, sendTimer, delayed>>
    BY <1>3, <2>2 DEF Scheduler!HandleSendTimer, Scheduler!DoSendMessage
  <2>4. 0 \in 0..Scheduler!Old /\ RequestTimeout \in Timers
    BY SenderAssumption DEF Scheduler!Old, Timers
  <2>5. age' \in Ages
    BY <1>1, <2>3, <2>4 DEF SchedulerTypes, Ages
  <2>6. ready' \in Seq(Handlers)
    BY <1>1, <2>3 DEF SchedulerTypes
  <2>7. SchedulerTypes' /\ sent' \in Sents
    BY <1>1, <2>3, <2>4, <2>5, <2>6, Zenon DEF SchedulerTypes, Sents
  <2> QED BY <1>1, <1>2, <1>3, <2>7, BusTypes DEF TypesInv
<1>4. CASE Scheduler!ResponseTimeoutExpires /\ bus' = <<>>
  <2>1. /\ responseTimeout' = Scheduler!Off /\ ready' = Append(ready, Scheduler!TimedOut)
        /\ sent' = <<>>
        /\ UNCHANGED <<currentClient, pending, sendTimer, delayed, age>>
    BY <1>4 DEF Scheduler!ResponseTimeoutExpires
  <2>2. ready' \in Seq(Handlers) /\ responseTimeout' \in Timers
    BY <1>1, <2>1 DEF SchedulerTypes, Handlers, Timers
  <2>3. SchedulerTypes'
    BY <1>1, <2>1, <2>2 DEF SchedulerTypes, Sents
  <2> QED BY <1>2, <1>4, <2>3 DEF TypesInv
<1>5. CASE Scheduler!SendTimerExpires /\ bus' = bus
  <2>1. /\ sendTimer = 0 /\ sendTimer' = Scheduler!Off /\ delayed' = NoMessage
        /\ ready' = Append(ready, Scheduler!SendOf(delayed)) /\ sent' = <<>>
        /\ UNCHANGED <<currentClient, pending, responseTimeout, age>>
    BY <1>5 DEF Scheduler!SendTimerExpires
  <2>2. delayed \in Transmissions
    BY <1>1, <2>1 DEF SchedulerTypes, Scheduler!Off
  <2>3. ready' \in Seq(Handlers) /\ sendTimer' \in Timers
    BY <1>1, <2>1, <2>2 DEF SchedulerTypes, Handlers, Timers
  <2>4. SchedulerTypes'
    BY <1>1, <2>1, <2>3 DEF SchedulerTypes, Sents
  <2> QED BY <1>1, <1>2, <1>5, <2>4 DEF TypesInv
<1>6. CASE Scheduler!Tick /\ bus' = bus
  <2>1. /\ responseTimeout' = Scheduler!Elapse(responseTimeout)
        /\ sendTimer' = Scheduler!Elapse(sendTimer)
        /\ age' = [d \in Devices |-> IF age[d] < Scheduler!Old THEN age[d] + 1
                                     ELSE Scheduler!Old]
        /\ sent' = <<>>
        /\ UNCHANGED <<currentClient, pending, delayed, ready>>
    BY <1>6 DEF Scheduler!Tick
  <2>2. \A t \in Timers : /\ Scheduler!Elapse(t) \in Timers
                          /\ Scheduler!Elapse(t) = Scheduler!Off <=> t = Scheduler!Off
    BY DEF Scheduler!Elapse, Timers, Scheduler!Off
  <2>3. age' \in Ages
    BY <1>1, <2>1, SenderAssumption DEF SchedulerTypes, Ages, Scheduler!Old
  <2>4. SchedulerTypes'
    BY <1>1, <2>1, <2>2, <2>3 DEF SchedulerTypes, Sents
  <2> QED BY <1>1, <1>2, <1>6, <2>4 DEF TypesInv
<1> QED BY <1>3, <1>4, <1>5, <1>6 DEF SenderStep

\* Who is not served in a step that the sender does not notice.
LEMMA UnnoticedTypes ==
    ASSUME TypesInv, UserTypes', UNCHANGED schedulerVars, UNCHANGED bus
    PROVE  TypesInv'
BY DEF TypesInv, SchedulerTypes, schedulerVars

\* A request given to the sender outside of a callback.
LEMMA SendTypes ==
    ASSUME TypesInv, UserTypes', NEW u \in Users, NEW sends, NEW p,
           SendsActive(sends, p), Send(u, sends)
    PROVE  TypesInv'
<1>1. SchedulerTypes /\ bus \in Seq(Transmissions) /\ pending \in Seq(Entries)
  BY DEF TypesInv, SchedulerTypes
<1>2. CASE sends = <<>>
  BY <1>2, UnnoticedTypes DEF Send
<1>3. CASE sends # <<>>
  <2>1. PICK r \in Requests : sends = <<r>>
    BY <1>3 DEF SendsActive
  <2>2. Scheduler!SendMessage(u, Outgoing(u, r)) /\ BusBecomes(bus)
    BY <2>1 DEF Send
  <2> DEFINE queue == Append(pending, Entry(u, r))
  <2>3. queue \in Seq(Entries)
    BY <1>1, EntryOf
  <2>4. SchedulerTypes' /\ sent' \in Sents
    <3>1. CASE currentClient = NoClient
      <4>1. Scheduler!ContinueWithNextRequest(queue, responseTimeout, age, ready)
        BY <2>2, <3>1 DEF Scheduler!SendMessage, Entry
      <4>2. responseTimeout \in Timers /\ age \in Ages /\ ready \in Seq(Handlers)
        BY <1>1 DEF SchedulerTypes
      <4> HIDE DEF queue
      <4>3. age' \in Ages /\ Continued(queue, responseTimeout, ready)
        BY <2>3, <4>1, <4>2, ContinueIs
      <4> QED BY <1>1, <2>3, <4>2, <4>3, ContinueTypes
    <3>2. CASE currentClient # NoClient
      <4>1. /\ pending' = queue /\ sent' = <<>>
            /\ UNCHANGED <<currentClient, Scheduler!timers, age, ready>>
        BY <2>2, <3>2 DEF Scheduler!SendMessage, Entry
      <4> HIDE DEF queue
      <4> QED BY <1>1, <2>3, <4>1 DEF Scheduler!timers, SchedulerTypes, Sents
    <3> QED BY <3>1, <3>2
  <2> QED BY <1>1, <2>2, <2>4, BusTypes DEF TypesInv
<1> QED BY <1>2, <1>3

\* A parser of a user who lives.
LEMMA ParserTypes ==
    ASSUME UserTypes, NEW u \in live, NEW q, WellFormed(q), Contiguous(q),
           parsers' = [parsers EXCEPT ![u] = q], UNCHANGED <<live, gone>>,
           waiting' \in Seq(Received)
    PROVE  UserTypes'
<1>1. u \in Users
  BY DEF UserTypes
<1>2. /\ parsers' = [v \in Users |-> parsers'[v]] /\ parsers'[u] = q
      /\ \A v \in Users \ {u} : parsers'[v] = parsers[v]
  BY <1>1 DEF UserTypes
<1>3. \A c \in Connections \ (live \cup gone) : c \in Users \ {u}
  BY DEF Users
<1> QED BY <1>2, <1>3 DEF UserTypes

\* A line is typed.
LEMMA HandleRequestTypes ==
    ASSUME TypesInv, NEW c \in Connections, NEW command \in Lines[c], HandleRequest(c, command)
    PROVE  TypesInv'
<1> DEFINE o == Parse(parsers[c], command)
<1>1. /\ c \in live /\ Send(c, o.sends) /\ parsers' = [parsers EXCEPT ![c] = o.parser]
      /\ UNCHANGED <<lifeVars, queueVars>>
  BY DEF HandleRequest
<1>2. UserTypes /\ c \in Users /\ command \in Commands
  BY UsersAssumption DEF TypesInv, Users
<1>3. Leaves(parsers[c], o.parser, o.sends)
  BY <1>2, ParseLeaves DEF UserTypes
<1> HIDE DEF o
<1>4. UserTypes'
  BY <1>1, <1>2, <1>3, ParserTypes DEF UserTypes, Leaves, lifeVars, queueVars
<1> QED BY <1>1, <1>2, <1>3, <1>4, LeavesSends, SendTypes

\* A message comes from the broker.
LEMMA ReceiveTypes ==
    ASSUME TypesInv, NEW message \in Received, OnMessageReceived(message)
    PROVE  TypesInv'
<1> DEFINE queue == Append(waiting, message)  next == SendNextRequest(parsers[Mqtt], queue)
<1>1. UserTypes /\ Mqtt \in Users /\ waiting \in Seq(Received)
  BY DEF TypesInv, UserTypes, Users
<1>2. queue \in Seq(Received)
  BY <1>1
<1>3. UNCHANGED <<live, gone>>
  BY DEF OnMessageReceived, lifeVars
<1>4. CASE Mqtt \in live
  <2>1. /\ Send(Mqtt, next.sends) /\ parsers' = [parsers EXCEPT ![Mqtt] = next.parser]
        /\ waiting' = next.waiting
    BY <1>4 DEF OnMessageReceived
  <2>2. Leaves(parsers[Mqtt], next.parser, next.sends) /\ next.waiting \in Seq(Received)
    BY <1>1, <1>2, NextLeaves DEF UserTypes
  <2> HIDE DEF next
  <2>3. UserTypes'
    BY <1>1, <1>3, <1>4, <2>1, <2>2, ParserTypes DEF Leaves
  <2> QED BY <1>1, <2>1, <2>2, <2>3, LeavesSends, SendTypes
<1>5. CASE Mqtt \notin live
  <2>1. waiting' = queue /\ UNCHANGED <<schedulerVars, bus, parsers>>
    BY <1>5 DEF OnMessageReceived
  <2>2. UserTypes'
    BY <1>1, <1>2, <1>3, <2>1 DEF UserTypes
  <2> QED BY <2>1, <2>2, UnnoticedTypes
<1> QED BY <1>4, <1>5

\* What Next calls a message is one.
LEMMA MessagesReceived ==
    \A message \in {<<>>} \cup {<<command>> : command \in Lines[Mqtt]} : message \in Received
<1>1. Lines[Mqtt] \subseteq Commands
  BY UsersAssumption DEF Users
<1> QED BY <1>1 DEF Received

\* The steps of the broker's connection that make no parser.
BrokerStep ==
    \/ OnConnectRefused \/ OnError \/ OnClose \/ RetryTimerExpires \/ HandleRetryTimer

\* Users that come and go.
LEMMA LifeTypes ==
    ASSUME TypesInv,
           \/ \E c \in Connections : HandleAccept(c) \/ StopConnection(c)
           \/ \E g \in Garbage : OnConnect(g)
           \/ BrokerStep \/ ProgramEnds
    PROVE  TypesInv'
<1>1. UserTypes /\ bus \in Seq(Transmissions) /\ Mqtt \notin Connections
  BY UsersAssumption DEF TypesInv
<1>2. UNCHANGED schedulerVars /\ UNCHANGED bus /\ UNCHANGED waiting
  BY DEF HandleAccept, StopConnection, OnConnect, BrokerStep, OnConnectRefused, OnError, OnClose,
         Disconnected, RetryTimerExpires, HandleRetryTimer, ProgramEnds, SenderUnaware, queueVars
<1>3. ASSUME NEW c \in Connections, HandleAccept(c)
      PROVE  UserTypes'
  <2>1. /\ c \notin live \cup gone /\ live' = live \cup {c} /\ UNCHANGED <<parsers, gone>>
    BY <1>3 DEF HandleAccept
  <2> QED BY <1>1, <1>2, <2>1 DEF UserTypes, Users
<1>4. ASSUME NEW c \in Connections, StopConnection(c)
      PROVE  UserTypes'
  <2>1. /\ live' = live \ {c} /\ gone' = gone \cup {c} /\ UNCHANGED parsers
    BY <1>4 DEF StopConnection, Abandon
  <2> QED BY <1>1, <1>2, <2>1 DEF UserTypes, Users
<1>5. ASSUME NEW g \in Garbage, OnConnect(g)
      PROVE  UserTypes'
  <2>1. /\ live' = live \cup {Mqtt} /\ parsers' = [parsers EXCEPT ![Mqtt] = NewParser(g)]
        /\ UNCHANGED gone
    BY <1>5 DEF OnConnect, SenderUnaware
  <2>2. /\ parsers' = [v \in Users |-> parsers'[v]] /\ parsers'[Mqtt] = NewParser(g)
        /\ \A v \in Users \ {Mqtt} : parsers'[v] = parsers[v]
    BY <1>1, <2>1 DEF UserTypes, Users
  <2>3. WellFormed(NewParser(g)) /\ Contiguous(NewParser(g))
    BY NewParserIs
  <2>4. \A v \in Users : WellFormed(parsers'[v]) /\ Contiguous(parsers'[v])
    BY <1>1, <2>2, <2>3 DEF UserTypes
  <2>5. \A c \in Connections \ (live \cup {Mqtt} \cup gone) : parsers'[c].active = <<>>
    BY <1>1, <2>2 DEF UserTypes, Users
  <2>6. live' \subseteq Users /\ gone' \subseteq Connections /\ live' \cap gone' = {}
    BY <1>1, <2>1 DEF UserTypes, Users
  <2> QED BY <1>1, <1>2, <2>1, <2>2, <2>4, <2>5, <2>6 DEF UserTypes
<1>6. ASSUME BrokerStep \/ ProgramEnds
      PROVE  UserTypes'
  <2>1. /\ live' = live \/ live' = live \ {Mqtt}
        /\ UNCHANGED <<parsers, gone>>
    BY <1>6 DEF BrokerStep, OnConnectRefused, OnError, OnClose, Disconnected, Abandon,
                RetryTimerExpires, HandleRetryTimer, ProgramEnds, SenderUnaware, lifeVars
  <2>2. \A c \in Connections \ (live' \cup gone) : c \in Connections \ (live \cup gone)
    BY <1>1, <2>1
  <2> QED BY <1>1, <1>2, <2>1, <2>2 DEF UserTypes
<1>7. UserTypes'
  BY <1>3, <1>4, <1>5, <1>6
<1> QED BY <1>2, <1>7, UnnoticedTypes

\* A request is lost on the bus.
LEMMA LostTypes ==
    ASSUME TypesInv, RequestLost
    PROVE  TypesInv'
<1>1. /\ bus # <<>> /\ bus' = Tail(bus) /\ UNCHANGED <<schedulerVars, parsers, waiting, live, gone>>
  BY DEF RequestLost, Unaffected, queueVars, lifeVars
<1>2. bus' \in Seq(Transmissions)
  BY <1>1 DEF TypesInv
<1> QED BY <1>1, <1>2 DEF TypesInv, SchedulerTypes, UserTypes, schedulerVars

\* A sender and its clients that have done nothing yet.
LEMMA InitTypes == Init => TypesInv
<1> SUFFICES ASSUME Init PROVE TypesInv
  OBVIOUS
<1>1. SchedulerTypes
  BY SenderAssumption DEF Init, Scheduler!Init, SchedulerTypes, Ages, Timers, Sents, Scheduler!Old,
                          Scheduler!Off
<1>2. parsers \in [Users -> {NewParser(g) : g \in Garbage}]
  BY DEF Init
<1>3. \A u \in Users : /\ WellFormed(parsers[u]) /\ Contiguous(parsers[u])
                       /\ parsers[u].active = <<>>
  <2> SUFFICES ASSUME NEW u \in Users
               PROVE  /\ WellFormed(parsers[u]) /\ Contiguous(parsers[u])
                      /\ parsers[u].active = <<>>
    OBVIOUS
  <2>1. PICK g \in Garbage : parsers[u] = NewParser(g)
    BY <1>2
  <2> QED BY <2>1, NewParserIs
<1>4. UserTypes
  BY <1>2, <1>3 DEF Init, UserTypes, Users
<1> QED BY <1>1, <1>4 DEF Init, TypesInv

\* Every step keeps the types.
LEMMA NextTypes == TypesInv /\ [Next]_vars => TypesInv'
<1> SUFFICES ASSUME TypesInv, [Next]_vars PROVE TypesInv'
  OBVIOUS
<1>1. CASE ConnectionStep
  BY <1>1, HandleRequestTypes, LifeTypes DEF ConnectionStep
<1>2. CASE AdapterStep
  BY <1>2, ReceiveTypes, LifeTypes, MessagesReceived, Zenon DEF AdapterStep, BrokerStep
<1>3. CASE SenderAndBusStep
  BY <1>3, AnswerTypes, TimeoutTypes, LostTypes, SenderTypes, LifeTypes DEF SenderAndBusStep
<1>4. CASE UNCHANGED vars
  BY <1>4 DEF vars, lifeVars, queueVars, TypesInv, SchedulerTypes, UserTypes, schedulerVars
<1> QED BY <1>1, <1>2, <1>3, <1>4 DEF Next

-----------------------------------------------------------------------------
(* The requests in the sender's hands *)

\* No request is in the sender's hands.
Idle ==
    /\ currentClient = NoClient /\ pending = <<>> /\ ready = <<>>
    /\ responseTimeout = Scheduler!Off /\ sendTimer = Scheduler!Off /\ bus = <<>>

\* m waits for MinDistance to pass.
Delayed(m) ==
    /\ sendTimer # Scheduler!Off /\ delayed = m
    /\ responseTimeout = Scheduler!Off /\ ready = <<>> /\ bus = <<>>

\* The send timer's handler is queued.
Leaving(m) ==
    /\ ready = <<Scheduler!SendOf(m)>>
    /\ sendTimer = Scheduler!Off /\ responseTimeout = Scheduler!Off /\ bus = <<>>

\* m was transmitted; the bus has it or has lost it.
Out(m) ==
    /\ responseTimeout # Scheduler!Off
    /\ sendTimer = Scheduler!Off /\ ready = <<>>
    /\ bus = <<>> \/ bus = <<m>>

\* No answer came in time; the response timer's handler is queued.
Expired ==
    /\ ready = <<Scheduler!TimedOut>>
    /\ sendTimer = Scheduler!Off /\ responseTimeout = Scheduler!Off /\ bus = <<>>

Flight(m) == Delayed(m) \/ Leaving(m) \/ Out(m) \/ Expired

In(queue, u) == \E i \in DOMAIN queue : queue[i].client = u

\* The last entry of u is its request r.
Newest(queue, u, r) ==
    \E i \in DOMAIN queue :
        /\ queue[i].client = u /\ queue[i].msg = Outgoing(u, r)
        /\ \A j \in DOMAIN queue : queue[j].client = u => j <= i

\* Who waits lives, or is known to be lost; of a parser that waits, its last entry is
\* its active request.  A parser made anew leaves entries of the old one before it.
QueueOf(queue, ps, alive, lost) ==
    \A u : In(queue, u) =>
        /\ u \in alive \cup lost
        /\ u \in alive /\ ps[u].active # <<>> => Newest(queue, u, ps[u].active[1])

\* The same of the current client's request m, and the queue behind it.
LineOf(m, queue, ps, alive, lost) ==
    /\ QueueOf(queue, ps, alive, lost)
    /\ m.client \in alive \cup lost
    /\ m.client \in alive /\ ps[m.client].active # <<>> /\ ~In(queue, m.client) =>
          m = Outgoing(m.client, ps[m.client].active[1])

StageInv ==
    \/ Idle
    \/ \E m \in Transmissions :
         /\ m.client = currentClient /\ Flight(m)
         /\ LineOf(m, pending, parsers, live, abandoned)

IInv == TypesInv /\ StageInv

\* Who waits in a queue with one more entry; its entries are in their places.
LEMMA InAppend ==
    ASSUME NEW queue \in Seq(Entries), NEW e \in Entries
    PROVE  /\ \A u : In(Append(queue, e), u) <=> In(queue, u) \/ u = e.client
           /\ \A i \in DOMAIN queue : i \in DOMAIN Append(queue, e) /\ Append(queue, e)[i] = queue[i]
           /\ \E k \in DOMAIN Append(queue, e) :
                /\ Append(queue, e)[k] = e
                /\ \A i \in DOMAIN Append(queue, e) : i <= k /\ (i # k => i \in DOMAIN queue)
<1> DEFINE longer == Append(queue, e)  n == Len(queue)
<1>1. /\ DOMAIN longer = 1..(n + 1) /\ n \in Nat
      /\ \A i \in 1..n : longer[i] = queue[i]
      /\ longer[n + 1] = e /\ DOMAIN queue = 1..n
  OBVIOUS
<1> HIDE DEF longer, n
<1>2. /\ \A i \in 1..(n + 1) : i <= n + 1 /\ (i # n + 1 => i \in 1..n)
      /\ n + 1 \in 1..(n + 1) /\ 1..n \subseteq 1..(n + 1)
  BY <1>1
<1>3. ASSUME NEW u PROVE In(longer, u) => In(queue, u) \/ u = e.client
  <2> SUFFICES ASSUME In(longer, u) PROVE In(queue, u) \/ u = e.client
    OBVIOUS
  <2>1. PICK i \in DOMAIN longer : longer[i].client = u
    BY DEF In
  <2>2. i = n + 1 \/ i \in 1..n
    BY <1>1, <1>2, <2>1, Zenon
  <2>3. CASE i = n + 1
    BY <1>1, <2>1, <2>3
  <2>4. CASE i \in 1..n
    BY <1>1, <2>1, <2>4, Zenon DEF In
  <2> QED BY <2>2, <2>3, <2>4
<1>4. ASSUME NEW u PROVE In(queue, u) \/ u = e.client => In(longer, u)
  BY <1>1, <1>2, Zenon DEF In
<1>5. \A i \in DOMAIN queue : i \in DOMAIN longer /\ longer[i] = queue[i]
  BY <1>1, <1>2, Zenon
<1>6. \E k \in DOMAIN longer :
         longer[k] = e /\ \A i \in DOMAIN longer : i <= k /\ (i # k => i \in DOMAIN queue)
  BY <1>1, <1>2, Zenon
<1>7. \A u : In(longer, u) <=> In(queue, u) \/ u = e.client
  BY <1>3, <1>4, Zenon
<1> QED BY <1>5, <1>6, <1>7, Zenon DEF longer

\* Who is left behind the first.
LEMMA InTail ==
    ASSUME NEW queue \in Seq(Entries), queue # <<>>
    PROVE  /\ \A u : In(queue, u) <=> u = Head(queue).client \/ In(Tail(queue), u)
           /\ \A i \in DOMAIN Tail(queue) : i + 1 \in DOMAIN queue /\ Tail(queue)[i] = queue[i + 1]
           /\ \A i \in DOMAIN queue : i = 1 \/ i - 1 \in DOMAIN Tail(queue)
           /\ Head(queue) = queue[1] /\ 1 \in DOMAIN queue
<1> DEFINE t == Tail(queue)  n == Len(queue)
<1>1. /\ n \in Nat /\ n # 0 /\ DOMAIN queue = 1..n
      /\ DOMAIN t = 1..(n - 1) /\ Head(queue) = queue[1]
      /\ \A i \in 1..(n - 1) : t[i] = queue[i + 1]
  OBVIOUS
<1> HIDE DEF t, n
<1>2. /\ \A i \in 1..(n - 1) : i + 1 \in 1..n
      /\ \A i \in 1..n : i = 1 \/ i - 1 \in 1..(n - 1)
      /\ \A i \in 1..n : (i - 1) + 1 = i
      /\ 1 \in 1..n
  BY <1>1
<1>3. ASSUME NEW u PROVE In(queue, u) => u = Head(queue).client \/ In(t, u)
  <2> SUFFICES ASSUME In(queue, u) PROVE u = Head(queue).client \/ In(t, u)
    OBVIOUS
  <2>1. PICK i \in 1..n : queue[i].client = u
    BY <1>1, Zenon DEF In
  <2>2. CASE i = 1
    BY <1>1, <2>1, <2>2
  <2>3. CASE i # 1
    <3>1. i - 1 \in 1..(n - 1) /\ (i - 1) + 1 = i
      BY <1>2, <2>3
    <3>2. t[i - 1] = queue[i]
      BY <1>1, <3>1
    <3> QED BY <1>1, <2>1, <3>1, <3>2, Zenon DEF In
  <2> QED BY <2>2, <2>3
<1>4. ASSUME NEW u PROVE u = Head(queue).client \/ In(t, u) => In(queue, u)
  BY <1>1, <1>2, Zenon DEF In
<1>5. \A u : In(queue, u) <=> u = Head(queue).client \/ In(t, u)
  BY <1>3, <1>4, Zenon
<1> QED BY <1>1, <1>2, <1>5, Zenon DEF t

\* The first of the queue becomes the current one.
LEMMA LineServed ==
    ASSUME NEW queue \in Seq(Entries), queue # <<>>, NEW ps, NEW alive, NEW lost,
           QueueOf(queue, ps, alive, lost)
    PROVE  LineOf(Head(queue).msg, Tail(queue), ps, alive, lost)
<1> DEFINE t == Tail(queue)  h == Head(queue)
<1>1. /\ \A u : In(queue, u) <=> u = h.client \/ In(t, u)
      /\ \A i \in DOMAIN t : i + 1 \in DOMAIN queue /\ t[i] = queue[i + 1]
      /\ \A i \in DOMAIN queue : i = 1 \/ i - 1 \in DOMAIN t
      /\ h = queue[1] /\ 1 \in DOMAIN queue
  BY InTail
<1>2. h \in Entries /\ DOMAIN queue \subseteq Nat /\ DOMAIN t \subseteq Nat \ {0}
  OBVIOUS
<1>3. h.client = h.msg.client
  BY <1>2, EntryIs
<1> HIDE DEF t, h
<1>4. ASSUME NEW u, NEW r, Newest(queue, u, r)
      PROVE  IF In(t, u) THEN Newest(t, u, r) ELSE h.msg = Outgoing(u, r)
  <2>1. PICK i \in DOMAIN queue :
           /\ queue[i].client = u /\ queue[i].msg = Outgoing(u, r)
           /\ \A j \in DOMAIN queue : queue[j].client = u => j <= i
    BY <1>4, Zenon DEF Newest
  <2>2. CASE In(t, u)
    <3>1. PICK k \in DOMAIN t : t[k].client = u
      BY <2>2 DEF In
    <3>2. queue[k + 1].client = u /\ k + 1 \in DOMAIN queue
      BY <1>1, <3>1, Zenon
    <3>3. k + 1 <= i
      BY <2>1, <3>2, Zenon
    <3>4. i # 1 /\ i \in Nat /\ k \in Nat \ {0}
      BY <1>2, <3>3
    <3>5. i - 1 \in DOMAIN t
      BY <1>1, <3>4, Zenon
    <3>6. t[i - 1] = queue[i]
      <4>1. (i - 1) + 1 = i
        BY <3>4
      <4> QED BY <1>1, <3>5, <4>1
    <3>7. ASSUME NEW j \in DOMAIN t, t[j].client = u PROVE j <= i - 1
      <4>1. j + 1 \in DOMAIN queue /\ queue[j + 1].client = u
        BY <1>1, <3>7, Zenon
      <4>2. j + 1 <= i
        BY <2>1, <4>1, Zenon
      <4>3. j \in Nat
        BY <1>2
      <4> QED BY <3>4, <4>2, <4>3
    <3> QED BY <2>1, <2>2, <3>5, <3>6, <3>7, Zenon DEF Newest
  <2>3. CASE ~In(t, u)
    <3>1. i = 1
      <4>1. ASSUME i # 1 PROVE FALSE
        <5>1. i - 1 \in DOMAIN t /\ i \in Nat
          BY <1>1, <1>2, <4>1
        <5>2. t[i - 1] = queue[i]
          <6>1. (i - 1) + 1 = i
            BY <5>1
          <6> QED BY <1>1, <5>1, <6>1
        <5> QED BY <2>1, <2>3, <5>1, <5>2, Zenon DEF In
      <4> QED BY <4>1
    <3> QED BY <1>1, <2>1, <2>3, <3>1
  <2> QED BY <2>2, <2>3
<1>5. QueueOf(t, ps, alive, lost)
  BY <1>1, <1>4, Zenon DEF QueueOf
<1>6. h.client \in alive \cup lost
  BY <1>1, Zenon DEF QueueOf
<1>7. ASSUME h.client \in alive, ps[h.client].active # <<>>, ~In(t, h.client)
      PROVE  h.msg = Outgoing(h.client, ps[h.client].active[1])
  <2>1. Newest(queue, h.client, ps[h.client].active[1])
    BY <1>1, <1>7, Zenon DEF QueueOf
  <2> QED BY <1>4, <1>7, <2>1
<1> QED BY <1>3, <1>5, <1>6, <1>7, Zenon DEF LineOf, t, h

\* A parser that gives its new active request to the sender.
LEMMA QueueGrows ==
    ASSUME NEW queue \in Seq(Entries), NEW ps, NEW qs, NEW alive, NEW lost,
           QueueOf(queue, ps, alive, lost),
           NEW u \in Users, u \in alive \cup lost, alive \subseteq Users,
           NEW r \in Requests, qs[u].active = <<r>>,
           \A v \in Users \ {u} : qs[v] = ps[v]
    PROVE  QueueOf(Append(queue, Entry(u, r)), qs, alive, lost)
<1> DEFINE longer == Append(queue, Entry(u, r))
<1>1. Entry(u, r) \in Entries /\ Entry(u, r).client = u /\ Entry(u, r).msg = Outgoing(u, r)
  BY EntryOf
<1>2. /\ \A v : In(longer, v) <=> In(queue, v) \/ v = u
      /\ \A i \in DOMAIN queue : i \in DOMAIN longer /\ longer[i] = queue[i]
      /\ \E k \in DOMAIN longer :
           /\ longer[k] = Entry(u, r)
           /\ \A i \in DOMAIN longer : i <= k /\ (i # k => i \in DOMAIN queue)
  BY <1>1, InAppend
<1> HIDE DEF longer
<1>3. PICK k \in DOMAIN longer :
         /\ longer[k] = Entry(u, r)
         /\ \A i \in DOMAIN longer : i <= k /\ (i # k => i \in DOMAIN queue)
  BY <1>2, Zenon
<1>4. Newest(longer, u, r)
  BY <1>1, <1>3, Zenon DEF Newest
<1>5. <<r>>[1] = r
  OBVIOUS
<1>6. ASSUME NEW v, v # u, NEW s, Newest(queue, v, s)
      PROVE  Newest(longer, v, s)
  <2>1. PICK i \in DOMAIN queue :
           /\ queue[i].client = v /\ queue[i].msg = Outgoing(v, s)
           /\ \A j \in DOMAIN queue : queue[j].client = v => j <= i
    BY <1>6, Zenon DEF Newest
  <2>2. \A j \in DOMAIN longer : longer[j].client = v => j \in DOMAIN queue /\ queue[j].client = v
    BY <1>1, <1>2, <1>3, <1>6, Zenon
  <2> QED BY <1>2, <2>1, <2>2, Zenon DEF Newest
<1>7. ASSUME NEW v, In(longer, v)
      PROVE  /\ v \in alive \cup lost
             /\ v \in alive /\ qs[v].active # <<>> => Newest(longer, v, qs[v].active[1])
  <2>1. CASE v = u
    BY <1>4, <1>5, <2>1
  <2>2. CASE v # u
    <3>1. In(queue, v)
      BY <1>2, <1>7, <2>2, Zenon
    <3>2. v \in alive => qs[v] = ps[v]
      BY <2>2
    <3> QED BY <1>6, <2>2, <3>1, <3>2, Zenon DEF QueueOf
  <2> QED BY <2>1, <2>2
<1> QED BY <1>7, Zenon DEF QueueOf, longer

\* The same, behind the current client's request.
LEMMA LineGrows ==
    ASSUME NEW m \in Transmissions,
           NEW queue \in Seq(Entries), NEW ps, NEW qs, NEW alive, NEW lost,
           LineOf(m, queue, ps, alive, lost),
           NEW u \in Users, u \in alive \cup lost, alive \subseteq Users,
           NEW r \in Requests, qs[u].active = <<r>>,
           \A v \in Users \ {u} : qs[v] = ps[v]
    PROVE  LineOf(m, Append(queue, Entry(u, r)), qs, alive, lost)
<1> DEFINE longer == Append(queue, Entry(u, r))
<1>1. QueueOf(longer, qs, alive, lost)
  BY QueueGrows DEF LineOf
<1>2. Entry(u, r) \in Entries /\ Entry(u, r).client = u
  BY EntryOf
<1>3. \A v : In(longer, v) <=> In(queue, v) \/ v = u
  BY <1>2, InAppend
<1> HIDE DEF longer
<1>4. m.client \in Users
  BY TransmissionIs
<1>5. ~In(longer, m.client) => ~In(queue, m.client) /\ qs[m.client] = ps[m.client]
  BY <1>3, <1>4
<1> QED BY <1>1, <1>5, Zenon DEF LineOf, longer

\* Whoever lives now and has an active request had it before.
NothingNew(ps, alive, qs, alive2) ==
    \A u \in alive2 : qs[u].active = <<>> \/ (u \in alive /\ qs[u].active = ps[u].active)

\* Parsers become free, and users come and go.
LEMMA QueueStays ==
    ASSUME NEW queue, NEW ps, NEW qs, NEW alive, NEW alive2, NEW lost, NEW lost2,
           QueueOf(queue, ps, alive, lost), NothingNew(ps, alive, qs, alive2),
           \A u : In(queue, u) /\ u \in alive \cup lost => u \in alive2 \cup lost2
    PROVE  QueueOf(queue, qs, alive2, lost2)
<1> SUFFICES ASSUME NEW u, In(queue, u)
             PROVE  /\ u \in alive2 \cup lost2
                    /\ u \in alive2 /\ qs[u].active # <<>> => Newest(queue, u, qs[u].active[1])
  BY Zenon DEF QueueOf
<1>1. /\ u \in alive \cup lost
      /\ u \in alive /\ ps[u].active # <<>> => Newest(queue, u, ps[u].active[1])
  BY Zenon DEF QueueOf
<1>2. ASSUME u \in alive2, qs[u].active # <<>>
      PROVE  Newest(queue, u, qs[u].active[1])
  <2>1. u \in alive /\ qs[u].active = ps[u].active
    BY <1>2, Zenon DEF NothingNew
  <2> QED BY <1>1, <1>2, <2>1
<1> QED BY <1>1, <1>2

\* The same, with the current client's request.
LEMMA LineStays ==
    ASSUME NEW m, NEW queue, NEW ps, NEW qs, NEW alive, NEW alive2, NEW lost, NEW lost2,
           LineOf(m, queue, ps, alive, lost), NothingNew(ps, alive, qs, alive2),
           \A u : (In(queue, u) \/ m.client = u) /\ u \in alive \cup lost =>
                     u \in alive2 \cup lost2
    PROVE  LineOf(m, queue, qs, alive2, lost2)
<1>1. QueueOf(queue, ps, alive, lost)
  BY DEF LineOf
<1>2. QueueOf(queue, qs, alive2, lost2)
  BY <1>1, QueueStays
<1>3. m.client \in alive2 \cup lost2
  BY DEF LineOf
<1>4. ASSUME m.client \in alive2, qs[m.client].active # <<>>, ~In(queue, m.client)
      PROVE  m = Outgoing(m.client, qs[m.client].active[1])
  <2>1. m.client \in alive /\ qs[m.client].active = ps[m.client].active
    BY <1>4, Zenon DEF NothingNew
  <2> QED BY <1>4, <2>1 DEF LineOf
<1> QED BY <1>2, <1>3, <1>4, Zenon DEF LineOf

\* continueWithNextRequest serves the next client, or there is none.
LEMMA ServeNext ==
    ASSUME TypesInv, sendTimer = Scheduler!Off,
           NEW queue \in Seq(Entries), Continued(queue, Scheduler!Off, <<>>),
           bus' = sent', QueueOf(queue, parsers', live', abandoned')
    PROVE  StageInv'
<1>1. /\ delayed = NoMessage /\ Scheduler!Superseded = <<>>
      /\ <<>> \o <<>> = <<>>
  BY DEF TypesInv, SchedulerTypes, Scheduler!Superseded
<1>2. RequestTimeout # Scheduler!Off /\ Scheduler!Off \notin Nat
  BY SenderAssumption DEF Scheduler!Off
<1>3. CASE queue = <<>>
  <2>1. /\ currentClient' = NoClient /\ pending' = <<>> /\ responseTimeout' = Scheduler!Off
        /\ ready' = <<>> /\ sent' = <<>> /\ sendTimer' = Scheduler!Off
    BY <1>3 DEF Continued
  <2> QED BY <2>1 DEF StageInv, Idle
<1>4. CASE queue # <<>>
  <2> DEFINE m == Head(queue).msg
  <2>1. Head(queue) \in Entries
    BY <1>4
  <2>2. m \in Transmissions /\ m.client = Head(queue).client
    BY <2>1, EntryIs
  <2>3. LineOf(m, Tail(queue), parsers', live', abandoned')
    BY <1>4, LineServed
  <2>4. /\ currentClient' = m.client /\ pending' = Tail(queue)
        /\ Forwarded(m, Scheduler!Off, <<>>)
    BY <1>4, <2>2 DEF Continued
  <2> HIDE DEF m
  <2>5. Flight(m)'
    <3>1. CASE /\ sendTimer' \in Nat /\ delayed' = m
               /\ responseTimeout' = Scheduler!Off /\ sent' = <<>>
               /\ ready' = <<>> \o Scheduler!Superseded
      <4>1. sendTimer' # Scheduler!Off /\ ready' = <<>> /\ bus' = <<>>
        BY <1>1, <1>2, <3>1
      <4> QED BY <3>1, <4>1, Zenon DEF Flight, Delayed
    <3>2. CASE /\ sendTimer' = sendTimer /\ delayed' = delayed
               /\ responseTimeout' = RequestTimeout /\ sent' = <<m>>
               /\ ready' = <<>>
      BY <1>2, <3>2, Zenon DEF Flight, Out
    <3> QED BY <2>4, <3>1, <3>2 DEF Forwarded
  <2> QED BY <2>2, <2>3, <2>4, <2>5, Zenon DEF StageInv
<1> QED BY <1>3, <1>4

-----------------------------------------------------------------------------
(* The steps *)

\* What went out joins an empty bus.
LEMMA EmptyBus ==
    ASSUME sent' \in Sents
    PROVE  <<>> \o sent' = sent'
<1>1. \A m \in Transmissions : <<>> \o <<m>> = <<m>>
  OBVIOUS
<1>2. <<>> \o <<>> = <<>>
  OBVIOUS
<1> QED BY <1>1, <1>2, Zenon DEF Sents

\* The queue after a callback.
LEMMA ResultStays ==
    ASSUME TypesInv, NEW m, LineOf(m, pending, parsers, live, abandoned),
           m.client = currentClient, currentClient \in Users,
           NEW result, Result(result), Take(result), UNCHANGED lifeVars,
           NEW queue \in Seq(Entries), QueuedAfter(queue, result)
    PROVE  QueueOf(queue, parsers', live', abandoned')
<1>1. /\ parsers' = result.parsers /\ live' = live /\ abandoned' = abandoned
      /\ live \subseteq Users /\ pending \in Seq(Entries)
  BY DEF Take, lifeVars, TypesInv, UserTypes, SchedulerTypes
<1>2. QueueOf(pending, parsers, live, abandoned) /\ currentClient \in live \cup abandoned
  BY DEF LineOf
<1>3. /\ \A v \in Users \ {currentClient} : parsers'[v] = parsers[v]
      /\ Leaves(parsers[currentClient], parsers'[currentClient], result.sends)
  BY <1>1 DEF Result, OnlyCurrent
<1>4. CASE result.sends = <<>> /\ queue = pending
  <2>1. NothingNew(parsers, live, parsers', live)
    BY <1>1, <1>3, <1>4 DEF NothingNew, Leaves
  <2> QED BY <1>1, <1>2, <1>4, <2>1, QueueStays
<1>5. ASSUME NEW r \in Requests, result.parsers[currentClient].active = <<r>>,
             queue = Append(pending, Entry(currentClient, r))
      PROVE  QueueOf(queue, parsers', live', abandoned')
  <2>1. parsers'[currentClient].active = <<r>>
    BY <1>1, <1>5
  <2>2. QueueOf(Append(pending, Entry(currentClient, r)), parsers', live, abandoned)
    BY <1>1, <1>2, <1>3, <2>1, QueueGrows
  <2> QED BY <1>1, <1>5, <2>2
<1> QED BY <1>4, <1>5 DEF QueuedAfter

\* A client has the request in flight.
LEMMA FlightIs ==
    ASSUME TypesInv, StageInv, ~Idle
    PROVE  \E m \in Transmissions :
             /\ m.client = currentClient /\ currentClient \in Users /\ Flight(m)
             /\ LineOf(m, pending, parsers, live, abandoned)
<1>1. \A m \in Transmissions : m.client \in Users
  BY TransmissionIs
<1> QED BY <1>1, Zenon DEF StageInv

\* While the bus has a request, it is the current client's.
LEMMA OutIs ==
    ASSUME TypesInv, StageInv, bus # <<>>
    PROVE  \E m \in Transmissions :
             /\ m.client = currentClient /\ currentClient \in Users
             /\ LineOf(m, pending, parsers, live, abandoned)
             /\ bus = <<m>> /\ ready = <<>> /\ sendTimer = Scheduler!Off
             /\ responseTimeout # Scheduler!Off
<1>1. ~Idle
  BY DEF Idle
<1> QED BY <1>1, FlightIs DEF Flight, Delayed, Leaving, Out, Expired

\* A device answers.
LEMMA AnswerStep ==
    ASSUME IInv, AnswerArrives
    PROVE  StageInv'
<1>1. TypesInv /\ StageInv /\ bus # <<>>
  BY DEF IInv, AnswerArrives
<1>2. PICK m \in Transmissions :
             /\ m.client = currentClient /\ currentClient \in Users
             /\ LineOf(m, pending, parsers, live, abandoned)
             /\ bus = <<m>> /\ ready = <<>> /\ sendTimer = Scheduler!Off
  BY <1>1, OutIs
<1>3. PICK result : \E queue \in Seq(Entries), ages \in Ages :
             /\ Result(result) /\ Take(result) /\ QueuedAfter(queue, result)
             /\ Scheduler!ContinueWithNextRequest(queue, Scheduler!Off, ages, ready)
  BY <1>1, AnswerResult
<1>4. PICK queue \in Seq(Entries), ages \in Ages :
             /\ QueuedAfter(queue, result)
             /\ Scheduler!ContinueWithNextRequest(queue, Scheduler!Off, ages, ready)
  BY <1>3
<1>5. UNCHANGED lifeVars /\ bus' = Tail(bus) \o sent'
  BY DEF AnswerArrives, Unaffected, BusBecomes
<1>6. QueueOf(queue, parsers', live', abandoned')
  BY <1>1, <1>2, <1>3, <1>4, <1>5, ResultStays
<1>7. Continued(queue, Scheduler!Off, <<>>)
  BY <1>2, <1>4, ContinueIs
<1>8. TypesInv'
  BY <1>1, AnswerTypes
<1>9. bus' = sent'
  <2>1. sent' \in Sents /\ Tail(bus) = <<>>
    BY <1>2, <1>8 DEF TypesInv, SchedulerTypes
  <2> QED BY <1>5, <2>1, EmptyBus
<1> QED BY <1>1, <1>2, <1>6, <1>7, <1>9, ServeNext

\* The response timer's handler runs.
LEMMA TimeoutStep ==
    ASSUME IInv, HandleResponseTimeout
    PROVE  StageInv'
<1>1. TypesInv /\ StageInv /\ ready # <<>> /\ Head(ready) = Scheduler!TimedOut
  BY DEF IInv, HandleResponseTimeout, Scheduler!HandleResponseTimeout
<1>2. PICK m \in Transmissions :
             /\ m.client = currentClient /\ currentClient \in Users /\ Flight(m)
             /\ LineOf(m, pending, parsers, live, abandoned)
  <2>1. ~Idle
    BY <1>1 DEF Idle
  <2> QED BY <1>1, <2>1, FlightIs
<1>3. Expired
  <2>1. Scheduler!SendOf(m) # Scheduler!TimedOut
    <3>1. Scheduler!SendOf(m).kind # Scheduler!TimedOut.kind
      BY DEF Scheduler!SendOf, Scheduler!TimedOut
    <3> QED BY <3>1
  <2>2. ~Leaving(m)
    BY <1>1, <2>1 DEF Leaving
  <2> QED BY <1>1, <1>2, <2>2 DEF Flight, Delayed, Out
<1>4. PICK result : \E queue \in Seq(Entries) :
             /\ Result(result) /\ Take(result) /\ QueuedAfter(queue, result)
             /\ Scheduler!ContinueWithNextRequest(queue, responseTimeout, age, Tail(ready))
  BY <1>1, TimeoutResult
<1>5. PICK queue \in Seq(Entries) :
             /\ QueuedAfter(queue, result)
             /\ Scheduler!ContinueWithNextRequest(queue, responseTimeout, age, Tail(ready))
  BY <1>4
<1>6. UNCHANGED lifeVars /\ bus' = bus \o sent'
  BY DEF HandleResponseTimeout, Unaffected, BusBecomes
<1>7. QueueOf(queue, parsers', live', abandoned')
  BY <1>1, <1>2, <1>4, <1>5, <1>6, ResultStays
<1>8. responseTimeout = Scheduler!Off /\ Tail(ready) = <<>> /\ bus = <<>>
      /\ sendTimer = Scheduler!Off /\ age \in Ages
  BY <1>1, <1>3 DEF Expired, TypesInv, SchedulerTypes
<1>9. Continued(queue, Scheduler!Off, <<>>)
  BY <1>5, <1>8, ContinueIs
<1>10. TypesInv'
  BY <1>1, TimeoutTypes
<1>11. bus' = sent'
  <2>1. sent' \in Sents
    BY <1>10 DEF TypesInv, SchedulerTypes
  <2> QED BY <1>6, <1>8, <2>1, EmptyBus
<1> QED BY <1>1, <1>7, <1>8, <1>9, <1>11, ServeNext

\* The parsers, the users and the queue are left alone.
Same == UNCHANGED <<currentClient, pending, parsers, live, abandoned>>

\* The request in flight gets on.
LEMMA SameLine ==
    ASSUME NEW m \in Transmissions, m.client = currentClient,
           LineOf(m, pending, parsers, live, abandoned), Same, Flight(m)'
    PROVE  StageInv'
BY DEF Same, StageInv

\* The sender's timers.
LEMMA SenderStepKeeps ==
    ASSUME IInv, SenderStep
    PROVE  StageInv'
<1>1. TypesInv /\ StageInv /\ SchedulerTypes
  BY DEF IInv, TypesInv
<1>2. UNCHANGED <<parsers, live, abandoned>>
  BY DEF SenderStep, Unaffected, lifeVars
<1>3. 0 # Scheduler!Off /\ RequestTimeout # Scheduler!Off
  BY SenderAssumption DEF Scheduler!Off
<1>4. \A m : Scheduler!SendOf(m) # Scheduler!TimedOut /\ Scheduler!SendOf(m).msg = m
  <2>1. \A m : Scheduler!SendOf(m).kind # Scheduler!TimedOut.kind
    BY DEF Scheduler!SendOf, Scheduler!TimedOut
  <2> QED BY <2>1 DEF Scheduler!SendOf
<1>5. CASE Scheduler!HandleSendTimer /\ BusBecomes(bus)
  <2>1. /\ ready # <<>> /\ Head(ready) # Scheduler!TimedOut
        /\ sent' = <<Head(ready).msg>> /\ responseTimeout' = RequestTimeout
        /\ ready' = Tail(ready) /\ bus' = bus \o sent'
        /\ UNCHANGED <<currentClient, pending, sendTimer, delayed>>
    BY <1>5 DEF Scheduler!HandleSendTimer, Scheduler!DoSendMessage, BusBecomes
  <2>2. ~Idle
    BY <2>1 DEF Idle
  <2>3. PICK m \in Transmissions :
             /\ m.client = currentClient /\ Flight(m)
             /\ LineOf(m, pending, parsers, live, abandoned)
    BY <1>1, <2>2, FlightIs
  <2>4. Leaving(m)
    BY <2>1, <2>3 DEF Flight, Delayed, Out, Expired
  <2>5. sent' = <<m>> /\ ready' = <<>> /\ bus' = <<m>> /\ sendTimer' = Scheduler!Off
    BY <1>4, <2>1, <2>4 DEF Leaving
  <2>6. Flight(m)'
    BY <1>3, <2>1, <2>5 DEF Flight, Out
  <2> QED BY <1>2, <2>1, <2>3, <2>6, SameLine DEF Same
<1>6. CASE Scheduler!ResponseTimeoutExpires /\ bus' = <<>>
  <2>1. /\ responseTimeout = 0 /\ responseTimeout' = Scheduler!Off
        /\ ready' = Append(ready, Scheduler!TimedOut)
        /\ UNCHANGED <<currentClient, pending, sendTimer, delayed>>
    BY <1>6 DEF Scheduler!ResponseTimeoutExpires
  <2>2. ~Idle
    BY <1>3, <2>1 DEF Idle
  <2>3. PICK m \in Transmissions :
             /\ m.client = currentClient /\ Flight(m)
             /\ LineOf(m, pending, parsers, live, abandoned)
    BY <1>1, <2>2, FlightIs
  <2>4. Out(m)
    BY <1>3, <2>1, <2>3 DEF Flight, Delayed, Leaving, Expired
  <2>5. ready' = <<Scheduler!TimedOut>> /\ sendTimer' = Scheduler!Off
    BY <2>1, <2>4 DEF Out
  <2>6. Flight(m)'
    BY <1>6, <2>1, <2>5 DEF Flight, Expired
  <2> QED BY <1>2, <2>1, <2>3, <2>6, SameLine DEF Same
<1>7. CASE Scheduler!SendTimerExpires /\ bus' = bus
  <2>1. /\ sendTimer = 0 /\ sendTimer' = Scheduler!Off
        /\ ready' = Append(ready, Scheduler!SendOf(delayed))
        /\ UNCHANGED <<currentClient, pending, responseTimeout>>
    BY <1>7 DEF Scheduler!SendTimerExpires
  <2>2. ~Idle
    BY <1>3, <2>1 DEF Idle
  <2>3. PICK m \in Transmissions :
             /\ m.client = currentClient /\ Flight(m)
             /\ LineOf(m, pending, parsers, live, abandoned)
    BY <1>1, <2>2, FlightIs
  <2>4. Delayed(m)
    BY <1>3, <2>1, <2>3 DEF Flight, Leaving, Out, Expired
  <2>5. ready' = <<Scheduler!SendOf(m)>>
    BY <2>1, <2>4 DEF Delayed
  <2>6. Flight(m)'
    BY <1>7, <2>1, <2>4, <2>5 DEF Flight, Delayed, Leaving
  <2> QED BY <1>2, <2>1, <2>3, <2>6, SameLine DEF Same
<1>8. CASE Scheduler!Tick /\ bus' = bus
  <2>1. /\ responseTimeout' = Scheduler!Elapse(responseTimeout)
        /\ sendTimer' = Scheduler!Elapse(sendTimer)
        /\ UNCHANGED <<currentClient, pending, delayed, ready>>
    BY <1>8 DEF Scheduler!Tick
  <2>2. \A t \in Timers : Scheduler!Elapse(t) = Scheduler!Off <=> t = Scheduler!Off
    BY DEF Scheduler!Elapse, Timers, Scheduler!Off
  <2>3. /\ responseTimeout' = Scheduler!Off <=> responseTimeout = Scheduler!Off
        /\ sendTimer' = Scheduler!Off <=> sendTimer = Scheduler!Off
    BY <1>1, <2>1, <2>2 DEF SchedulerTypes
  <2>4. CASE Idle
    BY <1>8, <2>1, <2>3, <2>4 DEF Idle, StageInv
  <2>5. CASE ~Idle
    <3>1. PICK m \in Transmissions :
             /\ m.client = currentClient /\ Flight(m)
             /\ LineOf(m, pending, parsers, live, abandoned)
      BY <1>1, <2>5, FlightIs
    <3>2. Flight(m)'
      BY <1>8, <2>1, <2>3, <3>1 DEF Flight, Delayed, Leaving, Out, Expired
    <3> QED BY <1>2, <2>1, <3>1, <3>2, SameLine DEF Same
  <2> QED BY <2>4, <2>5
<1> QED BY <1>5, <1>6, <1>7, <1>8 DEF SenderStep

\* A request is lost on the bus.
LEMMA LostStep ==
    ASSUME IInv, RequestLost
    PROVE  StageInv'
<1>1. TypesInv /\ StageInv /\ bus # <<>> /\ bus' = Tail(bus)
  BY DEF IInv, RequestLost
<1>2. UNCHANGED schedulerVars /\ Same
  BY DEF RequestLost, Unaffected, lifeVars, schedulerVars, Same
<1>3. PICK m \in Transmissions :
             /\ m.client = currentClient /\ LineOf(m, pending, parsers, live, abandoned)
             /\ bus = <<m>> /\ ready = <<>> /\ sendTimer = Scheduler!Off
             /\ responseTimeout # Scheduler!Off
  BY <1>1, OutIs
<1>4. bus' = <<>>
  BY <1>1, <1>3
<1>5. Flight(m)'
  BY <1>2, <1>3, <1>4 DEF schedulerVars, Flight, Out
<1> QED BY <1>2, <1>3, <1>5, SameLine

\* The sender does not notice, and no parser gets a request.
LEMMA UnnoticedStep ==
    ASSUME IInv, UNCHANGED schedulerVars, UNCHANGED bus,
           NothingNew(parsers, live, parsers', live'),
           \A u : (In(pending, u) \/ currentClient = u) /\ u \in live \cup abandoned =>
                     u \in live' \cup abandoned'
    PROVE  StageInv'
<1>1. TypesInv /\ StageInv
  BY DEF IInv
<1>2. CASE Idle
  BY <1>2 DEF Idle, StageInv, schedulerVars
<1>3. CASE ~Idle
  <2>1. PICK m \in Transmissions :
             /\ m.client = currentClient /\ Flight(m)
             /\ LineOf(m, pending, parsers, live, abandoned)
    BY <1>1, <1>3, FlightIs
  <2>2. LineOf(m, pending, parsers', live', abandoned')
    BY <2>1, LineStays
  <2>3. Flight(m)' /\ m.client = currentClient' /\ pending' = pending
    BY <2>1 DEF schedulerVars, Flight, Delayed, Leaving, Out, Expired
  <2> QED BY <2>2, <2>3, Zenon DEF StageInv
<1> QED BY <1>2, <1>3

\* A parser called by its user hands over what it sends.
LEMMA SendStep ==
    ASSUME IInv, TypesInv', NEW u \in live, NEW q, NEW sends, Leaves(parsers[u], q, sends),
           Send(u, sends), parsers' = [parsers EXCEPT ![u] = q], UNCHANGED lifeVars
    PROVE  StageInv'
<1>1. /\ TypesInv /\ StageInv /\ live \subseteq Users /\ u \in Users
      /\ pending \in Seq(Entries)
  BY DEF IInv, TypesInv, UserTypes, SchedulerTypes
<1>2. /\ parsers'[u] = q /\ \A v \in Users \ {u} : parsers'[v] = parsers[v]
      /\ live' = live /\ abandoned' = abandoned
  BY <1>1 DEF TypesInv, UserTypes, lifeVars
<1>3. CASE sends = <<>>
  <2>1. UNCHANGED schedulerVars /\ UNCHANGED bus
    BY <1>3 DEF Send
  <2>2. NothingNew(parsers, live, parsers', live')
    BY <1>1, <1>2, <1>3 DEF Leaves, NothingNew
  <2> QED BY <1>2, <2>1, <2>2, UnnoticedStep
<1>4. CASE sends # <<>>
  <2>1. PICK r \in Requests : sends = <<r>> /\ q.active = <<r>>
    BY <1>4, LeavesSends DEF SendsActive
  <2>2. Scheduler!SendMessage(u, Outgoing(u, r)) /\ bus' = bus \o sent'
    BY <2>1 DEF Send, BusBecomes
  <2>3. parsers'[u].active = <<r>> /\ u \in live \cup abandoned
    BY <1>2, <2>1
  <2>4. CASE Idle
    <3> DEFINE queue == Append(<<>>, Entry(u, r))
    <3>1. /\ currentClient = NoClient /\ pending = <<>> /\ ready = <<>> /\ bus = <<>>
          /\ responseTimeout = Scheduler!Off /\ sendTimer = Scheduler!Off
      BY <2>4 DEF Idle
    <3>2. Scheduler!ContinueWithNextRequest(queue, Scheduler!Off, age, <<>>)
      BY <2>2, <3>1 DEF Scheduler!SendMessage, Entry
    <3>3. QueueOf(<<>>, parsers, live, abandoned)
      BY DEF QueueOf, In
    <3>4. QueueOf(queue, parsers', live', abandoned')
      <4>1. <<>> \in Seq(Entries)
        OBVIOUS
      <4>2. QueueOf(queue, parsers', live, abandoned)
        BY <1>1, <1>2, <2>3, <3>3, <4>1, QueueGrows
      <4> HIDE DEF queue
      <4> QED BY <1>2, <4>2
    <3>5. queue \in Seq(Entries)
      BY <1>1, EntryOf
    <3>6. age \in Ages /\ sent' \in Sents
      BY <1>1 DEF TypesInv, SchedulerTypes
    <3> HIDE DEF queue
    <3>7. Continued(queue, Scheduler!Off, <<>>)
      BY <3>2, <3>5, <3>6, ContinueIs
    <3>8. bus' = sent'
      BY <2>2, <3>1, <3>6, EmptyBus
    <3> QED BY <1>1, <3>1, <3>4, <3>5, <3>7, <3>8, ServeNext
  <2>5. CASE ~Idle
    <3>1. PICK m \in Transmissions :
             /\ m.client = currentClient /\ currentClient \in Users /\ Flight(m)
             /\ LineOf(m, pending, parsers, live, abandoned)
      BY <1>1, <2>5, FlightIs
    <3>2. /\ pending' = Append(pending, Entry(u, r)) /\ sent' = <<>>
          /\ UNCHANGED <<currentClient, Scheduler!timers, ready>>
      BY <2>2, <3>1, UsersAssumption DEF Scheduler!SendMessage, Entry
    <3>3. LineOf(m, pending', parsers', live', abandoned')
      BY <1>1, <1>2, <2>3, <3>1, <3>2, LineGrows
    <3>4. bus' = bus
      <4>1. bus \in Seq(Transmissions)
        BY <1>1 DEF TypesInv
      <4> QED BY <2>2, <3>2, <4>1
    <3>5. Flight(m)'
      BY <3>1, <3>2, <3>4 DEF Scheduler!timers, Flight, Delayed, Leaving, Out, Expired
    <3> QED BY <3>1, <3>2, <3>3, <3>5, Zenon DEF StageInv
  <2> QED BY <2>4, <2>5
<1> QED BY <1>3, <1>4

\* A line is typed.
LEMMA HandleRequestStep ==
    ASSUME IInv, NEW c \in Connections, NEW command \in Lines[c], HandleRequest(c, command)
    PROVE  StageInv'
<1> DEFINE o == Parse(parsers[c], command)
<1>1. /\ c \in live /\ Send(c, o.sends) /\ parsers' = [parsers EXCEPT ![c] = o.parser]
      /\ UNCHANGED lifeVars
  BY DEF HandleRequest
<1>2. TypesInv /\ c \in Users /\ command \in Commands
  BY UsersAssumption DEF IInv, Users
<1>3. Leaves(parsers[c], o.parser, o.sends)
  BY <1>2, ParseLeaves DEF TypesInv, UserTypes
<1>4. TypesInv'
  BY <1>2, HandleRequestTypes
<1> HIDE DEF o
<1> QED BY <1>1, <1>3, <1>4, SendStep

\* A message comes from the broker.
LEMMA ReceiveStep ==
    ASSUME IInv, NEW message \in Received, OnMessageReceived(message)
    PROVE  StageInv'
<1> DEFINE queue == Append(waiting, message)  next == SendNextRequest(parsers[Mqtt], queue)
<1>1. TypesInv /\ UserTypes /\ Mqtt \in Users /\ waiting \in Seq(Received)
  BY DEF IInv, TypesInv, UserTypes, Users
<1>2. queue \in Seq(Received)
  BY <1>1
<1>3. UNCHANGED lifeVars
  BY DEF OnMessageReceived
<1>4. CASE Mqtt \in live
  <2>1. Send(Mqtt, next.sends) /\ parsers' = [parsers EXCEPT ![Mqtt] = next.parser]
    BY <1>4 DEF OnMessageReceived
  <2>2. Leaves(parsers[Mqtt], next.parser, next.sends)
    BY <1>1, <1>2, NextLeaves DEF UserTypes
  <2>3. TypesInv'
    BY <1>1, ReceiveTypes
  <2> HIDE DEF next
  <2> QED BY <1>3, <1>4, <2>1, <2>2, <2>3, SendStep
<1>5. CASE Mqtt \notin live
  <2>1. UNCHANGED <<schedulerVars, bus, parsers>>
    BY <1>5 DEF OnMessageReceived
  <2>2. NothingNew(parsers, live, parsers', live')
    BY <1>3, <2>1 DEF NothingNew, lifeVars
  <2> QED BY <1>3, <2>1, <2>2, UnnoticedStep DEF lifeVars
<1> QED BY <1>4, <1>5

\* A user is lost: what the sender holds of it is remembered.
LEMMA AbandonStays ==
    ASSUME NEW u, Abandon(u), UNCHANGED parsers
    PROVE  /\ NothingNew(parsers, live, parsers', live')
           /\ \A v : (In(pending, v) \/ currentClient = v) /\ v \in live \cup abandoned =>
                        v \in live' \cup abandoned'
<1>1. \A v : In(pending, v) \/ currentClient = v => Held(v)
  BY DEF In, Held, Waits
<1>2. live' = live \ {u} /\ abandoned \subseteq abandoned' /\ (Held(u) => u \in abandoned')
  BY DEF Abandon
<1>3. NothingNew(parsers, live, parsers', live')
  BY <1>2 DEF NothingNew
<1> QED BY <1>1, <1>2, <1>3

\* Users that come and go.
LEMMA LifeStep ==
    ASSUME IInv,
           \/ \E c \in Connections : HandleAccept(c) \/ StopConnection(c)
           \/ \E g \in Garbage : OnConnect(g)
           \/ BrokerStep \/ ProgramEnds
    PROVE  StageInv'
<1>1. TypesInv /\ UserTypes
  BY DEF IInv, TypesInv
<1>2. UNCHANGED schedulerVars /\ UNCHANGED bus
  BY DEF HandleAccept, StopConnection, OnConnect, BrokerStep, OnConnectRefused, OnError, OnClose,
         Disconnected, RetryTimerExpires, HandleRetryTimer, ProgramEnds, SenderUnaware
<1>3. ASSUME NEW c \in Connections, HandleAccept(c)
      PROVE  StageInv'
  <2>1. /\ c \notin live \cup gone /\ live' = live \cup {c} /\ UNCHANGED <<parsers, abandoned>>
    BY <1>3 DEF HandleAccept
  <2>2. NothingNew(parsers, live, parsers', live')
    BY <1>1, <2>1 DEF UserTypes, NothingNew
  <2> QED BY <1>2, <2>1, <2>2, UnnoticedStep
<1>4. ASSUME NEW c \in Connections, StopConnection(c)
      PROVE  StageInv'
  BY <1>2, <1>4, AbandonStays, UnnoticedStep DEF StopConnection
<1>5. ASSUME NEW g \in Garbage, OnConnect(g)
      PROVE  StageInv'
  <2>1. /\ live' = live \cup {Mqtt} /\ parsers' = [parsers EXCEPT ![Mqtt] = NewParser(g)]
        /\ abandoned \subseteq abandoned'
    BY <1>5 DEF OnConnect
  <2>2. parsers'[Mqtt].active = <<>> /\ \A v \in Users \ {Mqtt} : parsers'[v] = parsers[v]
    <3>1. parsers'[Mqtt] = NewParser(g) /\ \A v \in Users \ {Mqtt} : parsers'[v] = parsers[v]
      BY <1>1, <2>1 DEF UserTypes, Users
    <3> QED BY <3>1, NewParserIs
  <2>3. NothingNew(parsers, live, parsers', live')
    BY <1>1, <2>1, <2>2 DEF UserTypes, NothingNew
  <2> QED BY <1>2, <2>1, <2>3, UnnoticedStep
<1>6. ASSUME OnError \/ OnClose PROVE StageInv'
  <2>1. Abandon(Mqtt) /\ UNCHANGED parsers
    BY <1>6 DEF OnError, OnClose, Disconnected
  <2> QED BY <1>2, <2>1, AbandonStays, UnnoticedStep
<1>7. ASSUME OnConnectRefused \/ RetryTimerExpires \/ HandleRetryTimer \/ ProgramEnds
      PROVE  StageInv'
  <2>1. UNCHANGED <<parsers, live, abandoned>>
    BY <1>7 DEF OnConnectRefused, RetryTimerExpires, HandleRetryTimer, ProgramEnds, lifeVars
  <2>2. NothingNew(parsers, live, parsers', live')
    BY <2>1 DEF NothingNew
  <2> QED BY <1>2, <2>1, <2>2, UnnoticedStep
<1> QED BY <1>3, <1>4, <1>5, <1>6, <1>7 DEF BrokerStep

\* The inductive invariant, to begin with.
LEMMA InitInv == Init => IInv
<1> SUFFICES ASSUME Init PROVE IInv
  OBVIOUS
<1>1. Idle
  BY DEF Init, Scheduler!Init, Idle
<1> QED BY <1>1, InitTypes DEF IInv, StageInv

\* Every step keeps it.
LEMMA NextInv == IInv /\ [Next]_vars => IInv'
<1> SUFFICES ASSUME IInv, [Next]_vars PROVE IInv'
  OBVIOUS
<1>1. TypesInv'
  BY NextTypes DEF IInv
<1>2. CASE ConnectionStep
  BY <1>1, <1>2, HandleRequestStep, LifeStep DEF ConnectionStep, IInv
<1>3. CASE AdapterStep
  <2>1. StageInv'
    BY <1>3, ReceiveStep, LifeStep, MessagesReceived, Zenon DEF AdapterStep, BrokerStep
  <2> QED BY <1>1, <2>1 DEF IInv
<1>4. CASE SenderAndBusStep
  BY <1>1, <1>4, AnswerStep, TimeoutStep, LostStep, SenderStepKeeps, LifeStep
  DEF SenderAndBusStep, IInv
<1>5. CASE UNCHANGED vars
  <2>1. UNCHANGED schedulerVars /\ UNCHANGED <<parsers, live, abandoned>> /\ UNCHANGED bus
    BY <1>5 DEF vars, lifeVars
  <2>2. NothingNew(parsers, live, parsers', live')
    BY <2>1 DEF NothingNew
  <2> QED BY <1>1, <2>1, <2>2, UnnoticedStep DEF IInv
<1> QED BY <1>2, <1>3, <1>4, <1>5 DEF Next

-----------------------------------------------------------------------------
(* The theorems *)

\* The adapter's queue is kept with its reason.
LEMMA ReasonKept == TypesInv /\ WaitsForAReason /\ [Next]_vars => WaitsForAReason'
<1> SUFFICES ASSUME TypesInv, WaitsForAReason, [Next]_vars PROVE WaitsForAReason'
  OBVIOUS
<1>1. UserTypes /\ Mqtt \in Users /\ Mqtt \notin Connections
  BY UsersAssumption DEF TypesInv, Users
<1>2. ASSUME NEW message, OnMessageReceived(message) PROVE WaitsForAReason'
  <2> DEFINE next == SendNextRequest(parsers[Mqtt], Append(waiting, message))
  <2>1. live' = live
    BY <1>2 DEF OnMessageReceived, lifeVars
  <2>2. CASE Mqtt \in live
    <3>1. /\ parsers' = [parsers EXCEPT ![Mqtt] = next.parser] /\ waiting' = next.waiting
          /\ stalled' = Stalled(next)
      BY <1>2, <2>2 DEF OnMessageReceived
    <3>2. next.waiting # <<>> /\ next.parser.active = <<>> => Stalled(next) # "no"
      BY StalledIs
    <3> HIDE DEF next
    <3>3. parsers'[Mqtt] = next.parser
      BY <1>1, <3>1 DEF UserTypes
    <3> QED BY <3>1, <3>2, <3>3 DEF WaitsForAReason
  <2>3. CASE Mqtt \notin live
    BY <2>1, <2>3 DEF WaitsForAReason
  <2> QED BY <2>2, <2>3
<1>3. ASSUME NEW g \in Garbage, OnConnect(g) PROVE WaitsForAReason'
  <2>1. waiting' = waiting /\ stalled' = IF waiting = <<>> THEN "no" ELSE "reconnected"
    BY <1>3 DEF OnConnect, SenderUnaware
  <2>2. "no" # "reconnected"
    OBVIOUS
  <2> QED BY <2>1, <2>2 DEF WaitsForAReason
<1>4. CASE AnswerArrives \/ HandleResponseTimeout
  <2>1. WaitsAsBefore(parsers', waiting', stalled')
    BY <1>4, AnswerResult, TimeoutResult
  <2>2. live' = live
    BY <1>4 DEF AnswerArrives, HandleResponseTimeout, Unaffected, lifeVars
  <2> QED BY <2>1, <2>2 DEF WaitsAsBefore, WaitsForAReason
<1>5. ASSUME NEW c \in Connections, NEW command, HandleRequest(c, command)
      PROVE  WaitsForAReason'
  <2>1. /\ parsers'[Mqtt] = parsers[Mqtt]
        /\ UNCHANGED <<live, waiting, stalled>>
    BY <1>1, <1>5 DEF HandleRequest, lifeVars, queueVars, UserTypes
  <2> QED BY <2>1 DEF WaitsForAReason
<1>6. ASSUME NEW c \in Connections, HandleAccept(c) \/ StopConnection(c)
      PROVE  WaitsForAReason'
  <2>1. /\ UNCHANGED <<parsers, waiting, stalled>> /\ (Mqtt \in live' => Mqtt \in live)
    BY <1>1, <1>6 DEF HandleAccept, StopConnection, Abandon, queueVars
  <2> QED BY <2>1 DEF WaitsForAReason
<1>7. CASE BrokerStep \/ ProgramEnds \/ RequestLost \/ SenderStep \/ UNCHANGED vars
  <2>1. /\ UNCHANGED <<parsers, waiting, stalled>> /\ (Mqtt \in live' => Mqtt \in live)
    BY <1>7 DEF BrokerStep, OnConnectRefused, OnError, OnClose, Disconnected, Abandon,
                RetryTimerExpires, HandleRetryTimer, ProgramEnds, SenderUnaware, lifeVars,
                RequestLost, SenderStep, Unaffected, queueVars, vars
  <2> QED BY <2>1 DEF WaitsForAReason
<1> QED BY <1>2, <1>3, <1>4, <1>5, <1>6, <1>7, Zenon
        DEF Next, ConnectionStep, AdapterStep, SenderAndBusStep, BrokerStep

\* A command waits in m_pendingCommands, with the adapter's parser free, only behind a
\* line that started nothing or since the broker's connection is new.
THEOREM CommandsWaitForAReason == Spec => []WaitsForAReason
<1>1. Init => WaitsForAReason
  BY DEF Init, WaitsForAReason
<1> QED BY <1>1, InitTypes, NextTypes, ReasonKept, PTL DEF Spec

\* Without a connection there is an attempt, or one to come.
RetryInv == RetryPending /\ retryReady \in Nat

\* Every step sees to that.
LEMMA RetryKept == RetryInv /\ [Next]_vars => RetryInv'
<1> SUFFICES ASSUME RetryInv, [Next]_vars PROVE RetryInv'
  OBVIOUS
<1>1. CASE UNCHANGED linkVars
  BY <1>1 DEF linkVars, RetryInv, RetryPending
<1>2. ASSUME NEW g \in Garbage, OnConnect(g) PROVE RetryInv'
  BY <1>2 DEF OnConnect, RetryInv, RetryPending
<1>3. CASE OnConnectRefused \/ OnError \/ OnClose
  <2>1. retryArmed' = TRUE /\ UNCHANGED retryReady
    BY <1>3, Zenon DEF OnConnectRefused, OnError, OnClose, Disconnected, ScheduleConnectionRetry
  <2> QED BY <2>1 DEF RetryInv, RetryPending
<1>4. CASE RetryTimerExpires
  BY <1>4 DEF RetryTimerExpires, RetryInv, RetryPending
<1>5. CASE HandleRetryTimer
  <2>1. link' = "connecting" /\ retryReady > 0 /\ retryReady' = retryReady - 1
    BY <1>5, Zenon DEF HandleRetryTimer
  <2>2. retryReady' \in Nat
    BY <2>1 DEF RetryInv
  <2> QED BY <2>1, <2>2, Zenon DEF RetryInv, RetryPending
<1>6. ASSUME NEW c \in Connections, NEW command,
             HandleAccept(c) \/ StopConnection(c) \/ HandleRequest(c, command)
      PROVE  UNCHANGED linkVars
  BY <1>6 DEF HandleAccept, StopConnection, HandleRequest
<1>7. ASSUME NEW message, OnMessageReceived(message) PROVE UNCHANGED linkVars
  BY <1>7 DEF OnMessageReceived
<1>8. CASE SenderAndBusStep
  BY <1>1, <1>8 DEF SenderAndBusStep, AnswerArrives, HandleResponseTimeout, RequestLost, SenderStep,
                    ProgramEnds, Unaffected
<1>9. UNCHANGED vars => UNCHANGED linkVars
  BY DEF vars
<1> QED BY <1>1, <1>2, <1>3, <1>4, <1>5, <1>6, <1>7, <1>8, <1>9, Zenon
        DEF Next, ConnectionStep, AdapterStep

\* However errors, refusals, closings and the retry timer overtake each other, the
\* adapter without a connection is connecting, or its timer or its handler waits.
THEOREM RetriesForEver == Spec => []RetryPending
<1>1. Init => RetryInv
  BY DEF Init, RetryInv, RetryPending
<1>2. RetryInv => RetryPending
  BY DEF RetryInv
<1> QED BY <1>1, <1>2, RetryKept, PTL DEF Spec

\* Who may end the program.
LEMMA EndedBy ==
    ASSUME Next, ended'
    PROVE  ProgramEnds
BY DEF Next, ConnectionStep, AdapterStep, SenderAndBusStep, HandleAccept, HandleRequest,
       StopConnection, OnConnect, OnConnectRefused, OnError, OnClose, Disconnected,
       RetryTimerExpires, HandleRetryTimer, OnMessageReceived, AnswerArrives,
       HandleResponseTimeout, RequestLost, SenderStep, Unaffected, SenderUnaware, Running

\* The program ends in a callback only to a client that was lost while the sender held
\* its request.
THEOREM OnlyLostClientsEndIt == Spec => EndsOnlyByALostClient
<1>1. ASSUME IInv, [Next]_vars
      PROVE  [ended' => currentClient \in abandoned]_vars
  <2> SUFFICES ASSUME ~UNCHANGED vars, ended' PROVE currentClient \in abandoned
    OBVIOUS
  <2>1. ProgramEnds
    BY <1>1, EndedBy
  <2>2. currentClient \notin live \cup {NoClient}
    BY <2>1 DEF ProgramEnds
  <2>3. TypesInv /\ StageInv /\ ~Idle
    BY <1>1, <2>2 DEF IInv, Idle
  <2>4. PICK m \in Transmissions :
             m.client = currentClient /\ LineOf(m, pending, parsers, live, abandoned)
    BY <2>3, FlightIs
  <2> QED BY <2>2, <2>4 DEF LineOf
<1> QED BY InitInv, NextInv, <1>1, PTL DEF Spec, EndsOnlyByALostClient

\* A line typed is refused or begun; it is never done at once.
LEMMA TypedIsNotDone ==
    ASSUME TypesInv, NEW c \in Connections, NEW command \in Lines[c], HandleRequest(c, command)
    PROVE  told' = <<>> \/ told' = <<c, "ERRBUSY">>
<1> DEFINE o == Parse(parsers[c], command)
<1>1. told' = IF o.reply = "none" THEN <<>> ELSE <<c, o.reply>>
  BY DEF HandleRequest
<1>2. UserTypes /\ c \in Users /\ command \in Commands
  BY UsersAssumption DEF TypesInv, Users
<1>3. ParsedTo(parsers[c], command, o)
  BY <1>2, ParseEnds DEF UserTypes
<1> HIDE DEF o
<1>4. o.reply = "none" \/ o.reply = "ERRBUSY"
  BY <1>3 DEF ParsedTo, Asked
<1> QED BY <1>1, <1>4

\* Who tells a user that its command is done.
LEMMA DoneBy ==
    ASSUME TypesInv, Next, NEW u, told' = <<u, "OK">>
    PROVE  AnswerArrives
<1>1. told' # <<>> /\ told'[2] = "OK"
  OBVIOUS
<1>2. ASSUME NEW c \in Connections, NEW command \in Lines[c], HandleRequest(c, command)
      PROVE  FALSE
  <2>1. told' = <<>> \/ told' = <<c, "ERRBUSY">>
    BY <1>2, TypedIsNotDone
  <2>2. <<c, "ERRBUSY">>[2] = "ERRBUSY" /\ "ERRBUSY" # "OK"
    OBVIOUS
  <2> QED BY <1>1, <2>1, <2>2
<1>3. ~HandleResponseTimeout
  BY <1>1, TimeoutResult
<1>4. ASSUME NEW c \in Connections, HandleAccept(c) \/ StopConnection(c) PROVE FALSE
  BY <1>1, <1>4 DEF HandleAccept, StopConnection
<1>5. ~AdapterStep
  BY <1>1 DEF AdapterStep, OnConnect, OnConnectRefused, OnError, OnClose, Disconnected,
              RetryTimerExpires, HandleRetryTimer, OnMessageReceived
<1>6. ~RequestLost /\ ~SenderStep /\ ~ProgramEnds
  BY <1>1 DEF RequestLost, SenderStep, ProgramEnds
<1> QED BY <1>2, <1>3, <1>4, <1>5, <1>6, Zenon DEF Next, ConnectionStep, SenderAndBusStep

\* A command is taken for done on the answer to its own request, unless an adapter that
\* has connected again is called back for a request of its old parser.
THEOREM OkOnlyByOwnAnswer == Spec => OkIsEarned
<1>1. ASSUME IInv, [Next]_vars
      PROVE  [\A u \in Users :
                told' = <<u, "OK">> /\ ~Waits(u) =>
                    /\ bus # <<>> /\ bus[1].client = u
                    /\ parsers[u].active = <<bus[1].request>>]_vars
  <2> SUFFICES ASSUME ~UNCHANGED vars, NEW u \in Users, told' = <<u, "OK">>, ~Waits(u)
               PROVE  /\ bus # <<>> /\ bus[1].client = u
                      /\ parsers[u].active = <<bus[1].request>>
    OBVIOUS
  <2>1. TypesInv /\ StageInv
    BY <1>1 DEF IInv
  <2>2. AnswerArrives
    BY <1>1, <2>1, DoneBy
  <2>3. told' # <<>> /\ told'[1] = u /\ told'[2] = "OK"
    OBVIOUS
  <2>4. u = currentClient /\ u \in live /\ parsers[u].active # <<>>
    BY <2>1, <2>2, <2>3, AnswerResult
  <2>5. PICK m \in Transmissions :
           /\ m.client = u /\ LineOf(m, pending, parsers, live, abandoned) /\ bus = <<m>>
    BY <2>1, <2>2, <2>4, OutIs DEF AnswerArrives
  <2>6. ~In(pending, u)
    BY DEF Waits, In
  <2>7. m = Outgoing(u, parsers[u].active[1])
    BY <2>4, <2>5, <2>6, Zenon DEF LineOf
  <2>8. /\ parsers[u].active = <<parsers[u].active[1]>> /\ parsers[u].active[1] \in Requests
    BY <2>1, <2>4 DEF TypesInv, UserTypes, WellFormed
  <2>9. m.request = parsers[u].active[1]
    BY <2>7, <2>8, OutgoingIs
  <2>10. bus # <<>> /\ bus[1] = m
    BY <2>5
  <2> QED BY <2>5, <2>8, <2>9, <2>10
<1> QED BY InitInv, NextInv, <1>1, PTL DEF Spec, OkIsEarned
=============================================================================
