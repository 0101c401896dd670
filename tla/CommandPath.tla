---------------------------- MODULE CommandPath ----------------------------
(***************************************************************************)
(* The way of a command: clients with an ApiCommandParser each (a TCP      *)
(* connection of CommandHandler), the one EmsCommandSender they share, and *)
(* the bus behind it.  The scheduler's actions are those of                *)
(* CommandScheduler; what a client called back sends is computed by        *)
(* ApiRequests, so that every callback is one step.                        *)
(*                                                                         *)
(* The bus takes requests in order and answers each of them or loses it.   *)
(* With LateAnswers an answer may come after the response timeout, when    *)
(* the request has been repeated or its client has given up; without, an   *)
(* answer that is not there in time never comes.                           *)
(***************************************************************************)
EXTENDS ApiRequests, FiniteSets

CONSTANTS
    Clients, NoClient, NoMessage, Devices, RequestTimeout, MinDistance,
    MaxTimeouts,
    LateAnswers,   \* BOOLEAN
    Lines,         \* the commands clients type, a subset of Commands
    AnswerSizes,   \* how many bytes a device may answer with
    BusCapacity,   \* bound: requests on the bus; a further one is lost
    MaxTyped       \* bound: lines a client types

ASSUME PathAssumption ==
    /\ LateAnswers \in BOOLEAN
    /\ Lines \subseteq Commands
    /\ AnswerSizes \subseteq Nat
    /\ BusCapacity \in Nat \ {0}
    /\ RequestTimeout \in Nat /\ MinDistance \in Nat
    /\ NoClient \notin Clients

\* m_lastCommTimes has an entry for whatever address a parser may send to.
ASSUME DevicesAssumption ==
    /\ {UBA, BC10, RC3x} \subseteq Devices
    /\ \A c \in Commands : c.dest \in Devices
    /\ \A g \in Garbage : g.dest \in Devices

VARIABLES
    currentClient, pending, responseTimeout, sendTimer, delayed, age, ready, sent,
    parsers,      \* parsers[c]: the ApiCommandParser of client c
    typed,        \* typed[c]: how many lines c has typed
    awaiting,     \* awaiting[c]: c has a command that was accepted, not answered
    bus,          \* requests transmitted and neither answered nor lost
    transmitted,  \* transmitted[c]: how often c's active request went out
    told          \* what the last step told a client: <<>> or <<client, reply>>

schedulerVars ==
    <<currentClient, pending, responseTimeout, sendTimer, delayed, age, ready, sent>>
clientVars == <<parsers, typed, awaiting>>
vars == <<schedulerVars, clientVars, bus, transmitted, told>>

-----------------------------------------------------------------------------
\* A request in the scheduler's hands.  Its client is not on the wire.
Outgoing(c, r) == [client |-> c, dest |-> r.dest, request |-> r]
OutgoingSet ==
    [client : Clients, dest : Devices,
     request : [dest : Devices, type : 0..255, offset : 0..255,
                data : Seq(0..255), read : BOOLEAN]]

Scheduler == INSTANCE CommandScheduler WITH Messages <- OutgoingSet, MaxOwed <- 1

Init ==
    /\ Scheduler!Init
    /\ parsers \in [Clients -> {NewParser(g) : g \in Garbage}]
    /\ typed = [c \in Clients |-> 0]
    /\ awaiting = [c \in Clients |-> FALSE]
    /\ bus = <<>>
    /\ transmitted = [c \in Clients |-> 0]
    /\ told = <<>>

-----------------------------------------------------------------------------
\* What the parser of c sends reaches the scheduler in this form.
Reaction(c, outcome) == [i \in DOMAIN outcome.sends |-> Outgoing(c, outcome.sends[i])]

\* The client's side of a call into its parser.  A parser that sends a request
\* for the first time has all its retries left.
ParserBecomes(c, outcome) ==
    /\ parsers' = [parsers EXCEPT ![c] = outcome.parser]
    /\ told' = IF outcome.reply = "none" THEN <<>> ELSE <<c, outcome.reply>>

IsNew(outcome) ==
    outcome.sends # <<>> /\ outcome.parser.retriesLeft = MaxRequestRetries

CountFrom(counts) ==
    transmitted' = [c \in Clients |->
        IF sent' # <<>> /\ sent'[1].client = c
           /\ parsers'[c].active = <<sent'[1].request>>
        THEN counts[c] + 1 ELSE counts[c]]

\* The bus after a step that leaves `queue' of it and may transmit a request.
BusBecomes(queue) ==
    bus' = IF Len(queue) < BusCapacity THEN queue \o sent' ELSE queue

-----------------------------------------------------------------------------
\* CommandConnection::handleRequest reads a line that is a command.
HandleRequest(c, command) ==
    LET outcome == Parse(parsers[c], command)
    IN  /\ typed[c] < MaxTyped
        /\ typed' = [typed EXCEPT ![c] = @ + 1]
        /\ ParserBecomes(c, outcome)
        /\ awaiting' = [awaiting EXCEPT ![c] = @ \/ outcome.reply # "ERRBUSY"]
        /\ IF outcome.sends = <<>>
           THEN UNCHANGED schedulerVars /\ UNCHANGED <<bus, transmitted>>
           ELSE /\ Scheduler!SendMessage(c, Outgoing(c, outcome.sends[1]))
                /\ BusBecomes(bus)
                /\ CountFrom([transmitted EXCEPT ![c] = 0])

\* What a callback to the current client comes to; nothing, if there is none.
NobodyCalled == [sends |-> <<>>, reply |-> "none"]

ByMessage(m) ==
    IF currentClient = NoClient THEN {NobodyCalled}
    ELSE OnIncomingMessage(parsers[currentClient], m)

ByTimeout ==
    IF currentClient = NoClient THEN NobodyCalled
    ELSE OnTimeout(parsers[currentClient])

\* The client's side of the callback, and the bus, which is left with `queue'
\* and what the sender transmits when it continues.
CallBack(outcome, queue) ==
    /\ IF currentClient = NoClient
       THEN /\ told' = <<>>
            /\ UNCHANGED clientVars
            /\ CountFrom(transmitted)
       ELSE /\ ParserBecomes(currentClient, outcome)
            /\ awaiting' = [awaiting EXCEPT ![currentClient] =
                              @ /\ outcome.reply \notin FinalReplies]
            /\ CountFrom(IF IsNew(outcome)
                         THEN [transmitted EXCEPT ![currentClient] = 0]
                         ELSE transmitted)
            /\ UNCHANGED typed
    /\ BusBecomes(queue)

\* The device answers the oldest request on the bus.  The response timer is
\* Off between the timeout and the next transmission.
AnswerArrives ==
    /\ bus # <<>>
    /\ \E m \in DeviceAnswers(Head(bus).request, AnswerSizes) :
         \E outcome \in ByMessage(m) :
            /\ Scheduler!HandlePcMessage(m.source, Reaction(currentClient, outcome))
            /\ CallBack(outcome, Tail(bus))

RequestLost ==
    /\ bus # <<>>
    /\ bus' = Tail(bus)
    /\ told' = <<>>
    /\ UNCHANGED <<schedulerVars, clientVars, transmitted>>

HandleResponseTimeout ==
    /\ Scheduler!HandleResponseTimeout(Reaction(currentClient, ByTimeout))
    /\ CallBack(ByTimeout, bus)

HandleSendTimer ==
    /\ Scheduler!HandleSendTimer
    /\ UNCHANGED clientVars
    /\ BusBecomes(bus)
    /\ CountFrom(transmitted)
    /\ told' = <<>>

ResponseTimeoutExpires ==
    /\ Scheduler!ResponseTimeoutExpires
    /\ bus' = IF LateAnswers THEN bus ELSE <<>>
    /\ told' = <<>>
    /\ UNCHANGED <<clientVars, transmitted>>

TimePasses ==
    /\ Scheduler!SendTimerExpires \/ Scheduler!Tick
    /\ told' = <<>>
    /\ UNCHANGED <<clientVars, bus, transmitted>>

EventLoop ==
    \/ HandleResponseTimeout
    \/ HandleSendTimer
    \/ ResponseTimeoutExpires
    \/ TimePasses

Next ==
    \/ \E c \in Clients, command \in Lines : HandleRequest(c, command)
    \/ AnswerArrives
    \/ RequestLost
    \/ EventLoop

Spec == Init /\ [][Next]_vars

\* The event loop runs; no device has to answer and no client to type.
FairSpec == Spec /\ WF_vars(EventLoop)

-----------------------------------------------------------------------------
(* Properties *)

\* The fields of parsers and clients have their types; no request goes out more
\* often than two late rounds of retries account for.
TypeOK ==
    /\ currentClient \in Clients \cup {NoClient}
    /\ \A c \in Clients :
         /\ Len(parsers[c].active) <= 1
         /\ parsers[c].retriesLeft \in 0..MaxRequestRetries
         /\ transmitted[c] \in 0..2 * MaxRequestRetries
    /\ awaiting \in [Clients -> BOOLEAN]
    /\ Len(bus) <= BusCapacity
    /\ told = <<>> \/ told[1] \in Clients

\* The bytes a parser has collected are the ones stored from the offset it asked
\* for, whoever else is served in between and whatever is answered late.
ResponseContiguous ==
    \A c \in Clients :
        LET p == parsers[c]
        IN  p.response = Stored(p.dest, p.type, p.offset, Len(p.response))

\* The requests accepted from c and not yet transmitted.
Queued(c) ==
    \/ \E i \in DOMAIN pending : pending[i].client = c
    \/ \E i \in DOMAIN ready : ready[i] # Scheduler!TimedOut /\ ready[i].msg.client = c
    \/ sendTimer # Scheduler!Off /\ delayed.client = c

\* A command under way is being served: its client is current or has a request
\* queued.  Otherwise neither answer nor timeout ever reaches its parser, which
\* stays busy for good.
ActiveIsServed == \A c \in Clients : awaiting[c] => currentClient = c \/ Queued(c)

\* One request at a time is out, and it is the active request of the client
\* that will be called back for the answer.
AnswersReachTheirClient ==
    /\ Len(bus) <= 1
    /\ bus # <<>> =>
         /\ bus[1].client = currentClient
         /\ parsers[currentClient].active = <<bus[1].request>>

\* A client is told OK by the answer to its own active request: a write that is
\* reported done was acknowledged, and no answer to another request passed for
\* the acknowledgement.
OkIsEarned ==
    [][\A c \in Clients :
         told' = <<c, "OK">> =>
             /\ bus # <<>>
             /\ Head(bus) = Outgoing(c, parsers[c].active[1])]_vars

\* ERRTIMEOUT is reported when the request has gone out MaxRequestRetries times,
\* and not before.
TimeoutAfterAllAttempts ==
    [][\A c \in Clients :
         told' = <<c, "ERRTIMEOUT">> => transmitted[c] = MaxRequestRetries]_vars

\* Every accepted command is answered with OK, FAIL or ERRTIMEOUT.
CommandAnswered == \A c \in Clients : awaiting[c] ~> ~awaiting[c]

\* Once the clients fall silent the sender comes to rest, with nothing queued and
\* nobody current, however late answers have mixed up its turns.
SenderComesToRest ==
    <>[](currentClient = NoClient /\ pending = <<>> /\ ready = <<>> /\ sendTimer = Scheduler!Off)
=============================================================================
