----------------------------- MODULE ClientPath -----------------------------
(***************************************************************************)
(* The clients of EmsCommandSender come and go: TCP connections of         *)
(* CommandHandler, which end when reading or writing fails, and the        *)
(* MqttAdapter, whose parser is dropped with the broker's connection and   *)
(* made anew with the next one.  The sender is told of neither.  It keeps  *)
(* the client objects of requests it holds and calls them back when their  *)
(* connection (CommandClient::m_connection) or parser is gone.             *)
(*                                                                         *)
(* Calling a destroyed CommandConnection is undefined: the program ends,   *)
(* or the call does nothing, or it works on the old parser as long as      *)
(* nothing is reported to the client (respond needs the connection).  That *)
(* its memory belongs to a new connection by then is left out.  The        *)
(* adapter's parser is a null pointer: the program ends.                   *)
(*                                                                         *)
(* An answer that has not come when the response timer runs out never      *)
(* comes; CommandPath has the late ones.                                   *)
(***************************************************************************)
EXTENDS ApiRequests

CONSTANTS
    Connections,   \* CommandConnection objects
    Mqtt,          \* the MqttAdapter
    NoClient, NoMessage, Devices, RequestTimeout, MinDistance, MaxTimeouts,
    MinRetryDelay, MaxRetryDelay,   \* seconds, 5 and 300 in MqttAdapter.h
    Lines,         \* Lines[u]: the commands u may give, a subset of Commands
    AnswerSizes,   \* how many bytes a device may answer with
    MaxTyped,      \* bound: lines typed on a connection
    MaxReceived,   \* bound: MQTT messages received
    MaxOutages     \* bound: errors, refusals and closings of the broker

Users == Connections \cup {Mqtt}

ASSUME UsersAssumption ==
    Mqtt \notin Connections /\ NoClient \notin Users /\ Lines \in [Users -> SUBSET Commands]
ASSUME SenderAssumption ==
    AnswerSizes \subseteq Nat /\ RequestTimeout \in Nat /\ MinDistance \in Nat
\* m_lastCommTimes has an entry for whatever address a parser may send to.
ASSUME DevicesAssumption ==
    /\ {UBA, BC10, RC3x} \subseteq Devices
    /\ \A c \in Commands : c.dest \in Devices
    /\ \A g \in Garbage : g.dest \in Devices
ASSUME RetryAssumption ==
    /\ MinRetryDelay \in Nat \ {0} /\ MaxRetryDelay \in Nat
    /\ MinRetryDelay <= MaxRetryDelay

VARIABLES
    currentClient, pending, responseTimeout, sendTimer, delayed, age, ready, sent,
    parsers,      \* parsers[u]: the ApiCommandParser of u
    live,         \* the users whose parser exists
    gone,         \* connections that have ended
    abandoned,    \* users that were lost with a request in the sender's hands
    typed,        \* lines typed, by connection
    waiting,      \* MqttAdapter::m_pendingCommands
    received,     \* messages received from the broker
    stalled,      \* why the adapter stopped starting commands, or "no"
    link,         \* the broker's connection: "down", "connecting", "refused", "up"
    connected,    \* MqttAdapter::m_connected
    retryDelay,   \* MqttAdapter::m_retryDelay
    retryArmed,   \* m_retryTimer is waiting
    retryReady,   \* handlers of m_retryTimer queued in the io_service
    outages,
    bus,          \* requests transmitted and neither answered nor lost
    told,         \* what the last step told a user: <<>> or <<user, reply>>
    ended         \* the program has ended in undefined behaviour

schedulerVars ==
    <<currentClient, pending, responseTimeout, sendTimer, delayed, age, ready, sent>>
queueVars == <<waiting, received, stalled>>
linkVars == <<link, connected, retryDelay, retryArmed, retryReady, outages>>
lifeVars == <<live, gone, abandoned>>
vars == <<schedulerVars, parsers, lifeVars, typed, queueVars, linkVars, bus,
          told, ended>>

-----------------------------------------------------------------------------
Outgoing(u, r) == [client |-> u, dest |-> r.dest, request |-> r]
OutgoingSet ==
    [client : Users, dest : Devices,
     request : [dest : Devices, type : 0..255, offset : 0..255,
                data : Seq(0..255), read : BOOLEAN]]

Scheduler == INSTANCE CommandScheduler
             WITH Clients <- Users, Messages <- OutgoingSet, MaxOwed <- 1

Init ==
    /\ Scheduler!Init
    /\ parsers \in [Users -> {NewParser(g) : g \in Garbage}]
    /\ live = {} /\ gone = {} /\ abandoned = {}
    /\ typed = [c \in Connections |-> 0]
    /\ waiting = <<>> /\ received = 0 /\ stalled = "no"
    /\ link = "connecting" /\ connected = FALSE
    /\ retryDelay = MinRetryDelay /\ retryArmed = FALSE /\ retryReady = 0
    /\ outages = 0
    /\ bus = <<>> /\ told = <<>> /\ ended = FALSE

\* The requests of u that wait for their turn or for the send timer.
Waits(u) == \E i \in DOMAIN pending : pending[i].client = u
Held(u) ==
    \/ currentClient = u
    \/ Waits(u)
    \/ \E i \in DOMAIN ready : ready[i] # Scheduler!TimedOut /\ ready[i].msg.client = u
    \/ sendTimer # Scheduler!Off /\ delayed.client = u

\* u's parser is destroyed; the sender keeps what it holds.
Abandon(u) ==
    /\ live' = live \ {u}
    /\ abandoned' = IF Held(u) THEN abandoned \cup {u} ELSE abandoned

Running == ~ended /\ ended' = FALSE

\* The bus after a step that leaves `queue' of it and may transmit a request.
BusBecomes(queue) == bus' = queue \o sent'

-----------------------------------------------------------------------------
(* The adapter's queue.  A message is <<command>>, or <<>> when parse sends  *)
(* nothing for it: help, a refused line, `cache fetch' (there is no cache).  *)

\* sendNextRequest, with a parser p.
SendNextRequest(p, queue) ==
    IF queue = <<>> \/ p.active # <<>>
    THEN [parser |-> p, sends |-> <<>>, waiting |-> queue]
    ELSE IF Head(queue) = <<>>
    THEN [parser |-> p, sends |-> <<>>, waiting |-> Tail(queue)]
    ELSE LET outcome == Parse(p, Head(queue)[1])
         IN  [parser |-> outcome.parser, sends |-> outcome.sends,
              waiting |-> Tail(queue)]

\* It parses one line and not the next, although that one may be free to start.
Stalled(next) ==
    IF next.waiting # <<>> /\ next.parser.active = <<>> THEN "line" ELSE "no"

\* Faulty: a failed command does not start the next one.
GoesOnAfter(reply) == reply \in {"OK", "ERRTIMEOUT"}

\* onIncomingMessage was not indeterminate, onTimeout returned true.
GoesOn(reply) == reply \in FinalReplies

-----------------------------------------------------------------------------
(* Callbacks.  A result is what becomes of the parsers and of the adapter's  *)
(* queue, what is sent and what the user is told.                            *)
Unnoticed ==
    [parsers |-> parsers, sends |-> <<>>, waiting |-> waiting,
     stalled |-> stalled, told |-> <<>>]

\* CommandConnection::onIncomingMessage and onTimeout, CommandClient of either.
ByConnection(o) ==
    [Unnoticed EXCEPT
        !.parsers[currentClient] = o.parser,
        !.sends = o.sends,
        !.told = IF o.reply = "none" THEN <<>> ELSE <<currentClient, o.reply>>]

ByAdapter(o) ==
    IF GoesOn(o.reply)
    THEN LET next == SendNextRequest(o.parser, waiting)
         IN  [parsers |-> [parsers EXCEPT ![Mqtt] = next.parser],
              sends |-> next.sends, waiting |-> next.waiting,
              stalled |-> Stalled(next), told |-> <<Mqtt, o.reply>>]
    ELSE ByConnection(o)

\* What calling the current client may come to, if its parser, called, does one
\* of outcomes.
CalledBack(outcomes) ==
    CASE currentClient = NoClient -> {Unnoticed}
      [] currentClient \in live ->
            {IF currentClient = Mqtt THEN ByAdapter(o) ELSE ByConnection(o) :
               o \in outcomes}
      [] currentClient \in gone ->
            {Unnoticed} \cup {ByConnection(o) : o \in {x \in outcomes : x.reply = "none"}}
      [] OTHER -> {}

Take(result) ==
    /\ parsers' = result.parsers
    /\ waiting' = result.waiting
    /\ stalled' = result.stalled
    /\ told' = result.told

Reaction(result) ==
    [i \in DOMAIN result.sends |-> Outgoing(currentClient, result.sends[i])]

Unaffected == Running /\ UNCHANGED <<lifeVars, typed, received, linkVars>>

AnswerArrives ==
    /\ bus # <<>>
    /\ \E m \in DeviceAnswers(bus[1].request, AnswerSizes) :
         \E result \in CalledBack(IF currentClient = NoClient THEN {}
                                  ELSE OnIncomingMessage(parsers[currentClient], m)) :
            /\ Scheduler!HandlePcMessage(m.source, Reaction(result))
            /\ Take(result)
    /\ BusBecomes(Tail(bus))
    /\ Unaffected

HandleResponseTimeout ==
    /\ \E result \in CalledBack(IF currentClient = NoClient THEN {}
                                ELSE {OnTimeout(parsers[currentClient])}) :
         /\ Scheduler!HandleResponseTimeout(Reaction(result))
         /\ Take(result)
    /\ BusBecomes(bus)
    /\ Unaffected

\* The same two callbacks, to a client that is no more.
ProgramEnds ==
    /\ currentClient \notin live \cup {NoClient}
    /\ bus # <<>> \/ (ready # <<>> /\ Head(ready) = Scheduler!TimedOut)
    /\ ~ended /\ ended' = TRUE
    /\ told' = <<>>
    /\ UNCHANGED <<schedulerVars, parsers, lifeVars, typed, queueVars, linkVars, bus>>

-----------------------------------------------------------------------------
(* The sender's own steps and the bus. *)

RequestLost ==
    /\ bus # <<>>
    /\ bus' = Tail(bus)
    /\ told' = <<>>
    /\ UNCHANGED <<schedulerVars, parsers, queueVars>>
    /\ Unaffected

SenderStep ==
    /\ \/ Scheduler!HandleSendTimer /\ BusBecomes(bus)
       \/ Scheduler!ResponseTimeoutExpires /\ bus' = <<>>
       \/ (Scheduler!SendTimerExpires \/ Scheduler!Tick) /\ bus' = bus
    /\ told' = <<>>
    /\ UNCHANGED <<parsers, queueVars>>
    /\ Unaffected

\* u, called by nobody, hands over what its parser sends.
Send(u, sends) ==
    /\ IF sends = <<>> THEN UNCHANGED schedulerVars /\ bus' = bus
       ELSE /\ Scheduler!SendMessage(u, Outgoing(u, sends[1]))
            /\ BusBecomes(bus)

-----------------------------------------------------------------------------
(* CommandHandler *)

HandleAccept(c) ==
    /\ Running
    /\ c \notin live \cup gone
    /\ live' = live \cup {c}
    /\ told' = <<>>
    /\ UNCHANGED <<schedulerVars, parsers, gone, abandoned, typed, queueVars,
                   linkVars, bus>>

\* handleRequest without error.
HandleRequest(c, command) ==
    LET outcome == Parse(parsers[c], command)
    IN  /\ Running
        /\ c \in live
        /\ typed[c] < MaxTyped
        /\ typed' = [typed EXCEPT ![c] = @ + 1]
        /\ Send(c, outcome.sends)
        /\ parsers' = [parsers EXCEPT ![c] = outcome.parser]
        /\ told' = IF outcome.reply = "none" THEN <<>> ELSE <<c, outcome.reply>>
        /\ UNCHANGED <<lifeVars, queueVars, linkVars>>

\* handleRequest or handleWrite with an error: stopConnection drops the last
\* lasting reference to the connection.
StopConnection(c) ==
    /\ Running
    /\ c \in live
    /\ Abandon(c)
    /\ gone' = gone \cup {c}
    /\ told' = <<>>
    /\ UNCHANGED <<schedulerVars, parsers, typed, queueVars, linkVars, bus>>

-----------------------------------------------------------------------------
(* MqttAdapter.  The library reports errors and closings of the broker's     *)
(* connection, and connect() starts over whatever there was before.          *)

\* Faulty: the timer is cancelled and not armed again.
ScheduleConnectionRetryNever(delay) ==
    /\ retryDelay' = delay
    /\ retryArmed' = FALSE
    /\ UNCHANGED retryReady

\* expires_from_now cancels a wait that is pending; a handler queued already
\* still runs, without operation_aborted.
ScheduleConnectionRetry(delay) ==
    /\ retryDelay' = delay
    /\ retryArmed' = TRUE
    /\ UNCHANGED retryReady

SenderUnaware ==
    Running /\ UNCHANGED <<schedulerVars, gone, typed, waiting, received, bus>>

\* onConnect, accepted: subscribe, and a new parser.
OnConnect(g) ==
    /\ link = "connecting"
    /\ link' = "up"
    /\ connected' = TRUE
    /\ live' = live \cup {Mqtt}
    /\ parsers' = [parsers EXCEPT ![Mqtt] = NewParser(g)]
    /\ stalled' = IF waiting = <<>> THEN "no" ELSE "reconnected"
    /\ abandoned' = IF Mqtt \in live /\ Held(Mqtt) THEN abandoned \cup {Mqtt}
                    ELSE abandoned
    /\ told' = <<>>
    /\ UNCHANGED <<retryDelay, retryArmed, retryReady, outages>>
    /\ SenderUnaware

\* Faulty: the parser is dropped here too.
OnConnectRefusedDrops ==
    /\ link = "connecting" /\ outages < MaxOutages
    /\ outages' = outages + 1
    /\ link' = "refused"
    /\ connected' = FALSE
    /\ ScheduleConnectionRetry(MinRetryDelay)
    /\ told' = <<>>
    /\ live' = live \ {Mqtt}
    /\ UNCHANGED <<parsers, abandoned, stalled>>
    /\ SenderUnaware

\* onConnect, refused.
OnConnectRefused ==
    /\ link = "connecting" /\ outages < MaxOutages
    /\ outages' = outages + 1
    /\ link' = "refused"
    /\ connected' = FALSE
    /\ ScheduleConnectionRetry(MinRetryDelay)
    /\ told' = <<>>
    /\ UNCHANGED <<parsers, live, abandoned, stalled>>
    /\ SenderUnaware

Disconnected(delay) ==
    /\ outages < MaxOutages
    /\ outages' = outages + 1
    /\ link' = "down"
    /\ connected' = FALSE
    /\ Abandon(Mqtt)
    /\ ScheduleConnectionRetry(delay)
    /\ told' = <<>>
    /\ UNCHANGED <<parsers, stalled>>
    /\ SenderUnaware

OnError == link # "down" /\ Disconnected(retryDelay)
OnClose == link \in {"refused", "up"} /\ Disconnected(MinRetryDelay)

RetryTimerExpires ==
    /\ retryArmed
    /\ retryArmed' = FALSE
    /\ retryReady' = retryReady + 1
    /\ told' = <<>>
    /\ UNCHANGED <<link, connected, retryDelay, outages, parsers, live, abandoned,
                   stalled>>
    /\ SenderUnaware

\* The handler bound in scheduleConnectionRetry.
HandleRetryTimer ==
    /\ retryReady > 0
    /\ retryReady' = retryReady - 1
    /\ retryDelay' = IF 2 * retryDelay < MaxRetryDelay THEN 2 * retryDelay
                     ELSE MaxRetryDelay
    /\ link' = "connecting"
    /\ told' = <<>>
    /\ UNCHANGED <<connected, retryArmed, outages, parsers, live, abandoned, stalled>>
    /\ SenderUnaware

\* onMessageReceived, for a topic under `control'.
OnMessageReceived(message) ==
    LET queue == Append(waiting, message)
        next == SendNextRequest(parsers[Mqtt], queue)
    IN  /\ Running
        /\ link = "up" /\ received < MaxReceived
        /\ received' = received + 1
        /\ IF Mqtt \in live
           THEN /\ Send(Mqtt, next.sends)
                /\ parsers' = [parsers EXCEPT ![Mqtt] = next.parser]
                /\ waiting' = next.waiting
                /\ stalled' = Stalled(next)
           ELSE /\ waiting' = queue
                /\ UNCHANGED <<schedulerVars, bus, parsers, stalled>>
        /\ told' = <<>>
        /\ UNCHANGED <<lifeVars, typed, linkVars>>

-----------------------------------------------------------------------------
ConnectionStep ==
    \E c \in Connections :
        \/ HandleAccept(c)
        \/ \E command \in Lines[c] : HandleRequest(c, command)
        \/ StopConnection(c)

AdapterStep ==
    \/ \E g \in Garbage : OnConnect(g)
    \/ OnConnectRefused
    \/ OnError
    \/ OnClose
    \/ RetryTimerExpires
    \/ HandleRetryTimer
    \/ \E message \in {<<>>} \cup {<<command>> : command \in Lines[Mqtt]} :
         OnMessageReceived(message)

SenderAndBusStep ==
    \/ AnswerArrives
    \/ HandleResponseTimeout
    \/ RequestLost
    \/ SenderStep
    \/ ProgramEnds

Next == ConnectionStep \/ AdapterStep \/ SenderAndBusStep

Spec == Init /\ [][Next]_vars

-----------------------------------------------------------------------------
(* Properties *)

\* The program ends in a callback only to a client that was lost while the
\* sender held its request: connections and broker may otherwise come and go
\* at any time, refusals and repeated connections included.
EndsOnlyByALostClient == [][ended' => currentClient \in abandoned]_vars

\* While the adapter's parser is free, a command waits in m_pendingCommands only
\* for one of two reasons, both of the code: a line before it started nothing
\* (sendNextRequest takes one line at a time), or the broker's connection is new
\* (onConnect starts nothing).  Whatever a command comes to, done, refused or
\* timed out, the next one is started.
WaitsForAReason ==
    Mqtt \in live /\ waiting # <<>> /\ parsers[Mqtt].active = <<>> =>
        stalled # "no"

\* Without a connection, another attempt is under way or will be made, however
\* errors, refusals, closings and the retry timer overtake each other.
RetryPending ==
    ~connected => link = "connecting" \/ retryArmed \/ retryReady > 0

\* A command is taken for done on the answer to its own request, except by an
\* adapter that has connected again: its new parser may be called back for a
\* request of the old one while its own is still waiting.
OkIsEarned ==
    [][\A u \in Users :
         told' = <<u, "OK">> /\ ~Waits(u) =>
             /\ bus # <<>> /\ bus[1].client = u
             /\ parsers[u].active = <<bus[1].request>>]_vars
=============================================================================
