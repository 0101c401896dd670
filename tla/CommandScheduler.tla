------------------------- MODULE CommandScheduler -------------------------
(***************************************************************************)
(* EmsCommandSender (CommandScheduler.cpp): the single queue through which *)
(* every client (TCP connection or MQTT adapter) sends requests to the EMS *)
(* bus.  One client is current; its request is out until a message for     *)
(* this PC arrives or the response timer runs out.                         *)
(*                                                                         *)
(* The program is one thread running an asio event loop, so an action is   *)
(* one completion handler.  Two things outlive a handler: the deadline     *)
(* timers, modelled by the time they have left, and `ready', the timer     *)
(* handlers asio has queued but not run.  Cancelling a timer has no effect *)
(* on a handler that is queued already, and a cancelled wait still queues  *)
(* its handler with operation_aborted: the response timer's handler tests  *)
(* for that, the send timer's handler does not.                            *)
(***************************************************************************)
EXTENDS Integers, Sequences, FiniteSets

CONSTANTS
    Clients,         \* the EmsCommandClient objects
    NoClient,        \* the null ClientPtr
    Messages,        \* requests: records with a field dest
    NoMessage,
    Devices,         \* bus addresses
    RequestTimeout,  \* in ticks; RequestTimeout and MinDistanceBetweenRequests
    MinDistance,     \* of CommandScheduler.h, 1000 ms and 100 ms
    MaxOwed,         \* bound: requests accepted and not yet transmitted
    MaxTimeouts      \* bound: queued handlers of the response timer

ASSUME ClientsAssumption == NoClient \notin Clients
ASSUME MessagesAssumption ==
    /\ \A m \in Messages : m.dest \in Devices
    /\ NoMessage \notin Messages
ASSUME TimesAssumption ==
    RequestTimeout \in Nat /\ MinDistance \in Nat /\ MinDistance < RequestTimeout
ASSUME BoundsAssumption == MaxOwed \in Nat /\ MaxTimeouts \in Nat

VARIABLES
    currentClient,    \* m_currentClient
    pending,          \* m_pending: a queue of [client, msg]
    responseTimeout,  \* m_responseTimeout: ticks left, or Off
    sendTimer,        \* m_sendTimer: ticks left, or Off
    delayed,          \* the message bound into the send timer's handler
    age,              \* m_lastCommTimes: ticks since the last communication
    ready,            \* timer handlers queued in the io_service
    sent              \* what the last step gave to sendMessageImpl

timers == <<responseTimeout, sendTimer, delayed>>
vars == <<currentClient, pending, responseTimeout, sendTimer, delayed, age,
          ready, sent>>

-----------------------------------------------------------------------------
Off == -1

\* An age above MinDistance is as good as no entry in m_lastCommTimes.
Old == MinDistance + 1

Entry == [client : Clients, msg : Messages]
TimedOut == [kind |-> "timeout"]
SendOf(m) == [kind |-> "send", msg |-> m]
Handler == {TimedOut} \cup {SendOf(m) : m \in Messages}

AtMostOne == {<<>>} \cup {<<m>> : m \in Messages}

\* The fields have their types, and a message is bound into the send timer's
\* handler exactly while that timer runs.
TypeOK ==
    /\ currentClient \in Clients \cup {NoClient}
    /\ pending \in Seq(Entry)
    /\ responseTimeout \in {Off} \cup 0..RequestTimeout
    /\ sendTimer \in {Off} \cup 0..MinDistance
    /\ delayed \in Messages \cup {NoMessage}
    /\ (sendTimer = Off) <=> (delayed = NoMessage)
    /\ age \in [Devices -> 0..Old]
    /\ ready \in Seq(Handler)
    /\ sent \in AtMostOne

Init ==
    /\ currentClient = NoClient
    /\ pending = <<>>
    /\ responseTimeout = Off
    /\ sendTimer = Off
    /\ delayed = NoMessage
    /\ age = [d \in Devices |-> Old]
    /\ ready = <<>>
    /\ sent = <<>>

-----------------------------------------------------------------------------
(***************************************************************************)
(* The private helpers.  Each takes the values its caller has computed so  *)
(* far: `handlers' is the ready queue, `ages' the communication times and  *)
(* `timeout' the response timer.                                           *)
(***************************************************************************)

\* Faulty: scheduleResponseTimeout is forgotten.
DoSendMessageNoTimer(m, ages) ==
    /\ sent' = <<m>>
    /\ responseTimeout' = responseTimeout
    /\ age' = [ages EXCEPT ![m.dest] = 0]

\* doSendMessage, with the scheduleResponseTimeout it calls: arming the timer
\* drops a wait that is still pending, whose handler ignores the abort.
DoSendMessage(m, ages) ==
    /\ sent' = <<m>>
    /\ responseTimeout' = RequestTimeout
    /\ age' = [ages EXCEPT ![m.dest] = 0]

\* Faulty: the send timer's handler returns on operation_aborted.
SupersededDropped == <<>>

\* expires_at on a timer that is waiting: the aborted handler is queued and,
\* not looking at its error code, will send its message.
Superseded == IF delayed = NoMessage THEN <<>> ELSE <<SendOf(delayed)>>

\* Faulty: the delay is one tick too long.
DelayMessageTooLong(m, timeout, ages, handlers) ==
    /\ ages[m.dest] <= MinDistance
    /\ ready' = handlers \o Superseded
    /\ sendTimer' = MinDistance + 1 - ages[m.dest]
    /\ delayed' = m
    /\ sent' = <<>>
    /\ responseTimeout' = timeout
    /\ age' = ages

\* sendMessage(message): too soon after the last communication with the
\* device, the message waits on the send timer, otherwise it goes out.
DelayMessage(m, timeout, ages, handlers) ==
    /\ ages[m.dest] <= MinDistance
    /\ ready' = handlers \o Superseded
    /\ sendTimer' = MinDistance - ages[m.dest]
    /\ delayed' = m
    /\ sent' = <<>>
    /\ responseTimeout' = timeout
    /\ age' = ages

SendNow(m, ages, handlers) ==
    /\ ages[m.dest] > MinDistance
    /\ DoSendMessage(m, ages)
    /\ ready' = handlers
    /\ UNCHANGED <<sendTimer, delayed>>

\* continueWithNextRequest on the queue `queue'.
GoIdle(queue, timeout, ages, handlers) ==
    /\ queue = <<>>
    /\ currentClient' = NoClient
    /\ pending' = <<>>
    /\ responseTimeout' = timeout
    /\ age' = ages
    /\ ready' = handlers
    /\ sent' = <<>>
    /\ UNCHANGED <<sendTimer, delayed>>

ServeFront(queue, timeout, ages, handlers) ==
    /\ queue # <<>>
    /\ currentClient' = Head(queue).client
    /\ pending' = Tail(queue)
    /\ \/ DelayMessage(Head(queue).msg, timeout, ages, handlers)
       \/ SendNow(Head(queue).msg, ages, handlers)

ContinueWithNextRequest(queue, timeout, ages, handlers) ==
    \/ GoIdle(queue, timeout, ages, handlers)
    \/ ServeFront(queue, timeout, ages, handlers)

\* Faulty: what a client sends from a callback is not queued.
PendingWithout(reaction) == pending

\* The queue after the current client, called back, has sent `reaction'
\* (nothing or one message): sendMessage(client, message) while a client is
\* current only queues.
PendingAfter(reaction) ==
    pending \o [i \in DOMAIN reaction |->
                  [client |-> currentClient, msg |-> reaction[i]]]

-----------------------------------------------------------------------------
(* The operations and the handlers. *)

\* Faulty: only queues, or does not look at wasIdle.
SendMessageQueuesOnly(c, m) ==
    /\ pending' = Append(pending, [client |-> c, msg |-> m])
    /\ sent' = <<>>
    /\ UNCHANGED <<currentClient, timers, age, ready>>

SendMessageAlwaysContinues(c, m) ==
    ContinueWithNextRequest(Append(pending, [client |-> c, msg |-> m]),
                            responseTimeout, age, ready)

\* sendMessage(client, message), called by a client outside of a callback.
SendMessage(c, m) ==
    LET queue == Append(pending, [client |-> c, msg |-> m])
    IN  IF currentClient = NoClient
        THEN ContinueWithNextRequest(queue, responseTimeout, age, ready)
        ELSE /\ pending' = queue
             /\ sent' = <<>>
             /\ UNCHANGED <<currentClient, timers, age, ready>>

\* handlePcMessage for a message from `source'.
HandlePcMessage(source, reaction) ==
    /\ currentClient = NoClient => reaction = <<>>
    /\ ContinueWithNextRequest(PendingAfter(reaction), Off,
                               [age EXCEPT ![source] = 0], ready)

\* Faulty: calls the client back but does not continue.
HandleResponseTimeoutStops(reaction) ==
    /\ ready # <<>> /\ Head(ready) = TimedOut
    /\ currentClient = NoClient => reaction = <<>>
    /\ pending' = PendingAfter(reaction)
    /\ ready' = Tail(ready)
    /\ sent' = <<>>
    /\ UNCHANGED <<currentClient, timers, age>>

\* The handler bound in scheduleResponseTimeout, when it was not aborted.
HandleResponseTimeout(reaction) ==
    /\ ready # <<>> /\ Head(ready) = TimedOut
    /\ currentClient = NoClient => reaction = <<>>
    /\ ContinueWithNextRequest(PendingAfter(reaction), responseTimeout, age,
                               Tail(ready))

\* The handler bound in sendMessage(message), whatever its error code.
HandleSendTimer ==
    /\ ready # <<>> /\ Head(ready) # TimedOut
    /\ DoSendMessage(Head(ready).msg, age)
    /\ ready' = Tail(ready)
    /\ UNCHANGED <<currentClient, pending, sendTimer, delayed>>

\* asio finds a timer that is due and queues its handler.
ResponseTimeoutExpires ==
    /\ responseTimeout = 0
    /\ Cardinality({i \in DOMAIN ready : ready[i] = TimedOut}) < MaxTimeouts
    /\ responseTimeout' = Off
    /\ ready' = Append(ready, TimedOut)
    /\ sent' = <<>>
    /\ UNCHANGED <<currentClient, pending, sendTimer, delayed, age>>

SendTimerExpires ==
    /\ sendTimer = 0
    /\ sendTimer' = Off
    /\ delayed' = NoMessage
    /\ ready' = Append(ready, SendOf(delayed))
    /\ sent' = <<>>
    /\ UNCHANGED <<currentClient, pending, responseTimeout, age>>

\* Time passes; a timer that is due waits for the event loop.
Elapse(t) == IF t > 0 THEN t - 1 ELSE t

Tick ==
    /\ \/ responseTimeout > 0
       \/ sendTimer > 0
       \/ \E d \in Devices : age[d] < Old
    /\ responseTimeout' = Elapse(responseTimeout)
    /\ sendTimer' = Elapse(sendTimer)
    /\ age' = [d \in Devices |-> IF age[d] < Old THEN age[d] + 1 ELSE Old]
    /\ sent' = <<>>
    /\ UNCHANGED <<currentClient, pending, delayed, ready>>

-----------------------------------------------------------------------------
\* Requests accepted and not yet transmitted.
OwedCount ==
    Len(pending) + Cardinality({i \in DOMAIN ready : ready[i] # TimedOut})
    + (IF delayed = NoMessage THEN 0 ELSE 1)

Room == OwedCount < MaxOwed

\* What a client called back may do: send nothing, or one message.
Reactions == IF Room THEN AtMostOne ELSE {<<>>}

EventLoop ==
    \/ \E reaction \in Reactions : HandleResponseTimeout(reaction)
    \/ HandleSendTimer
    \/ ResponseTimeoutExpires
    \/ SendTimerExpires
    \/ Tick

Next ==
    \/ \E c \in Clients, m \in Messages : Room /\ SendMessage(c, m)
    \/ \E d \in Devices, reaction \in Reactions : HandlePcMessage(d, reaction)
    \/ EventLoop

Spec == Init /\ [][Next]_vars

(***************************************************************************)
(* The event loop keeps running: queued handlers run, due timers are       *)
(* noticed and time passes.  Nothing is assumed of clients or devices.     *)
(***************************************************************************)
Fairness ==
    /\ WF_vars(\E reaction \in Reactions : HandleResponseTimeout(reaction))
    /\ WF_vars(HandleSendTimer)
    /\ WF_vars(ResponseTimeoutExpires)
    /\ WF_vars(SendTimerExpires)
    /\ WF_vars(Tick)

FairSpec == Spec /\ Fairness

-----------------------------------------------------------------------------
(* Properties *)

\* A request waits in m_pending only while a client is current: idle, the
\* sender has nothing left to send (continueWithNextRequest, sendMessage).
NoStrandedRequest == currentClient = NoClient => pending = <<>>

\* While a client is current something will still call continueWithNextRequest:
\* the response timer runs, its handler is queued, or a message is waiting to
\* go out and will start the timer.  Otherwise m_pending would block for ever.
CurrentIsGuarded ==
    currentClient # NoClient =>
        \/ responseTimeout # Off
        \/ sendTimer # Off
        \/ ready # <<>>

\* How often m is owed to the bus.
Places(m) ==
    Cardinality({i \in DOMAIN pending : pending[i].msg = m})
    + Cardinality({i \in DOMAIN ready : ready[i] = SendOf(m)})
    + (IF delayed = m THEN 1 ELSE 0)

\* The sender implements RequestQueue: no request is lost or sent twice by the
\* way timers are superseded, aborted and cancelled.
Queue == INSTANCE RequestQueue WITH owed <- [m \in Messages |-> Places(m)]
RefinesRequestQueue == Queue!Spec

\* Every accepted request reaches the bus, as long as the event loop runs.
EventuallyTransmitted == Queue!EventuallyTransmitted

\* MinDistanceBetweenRequests: two communications with one device are at least
\* that far apart.
RequestSpacing ==
    [][\A m \in Messages : sent' = <<m>> => age[m.dest] >= MinDistance]_vars
=============================================================================
