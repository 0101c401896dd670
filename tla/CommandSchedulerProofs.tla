---------------------- MODULE CommandSchedulerProofs ----------------------
(***************************************************************************)
(* Proofs about EmsCommandSender for any number of clients, devices and    *)
(* requests, any lengths of the two timers and any bounds.                 *)
(***************************************************************************)
EXTENDS CommandScheduler, SequenceTheorems, FiniteSetTheorems, TLAPS

USE ClientsAssumption, MessagesAssumption, TimesAssumption, BoundsAssumption

Timeouts == {Off} \cup 0..RequestTimeout
Ages == [Devices -> 0..Old]

\* The three invariants together are inductive: CurrentIsGuarded needs to know
\* that the timers are Off or counting (TypeOK), and NoStrandedRequest that a
\* queue entry names a client.
IInv == TypeOK /\ NoStrandedRequest /\ CurrentIsGuarded

\* A new EmsCommandSender is idle and has nothing queued.
LEMMA InitIInv == Init => IInv
BY DEF Init, IInv, TypeOK, NoStrandedRequest, CurrentIsGuarded, Off, Old,
       AtMostOne

\* Transmitting or delaying a request leaves a timer running (doSendMessage,
\* sendMessage): the heart of CurrentIsGuarded.
LEMMA SendArmsATimer ==
    ASSUME TypeOK, NEW m \in Messages, NEW timeout \in Timeouts,
           NEW ages \in Ages, NEW handlers \in Seq(Handler),
           \/ DelayMessage(m, timeout, ages, handlers)
           \/ SendNow(m, ages, handlers)
    PROVE  /\ responseTimeout' \in Timeouts
           /\ sendTimer' \in {Off} \cup 0..MinDistance
           /\ delayed' \in Messages \cup {NoMessage}
           /\ (sendTimer' = Off) <=> (delayed' = NoMessage)
           /\ age' \in Ages
           /\ ready' \in Seq(Handler)
           /\ sent' \in AtMostOne
           /\ responseTimeout' # Off \/ sendTimer' # Off
<1>1. CASE DelayMessage(m, timeout, ages, handlers)
  <2>1. Superseded \in Seq(Handler)
    <3>1. delayed \in Messages => SendOf(delayed) \in Handler
      BY DEF Handler
    <3> QED BY <3>1 DEF Superseded, TypeOK
  <2>2. ready' \in Seq(Handler)
    BY <1>1, <2>1 DEF DelayMessage
  <2>3. MinDistance - ages[m.dest] \in 0..MinDistance
    BY <1>1 DEF DelayMessage, Ages, Old
  <2> QED
    BY <1>1, <2>2, <2>3 DEF DelayMessage, Ages, Timeouts, Off, AtMostOne
<1>2. CASE SendNow(m, ages, handlers)
  BY <1>2 DEF SendNow, DoSendMessage, TypeOK, Ages, Timeouts, Off, Old, AtMostOne
<1> QED BY <1>1, <1>2

\* continueWithNextRequest re-establishes the invariant whatever queue, timer,
\* communication times and handlers its caller has computed.
LEMMA ContinuePreserves ==
    ASSUME TypeOK, NEW queue \in Seq(Entry), NEW timeout \in Timeouts,
           NEW ages \in Ages, NEW handlers \in Seq(Handler),
           ContinueWithNextRequest(queue, timeout, ages, handlers)
    PROVE  IInv'
<1>1. CASE GoIdle(queue, timeout, ages, handlers)
  BY <1>1 DEF GoIdle, IInv, TypeOK, NoStrandedRequest, CurrentIsGuarded, Ages,
              Timeouts, AtMostOne
<1>2. CASE ServeFront(queue, timeout, ages, handlers)
  <2> DEFINE front == Head(queue)
  <2>1. front \in Entry /\ Tail(queue) \in Seq(Entry)
    BY <1>2 DEF ServeFront
  <2>2. front.client \in Clients /\ front.msg \in Messages
    BY <2>1 DEF Entry
  <2>3. \/ DelayMessage(front.msg, timeout, ages, handlers)
        \/ SendNow(front.msg, ages, handlers)
    BY <1>2 DEF ServeFront
  <2>4. currentClient' \in Clients /\ pending' \in Seq(Entry)
    BY <1>2, <2>1, <2>2 DEF ServeFront
  <2> HIDE DEF front
  <2>5. /\ responseTimeout' \in Timeouts
        /\ sendTimer' \in {Off} \cup 0..MinDistance
        /\ delayed' \in Messages \cup {NoMessage}
        /\ (sendTimer' = Off) <=> (delayed' = NoMessage)
        /\ age' \in Ages
        /\ ready' \in Seq(Handler)
        /\ sent' \in AtMostOne
        /\ responseTimeout' # Off \/ sendTimer' # Off
    BY <2>2, <2>3, SendArmsATimer
  <2> QED
    BY <2>4, <2>5 DEF IInv, TypeOK, NoStrandedRequest, CurrentIsGuarded,
                      Timeouts, Ages
<1> QED BY <1>1, <1>2 DEF ContinueWithNextRequest

\* What a client called back adds to the queue are entries.
LEMMA PendingAfterType ==
    ASSUME TypeOK, NEW reaction \in AtMostOne,
           currentClient = NoClient => reaction = <<>>
    PROVE  PendingAfter(reaction) \in Seq(Entry)
<1> DEFINE added == [i \in DOMAIN reaction |->
                       [client |-> currentClient, msg |-> reaction[i]]]
<1>1. CASE reaction = <<>>
  <2>1. added = <<>>
    BY <1>1
  <2> QED BY <2>1 DEF PendingAfter, TypeOK
<1>2. CASE reaction # <<>>
  <2>1. currentClient \in Clients
    BY <1>2 DEF TypeOK
  <2>2. PICK m \in Messages : reaction = <<m>>
    BY <1>2 DEF AtMostOne
  <2>3. added = <<[client |-> currentClient, msg |-> m]>>
    BY <2>2
  <2>4. added \in Seq(Entry)
    BY <2>1, <2>3 DEF Entry
  <2> QED BY <2>4 DEF PendingAfter, TypeOK
<1> QED BY <1>1, <1>2

\* A client called back sends nothing or one message.
LEMMA ReactionsType == Reactions \subseteq AtMostOne
BY DEF Reactions, AtMostOne

\* Every handler of the sender preserves the invariant, one step per handler.
LEMMA NextIInv == IInv /\ [Next]_vars => IInv'
<1> SUFFICES ASSUME IInv, [Next]_vars PROVE IInv'
  OBVIOUS
<1> USE DEF IInv
<1>0. /\ responseTimeout \in Timeouts
      /\ age \in Ages
      /\ Off \in Timeouts
  BY DEF TypeOK, Timeouts, Ages
<1>1. ASSUME NEW c \in Clients, NEW m \in Messages, SendMessage(c, m)
      PROVE  IInv'
  <2> DEFINE queue == Append(pending, [client |-> c, msg |-> m])
  <2>1. queue \in Seq(Entry)
    BY DEF TypeOK, Entry
  <2>2. CASE currentClient = NoClient
    BY <1>0, <1>1, <2>1, <2>2, ContinuePreserves DEF SendMessage, TypeOK
  <2>3. CASE currentClient # NoClient
    BY <1>1, <2>1, <2>3 DEF SendMessage, TypeOK, NoStrandedRequest,
                            CurrentIsGuarded, timers, AtMostOne
  <2> QED BY <2>2, <2>3
<1>2. ASSUME NEW d \in Devices, NEW reaction \in Reactions,
             HandlePcMessage(d, reaction)
      PROVE  IInv'
  <2>1. [age EXCEPT ![d] = 0] \in Ages
    BY DEF TypeOK, Ages, Old
  <2>2. PendingAfter(reaction) \in Seq(Entry)
    BY <1>2, PendingAfterType, ReactionsType DEF HandlePcMessage
  <2> QED
    BY <1>0, <1>2, <2>1, <2>2, ContinuePreserves DEF HandlePcMessage, TypeOK
<1>3. ASSUME NEW reaction \in Reactions, HandleResponseTimeout(reaction)
      PROVE  IInv'
  <2>1. PendingAfter(reaction) \in Seq(Entry)
    BY <1>3, PendingAfterType, ReactionsType DEF HandleResponseTimeout
  <2>2. Tail(ready) \in Seq(Handler)
    BY <1>3 DEF HandleResponseTimeout, TypeOK
  <2> QED
    BY <1>0, <1>3, <2>1, <2>2, ContinuePreserves DEF HandleResponseTimeout
<1>4. CASE HandleSendTimer
  <2>0. Head(ready) \in Handler /\ Head(ready) # TimedOut
    BY <1>4 DEF HandleSendTimer, TypeOK
  <2>1. PICK m \in Messages : Head(ready) = SendOf(m)
    BY <2>0 DEF Handler
  <2>2. Head(ready).msg = m
    BY <2>1 DEF SendOf
  <2>3. ready' \in Seq(Handler)
    BY <1>4 DEF HandleSendTimer, TypeOK
  <2> QED
    BY <1>4, <2>2, <2>3 DEF HandleSendTimer, DoSendMessage, TypeOK, AtMostOne,
         NoStrandedRequest, CurrentIsGuarded, Off, Old
<1>5. CASE ResponseTimeoutExpires
  <2>1. ready' \in Seq(Handler) /\ ready' # <<>>
    BY <1>5 DEF ResponseTimeoutExpires, TypeOK, Handler
  <2> QED
    BY <1>5, <2>1 DEF ResponseTimeoutExpires, TypeOK, NoStrandedRequest,
         CurrentIsGuarded, AtMostOne
<1>6. CASE SendTimerExpires
  <2>1. delayed \in Messages
    BY <1>6 DEF SendTimerExpires, TypeOK, Off
  <2>2. ready' \in Seq(Handler) /\ ready' # <<>>
    BY <1>6, <2>1 DEF SendTimerExpires, TypeOK, Handler
  <2> QED
    BY <1>6, <2>2 DEF SendTimerExpires, TypeOK, NoStrandedRequest,
         CurrentIsGuarded, AtMostOne
<1>7. CASE Tick
  BY <1>7 DEF Tick, Elapse, TypeOK, NoStrandedRequest, CurrentIsGuarded,
              AtMostOne, Off, Old
<1>8. CASE UNCHANGED vars
  BY <1>8 DEF vars, TypeOK, NoStrandedRequest, CurrentIsGuarded
<1> QED
  BY <1>1, <1>2, <1>3, <1>4, <1>5, <1>6, <1>7, <1>8 DEF Next, EventLoop

\* The state of EmsCommandSender keeps its types.
THEOREM TypeCorrect == Spec => []TypeOK
<1>1. IInv => TypeOK
  BY DEF IInv
<1> QED BY InitIInv, NextIInv, <1>1, PTL DEF Spec

\* continueWithNextRequest and sendMessage never leave a request in m_pending
\* with no current client: such a request would wait for another client.
THEOREM NeverStranded == Spec => []NoStrandedRequest
<1>1. IInv => NoStrandedRequest
  BY DEF IInv
<1> QED BY InitIInv, NextIInv, <1>1, PTL DEF Spec

\* While a client is current, a timer that runs or a queued handler is left to
\* reach continueWithNextRequest, so the queue is never blocked for good.
THEOREM AlwaysGuarded == Spec => []CurrentIsGuarded
<1>1. IInv => CurrentIsGuarded
  BY DEF IInv
<1> QED BY InitIInv, NextIInv, <1>1, PTL DEF Spec

-----------------------------------------------------------------------------
(***************************************************************************)
(* The sender implements RequestQueue: no request is lost, sent twice or   *)
(* made up by the way the queue, the send timer and its queued handlers    *)
(* pass it on.                                                             *)
(***************************************************************************)

\* How many elements of a sequence are in a set.
Count(s, T) == Cardinality({i \in DOMAIN s : s[i] \in T})

One(condition) == IF condition THEN 1 ELSE 0

\* A sequence has finitely many elements.
LEMMA CountFinite ==
    ASSUME NEW S, NEW s \in Seq(S), NEW T
    PROVE  IsFiniteSet({i \in DOMAIN s : s[i] \in T})
<1>1. IsFiniteSet(1..Len(s)) /\ DOMAIN s = 1..Len(s)
  BY FS_Interval
<1>2. {i \in DOMAIN s : s[i] \in T} \in SUBSET (1..Len(s))
  BY <1>1
<1> QED BY <1>1, <1>2, FS_Subset

LEMMA CountType ==
    ASSUME NEW S, NEW s \in Seq(S), NEW T
    PROVE  Count(s, T) \in Nat
BY CountFinite, FS_CardinalityType DEF Count

\* Nothing is in an empty sequence.
LEMMA CountEmpty == ASSUME NEW T PROVE Count(<<>>, T) = 0
<1>1. {i \in DOMAIN <<>> : <<>>[i] \in T} = {}
  OBVIOUS
<1> QED BY <1>1, FS_EmptySet DEF Count

\* An element that is appended is counted once.
LEMMA CountAppend ==
    ASSUME NEW S, NEW s \in Seq(S), NEW e \in S, NEW T
    PROVE  Count(Append(s, e), T) = Count(s, T) + One(e \in T)
<1> DEFINE old == {i \in DOMAIN s : s[i] \in T}
           new == {i \in DOMAIN Append(s, e) : Append(s, e)[i] \in T}
           n == Len(s) + 1
<1>1. /\ DOMAIN s = 1..Len(s) /\ Len(s) \in Nat
      /\ DOMAIN Append(s, e) = 1..n
      /\ \A i \in 1..Len(s) : Append(s, e)[i] = s[i]
      /\ Append(s, e)[n] = e
  BY AppendProperties
<1>2. IsFiniteSet(old) /\ Cardinality(old) \in Nat
  BY CountFinite, FS_CardinalityType
<1>3. n \notin old
  BY <1>1
<1>4. CASE e \in T
  <2>1. new = old \cup {n}
    BY <1>1, <1>4
  <2> HIDE DEF old, new
  <2>2. Cardinality(new) = Cardinality(old) + 1
    BY <1>2, <1>3, <2>1, FS_AddElement
  <2> QED BY <1>4, <2>2 DEF Count, One, old, new
<1>5. CASE e \notin T
  <2>1. new = old
    BY <1>1, <1>5
  <2>2. Count(Append(s, e), T) = Count(s, T)
    BY <2>1 DEF Count
  <2> QED BY <1>5, <2>2, CountType DEF One
<1> QED BY <1>4, <1>5

\* The front of a queue is counted once.
LEMMA CountTail ==
    ASSUME NEW S, NEW s \in Seq(S), s # <<>>, NEW T
    PROVE  Count(s, T) = Count(Tail(s), T) + One(Head(s) \in T)
<1> DEFINE rest == {i \in DOMAIN Tail(s) : Tail(s)[i] \in T}
           all == {i \in DOMAIN s : s[i] \in T}
           later == {i \in DOMAIN s : i # 1 /\ s[i] \in T}
           shift == [i \in rest |-> i + 1]
<1>1. /\ DOMAIN s = 1..Len(s) /\ Len(s) \in Nat \ {0}
      /\ Tail(s) \in Seq(S) /\ DOMAIN Tail(s) = 1..Len(s) - 1
      /\ \A i \in 1..Len(s) - 1 : Tail(s)[i] = s[i + 1]
      /\ Head(s) = s[1]
  BY HeadTailProperties, EmptySeq
<1>2. IsFiniteSet(rest) /\ Cardinality(rest) \in Nat
  BY <1>1, CountFinite, FS_CardinalityType
<1>3. shift \in Bijection(rest, later)
  <2>1. \A i \in rest : i \in Nat /\ i + 1 \in later
    BY <1>1
  <2>2. \A j \in later : j \in Nat /\ j - 1 \in rest /\ (j - 1) + 1 = j
    BY <1>1
  <2> HIDE DEF rest, later
  <2>3. shift \in [rest -> later]
    BY <2>1
  <2>4. \A i, j \in rest : shift[i] = shift[j] => i = j
    BY <2>1
  <2>5. \A j \in later : \E i \in rest : shift[i] = j
    BY <2>2
  <2> QED BY <2>3, <2>4, <2>5 DEF Bijection, Injection, Surjection, IsInjective
<1>4. IsFiniteSet(later) /\ Cardinality(later) = Cardinality(rest)
  <2> HIDE DEF rest, later, shift
  <2>1. ExistsBijection(rest, later)
    BY <1>3 DEF ExistsBijection
  <2> QED BY <1>2, <2>1, FS_Bijection
<1>5. 1 \notin later
  OBVIOUS
<1>6. CASE Head(s) \in T
  <2>1. all = later \cup {1}
    BY <1>1, <1>6
  <2> HIDE DEF all, later, rest
  <2>2. Cardinality(all) = Cardinality(later) + 1
    BY <1>2, <1>4, <1>5, <2>1, FS_AddElement
  <2> QED BY <1>4, <1>6, <2>2 DEF Count, One, all, rest
<1>7. CASE Head(s) \notin T
  <2>1. all = later
    BY <1>1, <1>7
  <2>2. Count(s, T) = Count(Tail(s), T)
    BY <1>4, <2>1 DEF Count
  <2> QED BY <1>1, <1>7, <2>2, CountType DEF One
<1> QED BY <1>6, <1>7

-----------------------------------------------------------------------------
\* What is owed of message m: the entries of a queue, the queued handlers of the
\* send timer, and the message its next handler is to send.
EntriesOf(m) == {e \in Entry : e.msg = m}
Due(queue, handlers, message, m) ==
    Count(queue, EntriesOf(m)) + Count(handlers, {SendOf(m)}) + One(message = m)

\* Places(m), for any queue, handlers and delayed message.
PlacesIn(queue, handlers, message, m) ==
    Cardinality({i \in DOMAIN queue : queue[i].msg = m})
    + Cardinality({i \in DOMAIN handlers : handlers[i] = SendOf(m)})
    + (IF message = m THEN 1 ELSE 0)

\* What is owed is the number of these places.
LEMMA DueIsPlaces ==
    ASSUME NEW queue \in Seq(Entry), NEW handlers \in Seq(Handler), NEW message,
           NEW m \in Messages
    PROVE  /\ Due(queue, handlers, message, m) \in Nat
           /\ Due(queue, handlers, message, m) = PlacesIn(queue, handlers, message, m)
<1>1. {i \in DOMAIN queue : queue[i].msg = m}
        = {i \in DOMAIN queue : queue[i] \in EntriesOf(m)}
  BY DEF EntriesOf
<1>2. {i \in DOMAIN handlers : handlers[i] = SendOf(m)}
        = {i \in DOMAIN handlers : handlers[i] \in {SendOf(m)}}
  OBVIOUS
<1>3. Count(queue, EntriesOf(m)) \in Nat /\ Count(handlers, {SendOf(m)}) \in Nat
  BY CountType
<1>4. One(message = m) \in Nat
  BY DEF One
<1>5. Due(queue, handlers, message, m) \in Nat
  BY <1>3, <1>4 DEF Due
<1> QED BY <1>1, <1>2, <1>5 DEF Due, Count, One, PlacesIn

\* So what is due is what the refinement mapping says is owed, before and after
\* a step.
LEMMA PlacesAreDue ==
    ASSUME TypeOK, TypeOK', NEW m \in Messages
    PROVE  /\ Places(m) = Due(pending, ready, delayed, m) /\ Places(m) \in Nat
           /\ Places(m)' = Due(pending', ready', delayed', m) /\ Places(m)' \in Nat
<1>1. /\ pending \in Seq(Entry) /\ ready \in Seq(Handler)
      /\ pending' \in Seq(Entry) /\ ready' \in Seq(Handler)
  BY DEF TypeOK
<1>2. /\ Due(pending, ready, delayed, m) \in Nat
      /\ Due(pending, ready, delayed, m) = Places(m)
  <2>1. Places(m) = PlacesIn(pending, ready, delayed, m)
    BY Zenon DEF Places, PlacesIn
  <2> QED BY <1>1, <2>1, DueIsPlaces
<1>3. /\ Due(pending', ready', delayed', m) \in Nat
      /\ Due(pending', ready', delayed', m) = Places(m)'
  <2>1. Places(m)' = PlacesIn(pending', ready', delayed', m)
    BY Zenon DEF Places, PlacesIn
  <2> QED BY <1>1, <2>1, DueIsPlaces
<1> QED BY <1>2, <1>3

\* continueWithNextRequest transmits the front of the queue, or passes it on to
\* the send timer, whose message, if it had one, is passed on to its handler.
LEMMA ContinueTransmits ==
    ASSUME TypeOK, NEW queue \in Seq(Entry), NEW timeout, NEW ages,
           NEW handlers \in Seq(Handler),
           ContinueWithNextRequest(queue, timeout, ages, handlers)
    PROVE  /\ sent' \in AtMostOne
           /\ \A m \in Messages :
                Due(queue, handlers, delayed, m)
                  = Due(pending', ready', delayed', m) + One(sent' = <<m>>)
<1>1. CASE GoIdle(queue, timeout, ages, handlers)
  <2>1. /\ sent' = <<>> /\ pending' = queue /\ ready' = handlers
        /\ delayed' = delayed
    BY <1>1 DEF GoIdle
  <2>2. \A m \in Messages : Due(queue, handlers, delayed, m) \in Nat
    BY CountType DEF Due, One
  <2> QED BY <2>1, <2>2 DEF One, AtMostOne
<1>2. CASE ServeFront(queue, timeout, ages, handlers)
  <2> DEFINE f == Head(queue).msg
  <2>1. /\ queue # <<>> /\ Head(queue) \in Entry /\ Tail(queue) \in Seq(Entry)
        /\ f \in Messages /\ pending' = Tail(queue)
    <3>1. /\ queue # <<>> /\ Head(queue) \in Entry /\ Tail(queue) \in Seq(Entry)
          /\ pending' = Tail(queue)
      BY <1>2, HeadTailProperties DEF ServeFront
    <3> QED BY <3>1 DEF Entry
  <2>2. \A m \in Messages :
          Count(queue, EntriesOf(m)) = Count(pending', EntriesOf(m)) + One(f = m)
    BY <2>1, CountTail DEF EntriesOf, One
  <2>3. \A m \in Messages :
          Count(pending', EntriesOf(m)) \in Nat /\ Count(handlers, {SendOf(m)}) \in Nat
    BY <2>1, CountType
  <2>4. CASE SendNow(f, ages, handlers)
    <3>1. sent' = <<f>> /\ ready' = handlers /\ delayed' = delayed
      BY <2>4 DEF SendNow, DoSendMessage
    <3>2. sent' \in AtMostOne /\ \A m \in Messages : (sent' = <<m>>) <=> (f = m)
      BY <2>1, <3>1 DEF AtMostOne
    <3>3. \A m \in Messages : One(sent' = <<m>>) = One(f = m) /\ One(f = m) \in Nat
                                /\ One(delayed = m) \in Nat
      BY <3>2 DEF One
    <3> HIDE DEF f
    <3>4. ASSUME NEW m \in Messages
          PROVE  Due(queue, handlers, delayed, m)
                   = Due(pending', ready', delayed', m) + One(sent' = <<m>>)
      <4>1. /\ Count(queue, EntriesOf(m)) = Count(pending', EntriesOf(m)) + One(f = m)
            /\ One(sent' = <<m>>) = One(f = m)
        BY <2>2, <3>3
      <4>2. Due(queue, handlers, delayed, m)
              = (Count(pending', EntriesOf(m)) + One(f = m))
                  + Count(handlers, {SendOf(m)}) + One(delayed = m)
        BY <4>1, Zenon DEF Due
      <4>3. Due(pending', ready', delayed', m)
              = Count(pending', EntriesOf(m)) + Count(handlers, {SendOf(m)})
                  + One(delayed = m)
        BY <3>1, Zenon DEF Due
      <4>4. /\ Count(pending', EntriesOf(m)) \in Nat /\ Count(handlers, {SendOf(m)}) \in Nat
            /\ One(f = m) \in Nat /\ One(delayed = m) \in Nat
        BY <2>3, <3>3
      <4> QED BY <4>1, <4>2, <4>3, <4>4
    <3> QED BY <3>2, <3>4
  <2>5. CASE DelayMessage(f, timeout, ages, handlers)
    <3>1. sent' = <<>> /\ ready' = handlers \o Superseded /\ delayed' = f
      BY <2>5 DEF DelayMessage
    <3>2. \A m \in Messages :
            Count(ready', {SendOf(m)}) = Count(handlers, {SendOf(m)}) + One(delayed = m)
      <4>1. CASE delayed = NoMessage
        <5>1. ready' = handlers
          BY <3>1, <4>1 DEF Superseded
        <5>2. \A m \in Messages : One(delayed = m) = 0
          BY <4>1, MessagesAssumption DEF One
        <5> QED BY <2>3, <5>1, <5>2
      <4>2. CASE delayed # NoMessage
        <5>1. delayed \in Messages /\ SendOf(delayed) \in Handler
          BY <4>2 DEF TypeOK, Handler
        <5>2. ready' = Append(handlers, SendOf(delayed))
          BY <3>1, <4>2, <5>1, AppendIsConcat DEF Superseded
        <5>3. \A m \in Messages : SendOf(delayed) \in {SendOf(m)} <=> delayed = m
          BY <5>1 DEF SendOf
        <5>4. \A m \in Messages :
                Count(ready', {SendOf(m)})
                  = Count(handlers, {SendOf(m)}) + One(SendOf(delayed) \in {SendOf(m)})
          BY <5>1, <5>2, CountAppend
        <5>5. \A m \in Messages : One(SendOf(delayed) \in {SendOf(m)}) = One(delayed = m)
          BY <5>3 DEF One
        <5> QED BY <5>4, <5>5
      <4> QED BY <4>1, <4>2
    <3>3. \A m \in Messages : /\ One(sent' = <<m>>) = 0 /\ One(delayed' = m) = One(f = m)
                                /\ One(f = m) \in Nat /\ One(delayed = m) \in Nat
      BY <3>1 DEF One
    <3>4. sent' \in AtMostOne
      BY <3>1 DEF AtMostOne
    <3> HIDE DEF f
    <3>5. ASSUME NEW m \in Messages
          PROVE  Due(queue, handlers, delayed, m)
                   = Due(pending', ready', delayed', m) + One(sent' = <<m>>)
      <4>1. Due(queue, handlers, delayed, m)
              = Count(pending', EntriesOf(m)) + One(f = m)
                + Count(handlers, {SendOf(m)}) + One(delayed = m)
        BY <2>2, <2>3, <3>3 DEF Due
      <4>2. Due(pending', ready', delayed', m)
              = Count(pending', EntriesOf(m)) + Count(ready', {SendOf(m)}) + One(f = m)
        BY <3>3 DEF Due
      <4>3. Count(ready', {SendOf(m)}) = Count(handlers, {SendOf(m)}) + One(delayed = m)
        BY <3>2
      <4>4. /\ One(sent' = <<m>>) = 0
            /\ Count(pending', EntriesOf(m)) \in Nat /\ Count(handlers, {SendOf(m)}) \in Nat
            /\ One(f = m) \in Nat /\ One(delayed = m) \in Nat
        BY <2>3, <3>3
      <4> QED BY <4>1, <4>2, <4>3, <4>4
    <3> QED BY <3>4, <3>5
  <2> QED BY <1>2, <2>4, <2>5 DEF ServeFront
<1> QED BY <1>1, <1>2 DEF ContinueWithNextRequest

\* A request that is accepted is owed once more.
LEMMA AcceptedIsDue ==
    ASSUME TypeOK, NEW c \in Clients, NEW m \in Messages
    PROVE  /\ Append(pending, [client |-> c, msg |-> m]) \in Seq(Entry)
           /\ \A x \in Messages :
                Count(Append(pending, [client |-> c, msg |-> m]), EntriesOf(x))
                  = Count(pending, EntriesOf(x)) + One(m = x)
<1> DEFINE e == [client |-> c, msg |-> m]
<1>1. e \in Entry /\ pending \in Seq(Entry) /\ e.msg = m
  BY DEF Entry, TypeOK
<1>2. \A x \in Messages : e \in EntriesOf(x) <=> m = x
  BY <1>1 DEF EntriesOf
<1> HIDE DEF e
<1>3. \A x \in Messages :
        Count(Append(pending, e), EntriesOf(x)) = Count(pending, EntriesOf(x)) + One(m = x)
  BY <1>1, <1>2, CountAppend DEF One
<1>4. Append(pending, e) \in Seq(Entry)
  BY <1>1, AppendProperties
<1> QED BY <1>3, <1>4 DEF e

\* So is what a client called back sends.
LEMMA ReactionIsDue ==
    ASSUME TypeOK, NEW reaction \in AtMostOne,
           currentClient = NoClient => reaction = <<>>
    PROVE  /\ PendingAfter(reaction) \in Seq(Entry)
           /\ \A x \in Messages :
                Count(PendingAfter(reaction), EntriesOf(x))
                  = Count(pending, EntriesOf(x)) + One(reaction = <<x>>)
<1> DEFINE added == [i \in DOMAIN reaction |->
                       [client |-> currentClient, msg |-> reaction[i]]]
<1>1. CASE reaction = <<>>
  <2>1. added = <<>>
    BY <1>1
  <2>2. PendingAfter(reaction) = pending /\ pending \in Seq(Entry)
    BY <2>1 DEF PendingAfter, TypeOK
  <2>3. \A x \in Messages : reaction # <<x>> /\ Count(pending, EntriesOf(x)) \in Nat
    BY <1>1, <2>2, CountType
  <2> QED BY <2>2, <2>3 DEF One
<1>2. CASE reaction # <<>>
  <2>1. PICK m \in Messages : reaction = <<m>>
    BY <1>2 DEF AtMostOne
  <2>2. currentClient \in Clients
    BY <1>2 DEF TypeOK
  <2>3. added = <<[client |-> currentClient, msg |-> m]>>
    BY <2>1
  <2>4. [client |-> currentClient, msg |-> m] \in Entry /\ pending \in Seq(Entry)
    BY <2>2 DEF Entry, TypeOK
  <2>5. PendingAfter(reaction) = Append(pending, [client |-> currentClient, msg |-> m])
    BY <2>3, <2>4, AppendIsConcat DEF PendingAfter
  <2>6. \A x \in Messages : (reaction = <<x>>) <=> (m = x)
    BY <2>1
  <2> QED BY <2>2, <2>5, <2>6, AcceptedIsDue DEF One
<1> QED BY <1>1, <1>2

-----------------------------------------------------------------------------
\* A step that accepts `accepted' and pays what it transmits.
Accounted(accepted) ==
    /\ sent' \in AtMostOne
    /\ \A m \in Messages :
         Places(m)' + One(sent' = <<m>>) = Places(m) + One(accepted = <<m>>)

\* Such a step is one of the abstract queue.
LEMMA AccountedIsAStep ==
    ASSUME TypeOK, TypeOK', NEW accepted \in AtMostOne, Accounted(accepted)
    PROVE  Queue!Next
<1> DEFINE owed == [m \in Messages |-> Places(m)]
<1>1. \A m \in Messages : Places(m) \in Nat /\ Places(m)' \in Nat
  BY PlacesAreDue
<1>2. \A m \in Messages :
        /\ Queue!Occurs(m, accepted) = One(accepted = <<m>>)
        /\ Queue!Occurs(m, sent') = One(sent' = <<m>>)
  BY DEF Queue!Occurs, One
<1>3. \A m \in Messages :
        /\ One(accepted = <<m>>) \in Nat /\ One(sent' = <<m>>) \in Nat
  BY DEF One
<1>4. \A m \in Messages :
        /\ owed[m] + Queue!Occurs(m, accepted) >= Queue!Occurs(m, sent')
        /\ owed'[m] = owed[m] + Queue!Occurs(m, accepted) - Queue!Occurs(m, sent')
  <2> SUFFICES ASSUME NEW m \in Messages
               PROVE  /\ owed[m] + Queue!Occurs(m, accepted) >= Queue!Occurs(m, sent')
                      /\ owed'[m] = owed[m] + Queue!Occurs(m, accepted)
                                      - Queue!Occurs(m, sent')
    OBVIOUS
  <2>1. owed[m] = Places(m) /\ owed'[m] = Places(m)'
    OBVIOUS
  <2>2. Places(m)' + One(sent' = <<m>>) = Places(m) + One(accepted = <<m>>)
    BY DEF Accounted
  <2> QED BY <1>1, <1>2, <1>3, <2>1, <2>2
<1>5. owed' = [m \in Messages |->
                 owed[m] + Queue!Occurs(m, accepted) - Queue!Occurs(m, sent')]
  BY <1>4
<1>6. Queue!Step(accepted, sent')
  BY <1>4, <1>5 DEF Queue!Step
<1>7. accepted \in Queue!AtMostOne /\ sent' \in Queue!AtMostOne
  BY DEF Accounted, Queue!AtMostOne, AtMostOne
<1> QED BY <1>6, <1>7 DEF Queue!Next

\* A caller of continueWithNextRequest that has added `accepted' to the queue.
LEMMA ContinueIsAccounted ==
    ASSUME TypeOK, TypeOK', NEW accepted \in AtMostOne,
           NEW queue \in Seq(Entry), NEW handlers \in Seq(Handler),
           NEW timeout, NEW ages,
           ContinueWithNextRequest(queue, timeout, ages, handlers),
           \A m \in Messages :
             /\ Count(queue, EntriesOf(m))
                  = Count(pending, EntriesOf(m)) + One(accepted = <<m>>)
             /\ Count(handlers, {SendOf(m)}) = Count(ready, {SendOf(m)})
    PROVE  Accounted(accepted)
<1>1. sent' \in AtMostOne
  BY ContinueTransmits
<1>2. ASSUME NEW m \in Messages
      PROVE  Places(m)' + One(sent' = <<m>>) = Places(m) + One(accepted = <<m>>)
  <2>1. Due(queue, handlers, delayed, m) = Places(m)' + One(sent' = <<m>>)
    BY ContinueTransmits, PlacesAreDue
  <2>2. /\ Count(pending, EntriesOf(m)) \in Nat /\ Count(ready, {SendOf(m)}) \in Nat
        /\ One(delayed = m) \in Nat /\ One(accepted = <<m>>) \in Nat
    BY CountType DEF TypeOK, One
  <2>3. Due(queue, handlers, delayed, m)
          = Due(pending, ready, delayed, m) + One(accepted = <<m>>)
    <3>1. /\ Count(queue, EntriesOf(m))
               = Count(pending, EntriesOf(m)) + One(accepted = <<m>>)
          /\ Count(handlers, {SendOf(m)}) = Count(ready, {SendOf(m)})
      OBVIOUS
    <3>2. Due(queue, handlers, delayed, m)
            = (Count(pending, EntriesOf(m)) + One(accepted = <<m>>))
                + Count(ready, {SendOf(m)}) + One(delayed = m)
      BY <3>1, Zenon DEF Due
    <3> QED BY <2>2, <3>2 DEF Due
  <2> QED BY <2>1, <2>3, PlacesAreDue
<1> QED BY <1>1, <1>2 DEF Accounted

\* A step that leaves the queue, the handlers and the delayed message alone.
LEMMA UntouchedIsAccounted ==
    ASSUME TypeOK, TypeOK', UNCHANGED <<pending, ready, delayed>>, sent' = <<>>
    PROVE  Accounted(<<>>)
<1>1. sent' \in AtMostOne
  BY DEF AtMostOne
<1>2. ASSUME NEW m \in Messages
      PROVE  Places(m)' + One(sent' = <<m>>) = Places(m) + One(<<>> = <<m>>)
  <2>1. Places(m)' = Places(m)
    BY DEF Places
  <2>2. One(sent' = <<m>>) = One(<<>> = <<m>>)
    BY DEF One
  <2> QED BY <2>1, <2>2
<1> QED BY <1>1, <1>2 DEF Accounted

\* Every handler of the sender is a step of the abstract queue, or changes nothing
\* it sees.
LEMMA NextIsAStep ==
    ASSUME TypeOK, TypeOK', Next
    PROVE  Queue!Next
<1> SUFFICES \E accepted \in AtMostOne : Accounted(accepted)
  BY AccountedIsAStep
<1>0. <<>> \in AtMostOne /\ \A m \in Messages : One(<<>> = <<m>>) = 0
  BY DEF AtMostOne, One
<1>1. ASSUME NEW c \in Clients, NEW m \in Messages, SendMessage(c, m)
      PROVE  \E accepted \in AtMostOne : Accounted(accepted)
  <2> DEFINE queue == Append(pending, [client |-> c, msg |-> m])
  <2>1. <<m>> \in AtMostOne /\ ready \in Seq(Handler)
    BY DEF AtMostOne, TypeOK
  <2>2. \A x \in Messages : One(m = x) = One(<<m>> = <<x>>)
    BY DEF One
  <2>3. /\ queue \in Seq(Entry)
        /\ \A x \in Messages : Count(queue, EntriesOf(x))
             = Count(pending, EntriesOf(x)) + One(<<m>> = <<x>>)
    BY <2>2, AcceptedIsDue
  <2> HIDE DEF queue
  <2>4. CASE currentClient = NoClient
    <3>1. ContinueWithNextRequest(queue, responseTimeout, age, ready)
      BY <1>1, <2>4 DEF SendMessage, queue
    <3> QED BY <2>1, <2>3, <3>1, ContinueIsAccounted
  <2>5. CASE currentClient # NoClient
    <3>1. /\ pending' = queue /\ ready' = ready /\ delayed' = delayed
          /\ sent' = <<>>
      BY <1>1, <2>5 DEF SendMessage, timers, queue
    <3>2. Accounted(<<m>>)
      <4>1. ASSUME NEW x \in Messages
            PROVE  Places(x)' + One(sent' = <<x>>) = Places(x) + One(<<m>> = <<x>>)
        <5>1. /\ Count(pending, EntriesOf(x)) \in Nat
              /\ Count(ready, {SendOf(x)}) \in Nat
              /\ One(delayed = x) \in Nat /\ One(<<m>> = <<x>>) \in Nat
          BY CountType DEF TypeOK, One
        <5>2. Due(pending', ready', delayed', x)
                = Due(pending, ready, delayed, x) + One(<<m>> = <<x>>)
          BY <2>3, <3>1, <5>1 DEF Due
        <5>3. One(sent' = <<x>>) = 0
          BY <3>1 DEF One
        <5> QED BY <5>2, <5>3, PlacesAreDue
      <4>2. sent' \in AtMostOne
        BY <1>0, <3>1
      <4> QED BY <4>1, <4>2 DEF Accounted
    <3> QED BY <2>1, <3>2
  <2> QED BY <2>4, <2>5
<1>2. ASSUME NEW d \in Devices, NEW reaction \in Reactions,
             HandlePcMessage(d, reaction)
      PROVE  \E accepted \in AtMostOne : Accounted(accepted)
  <2>1. reaction \in AtMostOne /\ (currentClient = NoClient => reaction = <<>>)
    BY <1>2, ReactionsType DEF HandlePcMessage
  <2>2. ContinueWithNextRequest(PendingAfter(reaction), Off,
                                [age EXCEPT ![d] = 0], ready)
    BY <1>2 DEF HandlePcMessage
  <2>3. ready \in Seq(Handler)
    BY DEF TypeOK
  <2> QED BY <2>1, <2>2, <2>3, ReactionIsDue, ContinueIsAccounted
<1>3. ASSUME NEW reaction \in Reactions, HandleResponseTimeout(reaction)
      PROVE  \E accepted \in AtMostOne : Accounted(accepted)
  <2>1. reaction \in AtMostOne /\ (currentClient = NoClient => reaction = <<>>)
    BY <1>3, ReactionsType DEF HandleResponseTimeout
  <2>2. /\ ContinueWithNextRequest(PendingAfter(reaction), responseTimeout, age,
                                   Tail(ready))
        /\ ready # <<>> /\ Head(ready) = TimedOut
    BY <1>3 DEF HandleResponseTimeout
  <2>3. ready \in Seq(Handler) /\ Tail(ready) \in Seq(Handler)
    BY <2>2, HeadTailProperties DEF TypeOK
  <2>4. \A m \in Messages : Count(Tail(ready), {SendOf(m)}) = Count(ready, {SendOf(m)})
    <3>1. \A m \in Messages : TimedOut \notin {SendOf(m)}
      BY DEF TimedOut, SendOf
    <3>2. \A m \in Messages : Count(Tail(ready), {SendOf(m)}) \in Nat
      BY <2>3, CountType
    <3>3. \A m \in Messages : One(Head(ready) \in {SendOf(m)}) = 0
      BY <2>2, <3>1 DEF One
    <3> QED BY <2>2, <2>3, <3>2, <3>3, CountTail
  <2>5. /\ PendingAfter(reaction) \in Seq(Entry)
        /\ \A m \in Messages : Count(PendingAfter(reaction), EntriesOf(m))
             = Count(pending, EntriesOf(m)) + One(reaction = <<m>>)
    BY <2>1, ReactionIsDue
  <2> HIDE DEF PendingAfter
  <2>6. Accounted(reaction)
    BY <2>1, <2>2, <2>3, <2>4, <2>5, ContinueIsAccounted
  <2> QED BY <2>1, <2>6
<1>4. CASE HandleSendTimer
  <2>1. Head(ready) \in Handler /\ Head(ready) # TimedOut /\ ready # <<>>
    BY <1>4 DEF HandleSendTimer, TypeOK
  <2>2. PICK m \in Messages : Head(ready) = SendOf(m)
    BY <2>1 DEF Handler
  <2>3. /\ sent' = <<m>> /\ ready' = Tail(ready)
        /\ pending' = pending /\ delayed' = delayed
    BY <1>4, <2>2 DEF HandleSendTimer, DoSendMessage, SendOf
  <2>4. ASSUME NEW x \in Messages
        PROVE  Places(x)' + One(sent' = <<x>>) = Places(x) + One(<<>> = <<x>>)
    <3>1. Count(ready, {SendOf(x)})
            = Count(ready', {SendOf(x)}) + One(Head(ready) \in {SendOf(x)})
      BY <2>1, <2>3, CountTail DEF TypeOK
    <3>2. SendOf(m) \in {SendOf(x)} <=> m = x
      BY DEF SendOf
    <3>3. One(Head(ready) \in {SendOf(x)}) = One(sent' = <<x>>)
      BY <2>2, <2>3, <3>2 DEF One
    <3>4. /\ Count(pending, EntriesOf(x)) \in Nat /\ Count(ready', {SendOf(x)}) \in Nat
          /\ One(delayed = x) \in Nat /\ One(sent' = <<x>>) \in Nat
          /\ One(delayed' = x) = One(delayed = x)
      BY <2>3, CountType DEF TypeOK, One
    <3>5. Due(pending, ready, delayed, x)
            = Due(pending', ready', delayed', x) + One(sent' = <<x>>)
      BY <2>3, <3>1, <3>3, <3>4 DEF Due
    <3>6. Places(x) = Places(x)' + One(sent' = <<x>>) /\ Places(x) \in Nat
      BY <3>5, PlacesAreDue
    <3> DEFINE before == Places(x)
               none == One(<<>> = <<x>>)
    <3>7. none = 0 /\ before \in Nat
      BY <1>0, <3>6
    <3> HIDE DEF before, none
    <3>8. before = before + none
      BY <3>7
    <3>9. Places(x) = Places(x) + One(<<>> = <<x>>)
      BY <3>8 DEF before, none
    <3> QED BY <3>6, <3>9
  <2>5. sent' \in AtMostOne
    BY <2>3 DEF AtMostOne
  <2>6. Accounted(<<>>)
    BY <2>4, <2>5 DEF Accounted
  <2> QED BY <1>0, <2>6
<1>5. CASE ResponseTimeoutExpires
  <2>1. /\ ready' = Append(ready, TimedOut) /\ sent' = <<>>
        /\ pending' = pending /\ delayed' = delayed
    BY <1>5 DEF ResponseTimeoutExpires
  <2>2. ASSUME NEW x \in Messages
        PROVE  Places(x)' + One(sent' = <<x>>) = Places(x) + One(<<>> = <<x>>)
    <3>1. TimedOut \in Handler /\ TimedOut \notin {SendOf(x)} /\ ready \in Seq(Handler)
      BY DEF TimedOut, SendOf, Handler, TypeOK
    <3>2. One(TimedOut \in {SendOf(x)}) = 0 /\ One(sent' = <<x>>) = 0
      BY <2>1, <3>1 DEF One
    <3>3. Count(ready', {SendOf(x)})
            = Count(ready, {SendOf(x)}) + One(TimedOut \in {SendOf(x)})
      BY <2>1, <3>1, CountAppend
    <3>4. Count(ready, {SendOf(x)}) \in Nat /\ One(delayed' = x) = One(delayed = x)
      BY <2>1, <3>1, CountType
    <3>5. Due(pending', ready', delayed', x) = Due(pending, ready, delayed, x)
      BY <2>1, <3>2, <3>3, <3>4 DEF Due
    <3> QED BY <1>0, <3>2, <3>5, PlacesAreDue
  <2>3. sent' \in AtMostOne
    BY <1>0, <2>1
  <2> QED BY <1>0, <2>2, <2>3 DEF Accounted
<1>6. CASE SendTimerExpires
  <2>1. /\ delayed \in Messages /\ SendOf(delayed) \in Handler
        /\ ready \in Seq(Handler)
    BY <1>6 DEF SendTimerExpires, TypeOK, Off, Handler
  <2>2. /\ ready' = Append(ready, SendOf(delayed)) /\ sent' = <<>>
        /\ pending' = pending /\ delayed' = NoMessage
    BY <1>6 DEF SendTimerExpires
  <2>3. ASSUME NEW x \in Messages
        PROVE  Places(x)' + One(sent' = <<x>>) = Places(x) + One(<<>> = <<x>>)
    <3>1. SendOf(delayed) \in {SendOf(x)} <=> delayed = x
      BY DEF SendOf
    <3>2. /\ One(SendOf(delayed) \in {SendOf(x)}) = One(delayed = x)
          /\ One(delayed' = x) = 0 /\ One(sent' = <<x>>) = 0
      BY <2>2, <3>1, MessagesAssumption DEF One
    <3>3. Count(ready', {SendOf(x)}) = Count(ready, {SendOf(x)}) + One(delayed = x)
      BY <2>1, <2>2, <3>2, CountAppend
    <3>4. /\ Count(pending, EntriesOf(x)) \in Nat /\ Count(ready, {SendOf(x)}) \in Nat
          /\ One(delayed = x) \in Nat
      BY <2>1, CountType DEF TypeOK, One
    <3>5. Due(pending', ready', delayed', x) = Due(pending, ready, delayed, x)
      BY <2>2, <3>2, <3>3, <3>4 DEF Due
    <3>6. Places(x)' = Places(x) /\ Places(x) \in Nat
      BY <3>5, PlacesAreDue
    <3> QED BY <1>0, <3>2, <3>6
  <2>4. sent' \in AtMostOne
    BY <1>0, <2>2
  <2> QED BY <1>0, <2>3, <2>4 DEF Accounted
<1>7. CASE Tick
  <2>1. UNCHANGED <<pending, ready, delayed>> /\ sent' = <<>>
    BY <1>7 DEF Tick
  <2> QED BY <1>0, <2>1, UntouchedIsAccounted
<1> QED BY <1>1, <1>2, <1>3, <1>4, <1>5, <1>6, <1>7 DEF Next, EventLoop

-----------------------------------------------------------------------------
\* The sender implements the queue its clients may rely on: every request handed
\* to sendMessage goes to sendMessageImpl exactly once, and no other one does,
\* through superseded, aborted and cancelled timers (the safety part; that it
\* does go is EventuallyTransmitted).
THEOREM Refinement == Spec => RefinesRequestQueue
<1> DEFINE owed == [m \in Messages |-> Places(m)]
<1>1. Init => Queue!Init
  <2> SUFFICES ASSUME Init PROVE Queue!Init
    OBVIOUS
  <2>1. pending = <<>> /\ ready = <<>> /\ delayed = NoMessage /\ sent = <<>>
    BY DEF Init
  <2>2. ASSUME NEW m \in Messages PROVE Places(m) = 0
    <3>1. /\ {i \in DOMAIN pending : pending[i].msg = m} = {}
          /\ {i \in DOMAIN ready : ready[i] = SendOf(m)} = {}
      BY <2>1
    <3>2. delayed # m
      BY <2>1, MessagesAssumption
    <3>3. Cardinality({}) = 0
      BY FS_EmptySet
    <3>4. /\ Cardinality({i \in DOMAIN pending : pending[i].msg = m}) = 0
          /\ Cardinality({i \in DOMAIN ready : ready[i] = SendOf(m)}) = 0
      BY <3>1, <3>3
    <3> QED BY <3>2, <3>4 DEF Places
  <2> QED BY <2>1, <2>2 DEF Queue!Init
<1>2. TypeOK /\ TypeOK' /\ [Next]_vars => [Queue!Next]_(Queue!vars)
  <2> SUFFICES ASSUME TypeOK, TypeOK', [Next]_vars
               PROVE  Queue!Next \/ UNCHANGED Queue!vars
    OBVIOUS
  <2>1. CASE Next
    BY <2>1, NextIsAStep
  <2>2. CASE UNCHANGED vars
    <3>1. \A m \in Messages : Places(m)' = Places(m)
      BY <2>2 DEF vars, Places
    <3>2. sent' = sent
      BY <2>2 DEF vars
    <3> QED BY <3>1, <3>2 DEF Queue!vars
  <2> QED BY <2>1, <2>2
<1> QED BY <1>1, <1>2, TypeCorrect, PTL DEF Spec, RefinesRequestQueue, Queue!Spec
=============================================================================
