-------------------------- MODULE SensorLogProofs --------------------------
(***************************************************************************)
(* SensorLog for any sensors, values, rate limit and number of faults: the *)
(* remembered ids are right, history is not rewritten, a sensor has one    *)
(* value at a time, without holes, and the page shows the last of them.    *)
(***************************************************************************)
EXTENDS SensorLog, SequenceTheorems, TLAPS

USE SensorsAssumption, LimitsAssumption

-----------------------------------------------------------------------------
\* What is remembered belongs to this run, to a row that was confirmed, and to
\* the newest of them.
IdsOfRun ==
    /\ ~running => \A s \in Sensors : lastId[s] = 0
    /\ \A s \in Sensors : lastId[s] # 0 =>
         /\ rows[TableOf[s]][lastId[s]].run = runs
         /\ <<TableOf[s], lastId[s]>> \notin orphans
         /\ \A j \in Confirmed(s) : j <= lastId[s]

\* A row that will be inserted is not an orphan yet.
OrphansExist ==
    \A t \in Tables, o \in orphans : o[1] = t => o[2] \in DOMAIN rows[t]

\* No row ends in the future, unless the clock was set back.
RowsPast ==
    steady => \A t \in Tables : \A i \in DOMAIN rows[t] : rows[t][i].end <= now

IInv == TypeOK /\ IdsOfRun /\ OrphansExist /\ RowsPast /\ OneValueAtATime

\* What offering a value of s does to the tables, row by row.
RowsStep(s, v) ==
    LET t == TableOf[s]
    IN  /\ rows' \in [Tables -> Seq(Row)]
        /\ \A u \in Tables \ {t} : rows'[u] = rows[u]
        /\ Len(rows'[t]) \in {Len(rows[t]), Len(rows[t]) + 1}
        /\ \A i \in 1..Len(rows[t]) :
             \/ rows'[t][i] = rows[t][i]
             \/ /\ lastId[s] # 0 /\ i = lastId[s]
                /\ rows'[t][i] = [rows[t][i] EXCEPT !.end = now]
        /\ Len(rows'[t]) = Len(rows[t]) + 1 =>
             rows'[t][Len(rows[t]) + 1] = NewRow(s, v)

\* What it does to the remembered ids: nothing, and then a row that was inserted
\* is an orphan; or the new row is the one that is remembered.
IdsStep(s, v) ==
    LET t == TableOf[s]  id == Len(rows[t]) + 1
    IN  \/ /\ lastId' = lastId /\ cache' = cache
           /\ \/ Len(rows'[t]) = Len(rows[t]) /\ orphans' = orphans
              \/ Len(rows'[t]) = id /\ orphans' = orphans \cup {<<t, id>>}
        \/ /\ lastId' = [lastId EXCEPT ![s] = id]
           /\ cache' = [cache EXCEPT ![s] = v]
           /\ Len(rows'[t]) = id /\ orphans' = orphans

-----------------------------------------------------------------------------
\* The update of updateSensorRow changes the end of the remembered row only.
LEMMA GrownRow ==
    ASSUME TypeOK, NEW s \in Sensors, NEW updated \in BOOLEAN
    PROVE  LET old == rows[TableOf[s]]  new == Grown(s, updated)
           IN  /\ old \in Seq(Row) /\ new \in Seq(Row) /\ Len(new) = Len(old)
               /\ \A i \in 1..Len(old) :
                    \/ new[i] = old[i]
                    \/ /\ lastId[s] # 0 /\ i = lastId[s]
                       /\ new[i] = [old[i] EXCEPT !.end = now]
<1> DEFINE old == rows[TableOf[s]]
           n == lastId[s]
           new == [old EXCEPT ![n].end = now]
<1>1. old \in Seq(Row) /\ now \in Nat
  BY DEF TypeOK
<1>2. CASE n # 0 /\ updated
  <2>1. n \in 1..Len(old)
    BY <1>1, <1>2 DEF TypeOK, RowsOf
  <2>2. old[n] \in Row
    BY <1>1, <2>1
  <2>3. [old[n] EXCEPT !.end = now] \in Row
    BY <1>1, <2>2 DEF Row
  <2>4. /\ new \in Seq(Row) /\ Len(new) = Len(old)
        /\ new[n] = [old[n] EXCEPT !.end = now]
        /\ \A i \in 1..Len(old) : i # n => new[i] = old[i]
    BY <1>1, <2>1, <2>3
  <2> QED BY <1>1, <1>2, <2>4 DEF Grown
<1>3. CASE ~(n # 0 /\ updated)
  BY <1>1, <1>3 DEF Grown
<1> QED BY <1>2, <1>3

\* addSensorValue, seen row by row, and what it remembers.
LEMMA HandleValueSteps ==
    ASSUME TypeOK, NEW s \in Sensors, NEW v \in Values,
           NEW updated \in BOOLEAN, NEW outcome \in Outcomes,
           HandleValue(s, v, updated, outcome)
    PROVE  RowsStep(s, v) /\ IdsStep(s, v)
<1> DEFINE t == TableOf[s]
           old == rows[t]
           new == Grown(s, updated)
<1>1. /\ t \in Tables /\ now \in Nat /\ runs \in Nat
      /\ rows \in [Tables -> Seq(Row)]
      /\ old \in Seq(Row) /\ new \in Seq(Row) /\ Len(new) = Len(old)
      /\ \A i \in 1..Len(old) :
           \/ new[i] = old[i]
           \/ lastId[s] # 0 /\ i = lastId[s] /\ new[i] = [old[i] EXCEPT !.end = now]
  BY GrownRow DEF TypeOK
<1>2. NewRow(s, v) \in Row
  BY <1>1 DEF NewRow, Row
<1>3. /\ Append(new, NewRow(s, v)) \in Seq(Row)
      /\ Len(Append(new, NewRow(s, v))) = Len(old) + 1
      /\ \A i \in 1..Len(old) : Append(new, NewRow(s, v))[i] = new[i]
      /\ Append(new, NewRow(s, v))[Len(old) + 1] = NewRow(s, v)
  BY <1>1, <1>2, AppendProperties
<1> HIDE DEF new, old, t
<1>4. \/ rows' = [rows EXCEPT ![t] = new]
      \/ rows' = [rows EXCEPT ![t] = Append(new, NewRow(s, v))]
  BY DEF HandleValue, Merge, Insert, new, t
<1>5. rows' = [rows EXCEPT ![t] = new] => RowsStep(s, v)
  <2> SUFFICES ASSUME rows' = [rows EXCEPT ![t] = new] PROVE RowsStep(s, v)
    OBVIOUS
  <2>1. /\ rows' \in [Tables -> Seq(Row)] /\ rows'[t] = new
        /\ \A u \in Tables \ {t} : rows'[u] = rows[u]
    BY <1>1
  <2> QED BY <1>1, <2>1 DEF RowsStep, t, old
<1>6. rows' = [rows EXCEPT ![t] = Append(new, NewRow(s, v))] => RowsStep(s, v)
  <2> SUFFICES ASSUME rows' = [rows EXCEPT ![t] = Append(new, NewRow(s, v))]
               PROVE  RowsStep(s, v)
    OBVIOUS
  <2>1. /\ rows' \in [Tables -> Seq(Row)] /\ rows'[t] = Append(new, NewRow(s, v))
        /\ \A u \in Tables \ {t} : rows'[u] = rows[u]
    BY <1>1, <1>3
  <2> QED BY <1>1, <1>3, <2>1 DEF RowsStep, t, old
<1>7. /\ rows' = [rows EXCEPT ![t] = new] => Len(rows'[t]) = Len(old)
      /\ rows' = [rows EXCEPT ![t] = Append(new, NewRow(s, v))]
           => Len(rows'[t]) = Len(old) + 1
  BY <1>1, <1>3
<1>8. IdsStep(s, v)
  <2>1. CASE Merge(s, v, updated)
    BY <1>7, <2>1 DEF Merge, IdsStep, new, old, t
  <2>2. CASE Insert(s, v, updated, outcome)
    BY <1>7, <2>2
       DEF Insert, Outcomes, CacheAfterFailure, IdsAfter, IdsStep, new, old, t
  <2> QED BY <2>1, <2>2 DEF HandleValue
<1> QED BY <1>4, <1>5, <1>6, <1>8

\* Rows keep their sensor, value, start and run; only the remembered row of s may
\* get another end; and a row that is new has the value that was offered.
LEMMA RowsAfter ==
    ASSUME TypeOK, NEW s \in Sensors, NEW v \in Values, RowsStep(s, v)
    PROVE  LET t == TableOf[s]  id == Len(rows[t]) + 1
           IN  /\ t \in Tables /\ id \in Nat
               /\ \A u \in Tables : \A i \in DOMAIN rows[u] :
                    /\ i \in DOMAIN rows'[u] /\ i \in 1..Len(rows[u])
                    /\ rows'[u][i].sensor = rows[u][i].sensor
                    /\ rows'[u][i].value = rows[u][i].value
                    /\ rows'[u][i].start = rows[u][i].start
                    /\ rows'[u][i].run = rows[u][i].run
                    /\ \/ rows'[u][i].end = rows[u][i].end
                       \/ u = t /\ i = lastId[s] /\ rows'[u][i].end = now
               /\ \A u \in Tables : \A i \in DOMAIN rows'[u] :
                    \/ i \in DOMAIN rows[u]
                    \/ /\ u = t /\ i = id /\ Len(rows'[t]) = id
                       /\ rows'[t][id] = NewRow(s, v)
<1> DEFINE t == TableOf[s]
<1>1. /\ t \in Tables /\ rows \in [Tables -> Seq(Row)] /\ rows' \in [Tables -> Seq(Row)]
  BY DEF TypeOK, RowsStep
<1>2. /\ \A u \in Tables : DOMAIN rows[u] = 1..Len(rows[u]) /\ Len(rows[u]) \in Nat
      /\ \A u \in Tables : DOMAIN rows'[u] = 1..Len(rows'[u]) /\ Len(rows'[u]) \in Nat
      /\ \A u \in Tables : \A i \in 1..Len(rows[u]) : rows[u][i] \in Row
  BY <1>1
<1>3. \A r \in Row : LET g == [r EXCEPT !.end = now]
                     IN  /\ g.sensor = r.sensor /\ g.value = r.value
                         /\ g.start = r.start /\ g.run = r.run /\ g.end = now
  BY DEF Row
<1>4. ASSUME NEW u \in Tables, NEW i \in DOMAIN rows[u]
      PROVE  /\ i \in DOMAIN rows'[u] /\ i \in 1..Len(rows[u])
             /\ rows'[u][i].sensor = rows[u][i].sensor
             /\ rows'[u][i].value = rows[u][i].value
             /\ rows'[u][i].start = rows[u][i].start
             /\ rows'[u][i].run = rows[u][i].run
             /\ \/ rows'[u][i].end = rows[u][i].end
                \/ u = t /\ i = lastId[s] /\ rows'[u][i].end = now
  <2>1. CASE u # t
    BY <1>2, <2>1 DEF RowsStep
  <2>2. CASE u = t
    <3>1. i \in 1..Len(rows[t]) /\ i \in DOMAIN rows'[t] /\ rows[t][i] \in Row
      BY <1>1, <1>2, <2>2 DEF RowsStep
    <3>2. \/ rows'[t][i] = rows[t][i]
          \/ i = lastId[s] /\ rows'[t][i] = [rows[t][i] EXCEPT !.end = now]
      BY <3>1 DEF RowsStep
    <3> QED BY <1>3, <2>2, <3>1, <3>2
  <2> QED BY <2>1, <2>2
<1>5. ASSUME NEW u \in Tables, NEW i \in DOMAIN rows'[u], i \notin DOMAIN rows[u]
      PROVE  /\ u = t /\ i = Len(rows[t]) + 1 /\ Len(rows'[t]) = Len(rows[t]) + 1
             /\ rows'[t][Len(rows[t]) + 1] = NewRow(s, v)
  BY <1>1, <1>2, <1>5 DEF RowsStep
<1> QED BY <1>1, <1>2, <1>4, <1>5

\* The only row that can join the confirmed rows is the one that is remembered.
LEMMA ConfirmedAfter ==
    ASSUME TypeOK, NEW s \in Sensors, NEW v \in Values,
           RowsStep(s, v), IdsStep(s, v)
    PROVE  LET id == Len(rows[TableOf[s]]) + 1
           IN  \A x \in Sensors : \A j \in Confirmed(x)' :
                  \/ j \in Confirmed(x)
                  \/ /\ x = s /\ j = id /\ lastId' = [lastId EXCEPT ![s] = id]
                     /\ rows'[TableOf[s]][id] = NewRow(s, v)
<1> DEFINE id == Len(rows[TableOf[s]]) + 1
<1> SUFFICES ASSUME NEW x \in Sensors, NEW j \in Confirmed(x)', j \notin Confirmed(x)
             PROVE  /\ x = s /\ j = id /\ lastId' = [lastId EXCEPT ![s] = id]
                    /\ rows'[TableOf[s]][id] = NewRow(s, v)
  OBVIOUS
<1>1. /\ TableOf[x] \in Tables /\ j \in DOMAIN rows'[TableOf[x]]
      /\ rows'[TableOf[x]][j].sensor = x /\ <<TableOf[x], j>> \notin orphans'
  BY DEF Confirmed, RowsOf
<1>2. orphans \subseteq orphans'
  BY DEF IdsStep
<1>3. j \notin DOMAIN rows[TableOf[x]]
  BY <1>1, <1>2, RowsAfter DEF Confirmed, RowsOf
<1>4. /\ TableOf[x] = TableOf[s] /\ j = id /\ Len(rows'[TableOf[s]]) = id
      /\ rows'[TableOf[s]][id] = NewRow(s, v)
  BY <1>1, <1>3, RowsAfter
<1>5. x = s
  BY <1>1, <1>4 DEF NewRow
<1>6. lastId' = [lastId EXCEPT ![s] = id]
  <2>1. id # Len(rows[TableOf[s]])
    BY RowsAfter
  <2> QED BY <1>1, <1>4, <2>1 DEF IdsStep
<1> QED BY <1>4, <1>5, <1>6

-----------------------------------------------------------------------------
\* The tables are empty and nothing is remembered.
LEMMA InitIInv == Init => IInv
<1> SUFFICES ASSUME Init PROVE IInv
  OBVIOUS
<1>1. /\ rows \in [Tables -> Seq(Row)] /\ \A t \in Tables : rows[t] = <<>>
      /\ \A s \in Sensors : lastId[s] = 0
  BY DEF Init
<1>2. /\ now \in Nat /\ runs \in Nat /\ faults \in Nat /\ created \in 0..4
      /\ steady \in BOOLEAN /\ running \in BOOLEAN /\ failed \subseteq Sensors
  <2>1. now \in Nat /\ runs \in Nat /\ faults \in Nat /\ created \in 0..4
    BY DEF Init
  <2>2. steady \in BOOLEAN /\ running \in BOOLEAN
    BY Zenon DEF Init
  <2>3. failed \subseteq Sensors
    BY DEF Init
  <2> QED BY <2>1, <2>2, <2>3
<1>3. /\ cache \in [Sensors -> Values \cup {None}] /\ lastId \in [Sensors -> Nat]
      /\ lastWrite \in [Sensors -> Nat \cup {NoTime}]
      /\ recorded \in [Sensors -> Values \cup {None}]
  BY DEF Init
<1>4. TypeOK
  BY <1>1, <1>2, <1>3 DEF TypeOK
<1>5. \A t \in Tables : DOMAIN rows[t] = {}
  BY <1>1
<1>6. OneValueAtATime
  BY <1>5 DEF OneValueAtATime, Confirmed, RowsOf
<1> QED
  BY <1>1, <1>4, <1>5, <1>6 DEF Init, IInv, IdsOfRun, OrphansExist, RowsPast

\* A value that is offered keeps the types and the remembered ids right.
LEMMA HandleValueTypes ==
    ASSUME IInv, NEW s \in Sensors, NEW v \in Values,
           NEW updated \in BOOLEAN, NEW outcome \in Outcomes,
           HandleValue(s, v, updated, outcome)
    PROVE  TypeOK'
<1> DEFINE id == Len(rows[TableOf[s]]) + 1
<1>1. TypeOK /\ RowsStep(s, v) /\ IdsStep(s, v)
  BY HandleValueSteps DEF IInv
<1>2. /\ id \in Nat /\ TableOf[s] \in Tables
      /\ rows' \in [Tables -> Seq(Row)]
      /\ lastId' \in [Sensors -> Nat] /\ cache' \in [Sensors -> Values \cup {None}]
  <2>1. id \in Nat /\ TableOf[s] \in Tables
    BY <1>1, RowsAfter
  <2>2. rows' \in [Tables -> Seq(Row)]
    BY <1>1 DEF RowsStep
  <2>3. lastId \in [Sensors -> Nat] /\ cache \in [Sensors -> Values \cup {None}]
    BY <1>1 DEF TypeOK
  <2> QED BY <1>1, <2>1, <2>2, <2>3 DEF IdsStep
<1>3. ASSUME NEW x \in Sensors, lastId'[x] # 0
      PROVE  lastId'[x] \in RowsOf(x)' /\ rows'[TableOf[x]][lastId'[x]].value = cache'[x]
  <2>1. CASE lastId'[x] = lastId[x] /\ cache'[x] = cache[x]
    <3> DEFINE u == TableOf[x]  k == lastId[x]
    <3>1. u \in Tables /\ k \in DOMAIN rows[u] /\ rows[u][k].sensor = x
          /\ rows[u][k].value = cache[x]
      BY <1>1, <1>3, <2>1 DEF TypeOK, RowsOf
    <3>2. k \in DOMAIN rows'[u] /\ rows'[u][k].sensor = x
          /\ rows'[u][k].value = cache[x]
      BY <1>1, <3>1, RowsAfter
    <3> QED BY <2>1, <3>2 DEF RowsOf
  <2>2. CASE ~(lastId'[x] = lastId[x] /\ cache'[x] = cache[x])
    <3>1. x = s /\ lastId'[x] = id /\ cache'[x] = v /\ Len(rows'[TableOf[s]]) = id
      BY <1>1, <2>2 DEF IdsStep, TypeOK
    <3>2. rows'[TableOf[s]][id] = NewRow(s, v) /\ id \in DOMAIN rows'[TableOf[s]]
      BY <1>1, <1>2, <3>1, RowsAfter DEF RowsStep
    <3> QED BY <3>1, <3>2 DEF RowsOf, NewRow
  <2> QED BY <2>1, <2>2
<1>4. faults' \in Nat
  BY <1>1 DEF HandleValue, TypeOK
<1>5. lastWrite' \in [Sensors -> Nat \cup {NoTime}]
  BY <1>1 DEF HandleValue, LastWriteAfter, TypeOK
<1>6. /\ recorded' \in [Sensors -> Values \cup {None}] /\ failed' \subseteq Sensors
      /\ UNCHANGED <<now, steady, runs, created, running>>
  BY <1>1 DEF HandleValue, Merge, Insert, TypeOK
<1> QED BY <1>1, <1>2, <1>3, <1>4, <1>5, <1>6 DEF TypeOK

\* It leaves the remembered row the newest that was confirmed, and the orphans
\* rows that exist.
LEMMA HandleValueIds ==
    ASSUME IInv, NEW s \in Sensors, NEW v \in Values,
           NEW updated \in BOOLEAN, NEW outcome \in Outcomes,
           HandleValue(s, v, updated, outcome)
    PROVE  IdsOfRun' /\ OrphansExist'
<1> DEFINE t == TableOf[s]  id == Len(rows[t]) + 1
<1>1. TypeOK /\ RowsStep(s, v) /\ IdsStep(s, v) /\ running /\ running' /\ runs' = runs
  BY HandleValueSteps DEF IInv, HandleValue, TypeOK
<1>2. \A x \in Sensors : \A j \in Confirmed(x)' :
         \/ j \in Confirmed(x)
         \/ x = s /\ j = id /\ lastId' = [lastId EXCEPT ![s] = id]
  BY <1>1, ConfirmedAfter
<1>3. /\ id \in Nat /\ t \in Tables /\ lastId \in [Sensors -> Nat]
      /\ \A x \in Sensors : \A i \in Confirmed(x) :
           TableOf[x] \in Tables /\ i \in DOMAIN rows[TableOf[x]]
      /\ \A i \in DOMAIN rows[t] : i \in Nat /\ i < id
  BY <1>1, RowsAfter DEF TypeOK, Confirmed, RowsOf
<1>4. <<t, id>> \notin orphans
  BY <1>3 DEF IInv, OrphansExist
<1>5. \A o \in orphans' : o \in orphans \/ (o = <<t, id>> /\ Len(rows'[t]) = id)
  BY <1>1 DEF IdsStep
<1>6. OrphansExist'
  <2> SUFFICES ASSUME NEW u \in Tables, NEW o \in orphans', o[1] = u
               PROVE  o[2] \in DOMAIN rows'[u]
    BY DEF OrphansExist
  <2>1. CASE o \in orphans
    BY <1>1, <2>1, RowsAfter DEF IInv, OrphansExist
  <2>2. CASE o = <<t, id>> /\ Len(rows'[t]) = id
    BY <1>1, <1>3, <2>2 DEF RowsStep
  <2> QED BY <1>5, <2>1, <2>2
<1>7. ASSUME NEW x \in Sensors, lastId'[x] # 0
      PROVE  /\ rows'[TableOf[x]][lastId'[x]].run = runs'
             /\ <<TableOf[x], lastId'[x]>> \notin orphans'
             /\ \A j \in Confirmed(x)' : j <= lastId'[x]
  <2>1. CASE lastId' = [lastId EXCEPT ![s] = id] /\ x = s
    <3>1. lastId'[x] = id /\ orphans' = orphans /\ Len(rows'[t]) = id
      <4>1. lastId[s] # id
        BY <1>1, <1>3 DEF TypeOK, RowsOf
      <4> QED BY <1>1, <1>3, <2>1, <4>1 DEF IdsStep
    <3>2. rows'[t][id].run = runs
      BY <1>1, <3>1 DEF RowsStep, NewRow
    <3>3. \A j \in Confirmed(x)' : j <= id
      BY <1>2, <1>3, <2>1
    <3> QED BY <1>1, <1>4, <2>1, <3>1, <3>2, <3>3
  <2>2. CASE ~(lastId' = [lastId EXCEPT ![s] = id] /\ x = s)
    <3>1. lastId'[x] = lastId[x] /\ lastId[x] \in DOMAIN rows[TableOf[x]]
      BY <1>1, <1>7, <2>2 DEF IdsStep, TypeOK, RowsOf
    <3>2. /\ rows[TableOf[x]][lastId[x]].run = runs
          /\ <<TableOf[x], lastId[x]>> \notin orphans
          /\ \A j \in Confirmed(x) : j <= lastId[x]
      BY <1>7, <3>1 DEF IInv, IdsOfRun
    <3>3. <<TableOf[x], lastId[x]>> # <<t, id>>
      BY <1>3, <3>1
    <3> QED BY <1>1, <1>2, <1>5, <2>2, <3>1, <3>2, <3>3, RowsAfter
  <2> QED BY <2>1, <2>2
<1> QED BY <1>1, <1>6, <1>7 DEF IdsOfRun

\* Only the newest confirmed row grows, no further than to now, where the next one
\* starts.
LEMMA HandleValueHistory ==
    ASSUME IInv, NEW s \in Sensors, NEW v \in Values,
           NEW updated \in BOOLEAN, NEW outcome \in Outcomes,
           HandleValue(s, v, updated, outcome)
    PROVE  RowsPast' /\ OneValueAtATime'
<1> DEFINE t == TableOf[s]  id == Len(rows[t]) + 1
<1>1. /\ TypeOK /\ RowsStep(s, v) /\ IdsStep(s, v)
      /\ now \in Nat /\ now' = now /\ steady' = steady
  BY HandleValueSteps DEF IInv, HandleValue, TypeOK
<1>2. RowsPast'
  <2> SUFFICES ASSUME steady', NEW u \in Tables, NEW i \in DOMAIN rows'[u]
               PROVE  rows'[u][i].end <= now'
    BY DEF RowsPast
  <2>1. i \in DOMAIN rows[u] => rows[u][i].end <= now
    BY <1>1 DEF IInv, RowsPast
  <2>2. CASE i \in DOMAIN rows[u]
    BY <1>1, <2>1, <2>2, RowsAfter
  <2>3. CASE i \notin DOMAIN rows[u]
    <3>1. rows'[u][i] = NewRow(s, v)
      BY <1>1, <2>3, RowsAfter
    <3> QED BY <1>1, <3>1 DEF NewRow
  <2> QED BY <2>2, <2>3
<1>3. OneValueAtATime'
  <2> SUFFICES ASSUME steady', NEW x \in Sensors,
                      NEW i \in Confirmed(x)', NEW j \in Confirmed(x)', i < j
               PROVE  rows'[TableOf[x]][i].end <= rows'[TableOf[x]][j].start
    BY DEF OneValueAtATime
  <2> DEFINE u == TableOf[x]
  <2>1. /\ u \in Tables /\ id \in Nat
        /\ \A k \in Confirmed(x) : k \in DOMAIN rows[u] /\ rows[u][k].sensor = x
        /\ \A k \in DOMAIN rows[t] : k \in Nat /\ k < id
        /\ \A k \in Confirmed(x)' : k \in DOMAIN rows'[u] /\ k \in Nat
    <3>1. u \in Tables /\ id \in Nat
      BY <1>1, RowsAfter
    <3>2. \A k \in DOMAIN rows[t] : k \in Nat /\ k < id
      BY <1>1, RowsAfter
    <3>3. DOMAIN rows'[u] \subseteq Nat
      BY <1>1, <3>1 DEF RowsStep
    <3> QED BY <3>1, <3>2, <3>3 DEF Confirmed, RowsOf
  <2>2. \A k \in Confirmed(x)' : k \in Confirmed(x) \/
           (x = s /\ k = id /\ rows'[t][id] = NewRow(s, v))
    BY <1>1, ConfirmedAfter
  <2>3. i \in Confirmed(x)
    BY <1>1, <2>1, <2>2, RowsAfter
  <2>4. CASE j \in Confirmed(x)
    <3>1. rows[u][i].end <= rows[u][j].start
      BY <1>1, <2>3, <2>4 DEF IInv, OneValueAtATime
    <3>2. ~(u = t /\ i = lastId[s])
      <4> SUFFICES ASSUME u = t, i = lastId[s] PROVE FALSE
        OBVIOUS
      <4>1. lastId[s] # 0 /\ rows[t][lastId[s]].sensor = s
        BY <1>1, <2>1, <2>3 DEF TypeOK, RowsOf
      <4>2. x = s
        BY <2>1, <2>3, <4>1
      <4>3. j <= lastId[s] /\ lastId[s] \in Nat
        BY <1>1, <2>4, <4>1, <4>2 DEF IInv, IdsOfRun, TypeOK
      <4> QED BY <2>1, <4>3
    <3>3. rows'[u][i].end = rows[u][i].end /\ rows'[u][j].start = rows[u][j].start
      BY <1>1, <2>1, <2>3, <2>4, <3>2, RowsAfter
    <3> QED BY <3>1, <3>3
  <2>5. CASE x = s /\ j = id /\ rows'[t][id] = NewRow(s, v)
    <3>1. rows'[u][i].end <= now
      BY <1>1, <1>2, <2>1 DEF RowsPast
    <3> QED BY <2>5, <3>1 DEF NewRow
  <2> QED BY <2>2, <2>4, <2>5
<1> QED BY <1>2, <1>3

\* What does not touch the tables keeps their part of the invariant.
LEMMA TablesAlone ==
    ASSUME IInv, UNCHANGED <<rows, orphans>>,
           now' \in Nat, steady' \in BOOLEAN, steady' => steady /\ now <= now'
    PROVE  OrphansExist' /\ RowsPast' /\ OneValueAtATime'
<1>1. OrphansExist' /\ OneValueAtATime'
  BY DEF IInv, OrphansExist, OneValueAtATime, Confirmed, RowsOf
<1>2. ASSUME steady', NEW t \in Tables, NEW i \in DOMAIN rows[t]
      PROVE  rows[t][i].end <= now'
  <2>1. rows[t] \in Seq(Row) /\ now \in Nat
    BY DEF IInv, TypeOK
  <2>2. rows[t][i] \in Row
    BY <2>1
  <2>3. rows[t][i].end \in Nat
    BY <2>2 DEF Row
  <2>4. rows[t][i].end <= now
    BY <1>2 DEF IInv, RowsPast
  <2> QED BY <1>2, <2>1, <2>3, <2>4
<1> QED BY <1>1, <1>2 DEF RowsPast

\* Every step of the database and of its process keeps the invariant.
LEMMA NextIInv == IInv /\ [Next]_vars => IInv'
<1> SUFFICES ASSUME IInv, [Next]_vars PROVE IInv'
  OBVIOUS
<1> USE DEF database, process, history
<1>1. CASE Connect
  <2>1. \A s \in Sensors : lastId'[s] = 0
    BY <1>1 DEF Connect, IInv, IdsOfRun
  <2>2. created' \in 0..4 /\ running' \in BOOLEAN
    <3>1. CASE created > 0
      BY <1>1, <3>1 DEF Connect, IInv, TypeOK
    <3>2. CASE ~(created > 0)
      <4>1. PICK n \in 0..4 : created' = n /\ running' = (n = 4)
        BY <1>1, <3>2 DEF Connect
      <4> QED BY <4>1
    <3> QED BY <3>1, <3>2
  <2>3. runs' \in Nat
    BY <1>1 DEF Connect, IInv, TypeOK
  <2>4. TypeOK'
    BY <1>1, <2>1, <2>2, <2>3 DEF Connect, IInv, TypeOK
  <2>5. OrphansExist' /\ RowsPast' /\ OneValueAtATime'
    BY <1>1, <2>4, TablesAlone DEF Connect, IInv, TypeOK
  <2> QED BY <2>1, <2>4, <2>5 DEF IInv, IdsOfRun
<1>2. CASE Stop
  <2>1. \A s \in Sensors : lastId'[s] = 0
    BY <1>2 DEF Stop
  <2>2. TypeOK'
    <3>1. running' \in BOOLEAN
      BY <1>2 DEF Stop
    <3>2. /\ cache' \in [Sensors -> Values \cup {None}] /\ lastId' \in [Sensors -> Nat]
          /\ lastWrite' \in [Sensors -> Nat \cup {NoTime}]
      BY <1>2 DEF Stop
    <3> QED BY <1>2, <2>1, <3>1, <3>2 DEF Stop, IInv, TypeOK
  <2>3. OrphansExist' /\ RowsPast' /\ OneValueAtATime'
    BY <1>2, <2>2, TablesAlone DEF Stop, IInv, TypeOK
  <2> QED BY <2>1, <2>2, <2>3 DEF IInv, IdsOfRun
<1>3. ASSUME NEW s \in Sensors, NEW v \in Values,
             NEW updated \in BOOLEAN, NEW outcome \in Outcomes,
             HandleValue(s, v, updated, outcome)
      PROVE  IInv'
  BY <1>3, HandleValueTypes, HandleValueIds, HandleValueHistory DEF IInv
<1>4. CASE Tick
  <2>1. TypeOK'
    BY <1>4 DEF Tick, IInv, TypeOK, RowsOf
  <2>2. now' \in Nat /\ now <= now'
    BY <1>4 DEF Tick, IInv, TypeOK
  <2>3. OrphansExist' /\ RowsPast' /\ OneValueAtATime'
    BY <1>4, <2>1, <2>2, TablesAlone DEF Tick, IInv, TypeOK
  <2> QED BY <1>4, <2>1, <2>3 DEF Tick, IInv, IdsOfRun, Confirmed, RowsOf
<1>5. CASE ClockSetBack
  <2>1. now' \in Nat /\ faults' \in Nat /\ steady' \in BOOLEAN /\ ~steady'
    <3>1. now' \in Nat /\ faults' \in Nat
      <4>1. PICK earlier \in 0..now - 1 : now' = earlier
        BY <1>5 DEF ClockSetBack
      <4>2. now \in Nat /\ faults \in Nat
        BY DEF IInv, TypeOK
      <4> QED BY <1>5, <4>1, <4>2 DEF ClockSetBack
    <3>2. steady' = FALSE
      BY <1>5 DEF ClockSetBack
    <3> QED BY <3>1, <3>2
  <2>2. TypeOK'
    BY <1>5, <2>1 DEF ClockSetBack, IInv, TypeOK, RowsOf
  <2>3. OrphansExist' /\ RowsPast' /\ OneValueAtATime'
    BY <1>5, <2>1, TablesAlone DEF ClockSetBack, IInv
  <2> QED BY <1>5, <2>2, <2>3 DEF ClockSetBack, IInv, IdsOfRun, Confirmed, RowsOf
<1>6. CASE UNCHANGED vars
  BY <1>6 DEF vars, IInv, TypeOK, IdsOfRun, OrphansExist, RowsPast,
              OneValueAtATime, Confirmed, RowsOf
<1> QED BY <1>1, <1>2, <1>3, <1>4, <1>5, <1>6 DEF Next

-----------------------------------------------------------------------------
(* What the history of a sensor has besides: no holes, and the page. *)

\* No row is of a later run than this one.
RunsPast == \A t \in Tables : \A i \in DOMAIN rows[t] : rows[t][i].run <= runs

\* Once this run has a confirmed row of a sensor, a row is remembered.
Remembered ==
    running => \A s \in Sensors : \A i \in Confirmed(s) :
                 rows[TableOf[s]][i].run = runs => lastId[s] # 0

\* No row ends before it starts, unless the clock was set back.
RowsForward ==
    steady => \A t \in Tables : \A i \in DOMAIN rows[t] :
                rows[t][i].start <= rows[t][i].end

\* The row that is remembered is no younger than the last write, from which the
\* rate limit counts.
LimitCounts ==
    steady => \A s \in Sensors :
        TableOf[s] = "numeric" /\ RateLimit # 0 /\ lastId[s] # 0 =>
            lastWrite[s] # NoTime /\ rows[TableOf[s]][lastId[s]].start <= lastWrite[s]

\* The newest confirmed row has the value that was recorded last.
NewestIsRecorded ==
    \A s \in Sensors \ failed : recorded[s] # None =>
        \E i \in Confirmed(s) : /\ \A j \in Confirmed(s) : j <= i
                                /\ rows[TableOf[s]][i].value = recorded[s]

HInv ==
    /\ RunsPast /\ Remembered /\ RowsForward /\ LimitCounts
    /\ NoHoles /\ NewestIsRecorded

\* The numbers of a row.
LEMMA RowNumbers ==
    ASSUME NEW tables \in [Tables -> Seq(Row)]
    PROVE  \A t \in Tables : \A i \in DOMAIN tables[t] :
             /\ i \in Nat /\ tables[t][i].start \in Nat
             /\ tables[t][i].end \in Nat /\ tables[t][i].run \in Nat
<1>1. \A t \in Tables : tables[t] \in Seq(Row)
  OBVIOUS
<1>2. \A t \in Tables : DOMAIN tables[t] \subseteq Nat
  BY <1>1
<1>3. \A t \in Tables : \A i \in DOMAIN tables[t] : tables[t][i] \in Row
  BY <1>1
<1>4. \A r \in Row : r.start \in Nat /\ r.end \in Nat /\ r.run \in Nat
  BY DEF Row
<1> QED BY <1>2, <1>3, <1>4

\* The same of a sensor's confirmed rows.
LEMMA RowTypes ==
    ASSUME TypeOK
    PROVE  /\ \A t \in Tables : \A i \in DOMAIN rows[t] :
                /\ rows[t][i].start \in Nat /\ rows[t][i].end \in Nat
                /\ rows[t][i].run \in Nat
           /\ \A s \in Sensors : TableOf[s] \in Tables
           /\ \A s \in Sensors : \A i \in Confirmed(s) :
                /\ i \in DOMAIN rows[TableOf[s]] /\ i \in Nat
                /\ rows[TableOf[s]][i].sensor = s
<1>1. rows \in [Tables -> Seq(Row)] /\ \A s \in Sensors : TableOf[s] \in Tables
  BY DEF TypeOK
<1> QED BY <1>1, RowNumbers DEF Confirmed, RowsOf

\* Offering a value never takes a confirmed row away.
LEMMA ConfirmedStay ==
    ASSUME TypeOK, OrphansExist, NEW s \in Sensors, NEW v \in Values,
           RowsStep(s, v), IdsStep(s, v), NEW x \in Sensors
    PROVE  Confirmed(x) \subseteq Confirmed(x)'
<1> DEFINE t == TableOf[s]  id == Len(rows[t]) + 1
<1> SUFFICES ASSUME NEW i \in Confirmed(x) PROVE i \in Confirmed(x)'
  OBVIOUS
<1>1. /\ TableOf[x] \in Tables /\ i \in DOMAIN rows[TableOf[x]]
      /\ rows[TableOf[x]][i].sensor = x /\ <<TableOf[x], i>> \notin orphans
  BY RowTypes DEF Confirmed
<1>2. i \in DOMAIN rows'[TableOf[x]] /\ rows'[TableOf[x]][i].sensor = x
  BY <1>1, RowsAfter
<1>3. <<TableOf[x], i>> # <<t, id>>
  <2>1. rows[t] \in Seq(Row)
    BY DEF TypeOK
  <2>2. id \notin DOMAIN rows[t]
    BY <2>1
  <2> QED BY <1>1, <2>2
<1>4. orphans' = orphans \/ orphans' = orphans \cup {<<t, id>>}
  BY DEF IdsStep
<1> QED BY <1>1, <1>2, <1>3, <1>4 DEF Confirmed, RowsOf

\* What offering a value does to the rest: the time of the write is kept, a row
\* that should have grown ends now or is frayed, and a value that was stored is
\* remembered.
HistoryStep(s, v) ==
    /\ TableOf[s] = "numeric" /\ RateLimit # 0 => lastWrite'[s] = now
    /\ \A x \in Sensors \ {s} : lastWrite'[x] = lastWrite[x]
    /\ frayed \subseteq frayed'
    /\ lastId[s] # 0 /\ <<TableOf[s], lastId[s]>> \notin frayed' =>
         rows'[TableOf[s]][lastId[s]].end = now
    /\ recorded'[s] = v /\ \A x \in Sensors \ {s} : recorded'[x] = recorded[x]
    /\ failed \subseteq failed' \cup {s}
    /\ s \notin failed' => lastId'[s] # 0 /\ cache'[s] = v

\* addSensorValue, seen as such a step.
LEMMA HandleValueRest ==
    ASSUME TypeOK, NEW s \in Sensors, NEW v \in Values,
           NEW updated \in BOOLEAN, NEW outcome \in Outcomes,
           HandleValue(s, v, updated, outcome)
    PROVE  HistoryStep(s, v)
<1> DEFINE t == TableOf[s]  n == lastId[s]
           g == [rows[t] EXCEPT ![n].end = now]
<1>1. /\ t \in Tables /\ now \in Nat /\ rows \in [Tables -> Seq(Row)]
      /\ lastId \in [Sensors -> Nat] /\ lastWrite \in [Sensors -> Nat \cup {NoTime}]
      /\ cache \in [Sensors -> Values \cup {None}]
      /\ recorded \in [Sensors -> Values \cup {None}]
  BY DEF TypeOK
<1>2. /\ t = "numeric" /\ RateLimit # 0 => lastWrite'[s] = now
      /\ \A x \in Sensors \ {s} : lastWrite'[x] = lastWrite[x]
  BY <1>1 DEF HandleValue, LastWriteAfter
<1>3. frayed \subseteq frayed' /\ (n # 0 /\ <<t, n>> \notin frayed' => updated)
  BY DEF HandleValue
<1>4. ASSUME n # 0, updated
      PROVE  rows'[t][n].end = now
  <2>1. n \in 1..Len(rows[t])
    BY <1>1, <1>4 DEF TypeOK, RowsOf
  <2>2. rows[t][n] \in Row
    BY <1>1, <2>1
  <2>3. [rows[t][n] EXCEPT !.end = now] \in Row /\ [rows[t][n] EXCEPT !.end = now].end = now
    BY <1>1, <2>2 DEF Row
  <2>4. g \in Seq(Row) /\ Len(g) = Len(rows[t]) /\ g[n].end = now
    BY <1>1, <2>1, <2>3
  <2>5. NewRow(s, v) \in Row
    BY <1>1 DEF NewRow, Row, TypeOK
  <2>6. Append(g, NewRow(s, v))[n] = g[n]
    BY <2>1, <2>4, <2>5
  <2>7. Grown(s, updated) = g
    BY <1>4 DEF Grown
  <2> HIDE DEF g
  <2>8. rows' = [rows EXCEPT ![t] = g] \/ rows' = [rows EXCEPT ![t] = Append(g, NewRow(s, v))]
    BY <2>7 DEF HandleValue, Merge, Insert
  <2>9. rows'[t] = g \/ rows'[t] = Append(g, NewRow(s, v))
    BY <1>1, <2>8
  <2> QED BY <2>4, <2>6, <2>9
<1>5. recorded'[s] = v /\ \A x \in Sensors \ {s} : recorded'[x] = recorded[x]
  BY <1>1 DEF HandleValue
<1>6. failed \subseteq failed' \cup {s}
  BY DEF HandleValue, Merge, Insert
<1>7. s \notin failed' => lastId'[s] # 0 /\ cache'[s] = v
  <2>1. CASE Merge(s, v, updated)
    BY <2>1 DEF Merge
  <2>2. CASE Insert(s, v, updated, outcome)
    <3>1. Len(rows[t]) + 1 # 0
      BY <1>1
    <3> QED BY <1>1, <2>2, <3>1 DEF Insert, IdsAfter
  <2> QED BY <2>1, <2>2 DEF HandleValue
<1> QED BY <1>2, <1>3, <1>4, <1>5, <1>6, <1>7 DEF HistoryStep

\* A value that is offered keeps the runs and the directions of the rows, what is
\* remembered and the time the rate limit counts from.
LEMMA HandleValueRows ==
    ASSUME IInv, HInv, NEW s \in Sensors, NEW v \in Values,
           NEW updated \in BOOLEAN, NEW outcome \in Outcomes,
           HandleValue(s, v, updated, outcome)
    PROVE  RunsPast' /\ Remembered' /\ RowsForward' /\ LimitCounts'
<1> DEFINE t == TableOf[s]  id == Len(rows[t]) + 1
<1>1. /\ TypeOK /\ TypeOK' /\ RowsStep(s, v) /\ IdsStep(s, v)
      /\ now \in Nat /\ runs \in Nat /\ runs' = runs /\ steady' = steady
      /\ running /\ HistoryStep(s, v)
  BY HandleValueSteps, HandleValueTypes, HandleValueRest DEF IInv, HandleValue, TypeOK
<1>2. ASSUME NEW u \in Tables, NEW i \in DOMAIN rows'[u]
      PROVE  /\ rows'[u][i].run <= runs'
             /\ steady' => rows'[u][i].start <= rows'[u][i].end
  <2>1. CASE i \in DOMAIN rows[u]
    <3>1. rows[u][i].run <= runs
      BY <2>1 DEF HInv, RunsPast
    <3>2. steady => rows[u][i].start <= rows[u][i].end /\ rows[u][i].end <= now
      BY <2>1 DEF HInv, RowsForward, IInv, RowsPast
    <3>3. rows[u][i].start \in Nat /\ rows[u][i].end \in Nat
      BY <1>1, <2>1, RowTypes
    <3>4. /\ rows'[u][i].run = rows[u][i].run /\ rows'[u][i].start = rows[u][i].start
          /\ rows'[u][i].end \in {rows[u][i].end, now}
      BY <1>1, <2>1, RowsAfter
    <3> QED BY <1>1, <3>1, <3>2, <3>3, <3>4
  <2>2. CASE i \notin DOMAIN rows[u]
    <3>1. rows'[u][i] = NewRow(s, v)
      BY <1>1, <2>2, RowsAfter
    <3> QED BY <1>1, <3>1 DEF NewRow
  <2> QED BY <2>1, <2>2
<1>3. ASSUME NEW x \in Sensors, NEW i \in Confirmed(x)',
             rows'[TableOf[x]][i].run = runs'
      PROVE  lastId'[x] # 0
  <2>1. CASE i \in Confirmed(x)
    <3>1. rows[TableOf[x]][i].run = runs
      BY <1>1, <1>3, <2>1, RowsAfter, RowTypes
    <3>2. lastId[x] # 0
      BY <1>1, <2>1, <3>1 DEF HInv, Remembered
    <3>3. id # 0
      BY <1>1, RowsAfter
    <3> QED BY <1>1, <3>2, <3>3 DEF IdsStep, TypeOK
  <2>2. CASE i \notin Confirmed(x)
    <3>1. x = s /\ lastId' = [lastId EXCEPT ![s] = id]
      BY <1>1, <2>2, ConfirmedAfter
    <3>2. id # 0
      BY <1>1, RowsAfter
    <3> QED BY <1>1, <3>1, <3>2 DEF TypeOK
  <2> QED BY <2>1, <2>2
<1>4. ASSUME steady', NEW x \in Sensors, TableOf[x] = "numeric", RateLimit # 0,
             lastId'[x] # 0
      PROVE  lastWrite'[x] # NoTime /\ rows'[TableOf[x]][lastId'[x]].start <= lastWrite'[x]
  <2>1. CASE x = s
    <3>1. lastWrite'[x] = now /\ now # NoTime
      BY <1>1, <1>4, <2>1 DEF HistoryStep, NoTime
    <3>2. TableOf[x] \in Tables /\ lastId'[x] \in DOMAIN rows'[TableOf[x]]
      BY <1>1, <1>4 DEF TypeOK, RowsOf
    <3>3. rows'[TableOf[x]][lastId'[x]].start \in Nat /\ rows'[TableOf[x]][lastId'[x]].end \in Nat
      <4>1. \A u \in Tables : \A i \in DOMAIN rows'[u] :
               rows'[u][i].start \in Nat /\ rows'[u][i].end \in Nat
        BY <1>1, RowNumbers DEF TypeOK
      <4> QED BY <3>2, <4>1
    <3>4. rows'[TableOf[x]][lastId'[x]].start <= rows'[TableOf[x]][lastId'[x]].end
      BY <1>2, <1>4, <3>2
    <3>5. rows'[TableOf[x]][lastId'[x]].end <= now
      <4>1. now' = now /\ RowsPast'
        BY HandleValueHistory DEF HandleValue
      <4> QED BY <1>4, <3>2, <4>1 DEF RowsPast
    <3> QED BY <1>1, <3>1, <3>3, <3>4, <3>5
  <2>2. CASE x # s
    <3>1. lastId'[x] = lastId[x] /\ lastWrite'[x] = lastWrite[x]
      BY <1>1, <2>2 DEF HistoryStep, IdsStep, TypeOK
    <3>2. TableOf[x] \in Tables /\ lastId[x] \in DOMAIN rows[TableOf[x]]
      BY <1>1, <1>4, <3>1 DEF TypeOK, RowsOf
    <3>3. rows'[TableOf[x]][lastId[x]].start = rows[TableOf[x]][lastId[x]].start
      BY <1>1, <3>2, RowsAfter
    <3> QED BY <1>1, <1>4, <3>1, <3>3 DEF HInv, LimitCounts
  <2> QED BY <2>1, <2>2
<1>5. RunsPast' /\ RowsForward'
  BY <1>2 DEF RunsPast, RowsForward
<1>6. Remembered'
  BY <1>3 DEF Remembered
<1> QED BY <1>4, <1>5, <1>6 DEF LimitCounts

\* A new row starts where the row before it in its run ends, or that one is frayed,
\* and the rate limit after it starts.
LEMMA HandleValueHoles ==
    ASSUME IInv, HInv, NEW s \in Sensors, NEW v \in Values,
           NEW updated \in BOOLEAN, NEW outcome \in Outcomes,
           HandleValue(s, v, updated, outcome)
    PROVE  NoHoles'
<1> DEFINE t == TableOf[s]  id == Len(rows[t]) + 1  n == lastId[s]
<1>1. /\ TypeOK /\ TypeOK' /\ RowsStep(s, v) /\ IdsStep(s, v)
      /\ now \in Nat /\ runs \in Nat /\ steady' = steady /\ running
      /\ OrphansExist /\ RateLimit \in Nat /\ HistoryStep(s, v)
  BY HandleValueSteps, HandleValueTypes, HandleValueRest DEF IInv, HandleValue, TypeOK
<1> SUFFICES ASSUME steady', NEW x \in Sensors,
                    NEW i \in Confirmed(x)', NEW j \in Confirmed(x)', i < j,
                    rows'[TableOf[x]][i].run = rows'[TableOf[x]][j].run
             PROVE  /\ TableOf[x] = "numeric" =>
                         rows'[TableOf[x]][j].start - rows'[TableOf[x]][i].start
                           >= RateLimit
                    /\ (\A k \in Confirmed(x)' : ~(i < k /\ k < j))
                         /\ <<TableOf[x], i>> \notin frayed' =>
                         rows'[TableOf[x]][i].end = rows'[TableOf[x]][j].start
  BY DEF NoHoles
<1> DEFINE u == TableOf[x]
<1>2. /\ u \in Tables /\ id \in Nat /\ i \in Nat /\ j \in Nat
      /\ \A k \in Confirmed(x) : k \in DOMAIN rows[u] /\ k \in Nat /\ rows[u][k].sensor = x
      /\ \A k \in DOMAIN rows[t] : k \in Nat /\ k < id
  <2>1. /\ u \in Tables
        /\ \A k \in Confirmed(x) : k \in DOMAIN rows[u] /\ k \in Nat /\ rows[u][k].sensor = x
    BY <1>1, RowTypes
  <2>2. id \in Nat /\ \A k \in DOMAIN rows[t] : k \in Nat /\ k < id
    BY <1>1, RowsAfter
  <2>3. \A k \in Confirmed(x)' : k \in Nat
    <3>1. \A k \in Confirmed(x) : k \in Nat
      BY <2>1
    <3> QED BY <1>1, <2>2, <3>1, ConfirmedAfter
  <2> QED BY <2>1, <2>2, <2>3
<1>3. \A k \in Confirmed(x)' : k \in Confirmed(x) \/
         (x = s /\ k = id /\ rows'[t][id] = NewRow(s, v))
  BY <1>1, ConfirmedAfter
<1>4. Confirmed(x) \subseteq Confirmed(x)'
  BY <1>1, ConfirmedStay
<1>5. i \in Confirmed(x)
  <2>1. j <= id \/ j \in DOMAIN rows[u]
    BY <1>2, <1>3
  <2>2. ~(x = s /\ i = id)
    BY <1>2, <1>3
  <2> QED BY <1>3, <2>2
<1>6. /\ rows'[u][i].run = rows[u][i].run /\ rows'[u][i].start = rows[u][i].start
      /\ rows[u][i].start \in Nat /\ rows[u][i].end \in Nat
  BY <1>1, <1>2, <1>5, RowsAfter, RowTypes
<1>7. CASE j \in Confirmed(x)
  <2>1. /\ rows'[u][j].run = rows[u][j].run /\ rows'[u][j].start = rows[u][j].start
    BY <1>1, <1>2, <1>7, RowsAfter
  <2>2. rows[u][i].run = rows[u][j].run
    BY <1>6, <2>1
  <2>3. /\ u = "numeric" => rows[u][j].start - rows[u][i].start >= RateLimit
        /\ (\A k \in Confirmed(x) : ~(i < k /\ k < j)) /\ <<u, i>> \notin frayed =>
             rows[u][i].end = rows[u][j].start
    BY <1>1, <1>5, <1>7, <2>2 DEF HInv, NoHoles
  <2>4. ~(u = t /\ i = n)
    <3> SUFFICES ASSUME u = t, i = n PROVE FALSE
      OBVIOUS
    <3>1. n # 0 /\ rows[t][n].sensor = s
      <4>1. n # 0
        BY <1>1, <1>2, <1>5 DEF TypeOK
      <4> QED BY <1>1, <4>1 DEF TypeOK, RowsOf
    <3>2. x = s
      BY <1>2, <1>5, <3>1
    <3>3. j <= n
      BY <1>7, <3>1, <3>2 DEF IInv, IdsOfRun
    <3> QED BY <1>2, <3>3
  <2>5. rows'[u][i].end = rows[u][i].end
    BY <1>1, <1>2, <1>5, <2>4, RowsAfter
  <2>6. frayed \subseteq frayed'
    BY <1>1 DEF HistoryStep
  <2> QED BY <1>4, <1>6, <2>1, <2>3, <2>5, <2>6
<1>8. CASE x = s /\ j = id /\ rows'[t][id] = NewRow(s, v)
  <2>1. rows'[u][j].start = now /\ rows[u][i].run = runs
    <3>1. rows'[u][j] = NewRow(s, v)
      BY <1>8
    <3>2. NewRow(s, v).start = now /\ NewRow(s, v).run = runs
      BY DEF NewRow
    <3>3. rows'[u][i].run = rows'[u][j].run
      OBVIOUS
    <3> QED BY <1>6, <3>1, <3>2, <3>3
  <2>2. n # 0 /\ n \in Confirmed(s) /\ i <= n /\ rows[t][n].run = runs
    <3>1. n # 0
      BY <1>1, <1>5, <1>8, <2>1 DEF HInv, Remembered
    <3> QED BY <1>1, <1>5, <1>8, <3>1 DEF IInv, IdsOfRun, TypeOK, Confirmed
  <2>3. n \in Nat /\ n < id /\ rows[t][n].start \in Nat
    BY <1>1, <1>2, <1>8, <2>2, RowTypes
  <2>4. u = "numeric" => now - rows[u][i].start >= RateLimit
    <3> SUFFICES ASSUME u = "numeric" PROVE now - rows[u][i].start >= RateLimit
      OBVIOUS
    <3>1. CASE RateLimit = 0
      <4>1. rows[u][i].start <= rows[u][i].end /\ rows[u][i].end <= now
        BY <1>1, <1>2, <1>5 DEF HInv, RowsForward, IInv, RowsPast
      <4> QED BY <1>1, <1>6, <3>1, <4>1
    <3>2. CASE RateLimit # 0
      <4>1. lastWrite[s] # NoTime /\ rows[t][n].start <= lastWrite[s]
        BY <1>1, <1>8, <2>2, <3>2 DEF HInv, LimitCounts
      <4>2. now - lastWrite[s] >= RateLimit
        BY <1>8, <3>2, <4>1 DEF HandleValue, PassesRateLimit
      <4>3. lastWrite[s] \in Nat
        BY <1>1, <4>1 DEF TypeOK
      <4>4. now - rows[t][n].start >= RateLimit
        <5> DEFINE a == rows[t][n].start  b == lastWrite[s]
        <5>1. /\ a \in Nat /\ b \in Nat /\ now \in Nat /\ RateLimit \in Nat
              /\ a <= b /\ now - b >= RateLimit
          BY <1>1, <2>3, <4>1, <4>2, <4>3
        <5> HIDE DEF a, b
        <5>2. now - a >= RateLimit
          BY <5>1
        <5> QED BY <5>2 DEF a
      <4>5. CASE i = n
        BY <1>8, <4>4, <4>5
      <4>6. CASE i # n
        <5>1. i < n
          BY <1>2, <2>2, <2>3, <4>6
        <5>2. rows[t][n].start - rows[t][i].start >= RateLimit
          BY <1>1, <1>5, <1>8, <2>1, <2>2, <5>1 DEF HInv, NoHoles
        <5> DEFINE a == rows[t][n].start  b == rows[t][i].start
        <5>3. /\ a \in Nat /\ b \in Nat /\ now \in Nat /\ RateLimit \in Nat
              /\ now - a >= RateLimit /\ a - b >= RateLimit /\ u = t
          BY <1>1, <1>6, <1>8, <2>3, <4>4, <5>2
        <5> HIDE DEF a, b, t, u
        <5>4. now - b >= RateLimit
          BY <5>3
        <5> QED BY <5>3, <5>4 DEF b
      <4> QED BY <4>5, <4>6
    <3> QED BY <3>1, <3>2
  <2>5. ASSUME \A k \in Confirmed(x)' : ~(i < k /\ k < j), <<u, i>> \notin frayed'
        PROVE  rows'[u][i].end = now
    <3>1. ~(i < n)
      BY <1>4, <1>8, <2>2, <2>3, <2>5
    <3>2. i = n
      BY <1>2, <2>2, <2>3, <3>1
    <3> QED BY <1>1, <1>8, <2>2, <2>5, <3>2 DEF HistoryStep
  <2> QED BY <1>6, <2>1, <2>4, <2>5
<1> QED BY <1>3, <1>7, <1>8

\* The row a stored value is in is the newest one; other sensors keep theirs.
LEMMA HandleValueNewest ==
    ASSUME IInv, HInv, NEW s \in Sensors, NEW v \in Values,
           NEW updated \in BOOLEAN, NEW outcome \in Outcomes,
           HandleValue(s, v, updated, outcome)
    PROVE  NewestIsRecorded'
<1>1. /\ TypeOK /\ TypeOK' /\ IdsOfRun' /\ OrphansExist
      /\ RowsStep(s, v) /\ IdsStep(s, v) /\ HistoryStep(s, v)
  BY HandleValueSteps, HandleValueTypes, HandleValueIds, HandleValueRest DEF IInv
<1> SUFFICES ASSUME NEW x \in Sensors, x \notin failed', recorded'[x] # None
             PROVE  \E i \in Confirmed(x)' :
                      /\ \A j \in Confirmed(x)' : j <= i
                      /\ rows'[TableOf[x]][i].value = recorded'[x]
  BY DEF NewestIsRecorded
<1>2. CASE x = s
  <2>1. lastId'[s] # 0 /\ cache'[s] = v /\ recorded'[s] = v
    BY <1>1, <1>2 DEF HistoryStep
  <2>2. /\ lastId'[s] \in RowsOf(s)' /\ rows'[TableOf[s]][lastId'[s]].value = v
    BY <1>1, <2>1 DEF TypeOK
  <2>3. /\ <<TableOf[s], lastId'[s]>> \notin orphans'
        /\ \A j \in Confirmed(s)' : j <= lastId'[s]
    BY <1>1, <2>1 DEF IdsOfRun
  <2>4. lastId'[s] \in Confirmed(s)'
    BY <2>2, <2>3 DEF Confirmed
  <2> QED BY <1>2, <2>1, <2>2, <2>3, <2>4
<1>3. CASE x # s
  <2>1. x \notin failed /\ recorded'[x] = recorded[x]
    BY <1>1, <1>3 DEF HistoryStep
  <2>2. PICK i \in Confirmed(x) : /\ \A j \in Confirmed(x) : j <= i
                                  /\ rows[TableOf[x]][i].value = recorded[x]
    BY <2>1 DEF HInv, NewestIsRecorded
  <2>3. Confirmed(x)' = Confirmed(x)
    <3>1. Confirmed(x) \subseteq Confirmed(x)'
      BY <1>1, ConfirmedStay
    <3>2. \A j \in Confirmed(x)' : j \in Confirmed(x)
      BY <1>1, <1>3, ConfirmedAfter
    <3> QED BY <3>1, <3>2
  <2>4. rows'[TableOf[x]][i].value = rows[TableOf[x]][i].value
    BY <1>1, RowsAfter, RowTypes
  <2> QED BY <2>1, <2>2, <2>3, <2>4
<1> QED BY <1>2, <1>3

\* There is no row and no value yet.
LEMMA InitHInv == Init => HInv
<1> SUFFICES ASSUME Init PROVE HInv
  OBVIOUS
<1>1. /\ rows \in [Tables -> Seq(Row)] /\ \A t \in Tables : rows[t] = <<>>
      /\ \A s \in Sensors : lastId[s] = 0 /\ recorded[s] = None
  BY DEF Init
<1>2. \A t \in Tables : DOMAIN rows[t] = {}
  BY <1>1
<1>3. \A s \in Sensors : Confirmed(s) = {}
  BY <1>2 DEF Confirmed, RowsOf
<1> QED BY <1>1, <1>2, <1>3 DEF HInv, RunsPast, Remembered, RowsForward, LimitCounts,
                               NoHoles, NewestIsRecorded

\* Every step keeps the history whole.
LEMMA NextHInv == IInv /\ HInv /\ [Next]_vars => HInv'
<1> SUFFICES ASSUME IInv, HInv, [Next]_vars PROVE HInv'
  OBVIOUS
<1> USE DEF database, process, history
<1>1. CASE Connect
  <2>1. UNCHANGED <<rows, orphans, frayed, recorded, failed, steady, lastId, lastWrite>>
    BY <1>1 DEF Connect
  <2>2. runs \in Nat /\ runs' = runs + 1
    BY <1>1 DEF Connect, IInv, TypeOK
  <2>3. \A t \in Tables : \A i \in DOMAIN rows[t] :
           rows[t][i].run \in Nat /\ rows[t][i].run <= runs
    BY RowNumbers DEF IInv, TypeOK, HInv, RunsPast
  <2>4. RunsPast'
    <3>1. \A t \in Tables : \A i \in DOMAIN rows[t] : rows[t][i].run <= runs'
      BY <2>2, <2>3
    <3> QED BY <2>1, <3>1 DEF RunsPast
  <2>5. Remembered'
    <3>1. \A s \in Sensors : \A i \in Confirmed(s) : rows[TableOf[s]][i].run # runs'
      <4>1. \A t \in Tables : \A i \in DOMAIN rows[t] : rows[t][i].run # runs'
        BY <2>2, <2>3
      <4> QED BY <4>1, RowTypes DEF IInv
    <3> QED BY <2>1, <3>1 DEF Remembered, Confirmed, RowsOf
  <2>6. RowsForward' /\ LimitCounts'
    BY <2>1 DEF HInv, RowsForward, LimitCounts
  <2>7. NoHoles' /\ NewestIsRecorded'
    <3>1. NoHoles'
      BY <2>1 DEF HInv, NoHoles, Confirmed, RowsOf
    <3>2. NewestIsRecorded'
      BY <2>1 DEF HInv, NewestIsRecorded, Confirmed, RowsOf
    <3> QED BY <3>1, <3>2
  <2> QED BY <2>4, <2>5, <2>6, <2>7 DEF HInv
<1>2. CASE Stop
  <2>1. /\ UNCHANGED <<rows, orphans, frayed, recorded, failed, steady, runs>>
        /\ running' = FALSE /\ \A s \in Sensors : lastId'[s] = 0
    BY <1>2 DEF Stop
  <2>2. RunsPast' /\ RowsForward'
    BY <2>1 DEF HInv, RunsPast, RowsForward
  <2>3. Remembered' /\ LimitCounts'
    BY <2>1 DEF Remembered, LimitCounts
  <2>4. NoHoles' /\ NewestIsRecorded'
    <3>1. NoHoles'
      BY <2>1 DEF HInv, NoHoles, Confirmed, RowsOf
    <3>2. NewestIsRecorded'
      BY <2>1 DEF HInv, NewestIsRecorded, Confirmed, RowsOf
    <3> QED BY <3>1, <3>2
  <2> QED BY <2>2, <2>3, <2>4 DEF HInv
<1>3. ASSUME NEW s \in Sensors, NEW v \in Values,
             NEW updated \in BOOLEAN, NEW outcome \in Outcomes,
             HandleValue(s, v, updated, outcome)
      PROVE  HInv'
  BY <1>3, HandleValueRows, HandleValueHoles, HandleValueNewest DEF HInv
<1>4. CASE Tick \/ ClockSetBack \/ UNCHANGED vars
  <2>1. /\ UNCHANGED <<rows, orphans, frayed, recorded, failed, runs, running,
                       lastId, lastWrite>>
        /\ steady' => steady
    BY <1>4 DEF Tick, ClockSetBack, vars
  <2>2. RunsPast' /\ RowsForward' /\ LimitCounts'
    BY <2>1 DEF HInv, RunsPast, RowsForward, LimitCounts
  <2>3. Remembered' /\ NewestIsRecorded'
    BY <2>1 DEF HInv, Remembered, NewestIsRecorded, Confirmed, RowsOf
  <2>4. NoHoles'
    BY <2>1 DEF HInv, NoHoles, Confirmed, RowsOf
  <2> QED BY <2>2, <2>3, <2>4 DEF HInv
<1> QED BY <1>1, <1>2, <1>3, <1>4 DEF Next

\* With one value at a time and rows that run forward, the row that ends last is
\* the last one: the page shows the newest row.
LEMMA PageIsNewest ==
    ASSUME IInv, HInv, steady, NEW s \in Sensors, s \notin failed,
           recorded[s] # None, RowsOf(s) = Confirmed(s)
    PROVE  ValueShown(s) = recorded[s]
<1> DEFINE t == TableOf[s]
           Shown(i) == \A j \in RowsOf(s) :
                         \/ rows[t][j].end < rows[t][i].end
                         \/ rows[t][j].end = rows[t][i].end /\ j <= i
<1>1. PICK n \in Confirmed(s) : /\ \A j \in Confirmed(s) : j <= n
                                /\ rows[t][n].value = recorded[s]
  BY DEF HInv, NewestIsRecorded
<1>2. /\ t \in Tables
      /\ \A i \in RowsOf(s) : /\ i \in DOMAIN rows[t] /\ i \in Nat
                              /\ rows[t][i].start \in Nat /\ rows[t][i].end \in Nat
  BY RowTypes DEF IInv
<1>3. \A i \in RowsOf(s) : i # n => i < n /\ rows[t][i].end <= rows[t][n].end
  <2> SUFFICES ASSUME NEW i \in RowsOf(s), i # n
               PROVE  i < n /\ rows[t][i].end <= rows[t][n].end
    OBVIOUS
  <2>1. i < n
    BY <1>1, <1>2
  <2>2. rows[t][i].end <= rows[t][n].start
    BY <1>1, <2>1 DEF IInv, OneValueAtATime
  <2>3. rows[t][n].start <= rows[t][n].end
    BY <1>1, <1>2 DEF HInv, RowsForward
  <2> QED BY <1>1, <1>2, <2>1, <2>2, <2>3
<1>4. n \in RowsOf(s) /\ Shown(n)
  BY <1>1, <1>2, <1>3
<1>5. ASSUME NEW i \in RowsOf(s), Shown(i)
      PROVE  i = n
  BY <1>2, <1>3, <1>4, <1>5
<1>6. Latest(s) = CHOOSE i \in RowsOf(s) : Shown(i)
  BY DEF Latest
<1>7. Latest(s) = n
  <2> HIDE DEF Shown
  <2> QED BY <1>4, <1>5, <1>6
<1> QED BY <1>1, <1>7 DEF ValueShown

-----------------------------------------------------------------------------
\* Database keeps its types, and each id in m_lastInsertIds is that of a row of
\* the sensor itself, in its own table, with the cached value.
THEOREM TypeCorrect == Spec => []TypeOK
<1>1. IInv => TypeOK
  BY DEF IInv
<1> QED BY InitIInv, NextIInv, <1>1, PTL DEF Spec

\* A sensor has one value at a time, whichever queries fail and however often the
\* collector is restarted, while the clock runs forward and but for rows whose
\* insert was carried out without a confirmation.
THEOREM OneValue == Spec => []OneValueAtATime
<1>1. IInv => OneValueAtATime
  BY DEF IInv
<1> QED BY InitIInv, NextIInv, <1>1, PTL DEF Spec

\* Rows of one run follow each other without a gap, but where an update failed,
\* and those of a numeric sensor start no closer together than the rate limit:
\* what the row remembered in m_lastInsertIds and the time in m_lastWrites are for.
THEOREM HistoryIsWhole == Spec => []NoHoles
<1>1. HInv => NoHoles
  BY DEF HInv
<1> QED BY InitIInv, NextIInv, InitHInv, NextHInv, <1>1, PTL DEF Spec

\* The page shows what was recorded last of a sensor, unless an insert failed or
\* was not confirmed: executeQuery's failures leave no old row that outlives it.
THEOREM PageIsRight == Spec => []PageShowsLatest
<1>1. IInv /\ HInv => PageShowsLatest
  BY PageIsNewest DEF PageShowsLatest
<1> QED BY InitIInv, NextIInv, InitHInv, NextHInv, <1>1, PTL DEF Spec

\* No statement of addSensorValue rewrites history: rows are added at the end, and
\* only the newest confirmed row of this run of the collector gets another end.
THEOREM HistoryIsKept == Spec => HistoryKept
<1> DEFINE Kept == \A t \in Tables : KeepsHistory(t)
<1>1. IInv /\ [Next]_vars => [Kept]_vars
  <2> SUFFICES ASSUME IInv, Next PROVE Kept
    OBVIOUS
  <2>1. CASE rows' = rows
    <3>1. \A t \in Tables : Len(rows[t]) \in Nat
      BY DEF IInv, TypeOK
    <3> QED BY <2>1, <3>1 DEF KeepsHistory
  <2>2. ASSUME NEW s \in Sensors, NEW v \in Values,
               NEW updated \in BOOLEAN, NEW outcome \in Outcomes,
               HandleValue(s, v, updated, outcome)
        PROVE  Kept
    <3>1. TypeOK /\ RowsStep(s, v)
      BY <2>2, HandleValueSteps DEF IInv
    <3>2. \A u \in Tables : Len(rows[u]) \in Nat /\ DOMAIN rows[u] = 1..Len(rows[u])
      BY <3>1 DEF TypeOK
    <3> SUFFICES ASSUME NEW u \in Tables PROVE KeepsHistory(u)
      OBVIOUS
    <3>3. Len(rows'[u]) >= Len(rows[u])
      BY <3>1, <3>2 DEF RowsStep
    <3>4. ASSUME NEW i \in DOMAIN rows[u], rows'[u][i] # rows[u][i]
          PROVE  /\ rows'[u][i] = [rows[u][i] EXCEPT !.end = now]
                 /\ rows[u][i].run = runs
                 /\ i \in Confirmed(rows[u][i].sensor)
                 /\ \A j \in Confirmed(rows[u][i].sensor) : j <= i
      <4>1. /\ u = TableOf[s] /\ lastId[s] # 0 /\ i = lastId[s]
            /\ rows'[u][i] = [rows[u][i] EXCEPT !.end = now]
        BY <3>1, <3>2, <3>4 DEF RowsStep
      <4>2. rows[u][i].sensor = s
        BY <3>1, <4>1 DEF TypeOK, RowsOf
      <4>3. /\ rows[u][i].run = runs /\ <<u, i>> \notin orphans
            /\ \A j \in Confirmed(s) : j <= i
        BY <4>1 DEF IInv, IdsOfRun
      <4>4. i \in Confirmed(s)
        BY <4>1, <4>2, <4>3 DEF Confirmed, RowsOf
      <4> QED BY <4>1, <4>2, <4>3, <4>4
    <3> QED BY <3>3, <3>4 DEF KeepsHistory
  <2> QED
    BY <2>1, <2>2
       DEF Next, Connect, Stop, Tick, ClockSetBack, database, process, history
<1> QED BY InitIInv, NextIInv, <1>1, PTL DEF Spec, HistoryKept
=============================================================================
