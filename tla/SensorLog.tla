----------------------------- MODULE SensorLog -----------------------------
(***************************************************************************)
(* Database: the history of the sensors.  A table row says that a sensor   *)
(* had a value from start to end.  While a value does not change its row   *)
(* grows (update ... set endtime); a new value starts a new row (insert).  *)
(* Which row grows is remembered in m_lastInsertIds, for the sensors of    *)
(* all three tables in one map, and lost with the process.                 *)
(*                                                                         *)
(* Faults: a query fails; an insert is carried out but not confirmed       *)
(* before the connection breaks; the process ends at any time, also while  *)
(* it creates the tables; the clock is set back, which for DATETIME        *)
(* columns, that hold local time, the end of daylight saving does too.     *)
(***************************************************************************)
EXTENDS Integers, Sequences, FiniteSets

CONSTANTS
    Sensors,
    TableOf,       \* [Sensors -> Tables]
    Values,
    None,          \* no value
    RateLimit,     \* Options::rateLimit(), 0 for none
    MaxTime,       \* bound: the clock
    MaxRows,       \* bound: rows of all tables
    MaxRuns,       \* bound: times the collector is started
    MaxFaults      \* bound: statements that fail and clocks set back

Tables == {"numeric", "boolean", "state"}

ASSUME SensorsAssumption == TableOf \in [Sensors -> Tables] /\ None \notin Values
ASSUME LimitsAssumption ==
    RateLimit \in Nat /\ MaxTime \in Nat /\ MaxRows \in Nat
    /\ MaxRuns \in Nat /\ MaxFaults \in Nat

VARIABLES
    now,         \* time(NULL)
    created,     \* how many of the tables of TableOrder exist
    running,     \* connect returned true: main hands values to the database
    rows,        \* the tables; a row's id is its position
    cache,       \* m_numericCache, m_booleanCache, m_stateCache
    lastId,      \* m_lastInsertIds
    lastWrite    \* m_lastWrites

\* What happened, for the properties.
VARIABLES
    runs,        \* how often the collector was started
    faults,      \* how many faults there were
    steady,      \* the clock was never set back
    recorded,    \* the last value that passed the rate limit
    failed,      \* sensors whose last value was not stored: its insert failed
    frayed,      \* <<table, id>> of rows whose end missed an update
    orphans      \* <<table, id>> of rows whose insert was not confirmed

database == <<created, rows>>
process == <<running, cache, lastId, lastWrite>>
history == <<recorded, failed, frayed, orphans>>
vars == <<now, steady, runs, faults, database, process, history>>

NoTime == -1
TableOrder == <<"sensors", "numeric", "boolean", "state">>
RowCount == Len(rows["numeric"]) + Len(rows["boolean"]) + Len(rows["state"])
Exists(table) == \E i \in 1..created : TableOrder[i] = table

\* run is no column: it tells which run of the collector inserted the row.
Row == [sensor : Sensors, value : Values, start : Nat, end : Nat, run : Nat]

Init ==
    /\ now = 0 /\ steady = TRUE /\ runs = 0 /\ faults = 0
    /\ created = 0 /\ rows = [t \in Tables |-> <<>>]
    /\ running = FALSE
    /\ cache = [s \in Sensors |-> None]
    /\ lastId = [s \in Sensors |-> 0]
    /\ lastWrite = [s \in Sensors |-> NoTime]
    /\ recorded = [s \in Sensors |-> None]
    /\ failed = {} /\ frayed = {} /\ orphans = {}

-----------------------------------------------------------------------------
(* connect and createTables: with any table present nothing is created, so *)
(* a creation that was interrupted is never completed.                     *)
Connect ==
    /\ ~running /\ runs < MaxRuns
    /\ runs' = runs + 1
    /\ IF created > 0 THEN running' = TRUE /\ UNCHANGED created
       ELSE \E n \in 0..4 : created' = n /\ running' = (n = 4)
    /\ UNCHANGED <<now, steady, faults, rows, cache, lastId, lastWrite, history>>

\* The process ends; what it remembered is gone.
Stop ==
    /\ running
    /\ running' = FALSE
    /\ cache' = [s \in Sensors |-> None]
    /\ lastId' = [s \in Sensors |-> 0]
    /\ lastWrite' = [s \in Sensors |-> NoTime]
    /\ UNCHANGED <<now, steady, runs, faults, database, history>>

\* Faulty: limits nothing.
NotLimited(s) == TRUE

\* checkAndUpdateRateLimit: only the numeric overload of addSensorValue asks.
PassesRateLimit(s) ==
    \/ TableOf[s] # "numeric" \/ RateLimit = 0
    \/ lastWrite[s] = NoTime
    \/ now - lastWrite[s] >= RateLimit

LastWriteAfter(s) ==
    IF TableOf[s] # "numeric" \/ RateLimit = 0 THEN lastWrite
    ELSE [lastWrite EXCEPT ![s] = now]

\* The row of the last insert grows.
Grown(s, updated) ==
    IF lastId[s] # 0 /\ updated
    THEN [rows[TableOf[s]] EXCEPT ![lastId[s]].end = now]
    ELSE rows[TableOf[s]]

NewRow(s, v) == [sensor |-> s, value |-> v, start |-> now, end |-> now, run |-> runs]

\* The value has not changed: no more than the update.
Merge(s, v, updated) ==
    /\ cache[s] = v /\ lastId[s] # 0
    /\ rows' = [rows EXCEPT ![TableOf[s]] = Grown(s, updated)]
    /\ failed' = failed \ {s}
    /\ UNCHANGED <<cache, lastId, orphans>>

\* Faulty: one id for the sensors of all tables.
IdsAfterShared(s, id) == [x \in Sensors |-> IF lastId[x] # 0 \/ x = s THEN id ELSE 0]
\* Faulty: the id of the new row is not remembered.
IdsAfterFirst(s, id) == IF lastId[s] # 0 THEN lastId ELSE [lastId EXCEPT ![s] = id]

IdsAfter(s, id) == [lastId EXCEPT ![s] = id]

\* Faulty: the value is taken for written before it is.
CacheAfterFailureSet(s, v) == [cache EXCEPT ![s] = v]

\* A failed insert leaves the cached value alone, so the next offer of the
\* value tries again.
CacheAfterFailure(s, v) == cache

\* The value is new.  The insert is `stored', `refused', or carried out without
\* a confirmation: executeQuery returns false all the same.
Insert(s, v, updated, outcome) ==
    LET t == TableOf[s]  id == Len(rows[t]) + 1
    IN  /\ cache[s] # v \/ lastId[s] = 0
        /\ rows' = [rows EXCEPT ![t] =
                      IF outcome = "refused" THEN Grown(s, updated)
                      ELSE Append(Grown(s, updated), NewRow(s, v))]
        /\ orphans' = IF outcome = "unconfirmed" THEN orphans \cup {<<t, id>>}
                      ELSE orphans
        /\ IF outcome = "stored"
           THEN /\ lastId' = IdsAfter(s, id)
                /\ cache' = [cache EXCEPT ![s] = v]
                /\ failed' = failed \ {s}
           ELSE /\ cache' = CacheAfterFailure(s, v)
                /\ UNCHANGED lastId
                /\ failed' = failed \cup {s}

(* handleValue with a valid value of sensor s, and addSensorValue.         *)
HandleValue(s, v, updated, outcome) ==
    LET t == TableOf[s]
    IN  /\ running /\ PassesRateLimit(s) /\ Len(rows[t]) < MaxRows
        /\ IF Exists(t)
           THEN faults' = faults + (IF updated THEN 0 ELSE 1)
                                 + (IF outcome = "stored" THEN 0 ELSE 1)
           ELSE ~updated /\ outcome = "refused" /\ UNCHANGED faults
        /\ faults' <= MaxFaults
        /\ lastWrite' = LastWriteAfter(s)
        /\ recorded' = [recorded EXCEPT ![s] = v]
        /\ Merge(s, v, updated) \/ Insert(s, v, updated, outcome)
        /\ frayed' = IF lastId[s] # 0 /\ ~updated THEN frayed \cup {<<t, lastId[s]>>}
                     ELSE frayed
        /\ UNCHANGED <<now, steady, runs, created, running>>

Tick ==
    /\ now < MaxTime /\ now' = now + 1
    /\ UNCHANGED <<steady, runs, faults, database, process, history>>

ClockSetBack ==
    /\ \E earlier \in 0..now - 1 : now' = earlier
    /\ steady' = FALSE
    /\ faults < MaxFaults /\ faults' = faults + 1
    /\ UNCHANGED <<runs, database, process, history>>

Outcomes == {"stored", "refused", "unconfirmed"}

Next ==
    \/ Connect
    \/ Stop
    \/ \E s \in Sensors, v \in Values, updated \in BOOLEAN, outcome \in Outcomes :
         HandleValue(s, v, updated, outcome)
    \/ Tick
    \/ ClockSetBack

Spec == Init /\ [][Next]_vars

-----------------------------------------------------------------------------
(***************************************************************************)
(* External: the web page (sensor_utils.php.inc).  Of a sensor's rows with *)
(* the greatest end it shows the last one.                                 *)
(***************************************************************************)
RowsOf(s) == {i \in DOMAIN rows[TableOf[s]] : rows[TableOf[s]][i].sensor = s}
Latest(s) ==
    CHOOSE i \in RowsOf(s) : \A j \in RowsOf(s) :
        \/ rows[TableOf[s]][j].end < rows[TableOf[s]][i].end
        \/ rows[TableOf[s]][j].end = rows[TableOf[s]][i].end /\ j <= i
ValueShown(s) == rows[TableOf[s]][Latest(s)].value

Confirmed(s) == {i \in RowsOf(s) : <<TableOf[s], i>> \notin orphans}

-----------------------------------------------------------------------------
(* Properties *)

\* Types; and a remembered id is that of a row of the sensor itself, in its own
\* table, with the value that is remembered: the ids of all tables share a map.
TypeOK ==
    /\ now \in Nat /\ runs \in Nat /\ faults \in Nat /\ created \in 0..4
    /\ steady \in BOOLEAN /\ running \in BOOLEAN
    /\ rows \in [Tables -> Seq(Row)]
    /\ cache \in [Sensors -> Values \cup {None}]
    /\ lastId \in [Sensors -> Nat]
    /\ lastWrite \in [Sensors -> Nat \cup {NoTime}]
    /\ recorded \in [Sensors -> Values \cup {None}]
    /\ failed \subseteq Sensors
    /\ \A s \in Sensors : lastId[s] # 0 =>
         /\ lastId[s] \in RowsOf(s)
         /\ rows[TableOf[s]][lastId[s]].value = cache[s]

\* A sensor has one value at a time: of two rows the earlier one ends before the
\* later one starts, whatever queries fail and however often the collector is
\* restarted, as long as the clock runs forward and every insert that was
\* carried out was confirmed.
OneValueAtATime ==
    steady =>
        \A s \in Sensors : \A i, j \in Confirmed(s) :
            i < j => rows[TableOf[s]][i].end <= rows[TableOf[s]][j].start

\* And there is no hole in the history: rows of one run of the collector follow
\* each other without a gap, but where an update failed; and those of a numeric
\* sensor start no closer together than the rate limit.
NoHoles ==
    steady =>
        \A s \in Sensors : \A i, j \in Confirmed(s) :
            LET a == rows[TableOf[s]][i]  b == rows[TableOf[s]][j]
            IN  i < j /\ a.run = b.run =>
                  /\ TableOf[s] = "numeric" => b.start - a.start >= RateLimit
                  /\ (\A k \in Confirmed(s) : ~(i < k /\ k < j))
                        /\ <<TableOf[s], i>> \notin frayed => a.end = b.start

\* The page shows what was recorded last, unless its insert failed or one
\* was not confirmed: an old row never outlives the new value.
PageShowsLatest ==
    steady =>
        \A s \in Sensors \ failed :
            recorded[s] # None /\ RowsOf(s) = Confirmed(s) => ValueShown(s) = recorded[s]

\* A table's history is not rewritten: a step adds rows at the end, and of those
\* that are there it changes nothing but the end of the newest row of a sensor
\* that this run of the collector inserted and had confirmed.
KeepsHistory(t) ==
    /\ Len(rows'[t]) >= Len(rows[t])
    /\ \A i \in DOMAIN rows[t] : rows'[t][i] # rows[t][i] =>
        /\ rows'[t][i] = [rows[t][i] EXCEPT !.end = now]
        /\ rows[t][i].run = runs
        /\ i \in Confirmed(rows[t][i].sensor)
        /\ \A j \in Confirmed(rows[t][i].sensor) : j <= i

\* All tables keep their history in every step, whatever handleValue does, fails
\* to do or has forgotten.
HistoryKept == [][\A t \in Tables : KeepsHistory(t)]_vars
=============================================================================
