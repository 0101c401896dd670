---------------------------- MODULE ApiCommands ----------------------------
(***************************************************************************)
(* The command language of ApiCommandParser: for every command line that   *)
(* is accepted, the first request it puts on the bus.  A line that is not  *)
(* in Commands is refused (ERRCMD, ERRARGS) and changes nothing; a line in *)
(* Immediate is answered on the spot.  Words are model strings; an argument *)
(* appears as the bytes it is encoded to, and its validation as the set of *)
(* bytes that can result.  Dates and Times are samples of what can be      *)
(* typed, so that TLC can enumerate the commands.                          *)
(***************************************************************************)
EXTENDS EmsProto, Sequences

CONSTANTS
    Dates,     \* sample of the dates a user types
    Times,     \* sample of times of day, in units of ten minutes
    RoomControllerType,  \* Options::roomControllerType(): "RC30", "RC35", ...
    RawCommands          \* HAVE_RAW_READWRITE_COMMAND: sample of the
                         \* arguments of `raw', or {} when compiled out

\* parseHolidayEntry and parseScheduleEntry refuse anything else; a year is
\* counted from 2000.
ASSUME DatesAssumption ==
    Dates \subseteq [year : 0..100, month : 1..12, day : 1..31]
ASSUME TimesAssumption == Times \subseteq 0..143

\* parseIntParameter puts each argument of `raw' into a uint8_t.
ASSUME RawAssumption == \A a \in RawCommands, i \in 1..4 : a[i] \in 0..255

-----------------------------------------------------------------------------
\* startRequest and sendCommand as the handlers call them.  The offset
\* parameter of sendCommand is a uint8_t.
Reads(name, dest, type, offset, length) ==
    [name |-> name, read |-> TRUE, raw |-> FALSE, dest |-> dest, type |-> type,
     offset |-> offset, length |-> length]

Sends(name, dest, type, offset, data) ==
    [name |-> name, read |-> FALSE, dest |-> dest, type |-> type,
     offset |-> offset % 256, data |-> data]

Choice(name, dest, type, offset, values) ==
    {Sends(name, dest, type, offset, <<v>>) : v \in values}

\* handleSingleByteValue: the value typed is multiplied, truncated and compared
\* with the limits, then sent as an int8_t.
SingleByteValue(name, dest, type, offset, multiplier, min, max) ==
    Choice(name, dest, type, offset,
           {Byte(v) : v \in multiplier * min .. multiplier * max})

\* parseIntParameter, with a lower limit of the caller's.
IntParameter(name, dest, type, offset, min, max) ==
    Choice(name, dest, type, offset, min..max)

OnOff == {0, 255}

\* handleSetHolidayCommand: begin must not be later than end.
NotLater(b, e) ==
    \/ b.year < e.year
    \/ b.year = e.year /\ b.month < e.month
    \/ b.year = e.year /\ b.month = e.month /\ b.day <= e.day

HolidayEntry(d) == <<d.day, d.month, d.year>>

SetHoliday(name, type, offset) ==
    {Sends(name, RC3x, type, offset, HolidayEntry(be[1]) \o HolidayEntry(be[2])) :
        be \in {x \in Dates \X Dates : NotLater(x[1], x[2])}}

\* parseScheduleEntry: on in the low, twice the day in the high four bits.
ScheduleEntries ==
    {<<7 + 16 * 14, 144>>}
    \cup {<<on + 16 * (2 * day), t>> : on \in {0, 1}, day \in 0..6, t \in Times}

\* Faulty: counts entries from 0.
CustomScheduleFromZero(name, type) ==
    UNION {{Sends(name, RC3x, type, index * ScheduleEntrySize, entry) :
              entry \in ScheduleEntries} : index \in 0..42}

\* The index is checked against 42 only; entry 1 is the first.
CustomSchedule(name, type) ==
    UNION {{Sends(name, RC3x, type, (index - 1) * ScheduleEntrySize, entry) :
              entry \in ScheduleEntries} : index \in 0..42}

GetSchedule(name, type) == {Reads(name, RC3x, type, 0, 42 * ScheduleEntrySize)}

-----------------------------------------------------------------------------
(* handleRcCommand *)
RcCommands ==
    {Reads("rc requestdata", RC3x, 165, 0, 25),
     Reads("rc getcontactinfo", RC3x, 164, 0, 42),
     Reads("rc geterrors", RC3x, 18, 0, 4 * ErrorRecordSize)}
    \cup SingleByteValue("rc mintemperature", RC3x, 165, 5, 1, -30, 0)
    \cup Choice("rc buildingtype", RC3x, 165, 6, 0..2)
    \cup Choice("rc outdoortempdamping", RC3x, 165, 21, OnOff)
    \cup {Sends("rc setcontactinfo", RC3x, 164, (line - 1) * 21,
                [i \in 1..21 |-> 32]) : line \in 1..2}
    \cup {Sends("rc settime", RC3x, 6, 0, [i \in 1..SystemTimeRecordSize |-> 0])}

(* handleUbaCommand *)
MinMax == {<<max, min>> : max \in {0, 50, 100}, min \in {0, 50, 100}}

UbaCommands ==
    {Reads("uba requestdata", UBA, 21, 0, 5),
     Reads("uba geterrors", UBA, 16, 0, 8 * ErrorRecordSize),
     Reads("uba checkmaintenanceneeded", UBA, 28, 5, 3)}
    \cup IntParameter("uba antipendel", UBA, 22, 6, 0, 120)
    \cup SingleByteValue("uba hyst on", UBA, 22, 5, 1, -20, -1)
    \cup SingleByteValue("uba hyst off", UBA, 22, 4, 1, 1, 20)
    \cup {Sends("uba burnermodulation", UBA, 22, 2, mm) :
             mm \in {x \in MinMax : x[2] <= x[1]}}
    \cup {Sends("uba pumpmodulation", UBA, 22, 9, mm) :
             mm \in {x \in MinMax : x[2] <= x[1]}}
    \cup IntParameter("uba pumpdelay", UBA, 22, 8, 0, 120)
    \cup {Sends("uba schedulemaintenance", UBA, 21, 0, <<0, 60, 1, 1, 4>>)}
    \cup {Sends("uba schedulemaintenance", UBA, 21, 0, <<1, h, 1, 1, 4>>) : h \in 0..60}
    \cup {Sends("uba schedulemaintenance", UBA, 21, 0, <<2, 60>> \o HolidayEntry(d)) :
             d \in Dates}
    \cup {Sends("uba testmode", UBA, 29, 0,
                <<mode>> \o [i \in 1..10 |-> 0]) : mode \in {90, 0}}

(* handleRawCommand *)
RawReadWrite ==
    UNION {{[Reads("raw read", a[1], a[2], a[3], a[4]) EXCEPT !.raw = TRUE],
            Sends("raw write", a[1], a[2], a[3], <<a[4]>>)} : a \in RawCommands}

(* handleHkCommand; type is the base type of the heating circuit *)
HkModes(type) ==
    {Reads("hk requestdata", RC3x, type, 0, 42)}
    \cup Choice("hk mode", RC3x, type, 7, 0..2)
    \cup SingleByteValue("hk daytemperature", RC3x, type, 2, 2, 5, 30)
    \cup SingleByteValue("hk nighttemperature", RC3x, type, 1, 2, 5, 30)
    \cup Choice("hk temperatureoverride", RC3x, type, 37, {0} \cup 10..60)
    \cup SingleByteValue("hk vacationtemperature", RC3x, type, 3, 2, 5, 30)
    \cup SetHoliday("hk holidaymode", type + 2, 93)
    \cup SetHoliday("hk vacationmode", type + 2, 87)
    \cup IntParameter("hk partymode", RC3x, type + 2, 86, 0, 99)
    \cup IntParameter("hk pausemode", RC3x, type + 2, 85, 0, 99)

HkSchedules(type) ==
    (UNION {CustomSchedule("hk customschedule", type + (schedule - 1) * 3 + 2)
            \cup GetSchedule("hk getcustomschedule", type + (schedule - 1) * 3 + 2) :
              schedule \in 1..2})
    \cup {Reads("hk getactiveschedule", RC3x, type + 2, 84, 1),
          Reads("hk getvacation", RC3x, type + 2, 87, 2 * HolidayEntrySize),
          Reads("hk getholiday", RC3x, type + 2, 93, 2 * HolidayEntrySize)}
    \cup Choice("hk selectschedule", RC3x, type + 2, 84, 0..10)

HkHeatingSystem(type) ==
    CASE RoomControllerType = "RC30" ->
           Choice("hk heatingsystem", RC3x, type, 0, 0..4)
      [] RoomControllerType = "RC35" ->
           {Sends("hk heatingsystem", RC3x, type, 32, system_control) :
              system_control \in (0..3) \X (0..1)}
      [] OTHER -> {}

HkSettings(type) ==
    Choice("hk scheduleoptimizer", RC3x, type, 19, OnOff)
    \cup Choice("hk reductionmode", RC3x, type, 25, 0..3)
    \cup HkHeatingSystem(type)
    \cup Choice("hk vacationreductionmode", RC3x, type, 41, {2, 3})
    \cup Choice("hk frostprotectmode", RC3x, type, 28, 0..2)

HkLimits(type) ==
    SingleByteValue("hk mintemperature", RC3x, type, 16, 1, 5, 70)
    \cup SingleByteValue("hk maxtemperature", RC3x, type, 15, 1, 30, 90)
    \cup SingleByteValue("hk maxroomeffect", RC3x, type, 4, 2, 0, 10)
    \cup SingleByteValue("hk roomtemperatureoffset", RC3x, type, 6, 2, -5, 5)
    \cup SingleByteValue("hk designtemperature", RC3x, type, 17, 1, 30, 90)
    \cup SingleByteValue("hk frostprotecttemperature", RC3x, type, 23, 1, -20, 10)
    \cup SingleByteValue("hk summerwinterthreshold", RC3x, type, 22, 1, 0, 30)
    \cup SingleByteValue("hk reducedmodethreshold", RC3x, type, 39, 1, -20, 10)
    \cup SingleByteValue("hk vacationreducedmodethreshold", RC3x, type, 40, 1, -20, 10)
    \cup SingleByteValue("hk cancelreducedmodethreshold", RC3x, type, 38, 1, -31, 10)

HkCommands(type) ==
    HkModes(type) \cup HkSchedules(type) \cup HkSettings(type) \cup HkLimits(type)

(* handleWwCommand, handleThermDesinfectCommand, handleZirkPumpCommand *)
WwCommands ==
    {Reads("ww requestdata", UBA, 51, 0, 10)}
    \cup Choice("ww mode", RC3x, 55, 2, 0..2)
    \cup IntParameter("ww temperature", UBA, 51, 2, 30, 80)
    \cup IntParameter("ww limittemperature", RC3x, 55, 8, 30, 80)
    \cup Choice("ww loadonce", UBA, 53, 0, {35})
    \cup Choice("ww cancelload", UBA, 53, 0, {3})
    \cup Choice("ww showloadindicator", RC3x, 55, 9, OnOff)
    \cup GetSchedule("ww getcustomschedule", 56)
    \cup CustomSchedule("ww customschedule", 56)
    \cup Choice("ww selectschedule", RC3x, 55, 0, OnOff)

ThermDesinfectCommands ==
    Choice("ww thermdesinfect mode", RC3x, 55, 4, OnOff)
    \cup Choice("ww thermdesinfect day", RC3x, 55, 5, 0..7)
    \cup IntParameter("ww thermdesinfect hour", RC3x, 55, 6, 0, 23)
    \cup IntParameter("ww thermdesinfect temperature", UBA, 51, 8, 60, 80)

ZirkPumpCommands ==
    Choice("ww zirkpump mode", RC3x, 55, 3, 0..2)
    \cup IntParameter("ww zirkpump count", UBA, 51, 7, 1, 7)
    \cup GetSchedule("ww zirkpump getcustomschedule", 57)
    \cup CustomSchedule("ww zirkpump customschedule", 57)
    \cup Choice("ww zirkpump selectschedule", RC3x, 55, 1, OnOff)

-----------------------------------------------------------------------------
(* parse: the categories.  hk1 to hk4 differ in their base type only. *)
HkBases == {61, 71, 81, 91}

Commands ==
    (UNION {HkCommands(type) : type \in HkBases})
    \cup WwCommands \cup ThermDesinfectCommands \cup ZirkPumpCommands
    \cup RcCommands \cup UbaCommands \cup RawReadWrite
    \cup {Reads("getversion", UBA, 2, 0, 3)}

-----------------------------------------------------------------------------
\* Where the commands write that set something in motion rather than store a
\* value: testmode, loadonce and cancelload, settime.
Triggers == {<<UBA, 29>>, <<UBA, 53>>, <<RC3x, 6>>}

\* customschedule takes index 0, for which (index - 1) * 2 is 254 as a uint8_t.
ScheduleTypes == UNION {{t + 2, t + 5} : t \in HkBases}
IndexZero(c) == c.offset = 254 /\ c.type \in {56, 57} \cup ScheduleTypes
=============================================================================
