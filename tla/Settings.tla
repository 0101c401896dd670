----------------------------- MODULE Settings -----------------------------
(***************************************************************************)
(* How a setting is typed and how it is shown.  For each command that      *)
(* stores values: the words or the scale of its arguments, as              *)
(* ApiCommandParser encodes them, and the value of the cache that shows    *)
(* them, in the words of ValueApi::formatValue, the output of              *)
(* `cache fetch' and of the data port.                                     *)
(***************************************************************************)
EXTENDS ApiCommands, Telegrams

\* What a user types or reads: a word, or a number in hundredths.
Word(w) == [word |-> w, number |-> 0]
Number(n, div) == [word |-> "", number |-> n * (100 \div div)]

\* Words for the bytes from 0 on.
From0(words) == [b \in 0..Len(words) - 1 |-> words[b + 1]]

\* How the settings for holidays count these two.
OutOrIndoor == [b \in {2, 3} |-> IF b = 3 THEN "outdoor" ELSE "indoor"]

-----------------------------------------------------------------------------
(* ValueApi::formatValue *)
Enumerations ==
    [WWSystemType |-> From0(<<"none", "tankless", "small", "large", "speicherladesystem">>),
     Schaltpunkte |-> From0(<<"off", "1x", "2x", "3x", "4x", "5x", "6x", "alwayson">>),
     Wartungsmeldungen |-> From0(<<"off", "byhours", "bydate">>),
     WartungFaellig |-> [b \in {0, 3, 8} |-> CASE b = 0 -> "no" [] b = 3 -> "byhours"
                                             [] b = 8 -> "bydate"],
     DesinfektionTag |-> From0(<<"monday", "tuesday", "wednesday", "thursday",
                                 "friday", "saturday", "sunday", "everyday">>),
     GebaeudeArt |-> From0(<<"light", "medium", "heavy">>),
     HeizSystem |-> From0(<<"none", "heater", "convection", "floorheater">>),
     AbsenkModus |-> From0(<<"offmode", "reduced", "raumhalt", "aussenhalt">>),
     Frostschutz |-> From0(<<"off", "byoutdoortemp", "byindoortemp">>),
     FuehrungsGroesse |-> From0(<<"outdoor", "indoor">>),
     FBTyp |-> From0(<<"none", "rc20", "rc3x">>),
     UrlaubAbsenkungsArt |-> OutOrIndoor]

OpModes(v) ==
    IF v.sub \in {"HK1", "HK2", "HK3", "HK4"} THEN From0(<<"night", "day", "auto">>)
    ELSE From0(<<"off", "on", "auto">>)

WordsOf(v) ==
    IF v.type = "Betriebsart" THEN OpModes(v)
    ELSE IF v.type \in DOMAIN Enumerations THEN Enumerations[v.type] ELSE <<>>

\* Dates, errors and other texts are left out; they show the bytes of raw.
FormatValue(v) ==
    CASE v.kind \in {"Numeric", "Integer"} /\ ~v.valid -> Word("unavailable")
      [] v.kind = "Numeric" /\ v.valid -> Number(v.raw[1], v.raw[2])
      [] v.kind = "Integer" /\ v.valid -> Number(v.raw[1], 1)
      [] v.kind = "Boolean" -> Word(IF v.raw[1] = 1 THEN "on" ELSE "off")
      [] v.kind = "Enumeration" ->
           IF v.raw[1] \in DOMAIN WordsOf(v) THEN Word(WordsOf(v)[v.raw[1]])
           ELSE Number(v.raw[1], 1)

-----------------------------------------------------------------------------
(* The arguments of the commands: argument i of `name' is byte i of what is *)
(* sent, and sets <<type, sub>>.                                           *)
Argument(name, i, type, sub) ==
    [name |-> name, byte |-> i, type |-> type, sub |-> sub, scale |-> 1,
     words |-> <<>>]

\* A number, multiplied before it is sent.
Scaled(name, multiplier, type, sub) ==
    [Argument(name, 1, type, sub) EXCEPT !.scale = multiplier]

\* One of several words, encoded as 0, 1, ...
Chosen(name, type, sub, words) ==
    [Argument(name, 1, type, sub) EXCEPT !.words = From0(words)]

Switched(name, type, sub) ==
    [Argument(name, 1, type, sub) EXCEPT
       !.words = [b \in OnOff |-> IF b = 255 THEN "on" ELSE "off"]]

TypedAs(a, byte) ==
    IF a.words = <<>> THEN Number(SignedByte(byte), a.scale) ELSE Word(a.words[byte])

HkArguments(hk) ==
    {Chosen("hk mode", "Betriebsart", hk, <<"night", "day", "auto">>),
     Scaled("hk daytemperature", 2, "TagTemp", hk),
     Scaled("hk nighttemperature", 2, "NachtTemp", hk),
     Scaled("hk temperatureoverride", 2, "RaumUebersteuerTemp", hk),
     Scaled("hk vacationtemperature", 2, "UrlaubTemp", hk),
     Scaled("hk partymode", 1, "PartyZeit", hk),
     Scaled("hk pausemode", 1, "PausenZeit", hk),
     Switched("hk scheduleoptimizer", "SchaltzeitOptimierung", hk),
     Chosen("hk reductionmode", "AbsenkModus", hk,
            <<"offmode", "reduced", "raumhalt", "aussenhalt">>),
     [Argument("hk vacationreductionmode", 1, "UrlaubAbsenkungsArt", hk)
        EXCEPT !.words = OutOrIndoor],
     Chosen("hk frostprotectmode", "Frostschutz", hk,
            <<"off", "byoutdoortemp", "byindoortemp">>),
     Scaled("hk mintemperature", 1, "MinTemp", hk),
     Scaled("hk maxtemperature", 1, "MaxTemp", hk),
     Scaled("hk maxroomeffect", 2, "RaumEinfluss", hk),
     Scaled("hk roomtemperatureoffset", 2, "RaumOffset", hk),
     Scaled("hk designtemperature", 1, "AuslegungsTemp", hk),
     Scaled("hk frostprotecttemperature", 1, "FrostSchutzTemp", hk),
     Scaled("hk summerwinterthreshold", 1, "SchwelleSommerWinter", hk),
     Scaled("hk reducedmodethreshold", 1, "AbsenkungsSchwellenTemp", hk),
     Scaled("hk vacationreducedmodethreshold", 1, "UrlaubAbsenkungsSchwellenTemp", hk),
     Scaled("hk cancelreducedmodethreshold", 1, "AbsenkungsAbbruchTemp", hk)}

\* For an RC35; an RC30 has one byte for both.
HeatingSystemArguments(hk) ==
    {Chosen("hk heatingsystem", "HeizSystem", hk,
            <<"none", "heater", "floorheater", "convection">>),
     [Chosen("hk heatingsystem", "FuehrungsGroesse", hk, <<"outdoor", "indoor">>)
        EXCEPT !.byte = 2]}

\* selectschedule: custom is a schedule of its own, hk that of the circuit.
WwArguments ==
    {Chosen("ww mode", "Betriebsart", "WW", <<"off", "on", "auto">>),
     Scaled("ww temperature", 1, "SetTemp", "WW"),
     Scaled("ww limittemperature", 1, "MaxTemp", "WW"),
     Switched("ww showloadindicator", "EinmalLadungsLED", "WW"),
     Switched("ww selectschedule", "EigenesProgrammAktiv", "WW"),
     Switched("ww thermdesinfect mode", "Desinfektion", "WW"),
     Chosen("ww thermdesinfect day", "DesinfektionTag", "WW",
            <<"monday", "tuesday", "wednesday", "thursday", "friday", "saturday",
              "sunday", "everyday">>),
     Scaled("ww thermdesinfect hour", 1, "DesinfektionStunde", "WW"),
     Scaled("ww thermdesinfect temperature", 1, "DesinfektionsTemp", "WW"),
     Chosen("ww zirkpump mode", "Betriebsart", "Zirkulation", <<"off", "on", "auto">>),
     Chosen("ww zirkpump count", "Schaltpunkte", "Zirkulation",
            <<"off", "1x", "2x", "3x", "4x", "5x", "6x", "alwayson">>),
     Switched("ww zirkpump selectschedule", "EigenesProgrammAktiv", "Zirkulation")}

RcArguments ==
    {Scaled("rc mintemperature", 1, "MinTemp", "RC"),
     Chosen("rc buildingtype", "GebaeudeArt", "RC", <<"light", "medium", "heavy">>),
     Switched("rc outdoortempdamping", "ATDaempfung", "RC")}

\* The modulations are typed minimum first and sent maximum first.
UbaArguments ==
    {Scaled("uba antipendel", 1, "AntipendelZeit", "None"),
     Scaled("uba hyst on", 1, "EinschaltHysterese", "Kessel"),
     Scaled("uba hyst off", 1, "AusschaltHysterese", "Kessel"),
     Argument("uba burnermodulation", 1, "MaxModulation", "Brenner"),
     Argument("uba burnermodulation", 2, "MinModulation", "Brenner"),
     Argument("uba pumpmodulation", 1, "MaxModulation", "KesselPumpe"),
     Argument("uba pumpmodulation", 2, "MinModulation", "KesselPumpe"),
     Scaled("uba pumpdelay", 1, "NachlaufZeit", "KesselPumpe"),
     Chosen("uba schedulemaintenance", "Wartungsmeldungen", "Kessel",
            <<"off", "byhours", "bydate">>),
     Argument("uba schedulemaintenance", 2, "HektoStundenVorWartung", "Kessel")}

\* The circuit of one of HkBases or of its schedule's type.
CircuitOf(type) == Circuits[(type - 51) \div 10]

\* Every argument of the command c that the cache shows, the kind of heating
\* apart.
ArgumentsOf(c) ==
    {a \in RcArguments \cup UbaArguments \cup WwArguments : a.name = c.name}
    \cup (IF c.type \in HkBases \cup ScheduleTypes
          THEN {a \in HkArguments(CircuitOf(c.type)) : a.name = c.name} ELSE {})
=============================================================================
