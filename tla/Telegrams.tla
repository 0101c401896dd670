----------------------------- MODULE Telegrams -----------------------------
(***************************************************************************)
(* EmsMessage: what a telegram from the bus says.  A device keeps tables of *)
(* bytes, named by a type; a telegram [source, dest, type, offset, data]   *)
(* carries a piece of one of them.  A table is a set of fields, and a field *)
(* is reported when its bytes lie in the piece.  The parts of the system a *)
(* value is about and the kinds of values keep the names of the code.      *)
(***************************************************************************)
EXTENDS EmsProto, Sequences
Seqs == INSTANCE SequencesExt

\* The unsigned number of a sequence of bytes, most significant first.
BigEndian(bytes) == Seqs!FoldLeft(LAMBDA n, b : 256 * n + b, 0, bytes)
Bit(b, n) == (b \div 2^n) % 2

-----------------------------------------------------------------------------
(* EmsValue: the constructors.  raw is what the boost::variant holds, a    *)
(* sequence of integers for every kind.                                    *)
Value(type, sub, kind, valid, raw) ==
    [type |-> type, sub |-> sub, kind |-> kind, valid |-> valid, raw |-> raw]

\* Two bytes that say a sensor is missing: 0x7d00 and 0x8300.
InvalidTemperatures == {<<125, 0>>, <<131, 0>>}

\* A set highest bit alone means unavailable; so do all bits of an unsigned.
Signed(bytes) ==
    LET n == BigEndian(bytes)  half == 2^(8 * Len(bytes) - 1)
    IN  IF n >= half THEN n - 2 * half ELSE n

Unavailable(bytes, signed) ==
    IF signed THEN BigEndian(bytes) = 2^(8 * Len(bytes) - 1)
    ELSE BigEndian(bytes) = 2^(8 * Len(bytes)) - 1

NumberValue(f, bytes) ==
    LET n == IF f.signed THEN Signed(bytes) ELSE BigEndian(bytes)
        valid == /\ ~Unavailable(bytes, f.signed)
                 /\ ~(f.temperature /\ bytes \in InvalidTemperatures)
    IN  IF f.div = 0 THEN Value(f.type, f.sub, "Integer", valid, <<n>>)
        ELSE Value(f.type, f.sub, "Numeric", valid, <<n, f.div>>)

BoolValue(f, bytes) == Value(f.type, f.sub, "Boolean", TRUE, <<Bit(bytes[1], f.bit)>>)
EnumValue(type, sub, byte) == Value(type, sub, "Enumeration", TRUE, <<byte>>)

-----------------------------------------------------------------------------
(* Fields of a table, named after the methods that parse them.             *)
Field(at, size, read, type, sub) ==
    [at |-> at, size |-> size, read |-> read, type |-> type, sub |-> sub,
     div |-> 0, signed |-> FALSE, temperature |-> FALSE, bit |-> 0]

Numeric(at, size, div, type, sub) ==
    [Field(at, size, "number", type, sub) EXCEPT !.div = div, !.signed = TRUE]
Unsigned(at, size, div, type, sub) ==
    [Field(at, size, "number", type, sub) EXCEPT !.div = div]
Integer(at, size, type, sub) == Field(at, size, "number", type, sub)
Temperature(at, type, sub) ==
    [Numeric(at, 2, 10, type, sub) EXCEPT !.temperature = TRUE]
Bool(at, bit, type, sub) == [Field(at, 1, "bit", type, sub) EXCEPT !.bit = bit]
Enum(at, type, sub) == Field(at, 1, "enum", type, sub)

FieldValue(f, bytes) ==
    CASE f.read = "number" -> NumberValue(f, bytes)
      [] f.read = "bit"    -> BoolValue(f, bytes)
      [] f.read = "enum"   -> EnumValue(f.type, f.sub, bytes[1])

\* canAccess
CanAccess(t, at, size) ==
    at >= t.offset /\ at + size <= t.offset + Len(t.data)

\* Faulty: the offset of the telegram is forgotten, as where m_data is indexed
\* directly.
BytesFromStart(t, at, size) ==
    [i \in 1..size |-> IF at + i <= Len(t.data) THEN t.data[at + i] ELSE 0]

\* The bytes of the table from at on.
Bytes(t, at, size) == [i \in 1..size |-> t.data[at - t.offset + i]]

Parse1(t, f) ==
    IF CanAccess(t, f.at, f.size) THEN {FieldValue(f, Bytes(t, f.at, f.size))} ELSE {}

ParseAll(t, fields) == UNION {Parse1(t, f) : f \in fields}
-----------------------------------------------------------------------------
(* UBA, the boiler *)
UBAMonitorFast ==
    {Numeric(0, 1, 1, "SollTemp", "Kessel"), Temperature(1, "IstTemp", "Kessel"),
     Integer(3, 1, "SollModulation", "Brenner"), Integer(4, 1, "IstModulation", "Brenner"),
     Bool(7, 0, "FlammeAktiv", "None"), Bool(7, 2, "BrennerAktiv", "None"),
     Bool(7, 3, "ZuendungAktiv", "None"), Bool(7, 5, "PumpeAktiv", "Kessel"),
     Bool(7, 6, "DreiWegeVentilAufWW", "None"), Bool(7, 7, "ZirkulationAktiv", "None"),
     Temperature(13, "IstTemp", "Ruecklauf"), Numeric(15, 2, 10, "Flammenstrom", "None"),
     Unsigned(17, 1, 10, "Systemdruck", "None"), Temperature(25, "IstTemp", "Ansaugluft")}

\* The codes are taken from m_data without regard to the offset of the telegram:
\* beyond the end of m_data any byte may be found, here 0.
Codes(t) ==
    LET raw(i) == IF i < Len(t.data) THEN t.data[i + 1] ELSE 0
    IN  (IF CanAccess(t, 18, 2)
         THEN {Value("ServiceCode", "None", "Formatted", TRUE, <<raw(18), raw(19)>>)}
         ELSE {})
        \cup (IF CanAccess(t, 20, 2)
              THEN {Value("FehlerCode", "None", "Formatted", TRUE,
                          <<256 * raw(20) + raw(21)>>)}
              ELSE {})

UBATotalUptime == {Integer(0, 3, "BetriebsZeit", "None")}

UBAMaintenanceSettings ==
    {Enum(0, "Wartungsmeldungen", "Kessel"), Integer(1, 1, "HektoStundenVorWartung", "Kessel")}
MaintenanceDate(t) ==
    IF CanAccess(t, 2, DateRecordSize)
    THEN {Value("Wartungstermin", "Kessel", "Date", TRUE, Bytes(t, 2, DateRecordSize))}
    ELSE {}

UBAMaintenanceStatus == {Enum(5, "WartungFaellig", "Kessel")}

UBAMonitorSlow ==
    {Temperature(0, "IstTemp", "Aussen"), Temperature(2, "IstTemp", "Waermetauscher"),
     Temperature(4, "IstTemp", "Abgas"), Integer(9, 1, "IstModulation", "KesselPumpe"),
     Integer(10, 3, "Brennerstarts", "Kessel"), Integer(13, 3, "BetriebsZeit", "Kessel"),
     Integer(16, 3, "BetriebsZeit2", "Kessel"), Integer(19, 3, "HeizZeit", "Kessel")}

\* Faulty: the set temperature is read as an integer.
UBAMonitorWWInteger ==
    {Integer(0, 1, "SollTemp", "WW"), Temperature(1, "IstTemp", "WW")}

UBAMonitorWW ==
    {Numeric(0, 1, 1, "SollTemp", "WW"), Temperature(1, "IstTemp", "WW"),
     Bool(5, 0, "Tagbetrieb", "WW"), Bool(5, 1, "EinmalLadungAktiv", "WW"),
     Bool(5, 2, "DesinfektionAktiv", "WW"), Bool(5, 3, "WarmwasserBereitung", "None"),
     Bool(5, 4, "NachladungAktiv", "WW"), Bool(5, 5, "WarmwasserTempOK", "None"),
     Bool(6, 0, "Fuehler1Defekt", "WW"), Bool(6, 1, "Fuehler2Defekt", "WW"),
     Bool(6, 2, "Stoerung", "WW"), Bool(6, 3, "StoerungDesinfektion", "WW"),
     Bool(7, 0, "Tagbetrieb", "Zirkulation"), Bool(7, 2, "ZirkulationAktiv", "None"),
     Bool(7, 3, "Ladevorgang", "WW"), Enum(8, "WWSystemType", "None"),
     Unsigned(9, 1, 10, "DurchflussMenge", "WW"),
     Integer(10, 3, "WarmwasserbereitungsZeit", "None"),
     Integer(13, 3, "WarmwasserBereitungen", "None")}

\* Bit 1 of byte 7 is manual mode, bit 0 manually enabled.
ZirkulationMode(t) ==
    IF ~CanAccess(t, 7, 1) THEN {}
    ELSE LET b == Bytes(t, 7, 1)[1]
         IN  {EnumValue("Betriebsart", "Zirkulation",
                        IF Bit(b, 1) = 1 THEN Bit(b, 0) ELSE 2)}

UBAParameterWW ==
    {Bool(1, 0, "KesselSchalter", "WW"), Numeric(2, 1, 1, "SetTemp", "WW"),
     Enum(7, "Schaltpunkte", "Zirkulation"), Numeric(8, 1, 1, "DesinfektionsTemp", "WW")}

UBAParameters ==
    {Bool(0, 1, "KesselSchalter", "Kessel"), Numeric(1, 1, 1, "SetTemp", "Kessel"),
     Integer(2, 1, "MaxModulation", "Brenner"), Integer(3, 1, "MinModulation", "Brenner"),
     Numeric(4, 1, 1, "AusschaltHysterese", "Kessel"),
     Numeric(5, 1, 1, "EinschaltHysterese", "Kessel"),
     Integer(6, 1, "AntipendelZeit", "None"), Integer(8, 1, "NachlaufZeit", "KesselPumpe"),
     Integer(9, 1, "MaxModulation", "KesselPumpe"), Integer(10, 1, "MinModulation", "KesselPumpe")}

\* Only whole records are reported: a piece that begins inside of one skips it.
ErrorRecords(t) ==
    {Value("Fehler", "None", "Error", TRUE,
           <<t.type, k>> \o Bytes(t, k * ErrorRecordSize, ErrorRecordSize)) :
       k \in {i \in 0..(t.offset + Len(t.data)) \div ErrorRecordSize :
                CanAccess(t, i * ErrorRecordSize, ErrorRecordSize)}}

-----------------------------------------------------------------------------
(* RC3x, the room controller *)
SystemTime(t) ==
    IF CanAccess(t, 0, SystemTimeRecordSize)
    THEN {Value("SystemZeit", "None", "SystemTime", TRUE, Bytes(t, 0, SystemTimeRecordSize))}
    ELSE {}

RCWWOpmode ==
    {Bool(0, 1, "EigenesProgrammAktiv", "WW"), Bool(1, 1, "EigenesProgrammAktiv", "Zirkulation"),
     Enum(2, "Betriebsart", "WW"), Enum(3, "Betriebsart", "Zirkulation"),
     Bool(4, 1, "Desinfektion", "WW"), Enum(5, "DesinfektionTag", "WW"),
     Integer(6, 1, "DesinfektionStunde", "WW"), Numeric(8, 1, 1, "MaxTemp", "WW"),
     Bool(9, 1, "EinmalLadungsLED", "WW")}

RCSystemParameter ==
    {Numeric(5, 1, 1, "MinTemp", "RC"), Enum(6, "GebaeudeArt", "RC"),
     Bool(21, 1, "ATDaempfung", "RC")}

\* The kind of heating: an RC30 has room control as values 4 and 5 of the
\* same byte, an RC35 in a byte of its own.
HeatingSystem(t, hk, rcType) ==
    CASE rcType = "RC35" ->
           ParseAll(t, {Enum(32, "HeizSystem", hk), Enum(33, "FuehrungsGroesse", hk)})
      [] rcType = "RC30" /\ CanAccess(t, 0, 1) ->
           LET room == t.data[1] \in {4, 5}
           IN  {EnumValue("HeizSystem", hk, IF room THEN 0 ELSE t.data[1]),
                EnumValue("FuehrungsGroesse", hk, IF room THEN 1 ELSE 0)}
      [] OTHER -> {}

\* The limits of the flow temperature, which floor heating keeps elsewhere.
RCHKLimits(hk, floor) ==
    IF floor
    THEN {Numeric(35, 1, 1, "MaxTemp", hk), Numeric(36, 1, 1, "AuslegungsTemp", hk)}
    ELSE {Numeric(15, 1, 1, "MaxTemp", hk), Numeric(17, 1, 1, "AuslegungsTemp", hk)}

RCHKOpmode(hk) ==
    {Numeric(1, 1, 2, "NachtTemp", hk), Numeric(2, 1, 2, "TagTemp", hk),
     Numeric(3, 1, 2, "UrlaubTemp", hk), Numeric(4, 1, 2, "RaumEinfluss", hk),
     Numeric(6, 1, 2, "RaumOffset", hk), Enum(7, "Betriebsart", hk),
     Bool(8, 0, "Estrichtrocknung", hk), Numeric(16, 1, 1, "MinTemp", hk),
     Bool(19, 1, "SchaltzeitOptimierung", hk),
     Numeric(22, 1, 1, "SchwelleSommerWinter", hk),
     Numeric(23, 1, 1, "FrostSchutzTemp", hk), Enum(25, "AbsenkModus", hk),
     Enum(26, "FBTyp", hk), Enum(28, "Frostschutz", hk),
     Numeric(37, 1, 2, "RaumUebersteuerTemp", hk),
     Numeric(38, 1, 1, "AbsenkungsAbbruchTemp", hk),
     Numeric(39, 1, 1, "AbsenkungsSchwellenTemp", hk),
     Numeric(40, 1, 1, "UrlaubAbsenkungsSchwellenTemp", hk),
     Enum(41, "UrlaubAbsenkungsArt", hk)}

RCHKSchedule(hk) == {Integer(85, 1, "PausenZeit", hk), Integer(86, 1, "PartyZeit", hk)}

RCOutdoorTemp == {Numeric(0, 1, 1, "GedaempfteTemp", "Aussen")}

RCHKMonitor(hk) ==
    {Bool(0, 0, "Ausschaltoptimierung", hk), Bool(0, 1, "Einschaltoptimierung", hk),
     Bool(0, 3, "WWVorrang", hk), Bool(0, 4, "Estrichtrocknung", hk),
     Bool(0, 6, "Frostschutzbetrieb", hk), Bool(1, 0, "Sommerbetrieb", hk),
     Bool(1, 1, "Tagbetrieb", hk), Numeric(2, 1, 2, "RaumSollTemp", hk),
     Temperature(3, "RaumIstTemp", hk), Integer(5, 1, "EinschaltoptimierungsZeit", hk),
     Integer(6, 1, "AusschaltoptimierungsZeit", hk), Numeric(12, 1, 1, "SollLeistung", hk),
     Bool(13, 2, "Party", hk), Bool(13, 3, "Pause", hk), Bool(13, 6, "Urlaub", hk),
     Bool(13, 7, "Ferien", hk), Bool(13, 4, "SchaltuhrEin", hk),
     Numeric(14, 1, 1, "SollTemp", hk)}

\* Bit 2 of byte 0 is automatic, bit 1 of byte 1 day.
CircuitMode(t, hk) ==
    IF ~CanAccess(t, 0, 2) THEN {}
    ELSE {EnumValue("Betriebsart", hk,
                    IF Bit(t.data[1], 2) = 1 THEN 2 ELSE Bit(t.data[2], 1))}

Kennlinie(t, hk) ==
    IF CanAccess(t, 7, 3)
    THEN {Value("HKKennlinie", hk, "Kennlinie", TRUE, Bytes(t, 7, 3))} ELSE {}

RoomTemperatureChange(t, hk) ==
    IF CanAccess(t, 10, 1) /\ Bit(Bytes(t, 10, 1)[1], 0) = 0
    THEN Parse1(t, Numeric(10, 2, 100, "RaumTemperaturAenderung", hk)) ELSE {}

-----------------------------------------------------------------------------
(* The remote controls and modules *)
RC20Status(hk) ==
    {Bool(0, 7, "Tagbetrieb", hk), Numeric(2, 1, 2, "RaumSollTemp", hk),
     Temperature(3, "RaumIstTemp", hk)}
WMTemp1 == {Temperature(0, "IstTemp", "HK1"), Bool(2, 2, "PumpeAktiv", "HK1")}
WMTemp2 == {Temperature(0, "IstTemp", "HK1")}
MMTemp(hk) ==
    {Numeric(0, 1, 1, "SollTemp", hk), Temperature(1, "IstTemp", hk),
     Integer(3, 1, "Mischersteuerung", hk), Bool(3, 2, "PumpeAktiv", hk)}
SolarMonitor ==
    {Temperature(2, "IstTemp", "SolarKollektor"), Integer(4, 1, "IstModulation", "SolarPumpe"),
     Temperature(5, "IstTemp", "SolarSpeicher"), Bool(7, 1, "PumpeAktiv", "Solar"),
     Integer(8, 3, "BetriebsZeit", "Solar")}

Circuits == <<"HK1", "HK2", "HK3", "HK4">>

\* determineHKFromAddress: the third test names MM10HK4 where MM10HK3 is meant,
\* so MM10HK3 counts as HK1 and MM10HK4 as HK3.
HKFromAddress(address) ==
    CASE address \in {RC2xHK(2), MM10HK(2)} -> "HK2"
      [] address \in {RC2xHK(3), MM10HK(4)} -> "HK3"
      [] address = RC2xHK(4)                -> "HK4"
      [] OTHER                              -> "HK1"

-----------------------------------------------------------------------------
(* handle: the values a telegram reports, as the source and type decide.   *)
UBAReports(t) ==
    CASE t.type \in {16, 17} -> ErrorRecords(t)
      [] t.type = 20 -> ParseAll(t, UBATotalUptime)
      [] t.type = 21 -> ParseAll(t, UBAMaintenanceSettings) \cup MaintenanceDate(t)
      [] t.type = 22 -> ParseAll(t, UBAParameters)
      [] t.type = 24 -> ParseAll(t, UBAMonitorFast) \cup Codes(t)
      [] t.type = 25 -> ParseAll(t, UBAMonitorSlow)
      [] t.type = 28 -> ParseAll(t, UBAMaintenanceStatus)
      [] t.type = 51 -> ParseAll(t, UBAParameterWW)
      [] t.type = 52 -> ParseAll(t, UBAMonitorWW) \cup ZirkulationMode(t)
      [] OTHER -> {}

\* A circuit has its settings, what it does and its schedule at three types
\* in a row, ten apart from the next circuit's.
CircuitReports(t, hk, base, rcType, floor) ==
    CASE t.type = base -> HeatingSystem(t, hk, rcType) \cup ParseAll(t, RCHKOpmode(hk))
                          \cup ParseAll(t, RCHKLimits(hk, rcType = "RC35" /\ floor))
      [] t.type = base + 1 -> ParseAll(t, RCHKMonitor(hk)) \cup CircuitMode(t, hk)
                              \cup Kennlinie(t, hk) \cup RoomTemperatureChange(t, hk)
      [] t.type = base + 2 -> ParseAll(t, RCHKSchedule(hk))
      [] OTHER -> {}

RCReports(t, rcType, floors) ==
    CASE t.type = 6   -> SystemTime(t)
      [] t.type = 55  -> ParseAll(t, RCWWOpmode)
      [] t.type = 163 -> ParseAll(t, RCOutdoorTemp)
      [] t.type = 165 -> ParseAll(t, RCSystemParameter)
      [] OTHER -> UNION {CircuitReports(t, Circuits[i], 51 + 10 * i, rcType,
                                        Circuits[i] \in floors) : i \in 1..4}

ModuleReports(t) ==
    CASE t.source \in {RC2xStandalone} \cup {RC2xHK(i) : i \in 1..4} /\ t.type = 174 ->
           ParseAll(t, RC20Status(HKFromAddress(t.source)))
      [] t.source = WM10 /\ t.type = 156 -> ParseAll(t, WMTemp1)
      [] t.source = WM10 /\ t.type = 30  -> ParseAll(t, WMTemp2)
      [] t.source \in {MM10HK(i) : i \in 1..4} /\ t.type = 171 ->
           ParseAll(t, MMTemp(HKFromAddress(t.source)))
      [] t.source = SM10 /\ t.type = 151 -> ParseAll(t, SolarMonitor)
      [] OTHER -> {}

\* rcType is Options::roomControllerType(), floors the circuits that the cache
\* says are floor heated.  A destination with its highest bit set is a request.
Reports(t, rcType, floors) ==
    IF t.dest >= 128 THEN {}
    ELSE IF t.source = UBA THEN UBAReports(t)
    ELSE IF t.source = RC3x THEN RCReports(t, rcType, floors)
    ELSE ModuleReports(t)
=============================================================================
