----------------------------- MODULE ValuePath -----------------------------
(***************************************************************************)
(* From the bus to what users see: telegrams are decoded, every value goes *)
(* to the ValueCache, and a write that was acknowledged is decoded as if   *)
(* its device had broadcast it (ApiCommandParser::onIncomingMessage).      *)
(*                                                                         *)
(* The decoder asks the cache whether a circuit is floor heated, but the   *)
(* copy of it that IncomingMessageHandler's constructor captured: main     *)
(* makes a new handler, and so a new copy, each time the line is reopened. *)
(*                                                                         *)
(* A behaviour is one command or one telegram on a cache that an earlier   *)
(* session may have filled.  What devices answer to reads is decoded like  *)
(* what they broadcast, so answers carry no data here.                     *)
(***************************************************************************)
EXTENDS ApiCommandParser, Settings, Sensors

CONSTANTS
    Caches,       \* caches a behaviour begins with
    Tables,       \* tables that devices have and send pieces of
    Cuts          \* the pieces: [offset, length]

\* A table is a sequence of bytes from its first one on.
ASSUME TablesAssumption ==
    Tables \subseteq [source : 0..255, dest : 0..255, type : 0..255, offset : {0},
                     data : Seq(0..255)]
ASSUME CutsAssumption == Cuts \subseteq [offset : Nat, length : Nat]

\* Each value of c holds the kind of reading that Database::handleValue takes out
\* of it, and HeizSystem the kind parseRCHKOpmodeMessage does.
KindsAgree(c) ==
    \A k \in DOMAIN c :
        /\ c[k].valid /\ KindTaken(k[1], k[2]) # "none" => c[k].kind = KindTaken(k[1], k[2])
        /\ k[1] = "HeizSystem" => c[k].kind = "Enumeration"

\* The same decoder filled the caches that a behaviour begins with.
ASSUME CachesAssumption == \A c \in Caches : KindsAgree(c)

VARIABLES
    cache,      \* ValueCache::m_cache: <<type, subtype>> -> value
    snapshot,   \* the copy in IncomingMessageHandler::m_cacheCb
    typed,      \* the last command that was accepted
    heard       \* the telegram that was broadcast last, and its whole table

pathVars == <<parser, asked, attempts, awaiting, reply, cache, snapshot, typed, heard>>

-----------------------------------------------------------------------------
\* ValueCache::handleValue.  A telegram may hold several errors: the last is
\* kept.
LastOf(values) ==
    CHOOSE v \in values : \A w \in values : w.kind = "Error" => w.raw[2] <= v.raw[2]

HandleValues(c, values) ==
    [k \in DOMAIN c \cup {<<v.type, v.sub>> : v \in values} |->
        LET new == {v \in values : <<v.type, v.sub>> = k}
        IN  IF new = {} THEN c[k] ELSE LastOf(new)]

\* parseRCHKOpmodeMessage's isFloorHeating, for all circuits.
FloorHeated(c) ==
    {hk \in {Circuits[i] : i \in 1..4} :
        <<"HeizSystem", hk>> \in DOMAIN c /\ c[<<"HeizSystem", hk>>].raw[1] = 3}

\* IncomingMessageHandler::handleIncomingMessage
HandleIncomingMessage(t) ==
    /\ cache' = HandleValues(cache, Reports(t, RoomControllerType, FloorHeated(snapshot)))
    /\ UNCHANGED snapshot

\* Faulty: the simulated answer claims the start of the table.
SimulatedFromStart(request) ==
    [source |-> request.dest, dest |-> 0, type |-> request.type, offset |-> 0,
     data |-> request.data]

\* The broadcast that an acknowledged write stands for.
Simulated(request) ==
    [source |-> request.dest, dest |-> 0, type |-> request.type,
     offset |-> request.offset, data |-> request.data]

PieceOf(table, cut) ==
    [table EXCEPT !.offset = cut.offset,
                  !.data = SubSeq(@, cut.offset + 1, cut.offset + cut.length)]

-----------------------------------------------------------------------------
PathInit ==
    /\ Init
    /\ cache \in Caches
    /\ snapshot = cache
    /\ typed = <<>>
    /\ heard = <<>>

CommandTyped ==
    /\ heard = <<>> /\ Cardinality(asked) < MaxAsked
    /\ \E c \in Lines :
         ParseLine(c) /\ typed' = IF reply' = "ERRBUSY" THEN typed ELSE <<c>>
    /\ UNCHANGED <<cache, snapshot, heard>>

MessageArrives ==
    /\ \E r \in asked : \E m \in DeviceAnswers(r, Pieces0) :
         \E outcome \in OnIncomingMessage(parser, m) :
            /\ MessageHandled(outcome)
            /\ IF outcome.broadcast = <<>> THEN UNCHANGED <<cache, snapshot>>
               ELSE HandleIncomingMessage(Simulated(outcome.broadcast[1]))
    /\ UNCHANGED <<typed, heard>>

TimeoutReportedToo ==
    TimeoutReported /\ UNCHANGED <<cache, snapshot, typed, heard>>

BroadcastArrives ==
    /\ heard = <<>> /\ asked = {}
    /\ \E table \in Tables, cut \in Cuts :
         /\ cut.offset + cut.length <= Len(table.data)
         /\ HandleIncomingMessage(PieceOf(table, cut))
         /\ heard' = <<PieceOf(table, cut), table>>
    /\ UNCHANGED <<parser, asked, attempts, awaiting, reply, typed>>

\* main's loop: the line was lost and opened again; parsers come and go with
\* it, the cache stays.
LineReopened ==
    /\ snapshot' = cache
    /\ \E g \in Garbage : parser' = NewParser(g)
    /\ awaiting' = FALSE /\ reply' = "none" /\ typed' = <<>> /\ attempts' = 0
    /\ UNCHANGED <<asked, cache, heard>>

PathNext ==
    \/ CommandTyped
    \/ MessageArrives
    \/ TimeoutReportedToo
    \/ BroadcastArrives
    \/ LineReopened

PathSpec == PathInit /\ [][PathNext]_pathVars

-----------------------------------------------------------------------------
(* Properties *)

\* The cache shows argument a of the command c as it was typed.
ShownBack(a, c) ==
    /\ <<a.type, a.sub>> \in DOMAIN cache
    /\ FormatValue(cache[<<a.type, a.sub>>]) = TypedAs(a, c.data[a.byte])

\* The limits of a floor heated circuit are written to the bytes of the other
\* kinds of heating (ApiCommandParser.cpp:698, 704) and shown from its own.
FloorLimit(a) ==
    /\ RoomControllerType = "RC35" /\ a.sub \in FloorHeated(snapshot)
    /\ a.type \in {"MaxTemp", "AuslegungsTemp"}

Written == reply = "OK" /\ typed # <<>> /\ ~typed[1].read

\* A user who has set something and was told OK sees it: `cache fetch' and the
\* data port show what was typed, in the same words and scale.  The encoder
\* (ApiCommandParser), the decoder (EmsMessage) and the names (ValueApi) are
\* three tables that must agree on each byte.
SettingsShownBack ==
    Written => \A a \in ArgumentsOf(typed[1]) : FloorLimit(a) \/ ShownBack(a, typed[1])

\* The same for the kind of heating, as the help text names the words.
HeatingSystemShownBack ==
    Written /\ typed[1].name = "hk heatingsystem" =>
        \A a \in HeatingSystemArguments(CircuitOf(typed[1].type)) : ShownBack(a, typed[1])

\* Devices send a table in pieces when it is long or only a part has changed.
\* Whatever the piece, it says nothing that the whole table would not say: a
\* value is never put together from the bytes of others.  ServiceCode and
\* FehlerCode do not honour this (EmsMessage.cpp:394, 399).
PiecesAgree ==
    heard # <<>> =>
        \A v \in Reports(heard[1], RoomControllerType, FloorHeated(snapshot)) :
            \/ v.type \in StateSensors
            \/ v \in Reports(heard[2], RoomControllerType, FloorHeated(snapshot))

\* The consumers take out of a value the kind of reading that the decoder put
\* in; boost::get would throw otherwise and the collector stop.  Database does
\* so for each value it records, and parseRCHKOpmodeMessage for HeizSystem.
ConsumersAgree == KindsAgree(cache)
=============================================================================
