------------------------------ MODULE Sensors ------------------------------
(* Database::handleValue: the values that are recorded, and the kind of     *)
(* reading each is taken for.  Taking another kind out of the variant      *)
(* throws boost::bad_get.                                                  *)

NumericSensors ==
    {<<"SollTemp", "Kessel">>, <<"IstTemp", "Kessel">>, <<"SollTemp", "WW">>,
     <<"IstTemp", "WW">>, <<"SollTemp", "HK1">>, <<"IstTemp", "HK1">>,
     <<"SollTemp", "HK2">>, <<"IstTemp", "HK2">>, <<"IstTemp", "Ruecklauf">>,
     <<"IstTemp", "Aussen">>, <<"GedaempfteTemp", "Aussen">>,
     <<"RaumSollTemp", "HK1">>, <<"RaumIstTemp", "HK1">>,
     <<"Flammenstrom", "None">>, <<"Systemdruck", "None">>,
     <<"IstTemp", "Waermetauscher">>, <<"DurchflussMenge", "WW">>,
     <<"IstTemp", "SolarSpeicher">>, <<"IstTemp", "SolarKollektor">>}

IntegerSensors ==
    {<<"BetriebsZeit", "Kessel">>, <<"HeizZeit", "Kessel">>,
     <<"Brennerstarts", "Kessel">>, <<"WarmwasserbereitungsZeit", "None">>,
     <<"WarmwasserBereitungen", "None">>, <<"Mischersteuerung", "HK2">>,
     <<"IstModulation", "Brenner">>, <<"SollModulation", "Brenner">>,
     <<"IstModulation", "KesselPumpe">>}

\* Here None stands for any part of the system.
BoolSensors ==
    {<<"FlammeAktiv", "None">>, <<"BrennerAktiv", "None">>, <<"ZuendungAktiv", "None">>,
     <<"PumpeAktiv", "Kessel">>, <<"DreiWegeVentilAufWW", "None">>,
     <<"Tagbetrieb", "HK1">>, <<"PumpeAktiv", "HK1">>, <<"Ferien", "HK1">>,
     <<"Party", "HK1">>, <<"Tagbetrieb", "HK2">>, <<"PumpeAktiv", "HK2">>,
     <<"Ferien", "HK2">>, <<"Party", "HK2">>, <<"WarmwasserBereitung", "None">>,
     <<"WarmwasserTempOK", "None">>, <<"ZirkulationAktiv", "None">>,
     <<"Tagbetrieb", "Zirkulation">>, <<"WWVorrang", "None">>, <<"Tagbetrieb", "WW">>,
     <<"Sommerbetrieb", "None">>, <<"PumpeAktiv", "Solar">>}

StateSensors == {"FehlerCode", "ServiceCode"}

\* The kind that is taken out of a value of this type and subtype, or "none"
\* if it is not recorded.
KindTaken(type, sub) ==
    CASE <<type, sub>> \in NumericSensors -> "Numeric"
      [] <<type, sub>> \in IntegerSensors -> "Integer"
      [] <<type, sub>> \in BoolSensors \/ <<type, "None">> \in BoolSensors -> "Boolean"
      [] type \in StateSensors -> "Formatted"
      [] type = "Betriebsart" /\ sub \in {"HK1", "HK2"} -> "Enumeration"
      [] OTHER -> "none"
=============================================================================
