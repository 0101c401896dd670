---------------------------- MODULE MCSensorLog ----------------------------
\* A numeric and a boolean sensor, and a second numeric one in the same table.
EXTENDS SensorLog, TLC
CONSTANTS Temp, Pressure, Flame, Low, High
MCSensors == {Temp, Flame}
MCTableOf == Temp :> "numeric" @@ Flame :> "boolean"
MCTwoInTable == {Temp, Pressure}
MCTwoInTableOf == Temp :> "numeric" @@ Pressure :> "numeric"
MCValues == {Low, High}
ValuesAlike == Permutations(MCValues)
=============================================================================
