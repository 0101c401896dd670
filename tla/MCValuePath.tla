---------------------------- MODULE MCValuePath ----------------------------
\* Every command once, every table in pieces, with and without floor heating.
EXTENDS ValuePath

MCDates == {[year |-> 15, month |-> 12, day |-> 31],
            [year |-> 16, month |-> 1, day |-> 2]}
MCTimes == {0, 143}
MCNoRaw == {}
MCNoPieces == {0}
MCGarbage == {[dest |-> 0, type |-> 0, offset |-> 0],
              [dest |-> UBA, type |-> 2, offset |-> 0]}
MCAllLines == Commands
MCHeatingLines == {c \in Commands : c.name \in {"hk heatingsystem", "hk mode"}}

\* Nothing heard yet, or circuits 1 and 3 are floor heated and 2 has radiators.
MCSystems ==
    [k \in {<<"HeizSystem", "HK1">>, <<"HeizSystem", "HK2">>, <<"HeizSystem", "HK3">>} |->
        EnumValue(k[1], k[2], IF k[2] = "HK2" THEN 1 ELSE 3)]
MCCaches == {<<>>, MCSystems}

\* The tables of each device and how long they are.
MCLengths ==
    {<<UBA, 16, 36>>, <<UBA, 17, 24>>, <<UBA, 20, 3>>, <<UBA, 21, 5>>, <<UBA, 22, 11>>,
     <<UBA, 24, 27>>, <<UBA, 25, 22>>, <<UBA, 28, 6>>, <<UBA, 51, 9>>, <<UBA, 52, 16>>,
     <<UBA, 7, 13>>, <<BC10, 41, 1>>, <<RC3x, 6, 8>>, <<RC3x, 55, 10>>,
     <<RC3x, 163, 1>>, <<RC3x, 165, 22>>, <<RC3x, 61, 42>>, <<RC3x, 62, 15>>,
     <<RC3x, 63, 87>>, <<RC3x, 81, 42>>, <<RC3x, 92, 15>>, <<RC3x, 73, 87>>,
     <<RC2xHK(4), 174, 5>>, <<WM10, 156, 3>>, <<WM10, 30, 2>>,
     <<SM10, 151, 11>>} \cup {<<MM10HK(i), 171, 4>> : i \in 1..4}

\* Nothing set, everything set, a missing sensor everywhere, the lowest values,
\* and different bytes.
MCByte(pattern, i) ==
    CASE pattern = "missing" -> IF i % 2 = 0 THEN 125 ELSE 0
      [] pattern = "lowest"  -> IF i % 2 = 0 THEN 0 ELSE 128
      [] pattern = "ramp"    -> (37 * i) % 256
      [] pattern = "ones"    -> 255
      [] pattern = "zeros"   -> 0

MCTables ==
    {[source |-> l[1], dest |-> d, type |-> l[2], offset |-> 0,
      data |-> [i \in 1..l[3] |-> MCByte(pattern, i)]] :
       l \in MCLengths, d \in {0, 139},
       pattern \in {"missing", "lowest", "ramp", "ones", "zeros"}}

MCCuts ==
    [offset : {0, 1, 7, 11, 12, 18, 32, 85}, length : {1, 2, 3, 8, 15, 24, 27, 42, 87}]
=============================================================================
