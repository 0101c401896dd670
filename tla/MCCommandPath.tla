--------------------------- MODULE MCCommandPath ---------------------------
\* Two clients, three devices: a chain of reads, a read in pieces, and a write.
EXTENDS CommandPath

CONSTANTS c1, c2

MCClients == {c1, c2}
MCDevices == {UBA, BC10, RC3x}
MCGarbage == {[dest |-> UBA, type |-> 0, offset |-> 0]}
MCNone == {}
MCLines ==
    {c \in Commands : c.name \in {"getversion", "ww cancelload"}}
    \cup {c \in Commands : c.name = "hk getholiday" /\ c.type = 63}
MCLateLines ==
    {c \in Commands : c.name \in {"rc getcontactinfo", "ww cancelload"}}
MCSizes == {0, 3, 6}
MCLateSizes == {0, 21}
=============================================================================
