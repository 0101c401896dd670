---------------------------- MODULE MCClientPath ----------------------------
\* One TCP connection, that reads a range in two pieces, beside the adapter,
\* that gives commands to write, and lines that send nothing.
EXTENDS ClientPath

CONSTANT c1

MCConnections == {c1}
MCDevices == {UBA, BC10, RC3x}
MCGarbage == {[dest |-> UBA, type |-> 0, offset |-> 0]}
MCNone == {}
MCLines ==
    [u \in MCConnections \cup {Mqtt} |->
        {c \in Commands :
           c.name = IF u = Mqtt THEN "ww cancelload" ELSE "rc getcontactinfo"}]
MCSizes == {0, 21}
=============================================================================
