------------------------ MODULE MCCommandScheduler ------------------------
\* A small sender for TLC: two clients, two devices, one request per device.
EXTENDS CommandScheduler

CONSTANTS c1, c2, d1, d2

MCClients == {c1, c2}
MCDevices == {d1, d2}
MCMessages == [dest : MCDevices]
=============================================================================
