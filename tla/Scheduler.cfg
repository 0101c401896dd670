SPECIFICATION FairSpec
CONSTANTS
    c1 = c1
    c2 = c2
    d1 = d1
    d2 = d2
    Clients <- MCClients
    NoClient = NoClient
    Messages <- MCMessages
    NoMessage = NoMessage
    Devices <- MCDevices
    RequestTimeout = 2
    MinDistance = 1
    MaxOwed = 3
    MaxTimeouts = 2
INVARIANTS
    TypeOK
    NoStrandedRequest
    CurrentIsGuarded
PROPERTIES
    RefinesRequestQueue
    EventuallyTransmitted
