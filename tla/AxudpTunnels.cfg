CONSTANTS
    a = a
    b = b
    c = c
    f1 = f1
    NoFrame = NoFrame
    Nobody = Nobody
    Routers <- MCRouters
    Peers <- MCPeers
    Frames <- MCFrames
    Rejects <- MCRejects
    Broken <- MCBroken
    ContinueOnError = TRUE
    Rate = 1
    Per = 4
    Filtered <- MCFiltered
    MaxForgets = 1
    MaxDelay = 1
    ListenPort <- MCListenPort
    SourcePorts <- MCSourcePorts
    MaxInbox = 2
SPECIFICATION Spec
PROPERTIES
    Quiesces
    EveryoneGetsIt
CHECK_DEADLOCK FALSE
