CONSTANTS
    lora = lora
    udp = udp
    db = db
    rx1 = rx1
    rx2 = rx2
    udp1 = udp1
    m1 = m1
    m2 = m2
    m3 = m3
    m4 = m4
    valid = valid
    NL = NL
    BE = BE
    NoFilter = NoFilter
    NoTranceiver = NoTranceiver
    NoField = NoField
    NoMessage = NoMessage
    Tranceivers <- MCTranceivers
    Messages <- MCMessages
    Source <- MCSource
    FromCall <- MCFromCall
    ToCall <- MCToCall
    Filters <- MCFilters
    Passes <- MCPasses
    Threads <- MCThreads
    Owner <- MCOwner
    Limited = {lora}
    GlobalFilter = TRUE
    Bridges <- MCBridges
    Routes <- MCRoutes
SPECIFICATION Spec
INVARIANTS
    QueuesAgree
    PeekNeverFails
PROPERTIES
    StopsWhenAsked
    ImplementsRelay
CHECK_DEADLOCK FALSE
