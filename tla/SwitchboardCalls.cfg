CONSTANTS
    ax0 = ax0
    lora = lora
    udp = udp
    beacon = beacon
    aprsbeacon = aprsbeacon
    traffic = traffic
    report = report
    bare = bare
    junk = junk
    valid = valid
    nobeacons = nobeacons
    NoFilter = NoFilter
    NoTranceiver = NoTranceiver
    NoField = NoField
    Tranceivers <- MCTranceivers
    Messages <- MCMessages
    Source <- MCSource
    FromCall <- MCFromCall
    ToCall <- MCToCall
    Filters <- MCFilters
    Passes <- MCPasses
    BridgeCalls <- MCBridgeCalls
    RoutingCalls <- MCRoutingCalls
    MaxCalls = 4
    FrameOf <- MCFrameOf
    Pattern <- MCPattern
    NoBeacons = nobeacons
    Terms <- MCTerms
    Callsigns <- MCCallsigns
    Texts <- MCTexts
    Behind <- MCBehind
    Degrees <- MCDegrees
SPECIFICATION Spec
INVARIANTS
    OnlyWhereAsked
    VerdictIsRight
    MappingsOfOneFilterCount
    BeaconsAreIgnored
    FilterReadsLeftToRight
    DissectionFinds
