CONSTANTS
    Payloads <- MCPayloads
    MaxPacketSize = 3
    MaxSends = 3
    MaxFailures = 1
SPECIFICATION Spec
INVARIANTS
    DamageIsLocal
PROPERTIES
    ImplementsChannel
    StopWaitsOnlyForAFrame
CHECK_DEADLOCK FALSE
