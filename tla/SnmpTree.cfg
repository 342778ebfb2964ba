CONSTANTS
    Oids <- MCOids
    Starts <- MCStarts
SPECIFICATION AgentSpec
INVARIANTS
    NextIsSuccessor
    WalkIsComplete
PROPERTY WalkEnds
