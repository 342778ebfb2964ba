CONSTANTS
    m1 = m1
    m2 = m2
    call = call
    Messages <- MCMessages
    From <- MCFrom
    Raw <- MCRaw
    MaxSessions = 2
    TopicOut = TRUE
    TopicOutJson = TRUE
    Visitors = {web}
    DayLength = 2
    MaxTime = 2
    Zone = 0
    Limit = 1
    MaxFaults = 1
    Troubles = {{"aprs", "mqtt"}, {"db"}}
SPECIFICATION Spec
INVARIANTS
    UplinkIsFaithful
    VerdictsAreBorneOut
    PageNeverGoesBack
    LinkShowsTheRow
    DeadClientOnlyByOverlap
PROPERTIES
    EveryMessageTried
CHECK_DEADLOCK FALSE
