CONSTANTS
    beacon = beacon
    udp = udp
    mqtt = mqtt
    kiss = kiss
    lora = lora
    db = db
    ws = ws
    unknown = unknown
    Program = Program
    Nowhere = Nowhere
    Leftover = Leftover
    Kind <- MCKind
    Files <- MCFiles
    Readers <- MCReaders
    Places = {here}
    HasDefault = TRUE
SPECIFICATION Spec
INVARIANTS
    LastReportCounts
    NothingDeletedIsUsed
    OrderIsEnough
 
CHECK_DEADLOCK FALSE
