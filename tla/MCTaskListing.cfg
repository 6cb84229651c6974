SPECIFICATION Spec
CONSTANTS
    Tasks <- MCTasks
    Row <- MCRow
    Statuses <- MCStatuses
    Reader = "ann"
    Pending = "pending"
    Existing <- MCExisting
    Settings <- MCSettings
    Params <- MCParams
    Omitted = Omitted
    Absent = Absent
INVARIANTS
    TypeOK
    NothingMissed
    NothingRepeated
    QuietPageIsExact
PROPERTIES
    WalkEnds
