SPECIFICATION Spec
CONSTANTS
    r1 = r1
    r2 = r2
    r3 = r3
    Null = Null
    Absent = Absent
    Blank = ""
    Pending = "pending"
    Requests <- MCRequests
    Users <- MCUsers
    Tasks <- MCTasks
    Titles <- MCTitles
    Descriptions <- MCDescriptions
    Statuses <- MCStatuses
    Workloads <- MCWorkloads
    Existing <- MCExisting
INVARIANTS
    TypeOK
    EveryChangeWasAsked
    DeleteIsFinal
    NotFoundIsTrue
PROPERTIES
    QuietEditIsExact
    ImplementsTaskBook
