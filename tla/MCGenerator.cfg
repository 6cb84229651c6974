SPECIFICATION Spec
CONSTANTS
    Names <- OnePlural
    Malformed = {"class"}
    MaxFailures = 2
    Plural <- PluralOf
    Id <- IdOf
    Class <- ClassOf
    ModelClass <- ModelClassOf
    Reserved <- Keywords
    RouterWords <- AllWords
    Shipped <- ShippedFiles
    Absent = Absent
    Torn = Torn
    Project = Project
INVARIANTS
    TypeOK
    RefusedTouchesNothing
    DoneIsComplete
    BlocksOnce
PROPERTIES
    NeverOverwrites
    NeverBreaksApp
