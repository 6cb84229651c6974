SPECIFICATION Spec
CONSTANTS
    Names <- Clashing
    Malformed = {}
    MaxFailures = 0
    Plural <- PluralOf
    Id <- IdOf
    Class <- ClassOf
    ModelClass <- ModelClassOf
    Reserved <- Keywords
    RouterWords <- AllWords
    Shipped <- ShippedFiles
    Absent = Absent
    Torn = Torn
    Project = Project
INVARIANTS
    GeneratedResourceWorks
