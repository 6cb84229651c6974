SPECIFICATION Spec
CONSTANTS
    r1 = r1
    r2 = r2
    r3 = r3
    w1 = w1
    w2 = w2
    NoEmail = NoEmail
    Requests <- MCRequests
    Workers <- MCWorkers
    WorkerOf <- MCWorkerOf
    PoolSize = 1
    RawEmails <- MCRawEmails
    Emails <- MCEmails
    Trimmed <- MCTrimmed
    Passwords <- MCPasswords
    Acceptable <- MCAcceptable
    First72 <- MCFirst72
    Calls <- MCCalls
INVARIANTS
    TypeOK
    OneAccountPerEmail
    CreatedIsKept
    ConflictIsReal
    ReadYourWrites
    TokenNamesAccount
PROPERTIES
    EveryCallEnds
    ImplementsBook
