SPECIFICATION Spec
CONSTANTS
    c1 = c1
    r1 = r1
    r2 = r2
    Clients <- MCClients
    Requests <- MCRequests
    ClientOf <- MCClientOf
    Limit <- MCLimit
    Window <- MCWindow
    TicksPerSecond = 3
    MaxCount = 3
PROPERTIES
    BudgetsAreIndependent
