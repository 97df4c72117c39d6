CONSTANTS
    p1 = p1
    p2 = p2
    h1 = h1
    h2 = h2
    s1 = s1
    Procs <- MCProcs
    Hosts <- MCHosts1
    Svcs <- MCSvcs
    InitSrv <- OneRunning
    Absent = Absent
    NoArg = NoArg
    NoData = NoData
    MaxInFlight = 3
    MaxOps = 2
    MaxDialogs = 1
    MaxFails = 1
SPECIFICATION Spec
INVARIANT TypeOK
PROPERTY Converges
