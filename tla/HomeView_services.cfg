CONSTANTS
    s1 = s1
    HostLists <- MCHostLists
    Svcs <- MCSvcs
    MaxInFlight = 3
    MaxChanges = 1
    MaxFails = 1
    TpsCap = 2
    TpsSamples = 3
    TpsInFlight = 2
    NoData = NoData
SPECIFICATION Spec
PROPERTY ServicesEventuallyShown
