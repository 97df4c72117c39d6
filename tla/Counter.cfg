CONSTANTS
    Start = 1
    MaxCount = 3
    MaxInFlight = 3
    MaxFails = 2
SPECIFICATION Spec
PROPERTY CountRefines
