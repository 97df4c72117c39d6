CONSTANTS
    n1 = n1
    n2 = n2
    m1 = m1
    Machs <- MCMachs
    Names <- MCNames
    Chars <- MCChars
    Space = " "
    SvcLists <- MCSvcLists
    MaxLen = 4
    NoData = NoData
SPECIFICATION Spec
INVARIANT PostedArgsAreTokens
CHECK_DEADLOCK FALSE
