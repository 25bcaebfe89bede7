SPECIFICATION Spec
CONSTANTS
    first = first
    again = again
    other = other
    gm = gm
    main = main
    alt = alt
    NoSession = NoSession
    NoChar = NoChar
    NoAccount = NoAccount
    Sessions = {first}
    Accounts = {1}
    Account <- MCAccount
    Chars = {main}
    Owner <- MCOwner
    Limit = 1
    Privileged = {}
    OfflineTicks = 1
    MaxBids = 1
INVARIANT AllSaved
CHECK_DEADLOCK FALSE
