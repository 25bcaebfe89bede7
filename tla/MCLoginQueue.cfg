SPECIFICATION FairSpec
CONSTANTS
    first = first
    again = again
    other = other
    gm = gm
    main = main
    alt = alt
    NoSession = NoSession
    NoChar = NoChar
    NoAccount = NoAccount
    Sessions = {first, other, gm}
    Accounts = {1, 2, 3}
    Account <- MCAccount
    Chars = {main}
    Owner <- MCOwner
    Limit = 1
    Privileged = {gm}
    OfflineTicks = 1
    MaxBids = 1
INVARIANT QueueFair
PROPERTY ClosedLeaves
CHECK_DEADLOCK FALSE
