SPECIFICATION Spec
CONSTANTS
    first = first
    again = again
    other = other
    gm = gm
    main = main
    alt = alt
    NoSession = NoSession
    NoChar = NoChar
    NoAccount = NoAccount
    Sessions = {first, again, other}
    Accounts = {1, 2}
    Account <- MCAccount
    Chars = {main, alt}
    Owner <- MCOwner
    Limit = 1
    Privileged = {}
    OfflineTicks = 1
    MaxBids = 1
INVARIANTS TypeOK OneContainer QueueSound QueueFair NoSecondBody LoadAfterSave OneCharacter
CHECK_DEADLOCK FALSE
