SPECIFICATION FairSpec
CONSTANTS
    w1 = w1
    w2 = w2
    w3 = w3
    eastern = eastern
    arena = arena
    report = report
    Workers = {w1, w2}
    NoWorker = NoWorker
    Maps = {eastern, arena}
    Lfg = Lfg
    Detached = {report}
    NoTask = NoTask
    MaxRounds = 1
PROPERTY ShutdownReturns
CHECK_DEADLOCK FALSE
