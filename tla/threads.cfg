SPECIFICATION ThreadsSpec
CONSTANTS
    Workers = {w1, w2}
    Callers = {c1}
    Owner = c1
    Jobs = {j1, j2, j3}
    NoJob = NoJob
    ConnectTimeout = 2
    MaxChoices = 2
PROPERTIES
    KeepsPromise
    EveryJobIsRun
    WaitsEnd
    DisconnectSettles
    AttemptsEnd
    InterestIsSent
    ClosingEndsAll
CHECK_DEADLOCK FALSE
