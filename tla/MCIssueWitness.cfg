\* Two requests that exclude each other, each run at most twice.
SPECIFICATION Spec
CONSTANTS
    i1 = i1
    i2 = i2
    Issues = {i1, i2}
    Req <- RacingRequests
    MaxPushes = 2
    MaxRuns = 2
CHECK_DEADLOCK FALSE
INVARIANTS
    TypeOK
    RepliesArePersisted
    NoReplyIsMissed
PROPERTIES
    ImplementsWitness
