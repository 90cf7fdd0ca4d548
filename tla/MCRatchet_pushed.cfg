\* A clone and its origin, entries pushed past logRefs, a witness without a URL.
SPECIFICATION Spec
CONSTANTS
    a = a
    b = b
    main = main
    v1 = v1
    r1 = r1
    r2 = r2
    p1 = p1
    p2 = p2
    w1 = w1
    w2 = w2
    w3 = w3
    Unrecognised = Unrecognised
    Branches = {main}
    Tags = {v1}
    Objects = {a, b}
    Ancestry <- MCAncestry
    Witnesses = {w1, w2}
    Procs = {p1}
    Repos = {r1, r2}
    Origin = r2
    RepoOf <- AwayFromOrigin
    NoURL = {w2}
    Quorums <- Reachable
    Pushed <- ForcePushed
    Rollbacks = FALSE
    MaxLog = 3
    MaxCommits = 4
    MaxLate = 1
CHECK_DEADLOCK FALSE
INVARIANTS
    CosignedChainsHold
    VerificationIsStable
PROPERTIES
    ImplementsPublishedLog
    
