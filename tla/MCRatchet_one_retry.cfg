\* Two checkpoints race for one witness.
SPECIFICATION Spec
CONSTANTS
    a = a
    b = b
    main = main
    v1 = v1
    r1 = r1
    r2 = r2
    p1 = p1
    p2 = p2
    w1 = w1
    w2 = w2
    w3 = w3
    Unrecognised = Unrecognised
    Branches = {}
    Tags = {v1}
    Objects = {a, b}
    Ancestry <- MCAncestry
    Witnesses = {w1}
    Procs = {p1, p2}
    Repos = {r1}
    Origin = r1
    RepoOf <- OneClone
    NoURL = {}
    Quorums <- Majorities
    Pushed <- Pushes
    Rollbacks = FALSE
    MaxLog = 2
    MaxCommits = 3
    MaxLate = 1
CHECK_DEADLOCK FALSE
INVARIANTS
    OneRetryIsEnough
