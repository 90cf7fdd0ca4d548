\* Two overlapping runs and one witness.
SPECIFICATION WorkflowsSpec
CONSTANTS
    a = a
    b = b
    main = main
    origin = origin
    r1 = r1
    r2 = r2
    p1 = p1
    p2 = p2
    w1 = w1
    Unrecognised = Unrecognised
    Branches = {main}
    Tags = {}
    Objects = {a, b}
    Ancestry <- MCAncestry
    Witnesses = {w1}
    Procs = {p1, p2}
    Repos = {origin, r1, r2}
    Origin = origin
    RepoOf <- OwnClone
    NoURL = {}
    Quorums <- Majorities
    Pushed <- ForcePushed
    Rollbacks = FALSE
    MaxLog = 2
    MaxCommits = 3
    MaxLate = 1
CHECK_DEADLOCK FALSE
INVARIANTS
    HeldIsInLog
    NoSpuriousRefusal

    
