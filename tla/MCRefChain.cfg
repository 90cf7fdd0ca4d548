\* Every log of up to four entries for a branch and a tag, in every clone.
SPECIFICATION Spec
CONSTANTS
    a = a
    b = b
    c = c
    d = d
    Unrecognised = Unrecognised
    Branches = {"main"}
    Tags = {"v1"}
    Objects = {a, b, c, d}
    Ancestry <- Diamond
    MaxLog = 4
CHECK_DEADLOCK FALSE
INVARIANTS
    WalkDecidesRule
    MissingObjectsFailClosed
    AcceptedCoversHistory
