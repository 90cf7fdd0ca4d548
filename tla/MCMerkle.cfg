\* Every pair of a held and a submitted log of up to seven entries.
SPECIFICATION MerkleSpec
CONSTANTS
    a = a
    main = main
    w1 = w1
    Unrecognised = Unrecognised
    Branches = {main}
    Tags = {}
    Objects = {a}
    Ancestry <- MCAncestry
    Witnesses = {w1}
    MaxLog = 7
CHECK_DEADLOCK FALSE
INVARIANTS
    RootIsMTH
    PrefixDecides
    CheckpointedIsCosigned
