\* Two processes, to which git may fail; bundles of two entries, so a third entry opens a second bundle.
SPECIFICATION Spec
CONSTANTS
    p1 = p1
    p2 = p2
    e1 = e1
    e2 = e2
    Procs = {p1, p2}
    Entries = {e1, e2}
    EntriesPerBundle = 2
    Fails = {"rev-parse", "cat-file"}
    Subdir = {}
    MaxLog = 4
    MaxCommits = 4
CHECK_DEADLOCK FALSE
SYMMETRY Symmetry
INVARIANTS
    TypeOK
    BundlesReadBack
    OpenReadsOneCommit
    

    
