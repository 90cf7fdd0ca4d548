\* The second process is run from a subdirectory of the work tree.
SPECIFICATION Spec
CONSTANTS
    p1 = p1
    p2 = p2
    e1 = e1
    e2 = e2
    Procs = {p1, p2}
    Entries = {e1, e2}
    EntriesPerBundle = 2
    Fails = {}
    Subdir = {p2}
    MaxLog = 3
    MaxCommits = 3
CHECK_DEADLOCK FALSE
INVARIANTS
    StoredCheckpointIsPrefix
