\* Three verifier keys, a policy and origins made of them, and two signatures.
SPECIFICATION Spec
CONSTANTS
    n1 = n1
    n2 = n2
    e1 = e1
    m1 = m1
    k1 = k1
    k2 = k2
    t1 = t1
    None = None
    Names = {n1, n2}
    Ed25519 = {e1, k1}
    MLDSA44 = {m1, k2}
    Kms = {k1, k2}
    Trees = {t1}
    MaxKeys = 3
    MaxLines = 2
CHECK_DEADLOCK FALSE
SYMMETRY Symmetry
INVARIANTS
    Authentic
    PrintedKeysFit
    
    StoredVerifies
