CONSTANTS
    Node = {n1,n2}
    Nil = Nil
    Client = {a,b}
    Resource = {r}
    LockId = {l1,l2}
    MaxReleases = 1
SPECIFICATION Spec
SYMMETRY Symmetry
INVARIANT MutualExclusion
CHECK_DEADLOCK FALSE
