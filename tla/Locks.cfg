CONSTANTS
    Node = {n1,n2}
    Nil = Nil
    Client = {a,b}
    Resource = {r}
    LockId = {l1,l2}
    MaxReleases = 1
SPECIFICATION FairSpec
INVARIANTS TypeOK ConflictsAreRaces LocksAgree EdgesTellWaits
PROPERTIES AcquireReturns
CHECK_DEADLOCK FALSE
