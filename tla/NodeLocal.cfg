CONSTANTS
    Process = {p,q}
    MaxRecords = 3
    Server = {s1,s2,s3}
    Points = 6
    Virtual = 2
    Client = {a,b,c}
SPECIFICATION FairSpec
INVARIANTS
    TypeOK
    CoveredIsLogged DamageHasCause
    ReplicasAreNearest
    CycleIsReal NoDeadlockMissed
PROPERTIES
    GapsStay
    KeysStay
    SearchShrinks SearchEnds
CHECK_DEADLOCK FALSE
