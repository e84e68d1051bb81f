CONSTANTS
    Node = {n1,n2}
    Nil = Nil
    Key = {k1,k2}
    PutRequest = {p1,p2}
    Expiring = {p1}
    GetRequest = {g}
    MaxSize = 1
SPECIFICATION Spec
SYMMETRY Symmetry
INVARIANTS TypeOK FollowersServeLog StaleOnlyByLateStore LostOnlyByInvalidation
CHECK_DEADLOCK FALSE
