CONSTANTS
    Node = {n1,n2}
    Nil = Nil
    Msg = {m,old}
    OldMsg = {old}
    RedisNode = {n1}
    AckCall = {a1}
    MaxBatch = 1
    MaxTasks = 1
    MaxLeft = 1
SPECIFICATION FairSpec
INVARIANTS TypeOK AckedStaysAcked CopiesAreExplained Durable
PROPERTIES PublishedIsConsumed StoreKeepsUnacked
CHECK_DEADLOCK FALSE
