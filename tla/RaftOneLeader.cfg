CONSTANTS
  Node = {n1,n2,n3}
  Nil = Nil
  Cmd = {c1,c2}
  MaxCampaigns = 2
  MaxRestarts = 1
  MaxInFlight = 2
  RequestOutlivesElection = FALSE
SPECIFICATION SpecRejoin
INVARIANTS TypeOK LaterCommitsOnQuorum
PROPERTIES ImplementsReplicatedLog
SYMMETRY Symmetry
CHECK_DEADLOCK FALSE
