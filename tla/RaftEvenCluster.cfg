CONSTANTS
  Node = {n1,n2,n3,n4}
  Nil = Nil
  Cmd = {c1,c2}
  MaxCampaigns = 2
  MaxRestarts = 0
  MaxInFlight = 2
  RequestOutlivesElection = FALSE
SPECIFICATION SpecRejoin
INVARIANTS LaterCommitsOnQuorum
SYMMETRY Symmetry
CHECK_DEADLOCK FALSE
