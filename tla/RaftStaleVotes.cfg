CONSTANTS
  Node = {n1,n2,n3}
  Nil = Nil
  Cmd = {}
  MaxCampaigns = 6
  MaxRestarts = 0
  MaxInFlight = 2
  RequestOutlivesElection = TRUE
SPECIFICATION Spec
INVARIANTS ElectionSafety

SYMMETRY Symmetry
CHECK_DEADLOCK FALSE
