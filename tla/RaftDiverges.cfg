CONSTANTS
  Node = {n1,n2,n3}
  Nil = Nil
  Cmd = {c1,c2}
  MaxCampaigns = 4
  MaxRestarts = 0
  MaxInFlight = 1
  RequestOutlivesElection = FALSE
SPECIFICATION Spec
INVARIANTS StateMachineSafety

SYMMETRY Symmetry
CHECK_DEADLOCK FALSE
