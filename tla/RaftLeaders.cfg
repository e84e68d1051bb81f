CONSTANTS
  Node = {n1,n2,n3}
  Nil = Nil
  Cmd = {c1,c2}
  MaxCampaigns = 4
  MaxRestarts = 0
  MaxInFlight = 2
  RequestOutlivesElection = FALSE
SPECIFICATION SpecLeaders
INVARIANTS VoteOncePerTerm ElectionSafety LogMatching LogTermsOrdered AppliedOnce
PROPERTIES LeaderAppendOnly
SYMMETRY Symmetry
CHECK_DEADLOCK FALSE
