CONSTANTS
  Node = {n1,n2,n3}
  Nil = Nil
  Cmd = {}
  MaxCampaigns = 3
  MaxRestarts = 1
  MaxInFlight = 1
  RequestOutlivesElection = TRUE
SPECIFICATION FairSpec
INVARIANTS NoNodeIsStranded LeaderOwnsItsTerm
PROPERTIES ElectionEnds CandidateMovesOn
CHECK_DEADLOCK FALSE
