\* Double submits, a cancel, overlapping ticks and a restart, at any step of one challenge.
SPECIFICATION ChallengeFairSpec
CONSTANTS
  N = 2
  Reqs = {"c", "a", "b", "x", "s", "t"}
  Op <- MCOp
  Who <- MCWho
  Initial = 20
  Stake = 10
  RakeBps = 1000
  None = None
  MaxCrashes = 1
INVARIANTS
  ChallengeTypeOK OneStakeAtRisk SettledIsPaid Conserved
PROPERTIES
  MatchedSettles
CHECK_DEADLOCK FALSE
