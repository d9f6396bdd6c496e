\* The single-winner comment of acceptChallenge.
SPECIFICATION ChallengeSpec
CONSTANTS
  N = 3
  Reqs = {"c", "a", "b"}
  Op <- RaceOp
  Who <- RaceWho
  Initial = 20
  Stake = 10
  RakeBps = 1000
  None = None
  MaxCrashes = 0
PROPERTIES
  AcceptSingleWinner
CHECK_DEADLOCK FALSE
