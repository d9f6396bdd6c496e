\* Pots of every kind, settled on either path: three players who stake 7 or 14, so that
\* rake and shares round, a line, and a gift to the vault; the clock, the two
\* permissionless instructions and the claimants are fair.
SPECIFICATION FairSpec
CONSTANTS
  N = 3
  InitialBalance = 14
  Amounts = {7}
  RakeBps = 1000
  MinParticipants = 2
  MaxLead = 2
  Window = 1
  VoidTimeout = 2
  MsPerSec = 2
  U64 = 1000
  MaxI32 = 3
  PotFixture = "F"
  Feed <- MCFeed
  Specs <- TwoLines
  NoSpec = NoSpec
  Gifts <- SomeGifts
  MaxGift = 1
  Kickoffs = {1}
  MaxTime = 3
INVARIANTS
  EveryClaimPayable DustOnly VoidIsRefund OneSideProvable EngineAgrees
PROPERTIES
  NoInformedStake OwedStable StakesReturn
CHECK_DEADLOCK FALSE
