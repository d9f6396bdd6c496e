\* Two overlapping ticks and a restart over two markets.
SPECIFICATION FairSpec
CONSTANTS
  N = 2
  Markets = 2
  Amounts = {5}
  RakeBps = 2500
  MinParticipants = 2
  Ticks = {t1, t2}
  None = None
  VOID = VOID
  MaxCrashes = 1
INVARIANTS
  TypeOK MarketConserves SettledIsPaid NothingUnverified
PROPERTIES
  CallsClose
CHECK_DEADLOCK FALSE
