\* One tick and one restart, against the worklist comment of PotProjection.
SPECIFICATION FairSpec
CONSTANTS
  N = 2
  Markets = 2
  Amounts = {5}
  RakeBps = 2500
  MinParticipants = 2
  Ticks = {t1}
  None = None
  VOID = VOID
  MaxCrashes = 1
PROPERTIES
  OwedIsPaid
CHECK_DEADLOCK FALSE
