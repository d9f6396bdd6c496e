\* Two markets, the first of which can never be read again, and slices of one market.
SPECIFICATION FairSpec
CONSTANTS
  N = 2
  Broken = {1}
  Budget = 1
INVARIANTS
  EvidenceAgrees
  ShownStands
PROPERTIES
  Settles
CHECK_DEADLOCK FALSE
