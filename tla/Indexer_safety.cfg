\* Two overlapping passes of two transactions each, over three transactions and one player.
SPECIFICATION FairSpec
CONSTANTS
  Players = {a}
  Passes = {r1, r2}
  MaxPerPass = 2
  MaxNullRetries = 1
  MaxTxs = 3
INVARIANTS
  CursorCovers
PROPERTIES
  CatchesUp
CHECK_DEADLOCK FALSE
