\* A person with two wallets, one request at a time, the sweeper, two attempts, one restart or failed sweep.
SPECIFICATION MoneyFairSpec
CONSTANTS
  Requests = {r1}
  Sweeper = sweeper
  Wallets = {w1, w2}
  Initial = 1
  QuoteLife = 1
  Grace = 1
  MaxAttempts = 2
  MaxNow = 2
  MaxFaults = 1
INVARIANTS
  EndedNeverBuys OneLiveCall
PROPERTIES
  PrivacyKept NoGhosts FillFunds
CHECK_DEADLOCK FALSE
