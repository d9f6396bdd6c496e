\* A person with two wallets changes wallet while the first quote is being signed.
SPECIFICATION MoneySpec
CONSTANTS
  Requests = {r1}
  Sweeper = sweeper
  Wallets = {w1, w2}
  Initial = 2
  QuoteLife = 1
  Grace = 1
  MaxAttempts = 2
  MaxNow = 4
  MaxFaults = 0
INVARIANTS
  OneBuy
CHECK_DEADLOCK FALSE
