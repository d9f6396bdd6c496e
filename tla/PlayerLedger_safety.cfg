SPECIFICATION FairSpec
CONSTANTS
  custodial = custodial
  external = external
  Players = {custodial, external}
  Custodial = {custodial}
  Syncs = {s1}
  Requests = {r1}
  Amounts = {2}
  Transfers <- MCTransfers
  Outside = Outside
  Fee = 1
  Limit = 1
  MaxTxs = 3
  MaxTransfers = 1
  MaxWithdrawals = 2
  MaxRestarts = 1
PROPERTIES SweptIsCredited WithdrawalEnds
INVARIANTS TypeOK CreditedOnce Solvent
CHECK_DEADLOCK FALSE
