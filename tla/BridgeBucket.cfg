SPECIFICATION FairSpec
CONSTANTS
  RefillRate = 1
  BucketCap = 3
  MaxU64 = 1000
  MsPerSec = 2
  Users = {a}
  Amounts = {2, 4}
  DepositMinimum = 2
  WithdrawalMinimum = 2
  DepositApprovalDelay = 1
  DepositConfirmDelay = 1
  WithdrawalApprovalDelay = 1
  BatchDelay = 1
  SignDelay = 1
  ConfirmDelay = 1
  SignRetryInterval = 1
  MaxSignRetries = 2
  ReorderWindow = 2
  CancelCooldown = 1
  StartBalance = 3
  MaxDeposits = 1
  MaxWithdrawals = 2
  LastRequest = 1
  MaxTime = 10
  Steps <- Jumps
INVARIANTS RefundedOrSigned WindowBounded ReplayParity
PROPERTIES EveryWithdrawalEnds
CHECK_DEADLOCK FALSE
