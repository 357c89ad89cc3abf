SPECIFICATION WatchFairSpec
CONSTANTS
  RefillRate = 1
  BucketCap = 3
  MaxU64 = 1000
  MsPerSec = 2
  Users = {a}
  Amounts = {2}
  DepositMinimum = 2
  WithdrawalMinimum = 2
  DepositApprovalDelay = 1
  DepositConfirmDelay = 1
  WithdrawalApprovalDelay = 1
  BatchDelay = 1
  SignDelay = 1
  ConfirmDelay = 1
  SignRetryInterval = 1
  MaxSignRetries = 2
  ReorderWindow = 0
  CancelCooldown = 1
  StartBalance = 3
  MaxDeposits = 1
  MaxWithdrawals = 1
  LastRequest = 0
  MaxTime = 6
  Steps <- Jumps
  WatchKinds <- FlowKinds
  BatchLimit = 2
  MaxPolls = 2
  MaxRestarts = 1
INVARIANTS FlowIsTruth
PROPERTIES WatcherCatchesUp
CHECK_DEADLOCK FALSE
