SPECIFICATION Spec
CONSTANTS
  Players = {p1}
  Requests = {r1, r2, old}
  Legacy = {old}
  Amounts <- MCAmounts
  Opening = 3
  DailyMax = 3
  FeePercent = 50
  SwingBound = 1
INVARIANTS
  LedgerMatchesStatus
  WalletAddsUp
PROPERTIES
  OnlyADismissalReleases
  FreezeReachesPending
