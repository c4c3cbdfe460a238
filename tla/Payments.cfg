SPECIFICATION FairCheckout
CONSTANTS
  polled = polled
  unheard = unheard
  None = None
  Deposits <- MCDeposits
  Answered <- MCAnswered
  MayEnd <- MCMayEnd
  MaxTokens = 1
CHECK_DEADLOCK FALSE
INVARIANTS
  CreditIsBacked
  PaidMatchesCredit
  ToldAsItIs
PROPERTIES
  EveryDepositEnds
  PollingFindsPayments
  WaitingEnds
