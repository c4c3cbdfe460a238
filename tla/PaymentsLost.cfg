SPECIFICATION FairSpec
CONSTANTS
  polled = polled
  unheard = unheard
  Deposits <- MCDeposits
  Answered <- MCAnswered
  MayEnd <- MCMayEnd
CHECK_DEADLOCK FALSE
INVARIANT ReportedPaidIsCredited
