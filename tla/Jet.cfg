SPECIFICATION FairSpec
CONSTANTS
  auto = auto
  free1 = free1
  free2 = free2
  Bets = {auto, free1, free2}
  FreeBets = {free1, free2}
  Target <- MCTarget
  Rounds = {1, 2}
  MaxMultiplier = 2
  StakeLimit = 1
  MaxFaults = 1
  Runner = Runner
  Nobody = Nobody
CHECK_DEADLOCK FALSE
INVARIANTS
  EntriesMatchStatus
  PaidWithinTheFlight
  ReachedTargetsArePaid
  NobodyRidesACrashedRound
PROPERTIES
  EveryRoundEnds
