SPECIFICATION BonusSpec
CONSTANTS
  Tickets = {a, b, c}
  Bonuses = {g, h}
  BonusAmount <- MCBonusAmount
  Verdicts <- MCVerdicts
  Odds = 2
  WinsToConvert = 2
  MaxConversion = 3
  Settlers = {s1, s2}
  MaxCrashes = 1
  Nobody = Nobody
SYMMETRY Alike
INVARIANTS
  RolloverFollowsResults
  MoneyAddsUp
  NoStandstill
