SPECIFICATION FairSpec
CONSTANTS
  home = home
  away = away
  other = other
  ann = ann
  Picks <- MCPicks
  Market <- MCMarket
  Event <- MCMarket
  Checked <- MCChecked
  Booked <- MCBooked
  Users = {ann}
  Nobody = Nobody
  Nothing = Nothing
  Prices = {2, 3}
  MaxSelections = 2
  MaxMoves = 1
  MaxActs = 4
  MaxReads = 2
CHECK_DEADLOCK FALSE
INVARIANTS
  CodeIsForTheSlip
PROPERTIES
  SentAsAgreed
  PlacedOnce
  SlipCatchesUp
