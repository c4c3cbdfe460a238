CONSTANTS
  a = a
  b = b
  home = home
  over = over
  bet = bet
  slip = slip
  Events <- MCEvents
  Picks <- MCPicks
  EventOf <- MCEventOf
  Main <- MCMain
  TradedInPlay = {home, over}
  Abandoned = {a}
  Late = {}
  Hasty = {}
  Tickets <- MCTickets
  LegsOf <- MCLegsOf
  Workers = {beat}
  Desk = {desk}
  Facts <- MCFacts
  MaxCrashes = 1
  Mortal = {beat}
  Nobody = Nobody
SPECIFICATION FairSpec
INVARIANTS ReturnedOnce SlipFollowsLegs NothingLeftBehind NoCashOutOfALostLeg
PROPERTIES EveryTicketSettles
CHECK_DEADLOCK FALSE
