SPECIFICATION FairSpec
CONSTANTS
  Pages <- MCPages
  Nothing = Nothing
  MaxReads = 2
  MaxEvents = 3
CHECK_DEADLOCK FALSE
INVARIANTS
  OncePerDraft
  ButtonsComeBack
PROPERTIES
  ShowsTheServer
