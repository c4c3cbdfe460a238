SPECIFICATION RecoverySpec
CONSTANTS
  Players <- MCPlayers
  Keys <- MCKeys
  Ops <- MCOps
  Workers = {w1, w2}
  NoWorker = NoWorker
  NoOp = NoOp
  Nobody = Nobody
INVARIANTS
  RowsMissOneStretch
PROPERTIES
  QuietWalletsHeal
