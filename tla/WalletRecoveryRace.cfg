SPECIFICATION RecoverySpec
CONSTANTS
  Players <- MCPlayers
  Keys <- MCKeys
  Ops <- MCOps
  Workers = {w1}
  NoWorker = NoWorker
  NoOp = NoOp
  Nobody = Nobody
INVARIANTS
  NeverOverdrawn
