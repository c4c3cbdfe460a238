SPECIFICATION FairSpec
CONSTANTS
  Players <- MCPlayers
  Keys <- MCKeys
  Ops <- MCOps
  Workers = {w1, w2}
  NoWorker = NoWorker
  NoOp = NoOp
INVARIANTS
  CachedIsLedgerSum
  NeverOverdrawn
PROPERTIES
  ImplementsAccounts
  EveryTransactionEnds
