SPECIFICATION PoolSpec
CONSTANTS
  Transactions <- MCTransactions
  RingSize = 16
  BlobSize = 2
INVARIANTS
  PoolTypeOK
  NoConflict
  TemplateIsBest
