SPECIFICATION Spec
CONSTANTS
  Transactions <- MCTransactions
  RingSize = 16
  BlobSize = 2
  Window = 2
  Target = 1
  MaxHash = 7
  Hashes <- MCHashes
  Timestamps = {1, 2, 3, 5}
  ZeroHash = "zero"
  GenesisHash = "genesis"
  GenesisTime = 1
  PowValue <- MCPowValue
  FutureLimit = 2
  RecordSize = 2
  Garbage <- MCGarbage
  SavedKeyImages = {}
  IoFaults = {}
  MaxBlocks = 4
  MaxClock = 3
INVARIANTS
  ChainTypeOK
  RestartRestoresChain
PROPERTIES
  PoolLosesOnlyMined
  ImplementsLedger
