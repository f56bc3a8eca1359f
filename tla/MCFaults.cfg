SPECIFICATION Spec
CONSTANTS
  Transactions <- NoTransactions
  RingSize = 16
  BlobSize = 2
  Window = 2
  Target = 1
  MaxHash = 7
  Hashes <- MCHashes
  Timestamps = {1, 2, 3}
  ZeroHash = "zero"
  GenesisHash = "genesis"
  GenesisTime = 1
  PowValue <- MCPowValue
  FutureLimit = 4
  RecordSize = 2
  Garbage <- MCGarbage
  SavedKeyImages = {}
  IoFaults = {"lost", "torn", "unreadable"}
  MaxBlocks = 3
  MaxClock = 0
INVARIANTS
  SoundRecordsIncrease
PROPERTIES
  ResumeKeepsSound
