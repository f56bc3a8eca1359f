SPECIFICATION Spec
CONSTANTS
  Window = 2
  Target = 1
  MaxHash = 7
  Miners = {"honest", "ahead"}
  Hashes <- MCHashes
  ZeroHash = "zero"
  GenesisHash = "genesis"
  GenesisTime = 1
  PowValue <- MCPowValue
  FutureLimit = 1
  Skew <- MCSkew
  EpochBlocks = 3
  LagBlocks = 2
  MaxBlocks = 4
  MaxClock = 3
INVARIANTS
  
  
  OutOfRangeTakesTwoBlocks
  InfoIsCurrent
  SeedsPrepared

PROPERTIES AddsAreAtomic 
