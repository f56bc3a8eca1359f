SPECIFICATION Spec
CONSTANTS
  GenesisSeed = "genesis"
  DefaultSeed = "default"
  NoSeed = "none"
  Threads = 3
  Stride = 2
  Word = 7
  Cycles = 2
  MaxHashes = 4
CHECK_DEADLOCK FALSE
INVARIANTS MinerTypeOK HashesOnGenesisSeed NoRepeatedWork StopsWithinOneHash EndsClean
PROPERTY Finishes
