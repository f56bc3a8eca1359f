SPECIFICATION LuckySpec
CONSTANTS
  ZeroHash = "zero"
  MinedHash = "mined"
  TipHashes <- Fresh
  MaxNonce = 4
CHECK_DEADLOCK FALSE
PROPERTY MinesBlocks
