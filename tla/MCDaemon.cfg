SPECIFICATION Spec
CONSTANTS
  ZeroHash = "zero"
  MinedHash = "mined"
  TipHashes <- Fresh
  MaxNonce = 4
CHECK_DEADLOCK FALSE
INVARIANT ClosedAfterServers
PROPERTIES SignalStops RoundsGoOn
