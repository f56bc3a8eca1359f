CONSTANTS
  Word = 32
  BaseSupply = 28
  TailReward = 2
  SpeedDivisor = 4
  GenesisReward = 5
  SpendableAge = 3
  Starter = 10
  Fee = 2
  Amounts <- AllAmounts
  MaxHeight = 14
  MaxHistory = 2
SPECIFICATION Spec
INVARIANTS HistoryAccounts MaturityIsDelay RewardsTaper
PROPERTIES OverdrawnByFeeAtMost RescanKeepsRewards
