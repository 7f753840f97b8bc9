CONSTANTS
  InitialSubsidy <- MCInitialSubsidy
  HalvingInterval = 210000
  ActivationHeight <- MainnetActivation
  Tier1Hashrate <- MCTier1Hashrate
  UninitInt64 <- MCUninitInt64
  UninitScores <- MCUninitScores
  UninitCounts <- MCUninitCounts
  MaxHeight = 2001
SPECIFICATION Spec
CHECK_DEADLOCK FALSE
INVARIANT RewardWithinMax
