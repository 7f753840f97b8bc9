CONSTANTS
  InitialSubsidy <- MCInitialSubsidy
  HalvingInterval <- ShortHalvingInterval
  ActivationHeight <- MainnetActivation
  Tier1Hashrate <- MCTier1Hashrate
  UninitInt64 <- MCUninitInt64
  UninitScores <- MCUninitScores
  UninitCounts <- MCUninitCounts
  MaxHeight = 130
SPECIFICATION Spec
CHECK_DEADLOCK FALSE
PROPERTY SubsidyNonIncreasing
