CONSTANTS
  a1 = a1
  a2 = a2
  a3 = a3
  InitialSubsidy <- MCInitialSubsidy
  HalvingInterval = 210000
  ActivationHeight <- MainnetActivation
  Tier1Hashrate <- MCTier1Hashrate
  Miners <- MCMiners
  RecordHeight = 2000
  MaxRecords = 4
SPECIFICATION Spec
CHECK_DEADLOCK FALSE
INVARIANTS TypeOK NakamotoMinimal HerfindahlInRange
