CONSTANTS
  x1 = x1
  x2 = x2
  InitialSubsidy <- MCInitialSubsidy
  HalvingInterval = 210000
  UninitInt64 <- MCUninitInt64
  UninitScores <- MCUninitScores
  UninitCounts <- MCUninitCounts
  MaxHeight = 2001
  DeviceLists <- MCDeviceLists
  CliHashrates <- MCCliHashrates
  DemoHashrates <- MCDemoHashrates
  DemoDeviceCounts <- MCDemoDeviceCounts
SPECIFICATION Spec
CHECK_DEADLOCK FALSE
INVARIANT AllAssignedRewardsValid DemoMatchesCalculator
PROPERTIES ShutdownEndsProgram
