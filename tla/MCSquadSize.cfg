CONSTANTS
  d1 = d1
  d2 = d2
  p1 = p1
  p2 = p2
  p3 = p3
  p4 = p4
  p5 = p5
  p6 = p6
  p7 = p7
  p8 = p8
  p9 = p9
  DeviceIds <- MCDeviceIds
  InitialSquads <- MCInitialSquads
  MaxCalls = 3
SPECIFICATION Spec
CHECK_DEADLOCK FALSE
INVARIANT SquadSizeWithinBounds
