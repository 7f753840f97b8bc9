CONSTANTS
  d1 = d1  d2 = d2  d3 = d3
  IpA = IpA  IpB = IpB  FwA = FwA  FwB = FwB  N1 = N1  N2 = N2  NoIp = NoIp
  DeviceIds = {d1, d2}
  Ips = {IpA, IpB}
  Firmwares = {FwA, FwB}
  Nonces = {N1, N2}
  Fingerprints <- MCFingerprints
  Shares <- MCShares
  RingSize <- MCRingSize
  NonceCap <- MCNonceCap
  SquadSizeMax = 10
  IdLists <- MCIdLists
  ClockReadings = {0, 30, 1440, 1445}
  MaxShares = 2
  MaxSquads = 1
SYMMETRY MCSymmetry
SPECIFICATION Spec
CHECK_DEADLOCK FALSE
INVARIANTS TypeOK WindowsHoldLatest VerifyResultWellFormed
PROPERTIES RegistrationPermanent
