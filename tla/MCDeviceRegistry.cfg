CONSTANTS
  b1 = b1
  b2 = b2
  b3 = b3
  CliOwner = CliOwner
  o2 = o2
  o3 = o3
  CliInfo = CliInfo
  OtherInfo = OtherInfo
  Devices <- MCDevices
  Owners <- MCOwners
  Infos <- MCInfos
  Registrations <- MCRegistrations
SPECIFICATION Spec
PROPERTY ImplementsOwnership
