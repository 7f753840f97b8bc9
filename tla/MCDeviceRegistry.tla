-------------------------- MODULE MCDeviceRegistry --------------------------
(***************************************************************************)
(* Constants of DeviceRegistry for TLC: three devices, three owners, and     *)
(* registrations: the one `sync-cli registerdevice` builds for a device,    *)
(* and ones by another owner with either data record.                      *)
(***************************************************************************)
EXTENDS DeviceRegistry

CONSTANTS b1, b2, b3, CliOwner, o2, o3, CliInfo, OtherInfo

MCDevices == {b1, b2, b3}
MCOwners == {CliOwner, o2, o3}
MCInfos == {CliInfo, OtherInfo}

\* SyncCLI::RegisterDevice(device_id): a Generic Bitaxe, one chip, 500 GH/s,
\* serial number = device id, owned by "sync1qexample...".  The serial
\* number is not read by the registry, so every CLI registration carries
\* the same CliInfo.
CliRegistration(id) == [device_id |-> id, info |-> CliInfo, owner |-> CliOwner]

\* The CLI's registrations, and registrations other callers could make.
MCRegistrations ==
  {CliRegistration(d) : d \in MCDevices}
    \cup [device_id : MCDevices, info : MCInfos, owner : {o2}]
=============================================================================
