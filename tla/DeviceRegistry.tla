---------------------------- MODULE DeviceRegistry ----------------------------
(***************************************************************************)
(* PoDD::DeviceRegistry (device_verifier.cpp 418-465): the process-wide    *)
(* singleton map m_registrations from device id to DeviceRegistration.     *)
(*                                                                         *)
(* A registration is [device_id, info, owner]: `info` stands for the       *)
(* fields no method reads (manufacturer, model, serial, firmware, chips,   *)
(* hashrate, manufacture date and the signature, which nothing checks).    *)
(* GetInstance's function-local static is the single instance, empty at    *)
(* first use.  The read-only methods are operators.                        *)
(***************************************************************************)
EXTENDS FiniteSets, Functions, TLC

CONSTANTS
  Devices,         \* device ids
  Owners,          \* owner addresses
  Infos,           \* the rest of a DeviceRegistration
  Registrations    \* DeviceRegistration values callers pass

VARIABLES
  registrations,   \* m_registrations
  lastCall         \* the last call made and the bool it returned

vars == <<registrations, lastCall>>

\* struct DeviceRegistration, with the fields no method reads folded into info.
RegistrationType == [device_id : Devices, info : Infos, owner : Owners]

ASSUME Registrations \subseteq RegistrationType

Init == registrations = << >> /\ lastCall = [op |-> "none"]

\* RegisterDevice with the find() test dropped: operator[] overwrites.
RegisterDeviceOverwrite(reg) ==
  /\ registrations' = (reg.device_id :> reg) @@ registrations
  /\ lastCall' = [op |-> "register", device |-> reg.device_id, ok |-> TRUE]

(***************************************************************************)
(* RegisterDevice(registration): false for a known id; else insert, true. *)
(***************************************************************************)
RegisterDevice(reg) ==
  LET known == reg.device_id \in DOMAIN registrations
  IN  /\ registrations' = IF known THEN registrations
                          ELSE registrations @@ (reg.device_id :> reg)
      /\ lastCall' = [op |-> "register", device |-> reg.device_id, ok |-> ~known]

VerifyDeviceOwnership(d, o) ==
  d \in DOMAIN registrations /\ registrations[d].owner = o

GetOwnerDevices(o) == {d \in DOMAIN registrations : registrations[d].owner = o}

\* TransferDevice without the owner test: any known device moves.
TransferDeviceAnyOwner(d, from, to) ==
  LET ok == d \in DOMAIN registrations
  IN  /\ registrations' = IF ok THEN [registrations EXCEPT ![d].owner = to]
                          ELSE registrations
      /\ lastCall' = [op |-> "transfer", device |-> d, from |-> from, to |-> to,
                      ok |-> ok]

(***************************************************************************)
(* TransferDevice(device_id, from, to): succeeds, moving the device to    *)
(* `to`, when the device is known and its owner equals `from`, which the   *)
(* caller supplies; else returns false.                                    *)
(***************************************************************************)
TransferDevice(d, from, to) ==
  LET ok == d \in DOMAIN registrations /\ registrations[d].owner = from
  IN  /\ registrations' = IF ok THEN [registrations EXCEPT ![d].owner = to]
                          ELSE registrations
      /\ lastCall' = [op |-> "transfer", device |-> d, from |-> from, to |-> to,
                      ok |-> ok]

GetTotalRegisteredDevices == Cardinality(DOMAIN registrations)

Next ==
  \/ \E reg \in Registrations : RegisterDevice(reg)
  \/ \E d \in Devices, from, to \in Owners : TransferDevice(d, from, to)

Spec == Init /\ [][Next]_vars

-----------------------------------------------------------------------------
(***************************************************************************)
(* Refinement: with the registry's view of each entry and the call's       *)
(* result as the reply, DeviceRegistry implements DeviceOwnership.        *)
(***************************************************************************)
Ownership == INSTANCE DeviceOwnership WITH
  registry <- [d \in DOMAIN registrations |->
                 [info |-> registrations[d].info, owner |-> registrations[d].owner]],
  reply <- lastCall

(***************************************************************************)
(* Every sequence of RegisterDevice and TransferDevice calls is one the    *)
(* contract allows: a registration of a known device returns false and     *)
(* changes neither its data nor its owner; a transfer returns true, and an *)
(* owner changes, only when the caller's `from` is the recorded owner; a   *)
(* device stays registered.                                                *)
(***************************************************************************)
ImplementsOwnership == Ownership!Spec

=============================================================================
