--------------------------- MODULE DeviceOwnership ---------------------------
(***************************************************************************)
(* What PoDD::DeviceRegistry promises its callers, stated abstractly as   *)
(* calls and their boolean results.  A registration of an unknown device  *)
(* succeeds; one of a known device fails and changes nothing, so the data *)
(* recorded for a device never changes.  A transfer succeeds exactly when *)
(* the device is known and `from` names its owner, and only a successful  *)
(* transfer changes an owner.                                              *)
(***************************************************************************)
EXTENDS Functions, TLC

CONSTANTS
  Devices,         \* device ids
  Owners,          \* owner addresses
  Infos            \* everything a registration records besides the owner

VARIABLES
  registry,        \* a function from registered device to [info, owner]
  reply            \* the last call and the result it returned

Init == registry = << >> /\ reply = [op |-> "none"]

Register(d, info, o) ==
  LET ok == d \notin DOMAIN registry
  IN  /\ registry' = IF ok THEN registry @@ (d :> [info |-> info, owner |-> o])
                           ELSE registry
      /\ reply' = [op |-> "register", device |-> d, ok |-> ok]

Transfer(d, from, to) ==
  LET ok == d \in DOMAIN registry /\ registry[d].owner = from
  IN  /\ registry' = IF ok THEN [registry EXCEPT ![d].owner = to] ELSE registry
      /\ reply' = [op |-> "transfer", device |-> d, from |-> from, to |-> to,
                   ok |-> ok]

Next ==
  \/ \E d \in Devices, info \in Infos, o \in Owners : Register(d, info, o)
  \/ \E d \in Devices, from, to \in Owners : Transfer(d, from, to)

Spec == Init /\ [][Next]_<<registry, reply>>

=============================================================================
