----------------------------- MODULE MiningSquad -----------------------------
(***************************************************************************)
(* PoDD::MiningSquad membership (device_verifier.cpp 85-119): AddDevice,   *)
(* RemoveDevice and GetRewardShare on one squad's member_devices vector.   *)
(*                                                                         *)
(* The squad starts as DeviceVerifier::FormMiningSquad stores one: one of  *)
(* InitialSquads, each 2 to 10 distinct ids (the repeated-id case is the   *)
(* squad_duplicates run of DeviceVerifier).  `calls` counts method calls   *)
(* up to MaxCalls.  squad_id, created_at, total_hashrate and blocks_found  *)
(* are not read by these methods.                                          *)
(***************************************************************************)
EXTENDS Integers, Sequences, FiniteSets, SequencesExt

CONSTANTS
  DeviceIds,       \* device ids callers pass
  InitialSquads,   \* member vectors of squads FormMiningSquad stored
  MaxCalls         \* bound on the number of AddDevice/RemoveDevice calls

VARIABLES
  members,         \* member_devices, in insertion order
  calls            \* calls made so far

vars == <<members, calls>>

\* The capacity test of AddDevice (line 87) and the nMinSquadSize of Params.
MaxSquadMembers == 10
MinSquadMembers == 2

Init ==
  /\ members \in InitialSquads
  /\ calls = 0

\* AddDevice without the std::find duplicate test.
AddDeviceNoDupCheck(id) ==
  /\ Len(members) < MaxSquadMembers
  /\ members' = Append(members, id)

(***************************************************************************)
(* AddDevice(id): false at capacity or for a present id (no change);       *)
(* otherwise push_back.                                                    *)
(***************************************************************************)
AddDevice(id) ==
  /\ Len(members) < MaxSquadMembers
  /\ ~Contains(members, id)
  /\ members' = Append(members, id)

(***************************************************************************)
(* RemoveDevice(id): erase the first occurrence, if any.  There is no      *)
(* lower bound on the size.                                                *)
(***************************************************************************)
RemoveDevice(id) ==
  /\ Contains(members, id)
  /\ members' = RemoveFirst(members, id)

\* GetRewardShare(id) as a fraction [num, den]: 0 for an empty squad or a
\* non-member, else 1 / member_devices.size().
GetRewardShare(id) ==
  IF members = << >> \/ ~Contains(members, id)
  THEN [num |-> 0, den |-> 1]
  ELSE [num |-> 1, den |-> Len(members)]

\* A successful call of either method (one that returns false changes
\* nothing and is a stuttering step).
Call(Method(_)) ==
  /\ calls < MaxCalls
  /\ calls' = calls + 1
  /\ \E id \in DeviceIds : Method(id)

Next == Call(AddDevice) \/ Call(RemoveDevice)

Spec == Init /\ [][Next]_vars

-----------------------------------------------------------------------------
(***************************************************************************)
(* Properties                                                              *)
(***************************************************************************)
(***************************************************************************)
(* The reward shares of a non-empty squad's members add up to the whole    *)
(* squad reward: every id's GetRewardShare, summed over all ids, is 1.     *)
(* This needs the vector to hold each id once after any sequence of adds   *)
(* and removes (spec section 3: an equal 1/N split).                       *)
(***************************************************************************)
SharesSumToOne ==
  LET sh(id) == GetRewardShare(id)
  IN  members # << >> =>
        \* every non-zero share has the same denominator Len(members)
        MapThenSumSet(LAMBDA id : sh(id).num, DeviceIds) = Len(members)

(***************************************************************************)
(* Spec section 3: a squad has 2 to 10 members, and membership "can be    *)
(* adjusted afterward subject to the same size bound".                     *)
(***************************************************************************)
SquadSizeWithinBounds == Len(members) \in MinSquadMembers..MaxSquadMembers

=============================================================================
