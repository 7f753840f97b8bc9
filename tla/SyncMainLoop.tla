---------------------------- MODULE SyncMainLoop ----------------------------
(***************************************************************************)
(* The block loop of SyncBlockchain::Start (sync-blockchain/src/           *)
(* sync-main.cpp 66-96) driving RewardCalculator::CalculateReward.         *)
(*                                                                         *)
(* Every 300 s (30 s on testnet) the loop raises block_height and prices   *)
(* a block for a fresh local `Mining::MinerInfo bitaxe_miner;` of which it *)
(* sets the address, the hashrate (0.5 TH/s), is_podd_verified and one     *)
(* device id.  is_squad_member, efficiency_score and consecutive_blocks    *)
(* are never assigned: each iteration reads whatever its stack slot holds, *)
(* modelled as a choice from UninitBools, UninitScores and UninitCounts.   *)
(* The seconds between blocks are not modelled: an iteration that finds    *)
(* too little time elapsed changes nothing the model keeps.                *)
(***************************************************************************)
EXTENDS Integers, RewardCalculator

CONSTANTS
  UninitInt64,     \* values an unassigned int64 field of RewardBreakdown may hold
  UninitScores,    \* values an unassigned efficiency_score may hold, in percent
  UninitCounts,    \* values an unassigned consecutive_blocks may hold
  MaxHeight        \* bound on block_height

VARIABLES
  height,          \* block_height
  reward,          \* the breakdown of the last block, NoReward before the first
  shutdown         \* shutdown_requested, set by signal_handler

vars == <<height, reward, shutdown>>

NoReward == [total |-> 0, unassigned |-> {}]

\* bitaxe_miner after lines 82-86, given the garbage in its unset fields.
BitaxeMiner(squad, score, consecutive) ==
  [hashrate |-> 500, verified |-> TRUE, devices |-> 1, squad |-> squad,
   efficiency |-> score, consecutive |-> consecutive]

UninitBools == BOOLEAN

Init ==
  /\ height = 0
  /\ reward = NoReward
  /\ shutdown = FALSE

(***************************************************************************)
(* One block: block_height++, then CalculateReward(block_height,           *)
(* bitaxe_miner, 0).                                                       *)
(***************************************************************************)
GenerateBlock ==
  /\ ~shutdown
  /\ height < MaxHeight
  /\ height' = height + 1
  /\ \E squad \in UninitBools, score \in UninitScores,
        consecutive \in UninitCounts,
        uninit \in [OptionalFields -> UninitInt64] :
       reward' = CalculateReward(height + 1,
                                 BitaxeMiner(squad, score, consecutive), 0, uninit)
  /\ UNCHANGED shutdown

\* SIGINT or SIGTERM: the loop condition fails and Start returns.
SignalHandler ==
  /\ ~shutdown
  /\ shutdown' = TRUE
  /\ UNCHANGED <<height, reward>>

Next == GenerateBlock \/ SignalHandler

Spec == Init /\ [][Next]_vars

-----------------------------------------------------------------------------
(***************************************************************************)
(* Properties                                                              *)
(***************************************************************************)
(***************************************************************************)
(* GetMaxPossibleReward (reward_calculator.cpp 200-207) promises the most  *)
(* a block can pay besides its fees: 2x tier, 20% PoDD, 5% efficiency, 20% *)
(* squad.  Every reward the loop prices stays within it.                   *)
(***************************************************************************)
RewardWithinMax ==
  reward # NoReward => reward.total <= GetMaxPossibleReward(height) + reward.fees

(***************************************************************************)
(* From one block to the next, the base subsidy never grows: GetBaseSubsidy *)
(* halves it every nSubsidyHalvingInterval blocks and it stays 0 once it    *)
(* reaches 0 (the 84M SYNC supply cap rests on it).                         *)
(***************************************************************************)
SubsidyNonIncreasing ==
  [][height' > height /\ height > 0 =>
       GetBaseSubsidy(height') <= GetBaseSubsidy(height)]_vars

=============================================================================
