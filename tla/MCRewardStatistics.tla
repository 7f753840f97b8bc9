------------------------- MODULE MCRewardStatistics -------------------------
(***************************************************************************)
(* Constants of RewardStatistics for TLC: three addresses, one of which    *)
(* mines with two rigs of different tiers, priced at block 2000 with the   *)
(* mainnet parameters (every bonus active), in units of 10^6 satoshi.      *)
(***************************************************************************)
EXTENDS RewardStatistics

CONSTANTS a1, a2, a3

MCInitialSubsidy == 5000
MCTier1Hashrate == 1000
MainnetActivation ==
  [podd |-> 1000, small_miner_boost |-> 1, squad_mining |-> 2000,
   device_registry |-> 500]

\* A verified Bitaxe squad member; a 150 TH/s farm on an 8-block run, and
\* the same address with a 5 TH/s rig; an unverified 50 TH/s miner.
MCMiners ==
  { [address |-> a1, hashrate |-> 500, verified |-> TRUE, devices |-> 1,
     squad |-> TRUE, efficiency |-> 80, consecutive |-> 0],
    [address |-> a2, hashrate |-> 150000, verified |-> FALSE, devices |-> 0,
     squad |-> FALSE, efficiency |-> 50, consecutive |-> 8],
    [address |-> a2, hashrate |-> 5000, verified |-> TRUE, devices |-> 3,
     squad |-> FALSE, efficiency |-> 100, consecutive |-> 0],
    [address |-> a3, hashrate |-> 50000, verified |-> FALSE, devices |-> 0,
     squad |-> TRUE, efficiency |-> 0, consecutive |-> 4] }
=============================================================================
