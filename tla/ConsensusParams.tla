-------------------------- MODULE ConsensusParams --------------------------
(***************************************************************************)
(* The three Consensus::Params a program may construct (params.h): the     *)
(* mainnet default, TestNetParams and RegTestParams.  Only the fields the   *)
(* reward calculator reads differ between them in the model: the feature   *)
(* activation heights and minerBoost.tier1_hashrate (milli-TH/s).  Block    *)
(* spacing, difficulty and the chain id change nothing the models keep.    *)
(***************************************************************************)

\* Params::activationHeights.
MainnetActivation ==
  [podd |-> 1000, small_miner_boost |-> 1, squad_mining |-> 2000,
   device_registry |-> 500]

\* TestNetParams(): every feature active from height 1.
TestnetActivation == [f \in DOMAIN MainnetActivation |-> 1]

Networks == {"main", "test", "regtest"}

\* The activation map and tier-1 bound of each network; RegTestParams keeps
\* the mainnet activation heights.
NetworkParams ==
  [main    |-> [activation |-> MainnetActivation, tier1 |-> 1000],
   test    |-> [activation |-> TestnetActivation, tier1 |-> 100],
   regtest |-> [activation |-> MainnetActivation, tier1 |-> 1]]

=============================================================================
