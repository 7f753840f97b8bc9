-------------------------- MODULE RewardCalculator --------------------------
(***************************************************************************)
(* Mining::RewardCalculator (src/src/mining/reward_calculator.cpp) and the *)
(* consensus parameters it reads (src/src/consensus/params.h).             *)
(*                                                                         *)
(* Amounts are int64 satoshis in the code.  TLC has 32-bit integers, so    *)
(* the model counts in a unit the MC module chooses (InitialSubsidy is 50  *)
(* SYNC in that unit).  Every double multiplication followed by            *)
(* static_cast<int64_t> is a truncation toward zero of an exact product.   *)
(* The double constants are their decimal values except where the double   *)
(* lies below the decimal and the truncation shows it: 1.2 - 1.0 is        *)
(* 0.19999999999999996, so base * 0.2 loses one unit whenever it is whole  *)
(* (MulTruncBelow).  The anti-whale multipliers for 9 and 10 consecutive   *)
(* blocks (0.7 and 0.6499999999999999) also lose a unit for some totals;   *)
(* the MC inputs avoid those two counts.                                   *)
(*                                                                         *)
(* Hashrates are in milli-TH/s, efficiency scores in percent, and the      *)
(* anti-whale multiplier in percent.                                       *)
(***************************************************************************)
EXTENDS Integers

CONSTANTS
  InitialSubsidy,     \* Params::nInitialSubsidy
  HalvingInterval,    \* Params::nSubsidyHalvingInterval
  ActivationHeight,   \* Params::activationHeights, a function from feature name
  Tier1Hashrate       \* Params::minerBoost.tier1_hashrate, in milli-TH/s

ASSUME /\ InitialSubsidy \in Nat /\ HalvingInterval \in Nat \ {0}
       /\ Tier1Hashrate \in Nat

\* The fixed fields of Params::MinerBoost and Params::PoDD (params.h 46-86).
Tier2Hashrate == 10000
Tier3Hashrate == 100000
VerifiedDeviceBonus == 110          \* nVerifiedDeviceBonus = 1.1, in percent

\* The fields of RewardBreakdown a CalculateReward call may leave unassigned.
OptionalFields == {"small", "podd", "squad"}

(***************************************************************************)
(* C++ arithmetic.  Integer division truncates toward zero; a right shift  *)
(* of a non-negative int64 halves it.  `subsidy >>= halvings` with a count *)
(* of 64 or more, or a negative one, is undefined; the x86-64 and AArch64  *)
(* builds shift by the count's low six bits, which is halvings % 64.       *)
(***************************************************************************)
TruncDiv(a, b) == IF a >= 0 THEN a \div b ELSE -((-a) \div b)

RECURSIVE ShiftRight(_, _)
ShiftRight(x, k) == IF k = 0 \/ x = 0 THEN x ELSE ShiftRight(x \div 2, k - 1)

\* static_cast<int64_t>(b * p) for b >= 0 and a double p = pct/100 exactly.
MulTrunc(b, pct) == (b * pct) \div 100

\* The same for the double just below pct/100 (the product rounds below
\* every whole value, checked against IEEE doubles for b up to 2 * 10^5).
MulTruncBelow(b, pct) == IF b > 0 THEN (b * pct - 1) \div 100 ELSE 0

(***************************************************************************)
(* Params::IsFeatureActive: an unknown feature is inactive.                *)
(***************************************************************************)
IsFeatureActive(feature, height) ==
  feature \in DOMAIN ActivationHeight /\ height >= ActivationHeight[feature]

\* Params::GetMinerBoostMultiplier, in percent.
GetMinerBoostMultiplier(hashrate) ==
  CASE hashrate < Tier1Hashrate -> 200
    [] hashrate < Tier2Hashrate -> 150
    [] hashrate < Tier3Hashrate -> 120
    [] OTHER                    -> 100

GetMinerTier(hashrate) ==
  CASE hashrate < Tier1Hashrate -> 1
    [] hashrate < Tier2Hashrate -> 2
    [] hashrate < Tier3Hashrate -> 3
    [] OTHER                    -> 4

GetHalvingEpoch(height) == TruncDiv(height, HalvingInterval)

(***************************************************************************)
(* GetBaseSubsidy.  m_subsidy_cache only memoises this pure function of    *)
(* the height (the params are a private copy), so it is left out.          *)
(***************************************************************************)
GetBaseSubsidy(height) ==
  ShiftRight(InitialSubsidy, GetHalvingEpoch(height) % 64)

\* base * (multiplier - 1.0); the tier-3 difference is the double below 0.2.
CalculateSmallMinerBonus(hashrate, base) ==
  LET pct == GetMinerBoostMultiplier(hashrate) - 100
  IN  IF pct = 20 THEN MulTruncBelow(base, pct) ELSE MulTrunc(base, pct)

CalculatePoDDBonus(verified, deviceCount, base) ==
  IF ~verified \/ deviceCount = 0
  THEN 0
  ELSE MulTrunc(base, (VerifiedDeviceBonus - 100)
                      + (IF deviceCount < 10 THEN deviceCount ELSE 10))

\* The clamp with only its lower bound, std::max(0.0, efficiency_score).
CalculateEfficiencyBonusLowerOnly(score, base) ==
  (base * (IF score < 0 THEN 0 ELSE score) * 5) \div 10000

\* The score is clamped to [0,1] before taking 5% of it.  In percent of
\* percent: base * score% * 5% = base * score * 5 / 10^4.
CalculateEfficiencyBonus(score, base) ==
  LET clamped == IF score < 0 THEN 0 ELSE IF score > 100 THEN 100 ELSE score
  IN  (base * clamped * 5) \div 10000

CalculateSquadBonus(member, squadSize, base) ==
  IF ~member \/ squadSize < 2
  THEN 0
  ELSE MulTrunc(base, IF 2 * squadSize < 20 THEN 2 * squadSize ELSE 20)

\* 1.0 - min(0.5, (c - 3) * 0.05), in percent.
CalculateAntiWhalePenalty(consecutive) ==
  IF consecutive <= 3 THEN 100
  ELSE 100 - (IF (consecutive - 3) * 5 < 50 THEN (consecutive - 3) * 5 ELSE 50)

\* The squad size CalculateReward uses for every member (line 66).
ExampleSquadSize == 5

(***************************************************************************)
(* CalculateReward(height, miner, tx_fees).  `RewardBreakdown breakdown;`  *)
(* leaves every field indeterminate; small_miner_bonus, podd_bonus and     *)
(* squad_bonus are assigned only when their feature is active (and the     *)
(* miner qualifies), yet all three are summed.  `uninit` gives the value   *)
(* each unassigned field happens to hold; `unassigned` records which ones  *)
(* the call left alone.                                                    *)
(***************************************************************************)
CalculateReward(height, miner, txFees, uninit) ==
  LET base    == GetBaseSubsidy(height)
      setSmall == IsFeatureActive("small_miner_boost", height)
      setPodd  == IsFeatureActive("podd", height) /\ miner.verified
      setSquad == IsFeatureActive("squad_mining", height) /\ miner.squad
      small   == IF setSmall THEN CalculateSmallMinerBonus(miner.hashrate, base)
                 ELSE uninit.small
      podd    == IF setPodd THEN CalculatePoDDBonus(miner.verified, miner.devices, base)
                 ELSE uninit.podd
      eff     == CalculateEfficiencyBonus(miner.efficiency, base)
      squad   == IF setSquad THEN CalculateSquadBonus(miner.squad, ExampleSquadSize, base)
                 ELSE uninit.squad
      before  == base + small + podd + eff + squad
      gross   == TruncDiv(before * CalculateAntiWhalePenalty(miner.consecutive), 100)
                 + txFees
      community   == TruncDiv(gross, 10)
      development == TruncDiv(gross, 20)
  IN  [base |-> base, small |-> small, podd |-> podd, efficiency |-> eff,
       squad |-> squad, fees |-> txFees,
       community |-> community, development |-> development,
       total |-> gross - (community + development),
       unassigned |-> {f \in OptionalFields :
                         \/ f = "small" /\ ~setSmall
                         \/ f = "podd"  /\ ~setPodd
                         \/ f = "squad" /\ ~setSquad}]

ValidateRewardBreakdown(b) ==
  /\ b.total >= 0
  /\ b.small + b.podd + b.efficiency + b.squad <= b.base * 3
  /\ b.community >= 0 /\ b.development >= 0

\* base * (2.0 + 0.2 + 0.05 + 0.2); the double sum is 2.45 exactly.
GetMaxPossibleReward(height) == MulTrunc(GetBaseSubsidy(height), 245)

\* DynamicRewardAdjuster::GetEmergencyAdjustment, shares and result in percent.
GetEmergencyAdjustment(topMinerPct) ==
  CASE topMinerPct > 30 -> 50
    [] topMinerPct > 20 -> 80
    [] OTHER            -> 100

=============================================================================
