------------------------------ MODULE SyncDemo ------------------------------
(***************************************************************************)
(* sync-demo (src/src/sync-demo.cpp): a demo with its own PoDD check and   *)
(* reward formula, independent of the engine and of Mining::              *)
(* RewardCalculator.  Each demo computes from constants in the source and  *)
(* prints; the model keeps what each computes and leaves out the text.    *)
(*                                                                         *)
(* Units: timing variances in hundredths, hashrates in milli-TH/s (the    *)
(* unit of RewardCalculator), reward parts in percent of the 50 SYNC base, *)
(* the decentralisation score in units of 10^-4.  The doubles the demo    *)
(* compares are exact at these scales: 0.25 - 0.15 is the double 0.1, and  *)
(* 0.11 - 0.10 lies below it.                                              *)
(***************************************************************************)
EXTENDS Integers, Sequences, FiniteSetsExt, Functions

\* SimplePoDDVerifier::DeviceInfo.
DeviceInfo(id, ghs, variance, ip, pattern) ==
  [id |-> id, hashrate |-> ghs, variance |-> variance, ip |-> ip,
   pattern |-> pattern]

\* The values of one field over a device vector.
FieldValues(devs, f) == {devs[i][f] : i \in DOMAIN devs}

\* SimplePoDDVerifier::VerifyDevices: fewer than two devices pass; else the
\* variance spread must exceed 0.1, more than half the devices need their
\* own ip, and there must be two nonce patterns.
VerifyDevices(devs) ==
  \/ Len(devs) < 2
  \/ LET vs == FieldValues(devs, "variance")
     IN  /\ Max(vs) - Min(vs) > 10
         /\ Cardinality(FieldValues(devs, "ip")) > Len(devs) \div 2
         /\ Cardinality(FieldValues(devs, "pattern")) > 1

\* DemoPoDD's two scenarios: five real Bitaxes and an Antminer posing as five.
RealDevices ==
  << DeviceInfo("BITAXE_001", 500, 15, "192.168.1.101", 1),
     DeviceInfo("BITAXE_002", 480, 22, "192.168.1.102", 2),
     DeviceInfo("BITAXE_003", 510, 18, "10.0.0.5", 1),
     DeviceInfo("BITAXE_004", 495, 25, "172.16.0.10", 3),
     DeviceInfo("BITAXE_005", 505, 20, "192.168.2.50", 2) >>
FakeDevices ==
  [i \in 1..5 |-> DeviceInfo(i, 500, IF i % 2 = 0 THEN 11 ELSE 10,
                             "192.168.1.100", 1)]

\* The verdicts DemoPoDD prints, real scenario first.
DemoPoDD == <<VerifyDevices(RealDevices), VerifyDevices(FakeDevices)>>

\* The boost tier with <= at each bound.
BoostMultiplierInclusive(h) ==
  CASE h <= 1000 -> 200 [] h <= 10000 -> 150 [] h <= 100000 -> 120 [] OTHER -> 100

\* SimpleRewardCalculator's boost tiers, in percent.
BoostMultiplier(h) ==
  CASE h < 1000 -> 200 [] h < 10000 -> 150 [] h < 100000 -> 120 [] OTHER -> 100

\* SimpleRewardCalculator's PoDD bonus: 10% plus 1% per device, for a
\* verified miner with more than one device, capped at 20%.
PoddBonus(verified, deviceCount) ==
  IF verified /\ deviceCount > 1 THEN Min({10 + deviceCount, 20}) ELSE 0

\* SimpleRewardCalculator::CalculateReward, in percent of the base reward;
\* the multiplier total / base is then the total itself.
CalculateReward(h, verified, deviceCount) ==
  LET small == BoostMultiplier(h) - 100
      podd  == PoddBonus(verified, deviceCount)
  IN  [base |-> 100, small |-> small, podd |-> podd,
       total |-> 100 + small + podd]

\* DemoRewards' four miners.
RewardCases ==
  << [h |-> 500,    verified |-> TRUE,  devices |-> 1],
     [h |-> 2500,   verified |-> TRUE,  devices |-> 5],
     [h |-> 25000,  verified |-> FALSE, devices |-> 0],
     [h |-> 150000, verified |-> FALSE, devices |-> 0] >>

\* DemoRewards: the table, then the per-TH/s comparison of a Bitaxe with a
\* large farm (which repeats the first and last rows).
DemoRewards ==
  [i \in DOMAIN RewardCases |->
     CalculateReward(RewardCases[i].h, RewardCases[i].verified,
                     RewardCases[i].devices)]

\* DemoSquadMining: five members of 500, 480, 520, 250 and 510 GH/s; a
\* solo 0.5 TH/s miner without PoDD against the squad's total hashrate,
\* verified, with one device per member.
SquadHashratesGhs == <<500, 480, 520, 250, 510>>
DemoSquadMining ==
  LET total == SumFunction(SquadHashratesGhs)
  IN  <<CalculateReward(500, FALSE, 1),
        CalculateReward(total, TRUE, Len(SquadHashratesGhs))>>

\* ShowNetworkStats' score: 0.4 of the small-miner share, 0.3 of one minus
\* the largest miner's share, 0.3 of min(1, nakamoto / 50); healthy above 0.7.
ShowNetworkStats ==
  LET smallPct == 80
      largestPermille == 85
      nakamoto == 25
      score == smallPct * 40 + (1000 - largestPermille) * 3
               + (Min({10000, (nakamoto * 10000) \div 50}) * 3) \div 10
  IN  [score |-> score, healthy |-> score > 7000]

\* main: no argument runs every demo in order; a command runs one.
Commands == {"podd", "rewards", "squad", "stats"}
DemosOf(cmd) ==
  IF cmd = "all" THEN <<"podd", "rewards", "squad", "stats">> ELSE <<cmd>>

\* What one demo computes.
DemoResult(d) ==
  CASE d = "podd"    -> DemoPoDD
    [] d = "rewards" -> DemoRewards
    [] d = "squad"   -> DemoSquadMining
    [] d = "stats"   -> ShowNetworkStats
====
