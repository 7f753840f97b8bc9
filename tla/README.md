# TLA+ models of SyntheticCoin (SYNC): Proof-of-Device-Distribution

This directory holds TLA+ models of the SYNC miner software and the TLC
configurations that check them. They cover:

- the PoDD engine in `src/sync-blockchain/src/podd/device_verifier.{h,cpp}`:
  the verifier, squads and the ownership registry;
- the reward calculator and its statistics in `src/src/mining/`, with the
  consensus parameters;
- the programs that drive them: the block loops of `sync-main.cpp` and
  `sync-simple.cpp`, the `syncd` daemon, `sync-cli calcreward` and
  `sync-demo`, composed in one module.

## The system

| Part | Source | What it does |
|---|---|---|
| Fingerprint | `device_verifier.h` 19-60, `.cpp` 26-83 | Telemetry profile of one device. `CalculateSimilarity` scores two profiles in [0,1]. |
| Timing analysis | `.cpp` 121-170 (`DeviceVerifier::Impl`) | Shannon entropy of pooled samples in 1 ms buckets, and the coefficient-of-variation test for synchronised devices. |
| DeviceVerifier | `.cpp` 172-416 | Registry of fingerprints (`m_devices`, `m_registration_times`) and squads (`m_squads`). Handles register, fold share, verify distribution, detect spoofing, reward multiplier, form squad. |
| MiningSquad | `.cpp` 86-119 | AddDevice, RemoveDevice, GetRewardShare on a squad. No program calls them. |
| DeviceRegistry | `.cpp` 419-465 | Process-wide singleton of device ownership: register, verify owner, transfer. Never reconciled with `DeviceVerifier`. |
| Reward calculator | `src/src/mining/reward_calculator.*`, `src/src/consensus/params.h` | Subsidy halving, small-miner, PoDD, efficiency and squad bonuses, anti-whale penalty, statistics. |
| Programs | `src/src/syncd.cpp`, `sync-cli.cpp`, `sync-demo.cpp`; `sync-blockchain/src/sync-{main,simple}.cpp` | Single-threaded loops and commands that call the above and print results. |

Every method of the engine and the calculator is synchronous and runs to
completion on the caller's thread. No program in the repository calls it from more than one
thread: `syncd` has a signal flag and nothing else. So one method call is one
atomic step, and the models have no interleaving inside a call. Spec §5 asks
for locking against concurrent callers. The code has none, and no caller
needs it.

## Modules

- **PoddNumerics**: integer fixed-point versions of the two libm calls.
  - `ExpNeg(d,k)` is 10^4·e^(−d/k), from a Taylor series and whole-unit
    peeling.
  - `Log2Fixed(x)` is 2^14·log2 x, computed bit by bit.
  - TLC has only 32-bit integers. The errors are a few units of the scale,
    checked against Python while building the model.
- **DeviceFingerprint**: the fingerprint record type and
  `CalculateSimilarity`, scaled by 10^6.
  - The code subtracts the `uint64_t`/`uint32_t` fields before `std::abs`.
    The model keeps that: `DecayOfUnsignedDiff` is 0 whenever the first
    operand is smaller, because the wrapped difference is at least 2^32 − 2^18
    and exp of minus that underflows to 0.
  - Fields no decision reads are left out: temperature, memory, traceroute,
    uptime, restarts and the nonce-pattern fields.
- **TimingAnalysis**: `PooledTimings`, `TimingEntropyBelowTwo` and
  `DetectSynchronizedTiming`, as exact integer inequalities.
  - Entropy test: H < 2 iff n·log2 n − Σ c·log2 c < 2n.
  - Variation test: CV < 0.1 iff 100(nQ − S²) < S².
  - Samples are whole milliseconds, which the MC module ASSUMEs, so the
    sums fit in 32 bits.
- **DeviceVerifier**: the state machine.

  | Variable | Code |
  |---|---|
  | `devices` | `m_devices` |
  | `regTime` | `m_registration_times` |
  | `squads` | `m_squads`, kept as a sequence in creation order |
  | `now` | `steady_clock::now()`, in minutes |
  | `initialFp`, `shareLog` | history variables that only the properties read |

  | Action | Code |
  |---|---|
  | `RegisterDevice` | `RegisterDevice` |
  | `UpdateDeviceFingerprint` | `UpdateDeviceFingerprint`, the whole handler: ring shift, average, nonce window, power, hashrate, last_seen, the ip guard, the latency EMA |
  | `FormMiningSquad` | `FormMiningSquad` |
  | `Tick` | the clock moves to a later reading |

  - Calls that return early without a change are stuttering steps.
  - `VerifyDeviceDistribution` returns the result record with confidence
    in hundredths. It keeps the code's order of deductions, its
    invalidation rule and its single clamp.
    - Pairs are named the way the code names them: `device_ids[i]`, where i
      indexes the resolved fingerprints.
    - `ulpBelow` marks the one path where double arithmetic moves
      confidence off its decimal value: no sync, one similar pair, low
      diversity and low entropy give 0.29999999999999993.
  - `DetectSpoofing`, `GetDeviceRewardMultiplier` and `GetDeviceHashrate`
    are operators over the state.
- **MiningSquad**: one squad's `member_devices` as a sequence. Actions:
  `AddDevice` and `RemoveDevice`, through `Call`, which counts calls up to
  `MaxCalls`. A call that returns false changes nothing, so it is a
  stuttering step. `GetRewardShare` is an operator returning a fraction.
  The squad starts as one `FormMiningSquad` could store.
- **DeviceOwnership** is the abstract contract of the registry, stated as
  calls and the booleans they return: `registry` maps a device to
  [info, owner], and `reply` is the last call with its result. A
  registration of a known device returns false and changes nothing; a
  transfer returns true, and moves the device, exactly when the device is
  known and `from` is its owner.
- **DeviceRegistry** is the `DeviceRegistry` singleton. `registrations` is
  `m_registrations`.
  - Actions: `RegisterDevice` and `TransferDevice`, each with its early
    return (a failed call changes no entry). `lastCall` records the call
    and the bool it returned.
  - Operators: `VerifyDeviceOwnership`, `GetOwnerDevices` and
    `GetTotalRegisteredDevices`.
  - A `DeviceRegistration` is `[device_id, info, owner]`. `info` stands for
    the fields no method reads, the signature included.
  - `Ownership == INSTANCE DeviceOwnership WITH registry <- ...` maps each
    entry to its info and owner, and `reply` to `lastCall`.
    `ImplementsOwnership` asserts `Ownership!Spec`.
  - `MCDeviceRegistry` drives the registry with `CliRegistration(id)`, the
    record `sync-cli registerdevice` builds, and with registrations by a
    second owner.
- **RewardCalculator** holds pure operators for `RewardCalculator`,
  `Params` and `DynamicRewardAdjuster::GetEmergencyAdjustment`.
  - Units:
    - amounts are in units of 10^6 satoshi, so `InitialSubsidy = 5000` is
      50 SYNC and fits in TLC's 32-bit integers;
    - hashrates are in milli-TH/s;
    - multipliers, efficiency and the penalty are in percent.
  - A double product cast to `int64_t` truncates the exact product. The one
    exception is tier 3's `1.2 - 1.0`: that double lies below 0.2, and
    `MulTruncBelow` loses one unit whenever base·0.2 is whole. Both forms
    were compared with IEEE doubles for every base up to 2·10^5.
  - The anti-whale multipliers for 9 and 10 consecutive blocks deviate
    irregularly, so the inputs avoid those two counts.
  - `GetBaseSubsidy` shifts by `halvings % 64`, which is what the x86-64 and
    AArch64 builds do with the undefined shift. The subsidy cache only
    memoises this pure function and is left out.
  - `CalculateReward` returns the breakdown record. An optional bonus the
    call does not assign takes the value given in `uninit`, and the record
    lists it in `unassigned`.
- **SyncMainLoop** is sync-main's `Start` loop.
  - `GenerateBlock` increments `block_height` and prices a block for
    `bitaxe_miner`. The fields the code never sets (`is_squad_member`,
    `efficiency_score`, `consecutive_blocks`) are chosen from small sets of
    values an uninitialised slot may hold.
  - `SignalHandler` sets `shutdown_requested`.
  - The 300 s wait is not modelled: an iteration that finds too little time
    elapsed changes nothing the model keeps.
- **RewardStatistics** models the statistics tracker.
  - `RecordReward` appends a record and adds the total to
    `m_miner_totals`. The model records rewards that `CalculateReward`
    prices for four miners with three addresses.
  - `GetStatistics` computes the sums, the Gini coefficient as
    [wraps of 2^64, exact part], the Herfindahl index as a fraction, and
    the Nakamoto coefficient.
- **ConsensusParams**: the activation heights and tier-1 bound of
  `Params`, `TestNetParams` (every feature at 1, tier 1 at 0.1 TH/s) and
  `RegTestParams` (tier 1 at 0.001 TH/s), indexed by network name.
- **SyncDemo**: sync-demo's own `SimplePoDDVerifier::VerifyDevices` and
  `SimpleRewardCalculator::CalculateReward` as operators, and each demo
  (`DemoPoDD`, `DemoRewards`, `DemoSquadMining`, `ShowNetworkStats`) as
  the value it computes from the constants in the source. Reward parts are
  in percent of the 50 SYNC base; variances in hundredths. At that scale
  the demo's doubles are exact: `0.25 - 0.15` is the double `0.1`.
- **SyncPrograms** composes the five programs. One
  process runs one program, chosen in `Init` with its options (network,
  `--devices` list, `--showreward`, the demo command). Each program reaches the calculator
  through `RC(net)`, an instance of RewardCalculator under that network's
  Params.

  | Action | Code |
  |---|---|
  | `MainBlock` | sync-main's `Start` loop body (`SyncMainLoop!GenerateBlock`) |
  | `Signal` | the SIGINT/SIGTERM handler of sync-main, syncd and sync-simple |
  | `LoopExit` | the `while (!flag)` test failing; the program returns |
  | `NodeInitialize` | `SyncNode::Initialize`: registers the `--devices` ids |
  | `NodeShowExampleReward` | `ShowExampleReward`: prices height 1000 for a 0.5 TH/s verified miner, then `main` returns |
  | `NodeRun` | `main` calls `Run` when `--showreward` is absent |
  | `CliCalculateReward` | `SyncCLI::CalculateReward` at height 1000 on mainnet |
  | `StartPhase` (in `Init`) | each `main`'s early returns: `--help`, `--version`; sync-cli with no command or no hashrate; sync-demo's unknown command |
  | `RunDemo` | sync-demo's `main` calling its next demo; the last one returns |
  | `SimpleBlock` | sync-simple's loop body: a share every 3rd block, stats every 10th |

  `syncd` and `sync-cli` leave `is_squad_member` and `consecutive_blocks`
  unset, so `SyncdMiner` and `CliMiner` choose them from the same
  uninitialised-value sets as sync-main.
  `sync-main` uses the mainnet `Params` whatever `--testnet` says: that flag
  only shortens the block interval, which is not modelled.
- **MCSyncPrograms**: device ids `x1`, `x2` as model values; `--devices`
  lists `<<>>`, `<<x1>>`, `<<x1,x1>>`, `<<x1,x2>>`; cli hashrates 0.5, 5 and
  150 TH/s (tiers 1, 2 and 4); demo comparison hashrates on each side of
  every tier bound (0.999/1, 9.999/10, 99.999/100 TH/s) and device counts
  0-12, past both PoDD caps.
- **MCDeviceVerifier**: constants for TLC.
  - Fingerprints: `F1`; its clone `F1Slower`, 1 µs slower; and `F3`, a
    different device on another network.
  - Shares: one share without an ip and with a latency, and one with a new
    ip, a new efficiency and no latency.
  - The id vectors are every sequence of length 1-3 over the ids, repeats
    included.

## Runs

| Run | Expect | What it shows |
|---|---|---|
| `verifier_core` (`MCDeviceVerifier.cfg`) | pass | See the list below. |
| `verify_order` (`MCVerifyOrder.cfg`) | violation | `VerifyOrderInsensitive`: verifying `<<d1,d2>>` and `<<d2,d1>>` gives different verdicts when the devices' average nonce times differ by 1 µs. The unsigned wrap makes similarity asymmetric, against spec §4.1 and §8. |
| `suspicious_pairs` (`MCSuspiciousPairs.cfg`) | violation | `SuspiciousPairsAreSimilar`: with an unregistered id first, the reported pair names the unregistered id. Line 281 indexes `device_ids` with fingerprint indices. |
| `squad_duplicates` (`MCSquadDistinct.cfg`) | violation | `SquadMembersDistinct`: `FormMiningSquad(<<d1,d1>>)` scores 0.5, which is not spoofing, and stores a one-device squad. Spec §3 says members are unique. |
| `programs` (`MCSyncPrograms.cfg`) | pass | `AllAssignedRewardsValid`: every reward that sync-main (2001 mainnet blocks), syncd (each network, device list and option) computes with all fields assigned passes `ValidateRewardBreakdown` and stays within `GetMaxPossibleReward`, whatever the unset fields hold. sync-cli prices at height 1000, where `squad_bonus` is never assigned, so the property says nothing about its rewards. `ShutdownEndsProgram`: a signal always leads to the program's end. `DemoMatchesCalculator`: sync-demo's boost tiers equal the mainnet calculator's on both sides of every bound, and every PoDD rate the demo credits equals `CalculatePoDDBonus`'s. It admits the demo's one-device case, where the demo credits nothing and the calculator pays 11% (see below). |
| `reward_uninit` (`MCRewardUninit.cfg`) | violation | `RewardWithinMax`: at height 1, PoDD (active from 1000) and squad mining are inactive, so `podd_bonus` and `squad_bonus` are never assigned. In TLC's trace `podd_bonus` holds 100000 units of garbage, which enter the total of the first block, 93500 against a maximum of 12250. |
| `subsidy_wrap` (`MCSubsidyWrap.cfg`) | violation | `SubsidyNonIncreasing`: with a halving every 2 blocks, the subsidy reaches 0 and then returns to 50 SYNC at height 128 (epoch 64). On mainnet that is height 13,440,000. |
| `reward_statistics` (`MCRewardStatistics.cfg`) | pass | `TypeOK`, `NakamotoMinimal` and `HerfindahlInRange` hold over every sequence of up to 4 records. |
| `gini_wrap` (`MCGini.cfg`) | violation | `GiniInUnitRange`: with two miners, the size_t coefficient −1 wraps, so the Gini sum is about 2^64 and the coefficient about 5.5e8. |
| `squad_membership` (`MCMiningSquad.cfg`) | pass | `SharesSumToOne`, over every 3 calls on squads of 2, 9 and 10 members with 11 ids. |
| `squad_size` (`MCSquadSize.cfg`) | violation | `SquadSizeWithinBounds`: `RemoveDevice` takes a 2-member squad to 1. Spec §3 says adjustments keep the 2-10 bound. |
| `registry_refinement` (`MCDeviceRegistry.cfg`) | pass | `ImplementsOwnership`: `DeviceRegistry` refines `DeviceOwnership`, for 3 devices, 3 owners and 2 kinds of data: no re-registration, not even of the owner alone, and no transfer with the wrong `from` changes an entry or reports success. Its mutants are `RegisterDevice` without the `find` test and `TransferDevice` without the owner test. |

The `verifier_core` run checks three invariants and one action property over
every sequence of registrations, shares, squad formations and clock readings
for two devices:

- `WindowsHoldLatest`: the ring holds the newest RingSize timestamps, and
  the nonce list the newest NonceCap nonces.
- `VerifyResultWellFormed`: for every id vector, confidence is in [0,1], and
  a valid verdict has no pairs and confidence ≥ 0.5.
- `RegistrationPermanent`: a registration is never reset.

`NakamotoMinimal` compares the greedy sort-and-count with the definition:
the least number of addresses whose totals exceed half of all rewards,
found over all subsets. Both read only `m_miner_totals`, so it checks the
sort and the count, not their agreement with `m_records`. `HerfindahlInRange` holds only if every record
reaches the per-address totals exactly once.

Each property of a passing run has a mutant in `PROJECT.json` that TLC must
catch:

- a dropped guard or duplicate test;
- an off-by-one in the shift loop;
- a missing clamp bound;
- a total overwritten instead of added, or an address never inserted;
- the Nakamoto sort in the wrong direction.

## Bounds and why they suffice

- **Devices.** The verifier run uses 2 devices and id vectors of length up
  to 3 with repeats. That reaches one, two and three similar pairs, so
  confidence goes below zero before the clamp, with low diversity (1 ip for
  3 entries) and low entropy.
- **Windows.** `RingSize = 3` and `NonceCap = 1` stand in for 10 and 100.
  The loops do not depend on the size. With `MaxShares = 2`, both windows
  evict: two of the three initial ring entries are pushed out (one always
  survives, so the ring never holds shares only), and the nonce window
  trims after the second share. Three 1 ms-bucket samples per device keep the
  entropy and CV decisions reachable both ways: `F1` with `F3` pools 6
  buckets, so H ≥ 2.
- **Clock.** The readings {0, 30, 1440, 1445} cover:
  - registration, then the 24 h cooldown passing;
  - a share at 1440 followed by a reading 5 minutes later, inside the
    10-minute window;
  - 30 minutes, which separates hours from minutes.
- **Verifier squads.** `MaxSquads = 1`. Each formation is independent of
  earlier squads, because nothing reads `m_squads`.
- **Block loop.** `MaxHeight = 2001` (in `programs`, and shared by
  sync-simple, whose share and stats periods 3 and 10 repeat every 30 blocks) passes every mainnet activation height:
  small miner at 1, device registry at 500, PoDD at 1000 and squads at 2000.
  `subsidy_wrap` uses a halving interval of 2 and 130 blocks, so epoch 64
  is reached. The shift depends only on the epoch.
- **Statistics.** 4 records for 3 addresses give repeated addresses, ties
  and every order. The four miners cover all four tiers, with and without
  PoDD, squad and penalty.
- **MiningSquad.** Squads of 2, 9 and 10 members with 11 ids and 3 calls
  reach:
  - the cap from both sides (9 + 1, 10 + 1);
  - a repeated add and a remove of a non-member;
  - the minimum from below (2 − 1).
- **Registry.** 3 devices and 3 owners. Transfers can go to an owner that
  registered nothing, back to the original owner, and from the wrong owner.

## Fairness and liveness

Only `SyncPrograms` states liveness: `ShutdownEndsProgram`, a signal
leads to the program's end. Its `Fairness` is weak fairness on:

- `LoopExit`. Each loop re-reads its `std::atomic<bool>` flag at least once
  a second (sync-main every second, syncd every second, sync-simple every
  second) and never blocks otherwise. Because the flag is atomic, the compiler
  may not hoist the read out of the loop. The mutant `LoopExitHoisted` (a
  plain `bool` read once) breaks the property.
- the straight-line steps of `main`: `NodeInitialize`, `NodeRun`,
  `NodeShowExampleReward`, `CliCalculateReward`, `RunDemo`. These are bounded
  computations with no wait.

Blocks and signals are not fair. A signal may never come, and a signal may
stop the loop before any block, so block production is not guaranteed.

Runs set `CHECK_DEADLOCK FALSE` where a bound (shares, calls, records,
heights) or a shutdown ends a behaviour. The code itself never blocks.

## Not modelled, and why

- `GetFingerprintHash` is a string digest that no decision reads.
- Some helpers are declared but never defined:
  - in the engine: the KS statistic, mutual information and the consistency
    checks;
  - in the calculator: `DistributeSquadReward`, `PruneOldData`,
    `GetTopMiners`, `GetTierDistribution` and `CalculateOptimalParameters`.
  - The engine's unused `m_verification_cache` has nothing to model either.
- `TransferDevice` trusts the caller's `from` address and never checks the
  registration's `signature`. The code has no notion of a caller beyond
  that argument, so the contract can require only that `from` names the
  owner, not that the owner made the call.
- `sync-cli formsquad` prints success without calling `FormMiningSquad`.
  It changes no state.
- `sync-cli verifypodd` registers, in a fresh verifier, fingerprints that
  are default-initialised: only the id, `avg_nonce_time_us`,
  `timing_variance_us` and the ip come from `rand()`. The ten uint64
  `timing_samples` hold whatever the stack held, and the entropy test pools
  them. Any set of such values small enough for TLC's 32-bit integers
  would decide the test by the choice of the set, not by the code. The
  verdict is only printed.
- `sync-cli getdecentralization` prints `CalculateDecentralizationScore()`,
  the constant 0.75, and fixed example metrics. `getinfo`, `getblockcount`,
  `getdifficulty`, `getmininginfo` and `listdevices` print constants or the
  registry's size.
- `syncd` registers fingerprints with only `device_id`, `firmware_version`
  and `chip_count` set. It never reads them again: no verification,
  multiplier or spoofing check follows. So the model keeps only the set of
  registered ids, and the uninitialised timing fields have no effect.
  `--datadir` creation is file-system I/O.
- `sync-simple`'s `ShowStats` only prints. Its division by `shares_found`
  cannot be 0/0: the first stats block (10) follows the first share block
  (3) whatever the run does, so there is nothing to check. Its other
  counters only feed that text.
- Two sync-demo disagreements are found in the model but not run as
  violations, because every run is in use (see `PROJECT.json` hazards):
  - `DemoPoDD` evaluates to `<<FALSE, FALSE>>`. The "5 Real Bitaxe Devices"
    scenario fails its own timing check: the spread is `0.25 - 0.15`,
    exactly `0.1`, and the check is `> 0.1`. So the demo prints "FAILED -
    Possible spoofing" for the devices it presents as genuine.
  - The demo credits PoDD only for more than one device. The calculator
    pays 11% from one device, so the "Single Bitaxe" row lacks a bonus the
    chain pays. `DemoMatchesCalculator` checks every rate the demo does
    credit, and admits this omission.
  - The squad contribution percentages and the per-TH/s comparison are
    printed arithmetic on the same values, and are left out.
- Reason strings, logging and printing are left out.

## Plan

Done:

1. DeviceVerifier core: registry, share folding, verification, spoofing,
   squads, multiplier. Three disagreements with the spec were found.
2. MiningSquad membership, DeviceRegistry with its refinement of the
   abstract ownership spec, the reward calculator, statistics and
   sync-main's loop. Three code bugs and one divergence from the spec were
   found.

3. `ConsensusParams` and `SyncPrograms`: syncd, `sync-cli calcreward`,
   sync-simple and sync-main composed, with the first liveness property
   under justified fairness.
4. `SyncDemo`: sync-demo's verifier and reward formula, checked against
   the calculator (`DemoMatchesCalculator`) and composed as a fifth
   program.

Next:

5. A numerics run checking `ExpNeg` and `Log2Fixed` against their defining
   identities over bounded inputs.
