---------------------------- MODULE SyncPrograms ----------------------------
(***************************************************************************)
(* The programs that drive the reward calculator, composed: one process    *)
(* runs one of them, with the options it was started with.                 *)
(*                                                                         *)
(*  - sync-main (sync-main.cpp): the block loop of SyncMainLoop, mainnet   *)
(*    Params;                                                              *)
(*  - syncd (syncd.cpp): Initialize registers the --devices ids, then      *)
(*    --showreward prices one example block and returns, or Run idles      *)
(*    until a signal; --testnet and --regtest choose the Params;           *)
(*  - sync-cli calcreward <hashrate> (sync-cli.cpp): one reward at       *)
(*    height 1000, mainnet Params;                                         *)
(*  - sync-simple (sync-simple.cpp): a block loop that records a share     *)
(*    every third block and shows statistics every tenth.                 *)
(*                                                                         *)
(* The MinerInfo fields a program never sets are chosen from the Uninit    *)
(* sets.  syncd's DeviceVerifier keeps only the registered ids: syncd      *)
(* never reads the fingerprints it registers.  Time between iterations is  *)
(* not modelled.                                                           *)
(***************************************************************************)
EXTENDS Integers, Sequences, ConsensusParams

CONSTANTS
  InitialSubsidy, HalvingInterval,
  UninitInt64, UninitScores, UninitCounts,
  MaxHeight,       \* bound on block_height
  DeviceLists,     \* syncd --devices vectors
  CliHashrates,    \* sync-cli calcreward arguments, in milli-TH/s
  DemoHashrates,   \* hashrates on which sync-demo's formula is compared
  DemoDeviceCounts \* device counts on which it is compared

VARIABLES
  program,         \* the program this process runs
  opts,            \* its command-line options
  phase,           \* "init", "ready", "running" or "stopped"
  height,          \* block_height of the block loops
  reward,          \* the last RewardBreakdown the program computed
  shutdown,        \* shutdown_requested / g_shutdown
  nodeDevices,     \* syncd: the ids registered in m_device_verifier
  sharesFound,     \* sync-simple: SyncMiningStats::shares_found
  demoOut          \* sync-demo: what each demo run so far computed, in order

vars == <<program, opts, phase, height, reward, shutdown, nodeDevices, sharesFound,
          demoOut>>

\* The reward calculator under each network's Params.
RC(net) == INSTANCE RewardCalculator
             WITH ActivationHeight <- NetworkParams[net].activation,
                  Tier1Hashrate <- NetworkParams[net].tier1

\* sync-main's SyncBlockchain with its default (mainnet) Params.
Main == INSTANCE SyncMainLoop
          WITH ActivationHeight <- MainnetActivation,
               Tier1Hashrate <- NetworkParams["main"].tier1

\* sync-demo's own verifier and reward formula.
Demo == INSTANCE SyncDemo

Programs == {"sync-main", "syncd", "sync-cli", "sync-simple", "sync-demo"}

\* The programs that install a SIGINT/SIGTERM handler.
HasHandler == {"sync-main", "syncd", "sync-simple"}

\* Options each program may be started with (unused fields fixed).  exits
\* is an argument list on which main returns before any work: --help or
\* --version, or for sync-cli no command or calcreward without a hashrate,
\* or for sync-demo --help or an unknown command.
OptionsOf(p) ==
  CASE p = "syncd"    -> [network : Networks, devices : DeviceLists,
                          showreward : BOOLEAN, hashrate : {0}, command : {"none"},
                          exits : BOOLEAN]
    [] p = "sync-cli" -> [network : {"main"}, devices : {<<>>},
                          showreward : {FALSE}, hashrate : CliHashrates,
                          command : {"none"}, exits : BOOLEAN]
    [] p = "sync-demo" -> [network : {"main"}, devices : {<<>>},
                          showreward : {FALSE}, hashrate : {0},
                          command : Demo!Commands \cup {"all"}, exits : BOOLEAN]
    [] OTHER          -> [network : {"main"}, devices : {<<>>},
                          showreward : {FALSE}, hashrate : {0}, command : {"none"},
                          exits : BOOLEAN]

\* Where main leaves the process once the arguments are parsed: stopped on
\* an early return, in the block loop for sync-main and sync-simple, and
\* before Initialize or the command for syncd and sync-cli.
StartPhase(p, o) ==
  CASE o.exits                          -> "stopped"
    [] p \in {"sync-main", "sync-simple", "sync-demo"} -> "running"
    [] OTHER                             -> "init"

Init ==
  /\ program \in Programs
  /\ opts \in OptionsOf(program)
  /\ phase = StartPhase(program, opts)
  /\ height = 0
  /\ reward = Main!NoReward
  /\ shutdown = FALSE
  /\ nodeDevices = {}
  /\ sharesFound = 0
  /\ demoOut = <<>>

-----------------------------------------------------------------------------
\* sync-main: one iteration that generates a block.
MainBlock ==
  /\ program = "sync-main"
  /\ phase = "running"
  /\ Main!GenerateBlock
  /\ UNCHANGED <<program, opts, phase, nodeDevices, sharesFound, demoOut>>

\* The handler sets the atomic flag; a signal to a stopped process is moot.
Signal ==
  /\ program \in HasHandler
  /\ phase # "stopped"
  /\ Main!SignalHandler
  /\ UNCHANGED <<program, opts, phase, nodeDevices, sharesFound, demoOut>>

\* The loop condition read once at loop entry, as for a plain bool the
\* compiler keeps in a register: a flag set inside the loop is never seen.
LoopExitHoisted == FALSE

\* `while (!shutdown)` finds the flag set: the loop ends and the program
\* returns from main.
LoopExit ==
  /\ phase = "running"
  /\ shutdown
  /\ phase' = "stopped"
  /\ UNCHANGED <<program, opts, height, reward, shutdown, nodeDevices, sharesFound,
                 demoOut>>

\* syncd: SyncNode::Initialize.  Each --devices id is registered with a
\* fresh DeviceFingerprint; a repeated id fails and changes nothing.
NodeInitialize ==
  /\ program = "syncd"
  /\ phase = "init"
  /\ nodeDevices' = {opts.devices[i] : i \in DOMAIN opts.devices}
  /\ phase' = "ready"
  /\ UNCHANGED <<program, opts, height, reward, shutdown, sharesFound, demoOut>>

\* The miner of SyncNode::ShowExampleReward: 0.5 TH/s, one device,
\* verified, efficiency 0.8; is_squad_member and consecutive_blocks unset.
SyncdMiner(squad, consecutive) ==
  [hashrate |-> 500, verified |-> TRUE, devices |-> 1, squad |-> squad,
   efficiency |-> 80, consecutive |-> consecutive]

\* --showreward: price a block at height 1000, print it and return.
NodeShowExampleReward ==
  /\ program = "syncd"
  /\ phase = "ready"
  /\ opts.showreward
  /\ \E squad \in Main!UninitBools, consecutive \in UninitCounts,
        uninit \in [Main!OptionalFields -> UninitInt64] :
       reward' = RC(opts.network)!CalculateReward(1000,
                   SyncdMiner(squad, consecutive), 0, uninit)
  /\ phase' = "stopped"
  /\ UNCHANGED <<program, opts, height, shutdown, nodeDevices, sharesFound, demoOut>>

\* SyncNode::Run: enter the idle loop.
NodeRun ==
  /\ program = "syncd"
  /\ phase = "ready"
  /\ ~opts.showreward
  /\ phase' = "running"
  /\ UNCHANGED <<program, opts, height, reward, shutdown, nodeDevices, sharesFound,
                 demoOut>>

\* SyncCLI::CalculateReward's miner: the hashrate given, verified iff below
\* 1 TH/s, efficiency 0.8, no device ids; the rest unset.
CliMiner(hashrate, squad, consecutive) ==
  [hashrate |-> hashrate, verified |-> hashrate < 1000, devices |-> 0,
   squad |-> squad, efficiency |-> 80, consecutive |-> consecutive]

\* sync-cli calcreward: price a block at height 1000 and exit.  The
\* comparison with a value-initialised 100 TH/s miner is only printed.
CliCalculateReward ==
  /\ program = "sync-cli"
  /\ phase = "init"
  /\ \E squad \in Main!UninitBools, consecutive \in UninitCounts,
        uninit \in [Main!OptionalFields -> UninitInt64] :
       reward' = RC("main")!CalculateReward(1000,
                   CliMiner(opts.hashrate, squad, consecutive), 0, uninit)
  /\ phase' = "stopped"
  /\ UNCHANGED <<program, opts, height, shutdown, nodeDevices, sharesFound, demoOut>>

\* sync-simple: "Every 3rd block" MyBitaxe finds a share.
ShareBlock(h) == h % 3 = 0

\* sync-simple: one iteration that generates a block, then RecordShare on
\* a share block (ShowStats only reads).
SimpleBlock ==
  /\ program = "sync-simple"
  /\ phase = "running"
  /\ ~shutdown
  /\ height < MaxHeight
  /\ height' = height + 1
  /\ sharesFound' = IF ShareBlock(height + 1) THEN sharesFound + 1 ELSE sharesFound
  /\ UNCHANGED <<program, opts, phase, reward, shutdown, nodeDevices, demoOut>>

\* sync-demo: main calls the next demo of its command, and returns after
\* the last one.  The demos take no input and share no state.
RunDemo ==
  /\ program = "sync-demo"
  /\ phase = "running"
  /\ LET todo == Demo!DemosOf(opts.command)
     IN  /\ demoOut' = Append(demoOut, Demo!DemoResult(todo[Len(demoOut) + 1]))
         /\ phase' = IF Len(demoOut) + 1 = Len(todo) THEN "stopped" ELSE phase
  /\ UNCHANGED <<program, opts, height, reward, shutdown, nodeDevices, sharesFound>>

Next ==
  \/ RunDemo
  \/ MainBlock \/ SimpleBlock \/ Signal \/ LoopExit
  \/ NodeInitialize \/ NodeShowExampleReward \/ NodeRun
  \/ CliCalculateReward

(***************************************************************************)
(* Fairness.  Each loop re-tests its atomic flag every second and the main *)
(* thread never blocks, so a step that stays enabled is taken: the loop    *)
(* exit and syncd's and sync-cli's straight-line steps are weakly fair.    *)
(* Blocks and signals are not: the clock and the user decide.              *)
(***************************************************************************)
Fairness ==
  /\ WF_vars(LoopExit)
  /\ WF_vars(NodeInitialize) /\ WF_vars(NodeRun) /\ WF_vars(NodeShowExampleReward)
  /\ WF_vars(CliCalculateReward) /\ WF_vars(RunDemo)

Spec == Init /\ [][Next]_vars /\ Fairness

-----------------------------------------------------------------------------
(***************************************************************************)
(* Properties                                                              *)
(***************************************************************************)
(***************************************************************************)
(* Whichever program prices a block, under whichever network's Params,     *)
(* when CalculateReward assigned every field it sums the breakdown passes  *)
(* ValidateRewardBreakdown and stays within GetMaxPossibleReward (base     *)
(* times 2.45) plus fees, whatever the unset MinerInfo fields hold: the    *)
(* efficiency clamp and the anti-whale cap must hold the bonuses down.     *)
(***************************************************************************)
AllAssignedRewardsValid ==
  reward # Main!NoReward /\ reward.unassigned = {} =>
    /\ Main!ValidateRewardBreakdown(reward)
    /\ reward.total <= Main!MulTrunc(reward.base, 245) + reward.fees

(***************************************************************************)
(* A SIGINT or SIGTERM ends every program that installs a handler: once    *)
(* the flag is set, the process eventually stops, wherever it was (syncd   *)
(* still initialising, or inside a loop).                                  *)
(***************************************************************************)
ShutdownEndsProgram == shutdown ~> phase = "stopped"

(***************************************************************************)
(* sync-demo shows its own reward formula as the chain's.  When it runs,  *)
(* its boost tier is the calculator's mainnet GetMinerBoostMultiplier for  *)
(* every hashrate, tier bounds included, and whenever it credits a PoDD    *)
(* bonus that bonus is the rate CalculatePoDDBonus pays for the same       *)
(* miner, up to its cap.                                                   *)
(***************************************************************************)
DemoMatchesCalculator ==
  program = "sync-demo" =>
    \A h \in DemoHashrates, verified \in BOOLEAN, n \in DemoDeviceCounts :
      LET d == Demo!CalculateReward(h, verified, n)
      IN  /\ d.small = RC("main")!GetMinerBoostMultiplier(h) - 100
          /\ d.podd > 0 =>
               d.podd = RC("main")!CalculatePoDDBonus(verified, n, 100)

=============================================================================
