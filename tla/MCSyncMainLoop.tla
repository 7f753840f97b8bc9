--------------------------- MODULE MCSyncMainLoop ---------------------------
(***************************************************************************)
(* Constants of SyncMainLoop for TLC.  Amounts count units of 10^6         *)
(* satoshi, so nInitialSubsidy (50 SYNC) is 5000.  The rest of Params is   *)
(* the mainnet default that sync-main.cpp constructs.                      *)
(***************************************************************************)
EXTENDS SyncMainLoop, ConsensusParams

MCInitialSubsidy == 5000
MCTier1Hashrate == NetworkParams["main"].tier1

\* Halving every 2 blocks puts epoch 64 at block 128.
ShortHalvingInterval == 2

\* Stack garbage: a clean slot, and a left-over amount of 1000 SYNC.
MCUninitInt64 == {0, 100000}
\* An efficiency below 0, a plausible one, and 40.0 (4000%).
MCUninitScores == {-50, 80, 4000}
\* consecutive_blocks: no run, and a count far past the 50% cap.
MCUninitCounts == {0, 100000}
=============================================================================
