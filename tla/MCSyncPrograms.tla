--------------------------- MODULE MCSyncPrograms ---------------------------
(***************************************************************************)
(* Constants of SyncPrograms for TLC.  Amounts count units of 10^6         *)
(* satoshi (50 SYNC is 5000); hashrates are in milli-TH/s.                 *)
(***************************************************************************)
EXTENDS SyncPrograms

CONSTANTS x1, x2

MCInitialSubsidy == 5000

\* --devices: none, one, a repeated id, two ids.
MCDeviceLists == {<<>>, <<x1>>, <<x1, x1>>, <<x1, x2>>}

\* calcreward 0.5, 5 and 150 TH/s: tiers 1, 2 and 4.
MCCliHashrates == {500, 5000, 150000}

\* sync-demo's formula is compared on each side of every tier bound, on
\* the squad's 2.26 TH/s, and on device counts past both PoDD caps.
MCDemoHashrates == {0, 999, 1000, 2260, 9999, 10000, 99999, 100000, 150000}
MCDemoDeviceCounts == 0..12

MCUninitInt64 == {0, 100000}
MCUninitScores == {-50, 80, 4000}
MCUninitCounts == {0, 100000}
=============================================================================
