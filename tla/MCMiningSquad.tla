---------------------------- MODULE MCMiningSquad ----------------------------
(***************************************************************************)
(* Constants of MiningSquad for TLC: eleven ids, one more than a squad     *)
(* holds, and three squads FormMiningSquad can store: the smallest, a      *)
(* full one, and one a single add away from full.                          *)
(***************************************************************************)
EXTENDS MiningSquad

CONSTANTS d1, d2, p1, p2, p3, p4, p5, p6, p7, p8, p9

MCDeviceIds == {d1, d2, p1, p2, p3, p4, p5, p6, p7, p8, p9}
MCInitialSquads ==
  { <<d1, d2>>,
    <<p1, p2, p3, p4, p5, p6, p7, p8, p9>>,
    <<d1, p1, p2, p3, p4, p5, p6, p7, p8, d2>> }
=============================================================================
