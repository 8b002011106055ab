---------------------------- MODULE MCStakingRounds ----------------------------
(***************************************************************************)
(* Small instances of StakingRounds for TLC.                               *)
(***************************************************************************)
EXTENDS RoundsProperties

CONSTANTS c1, c2, d1

================================================================================
