------------------------- MODULE MCActiveMasternode -------------------------
(***************************************************************************)
(* ActiveMasternode for TLC: two collateral coins, the second named in    *)
(* masternode.conf, one cold-wallet collateral, and coins one confirmation *)
(* short of maturity or mature at the start.                              *)
(***************************************************************************)
EXTENDS ActiveMasternode, TLC

CONSTANTS c1, c2, k1

MCCoinOrder == <<c1, c2>>
=============================================================================
