---------------------------- MODULE MCCostControl ----------------------------
(* A small instance of CostControl for TLC; the values are in the .cfg.    *)
EXTENDS CostControl
=============================================================================
