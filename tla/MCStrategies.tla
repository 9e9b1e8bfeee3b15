---------------------------- MODULE MCStrategies ----------------------------
(* Instances of Strategies.                                                *)
EXTENDS Strategies, TLC
=============================================================================
