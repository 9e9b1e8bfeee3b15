---------------------------- MODULE MCRiskControl ----------------------------
(* Instances of RiskControl: losses of 1 and 2 and a profit, for a limit of  *)
(* two losses or an amount of 2.                                           *)
EXTENDS RiskControl, TLC

PnlSmall == {-2, -1, 1}
PnlOne   == {-1, 1}
=============================================================================
