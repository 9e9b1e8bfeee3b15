---------------------------- MODULE MCLocalTPSL ----------------------------
(* Instances of LocalTPSL: one trailing stop, a take profit whose partial  *)
(* execution registers trailing stop 2, and a two-level ladder (take       *)
(* profits 1 and 2, stop loss 3).                                          *)
EXTENDS LocalTPSL, TLC

KindSolo  == <<"TS">>
GroupSolo == <<1>>
BatchSolo == {{1}}

KindPartial  == <<"TP", "TS">>
GroupPartial == <<1, 2>>
BatchPartial == {{1}}

KindLadder  == <<"TP", "TP", "SL">>
GroupLadder == <<1, 1, 1>>
BatchLadder == {{1, 2, 3}}
=============================================================================
