---------------------------- MODULE MCDaemonStart ----------------------------
(* Small instance of DaemonStart for TLC.                                  *)
EXTENDS DaemonStart, TLC

CONSTANTS d1, d2, k1, o1

TwoProcs == {d1, d2}
OneKey == {k1}
OneOverride == d1 :> {None} @@ d2 :> {None, o1}
=============================================================================
