---------------------------- MODULE MCTimerWatch -----------------------------
(***************************************************************************)
(* Instances of TimerWatch for TLC.                                        *)
(***************************************************************************)
EXTENDS TimerWatch

CONSTANTS a, b

OneTimer == {a}
TwoTimers == {a, b}
=============================================================================
