----------------------------- MODULE MCTimerUnit -----------------------------
EXTENDS TimerUnit

(* One-shot timers, timers that fire twice, and timers that never stop. *)
MCCounts == {1, 2, Forever}
=============================================================================
