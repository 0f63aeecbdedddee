---- MODULE MCReplay ----
(***************************************************************************)
(* A TLC instance of Replay: both sizing modes, candles of two ticks.      *)
(***************************************************************************)
EXTENDS Replay

MCBudget == [medium |-> 200]

====
