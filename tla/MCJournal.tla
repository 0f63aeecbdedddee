---- MODULE MCJournal ----
(***************************************************************************)
(* TLC instances of Journal: one intensity, as the runners use it.         *)
(***************************************************************************)
EXTENDS Journal

MCBudget == [medium |-> 200]

====
