----- MODULE MCPaperEngine ----
(***************************************************************************)
(* A TLC instance of PaperEngine.                                          *)
(***************************************************************************)
EXTENDS PaperEngine

MCBudget == [low |-> 50, high |-> 200]

====
