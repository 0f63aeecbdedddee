---- MODULE MCPaperSession ----
(* TLC instances of PaperSession. *)
EXTENDS PaperSession
====
