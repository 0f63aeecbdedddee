--------------------------------- MODULE Files ---------------------------------
(***************************************************************************)
(* What the research tools leave in files.  A file is absent, torn (its    *)
(* writer was killed in write_text), or its content, a record or a tuple.  *)
(***************************************************************************)
Absent == [absent |-> TRUE]
Torn == [torn |-> TRUE]

\* A process that does not run.
Idle == [stage |-> "idle"]
=============================================================================
