---------------------------- MODULE MCMedallion ----------------------------
(* TLC instances of Medallion. *)
EXTENDS Medallion

MCTimeframes == <<"1m", "1d">>

\* A range of the development split, where an operator may work too, that runs
\* into the frozen splits.
MCFrozen == <<"DEVELOPMENT", "DEVELOPMENT", "WALK_FORWARD">>
\* The range of the deployed timer: days after the last frozen one.
MCFuture == <<"FUTURE_COLLECTION", "FUTURE_COLLECTION">>
=============================================================================
