---------------------- MODULE MCOperationalExecution ----------------------
(* Small instances of OperationalExecution for TLC. *)
EXTENDS OperationalExecution, TLC

\* The resume coroutines of a workflow are interchangeable.
CallSymmetry == Permutations(Calls)
============================================================================
