---------------------- MODULE MCOperationalDispatch ----------------------
(* Small instances of OperationalDispatch for TLC. *)
EXTENDS OperationalDispatch, TLC

\* Connections are interchangeable.
CallerSymmetry == Permutations(Callers)
===========================================================================
