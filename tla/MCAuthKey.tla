------------------------------ MODULE MCAuthKey ------------------------------
(* AuthKey instantiated for TLC. *)
EXTENDS AuthKey, TLC

\* Runs are interchangeable.
ProcSymmetry == Permutations(Procs)
=============================================================================
