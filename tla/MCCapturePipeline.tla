-------------------------- MODULE MCCapturePipeline --------------------------
(* CapturePipeline instantiated for TLC. *)
EXTENDS CapturePipeline, TLC

\* Requests and processes carry no order; sound for the safety runs only.
RequestSymmetry == Permutations(Requests) \cup Permutations(Processes)
=============================================================================
