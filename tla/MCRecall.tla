------------------------------ MODULE MCRecall ------------------------------
(* Recall instantiated for TLC. *)
EXTENDS Recall, TLC

\* Recall requests are interchangeable, and so are captures.
RecallSymmetry == Permutations(Captures) \cup Permutations(Recalls)
=============================================================================
