--------------------------- MODULE MCCaptureRecall ---------------------------
(* CaptureRecall instantiated for TLC. *)
EXTENDS CaptureRecall, TLC

\* Requests are interchangeable, and so are recalls.
BothSymmetry == Permutations(Requests) \cup Permutations(Recalls)
=============================================================================
