------------------------------ MODULE MCListing ------------------------------
(* Listing instantiated for TLC. *)
EXTENDS Listing
=============================================================================
