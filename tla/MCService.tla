------------------------------ MODULE MCService ------------------------------
(* Service instantiated for TLC. *)
EXTENDS Service
=============================================================================
