----------------------------- MODULE MCCallHome -----------------------------
(* Instances of CallHome for TLC.                                           *)
EXTENDS CallHome
=============================================================================
