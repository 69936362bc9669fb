---------------------------- MODULE MCNetconfTab ----------------------------
(* Instances of NetconfTab for TLC.                                         *)
EXTENDS NetconfTab
=============================================================================
