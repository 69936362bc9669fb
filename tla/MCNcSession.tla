---------------------------- MODULE MCNcSession -----------------------------
(* Instances of NcSession for TLC.  RPC objects are interchangeable.        *)
EXTENDS NcSession, TLC

Symmetry == Permutations(Rpcs)
=============================================================================
