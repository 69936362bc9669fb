------------------------------- MODULE MCAppStore -------------------------------
(* Two options that differ in what the recent list does not show.          *)
EXTENDS AppStore

CONSTANTS c1, c2, c3, c4, o1, o2, o3, f1

MCCmds == {c1, c2, c3, c4}
MCOptions == {o1, o2, o3}
MCConnName == [o \in MCOptions |-> IF o = o1 THEN "n1" ELSE IF o = o2 THEN "n1" ELSE "n2"]
MCFavs == {f1}
MCSymmetry == Permutations(MCCmds)
================================================================================
