------------------------------ MODULE MCMainWindow ------------------------------
(* A session, one that is called home and has no name, and a form without  *)
(* a host.                                                                 *)
EXTENDS MainWindow

A == [name |-> <<20>>, host |-> 10, home |-> FALSE]
H == [name |-> << >>, host |-> 10, home |-> TRUE]
X == [name |-> <<20>>, host |-> 0, home |-> FALSE]
MCSaved == <<A, [H EXCEPT !.name = <<10>>, !.home = FALSE]>>
MCForms == {A, H, X}
MCLabels == {<<20, 1>>}
================================================================================
