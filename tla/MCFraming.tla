----------------------------- MODULE MCFraming ------------------------------
(* Instances of Framing for TLC: a message with a two-byte character, one   *)
(* that contains what looks like an end delimiter, and one that ends in half *)
(* a delimiter of 1.0, which only a server of 1.1 can send.                  *)
EXTENDS Framing

Greeting == <<"x">>
Messages == {<<"c1", "c2">>, <<"x", "NL", "#", "#", "NL">>, <<"]", "]", ">">>}
=============================================================================
