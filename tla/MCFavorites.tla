------------------------------ MODULE MCFavorites ------------------------------
(* A category with one request, and one beside it; three requests. *)
EXTENDS Favorites
MCStart == <<[kind |-> "category", up |-> 0], [kind |-> "xml", up |-> 1],
             [kind |-> "xml", up |-> 0]>>
MCFiles == {<<[kind |-> "category", depth |-> 1], [kind |-> "xml", depth |-> 2]>>,
            <<[kind |-> "xml", depth |-> 1], [kind |-> "category", depth |-> 1]>>}
================================================================================
