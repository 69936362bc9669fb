----------------------------- MODULE RpcService -----------------------------
(***************************************************************************)
(* What the session engine promises the callers of RPC._request, with      *)
(* nothing of how it does it: no message-ids, no table, no queue, no       *)
(* threads.  An RPC is opened once; it is completed at most once, either   *)
(* by the answer of the server to that very RPC, or by an error, and an    *)
(* error only if the session broke down.  An RPC may stay open for ever.   *)
(***************************************************************************)
CONSTANT Rpcs

VARIABLES
  state,  \* of each RPC
  heard,  \* RPCs the server has answered
  broken  \* the session broke down

vars == <<state, heard, broken>>

ServiceTypeOK ==
  /\ state \in [Rpcs -> {"new", "open", "replied", "failed"}]
  /\ heard \subseteq Rpcs
  /\ broken \in BOOLEAN

Init ==
  /\ state = [o \in Rpcs |-> "new"]
  /\ heard = {}
  /\ broken = FALSE

Open(o) ==
  /\ state[o] = "new"
  /\ state' = [state EXCEPT ![o] = "open"]
  /\ UNCHANGED <<heard, broken>>

\* The server may answer an RPC whose caller has already seen an error.
Hear(o) ==
  /\ state[o] # "new"
  /\ o \notin heard
  /\ heard' = heard \cup {o}
  /\ UNCHANGED <<state, broken>>

Reply(o) ==
  /\ state[o] = "open"
  /\ o \in heard
  /\ ~broken
  /\ state' = [state EXCEPT ![o] = "replied"]
  /\ UNCHANGED <<heard, broken>>

Break ==
  /\ ~broken
  /\ broken' = TRUE
  /\ UNCHANGED <<state, heard>>

Fail(o) ==
  /\ state[o] = "open"
  /\ broken
  /\ state' = [state EXCEPT ![o] = "failed"]
  /\ UNCHANGED <<heard, broken>>

Next == Break \/ \E o \in Rpcs : Open(o) \/ Hear(o) \/ Reply(o) \/ Fail(o)

Spec == Init /\ [][Next]_vars
=============================================================================
