---------------------------- MODULE MCSshConnect ----------------------------
EXTENDS SshConnect
CONSTANTS F1, F2, A1, A2

MCKeyFiles == {F1, F2}
MCAgentKeys == {A1, A2}
MCClassOf == (F1 :> "RSA") @@ (F2 :> "Ed25519")
MCPubOf == (F1 :> A2) @@ (F2 :> None)
MCFound == <<"~/.ssh/id_rsa", "~/ssh/id_ecdsa">>
MCHostKeys == [type: {"rsa", "ed"}, body: 1..2]
MCSubsystems == <<"netconf", "xmlagent">>

Plain == [host |-> TRUE, sock |-> FALSE, b64 |-> None, verify |-> FALSE,
          keys |-> <<>>, agent |-> TRUE, look |-> TRUE, password |-> TRUE]
Quiet == [Plain EXCEPT !.agent = FALSE, !.look = FALSE]

(* What the application asks for, a call-home socket, the keys and the     *)
(* host-key checking of the library's other callers.                       *)
MCRequests ==
    {Plain, [Plain EXCEPT !.host = FALSE, !.sock = TRUE],
     [Quiet EXCEPT !.host = FALSE],
     [Plain EXCEPT !.keys = <<F1, F2>>],
     [Plain EXCEPT !.keys = <<F2, F1>>, !.look = FALSE, !.password = FALSE],
     [Quiet EXCEPT !.verify = TRUE],
     [Quiet EXCEPT !.b64 = Unusable]}
        \cup {[Quiet EXCEPT !.verify = TRUE, !.b64 = k] : k \in MCHostKeys}
=============================================================================
