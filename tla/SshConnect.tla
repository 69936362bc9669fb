----------------------------- MODULE SshConnect -----------------------------
(***************************************************************************)
(* Opening a NETCONF session over SSH: manager.connect_ssh                 *)
(* (ncclient/manager.py) and SSHSession.connect, _auth, load_known_hosts   *)
(* and close (ncclient/transport/ssh.py), from the arguments of the call   *)
(* to the Manager it returns or the exception it raises.                   *)
(*                                                                         *)
(* The operating system, the SSH server, the agent and paramiko are the    *)
(* environment: they refuse or accept at every point, and the connection   *)
(* may drop at any time (Drop).  A paramiko transport that was started     *)
(* closes its socket when it stops; one that was never started does not.   *)
(* The hello exchange inside _post_connect is the subject of NcSession:    *)
(* here it succeeds or raises.                                             *)
(***************************************************************************)
EXTENDS Integers, Sequences, SequencesExt, FiniteSets

CONSTANTS
    Requests,     \* the calls of connect considered: records, see RequestType
    MaxAddrs,     \* bound: the addresses a name resolves to
    KeyFiles,     \* private key files
    ClassOf,      \* the key class each of them holds
    AgentKeys,    \* the keys an SSH agent may offer
    PubOf,        \* the agent key whose .pub file lies beside a key file, or None
    Found,        \* the key files looked for in ~/.ssh and ~/ssh, in this order
    HostKeys,     \* the host keys: records of a type and a body
    Subsystems,   \* what the device handler's get_ssh_subsystem_names answers
    Unusable,     \* a hostkey_b64 of no class paramiko knows
    None          \* no value

Classes == <<"RSA", "DSS", "ECDSA", "Ed25519">>

RequestType ==
    [host: BOOLEAN, sock: BOOLEAN, b64: HostKeys \cup {None, Unusable},
     verify: BOOLEAN, keys: Seq(KeyFiles), agent: BOOLEAN, look: BOOLEAN,
     password: BOOLEAN]

Faults == {"SSHError", "SSHUnknownHostError", "SSHException",
           "AuthenticationError", "SessionError"}

ASSUME SshAssumption ==
    /\ Requests \subseteq RequestType
    /\ MaxAddrs \in Nat
    /\ ClassOf \in [KeyFiles -> Range(Classes)]
    /\ PubOf \in [KeyFiles -> AgentKeys \cup {None}]
    /\ IsFiniteSet(AgentKeys) /\ None \notin AgentKeys
    /\ Found \in Seq(Range(Found)) /\ IsInjective(Found)
    /\ {None, Unusable} \cap HostKeys = {}
    /\ None \notin Faults

VARIABLES
    pc,         \* where connect_ssh is
    req,        \* the arguments
    addrs,      \* addresses getaddrinfo has left to try
    socks,      \* the sockets open in this process (0: the one given)
    transport,  \* "none", "fresh" (never started), "active" or "dead"
    server,     \* the host keys the server has, one of a type
    known,      \* the host keys loaded: under the host, under [host]:port
    wanted,     \* _preferred_keys: the key types negotiated, {} for paramiko's own
    key,        \* the key the server presented
    stage,      \* the part of _auth reached
    todo,       \* the attempts this part has left
    tried,      \* every attempt made so far
    held,       \* the keys the agent answered with
    present,    \* which of Found are there
    names,      \* the subsystem names left
    authed,     \* the server lets this client open channels
    fault       \* the exception on its way out of connect

hostVars == <<server, known, wanted, key>>
keyVars == <<held, present>>
authVars == <<stage, todo, tried, authed, keyVars>>
vars == <<pc, req, addrs, socks, transport, hostVars, authVars, names, fault>>

-----------------------------------------------------------------------------
(* A raise statement, or an exception nobody in connect catches: control   *)
(* goes to the except clause of connect_ssh.                               *)
Raise(e) == pc' = "failing" /\ fault' = e

(* At most one key of each type.                                           *)
OnePerType(S) == \A k, l \in S : k.type = l.type => k = l

NoKeys == [plain |-> {}, ported |-> {}]

Init ==
    /\ pc = "start" /\ req \in Requests
    /\ addrs = 0
    /\ socks = IF req.sock THEN {0} ELSE {}
    /\ transport = "none"
    /\ server \in {S \in SUBSET HostKeys : S # {} /\ OnePerType(S)}
    /\ known = NoKeys /\ wanted = {} /\ key = None
    /\ stage = "keys" /\ todo = <<>> /\ tried = <<>> /\ authed = FALSE
    /\ held = <<>> /\ present = {} /\ names = <<>> /\ fault = None

(* Nothing to connect to.                                                  *)
MissingHost ==
    /\ pc = "start"
    /\ ~req.host /\ ~req.sock
    /\ Raise("SSHError")
    /\ UNCHANGED <<req, addrs, socks, transport, hostVars, authVars, names>>

(* With hostkey_verify load_known_hosts reads the keys filed under the     *)
(* host and under [host]:port; a file that is not there gives none.        *)
LoadKnownHosts ==
    /\ pc = "start"
    /\ req.host \/ req.sock
    /\ \E p, q \in {S \in SUBSET HostKeys : OnePerType(S)} :
          /\ ~req.verify => p = {} /\ q = {}
          /\ known' = [plain |-> p, ported |-> q]
    /\ IF req.sock
         THEN pc' = "transport" /\ UNCHANGED addrs
         ELSE pc' = "open" /\ addrs' \in 0..MaxAddrs
    /\ UNCHANGED <<req, socks, transport, server, wanted, key, authVars, names,
                   fault>>

(* One turn of the getaddrinfo loop: the socket cannot be made, or it is   *)
(* made and its bind or connect fails and it is closed, or it connects.    *)
SocketFails ==
    /\ pc = "open" /\ addrs > 0
    /\ addrs' = addrs - 1
    /\ UNCHANGED <<pc, req, socks, transport, hostVars, authVars, names, fault>>

(* What the process has open after a connect that failed.                  *)
AfterRefusedForgotten(s) == socks \cup {s}
AfterRefused(s) == socks

AddressRefuses ==
    /\ pc = "open" /\ addrs > 0
    /\ addrs' = addrs - 1
    /\ socks' = AfterRefused(addrs)
    /\ UNCHANGED <<pc, req, transport, hostVars, authVars, names, fault>>

AddressAnswers ==
    /\ pc = "open" /\ addrs > 0
    /\ socks' = socks \cup {addrs}
    /\ pc' = "transport"
    /\ UNCHANGED <<req, addrs, transport, hostVars, authVars, names, fault>>

NoAddressLeft ==
    /\ pc = "open" /\ addrs = 0
    /\ Raise("SSHError")
    /\ UNCHANGED <<req, addrs, socks, transport, hostVars, authVars, names>>

-----------------------------------------------------------------------------
(* The keys host-key checking compares with: looking both names up adds    *)
(* those filed under [host]:port to those of the host, in place of a key   *)
(* of the same type.                                                       *)
Merged(kn) ==
    kn.ported \cup {k \in kn.plain : \A l \in kn.ported : l.type # k.type}

PreferredTypesOfHost(kn) == {k.type : k \in kn.plain}
PreferredTypes(kn) == {k.type : k \in Merged(kn)}

(* The transport takes the socket over; a given key or the known ones      *)
(* choose the types it negotiates.                                         *)
MakeTransport ==
    /\ pc = "transport"
    /\ transport' = "fresh"
    /\ \/ /\ req.b64 = Unusable
          /\ Raise("SSHError")
          /\ UNCHANGED <<known, wanted>>
       \/ /\ req.b64 \in HostKeys
          /\ wanted' = {req.b64.type} /\ pc' = "negotiate"
          /\ UNCHANGED <<known, fault>>
       \/ /\ req.b64 = None
          /\ wanted' = PreferredTypes(known)
          /\ known' = IF known.plain = {} THEN known
                                          ELSE [known EXCEPT !.plain = Merged(known)]
          /\ pc' = "negotiate"
          /\ UNCHANGED fault
    /\ UNCHANGED <<req, addrs, socks, server, key, authVars, names>>

(* start_client: the server presents a key of a type asked for, or the     *)
(* negotiation fails and paramiko's thread ends, closing the socket.       *)
Negotiated ==
    /\ pc = "negotiate"
    /\ \E k \in server :
          /\ wanted # {} => k.type \in wanted
          /\ key' = k
    /\ transport' = "active" /\ pc' = "verify"
    /\ UNCHANGED <<req, addrs, socks, server, known, wanted, authVars, names,
                   fault>>

NegotiationFails ==
    /\ pc = "negotiate"
    /\ transport' = "dead" /\ socks' = {}
    /\ Raise("SSHError")
    /\ UNCHANGED <<req, addrs, hostVars, authVars, names>>

(* The presented key is the one asked for, or one known_hosts has.         *)
IsKnownHost ==
    IF req.b64 \in HostKeys THEN key = req.b64
                            ELSE key \in known.plain \cup known.ported

(* An unknown key raises, unless unknown_host_cb accepts it (the default   *)
(* refuses).                                                               *)
Verify ==
    /\ pc = "verify"
    /\ \/ pc' = "auth" /\ UNCHANGED fault
       \/ /\ req.verify /\ ~IsKnownHost
          /\ Raise("SSHUnknownHostError")
    /\ UNCHANGED <<req, addrs, socks, transport, hostVars, authVars, names>>

-----------------------------------------------------------------------------
(* The attempts of _auth: a key file is tried as each of the four classes. *)
FileAttempts(keys) ==
    LET C == Len(Classes)
    IN  [n \in 1..C * Len(keys) |->
            [by |-> "file", id |-> keys[((n - 1) \div C) + 1],
             cls |-> Classes[((n - 1) % C) + 1]]]

(* A list without the members of S, in its order.                          *)
Without(s, S) ==
    LET kept[n \in 0..Len(s)] ==
          IF n = 0 THEN << >>
          ELSE IF s[n] \in S THEN kept[n - 1] ELSE Append(kept[n - 1], s[n])
    IN  kept[Len(s)]

(* The agent's keys, those named by the .pub files taken out and put first.*)
Resequenced(list, keys) ==
    LET moved[n \in 0..Len(keys)] ==
          IF n = 0 THEN [first |-> << >>, rest |-> list]
          ELSE LET m == moved[n - 1]
                   k == PubOf[keys[n]]
               IN  IF k \in Range(m.rest)
                     THEN [first |-> Append(m.first, k), rest |-> Without(m.rest, {k})]
                     ELSE m
    IN  moved[Len(keys)]
AgentOrderCut(list, keys) ==
    LET r == Resequenced(list, keys) IN IF r.first # <<>> THEN r.first ELSE r.rest
AgentOrder(list, keys) ==
    LET r == Resequenced(list, keys) IN r.first \o r.rest

(* What an agent may answer: any of its keys, in any order.                *)
Answers == {s \in UNION {[1..n -> AgentKeys] : n \in 0..Cardinality(AgentKeys)} :
               IsInjective(s)}

Attempts(by, ids) == [i \in DOMAIN ids |-> [by |-> by, id |-> ids[i], cls |-> None]]

(* Each part of _auth lists its attempts when the part before it has none  *)
(* left.                                                                   *)
AuthKeyFiles ==
    /\ pc = "auth" /\ stage = "keys"
    /\ stage' = "file" /\ todo' = FileAttempts(req.keys)
    /\ UNCHANGED <<pc, req, addrs, socks, transport, hostVars, tried, keyVars,
                   authed, names, fault>>

(* Asking the agent, or reading a .pub file, may raise outside any try.    *)
AuthAgent ==
    /\ pc = "auth" /\ stage = "file" /\ todo = <<>>
    /\ stage' = "agent"
    /\ \/ /\ req.agent
          /\ held' \in Answers
          /\ todo' = Attempts("agent", AgentOrder(held', req.keys))
          /\ UNCHANGED <<pc, fault>>
       \/ /\ req.agent
          /\ Raise("SSHException")
          /\ UNCHANGED <<todo, held>>
       \/ ~req.agent /\ UNCHANGED <<pc, todo, held, fault>>
    /\ UNCHANGED <<req, addrs, socks, transport, hostVars, tried, present,
                   authed, names>>

FoundAttempts(there) == Attempts("found", Without(Found, Range(Found) \ there))

AuthDiscovered ==
    /\ pc = "auth" /\ stage = "agent" /\ todo = <<>>
    /\ stage' = "found"
    /\ present' \in SUBSET Range(Found)
    /\ todo' = IF req.look THEN FoundAttempts(present') ELSE <<>>
    /\ UNCHANGED <<pc, req, addrs, socks, transport, hostVars, tried, held,
                   authed, names, fault>>

AuthPassword ==
    /\ pc = "auth" /\ stage = "found" /\ todo = <<>>
    /\ stage' = "password"
    /\ todo' = IF req.password THEN Attempts("password", <<None>>) ELSE <<>>
    /\ UNCHANGED <<pc, req, addrs, socks, transport, hostVars, tried, keyVars,
                   authed, names, fault>>

(* An attempt raises: a key of another class, a key refused, a transport   *)
(* that is gone.  _auth keeps the exception and goes on.                   *)
Refused ==
    /\ pc = "auth" /\ todo # <<>>
    /\ tried' = Append(tried, Head(todo))
    /\ todo' = Tail(todo)
    /\ UNCHANGED <<pc, req, addrs, socks, transport, hostVars, stage, keyVars,
                   authed, names, fault>>

(* An attempt returns: the server is content, or asks for a further method *)
(* that _auth does not offer it.                                           *)
Accepted ==
    /\ pc = "auth" /\ todo # <<>> /\ transport = "active"
    /\ Head(todo).by = "file" => Head(todo).cls = ClassOf[Head(todo).id]
    /\ tried' = Append(tried, Head(todo))
    /\ todo' = <<>>
    /\ authed' \in BOOLEAN
    /\ pc' = "channels" /\ names' = Subsystems
    /\ UNCHANGED <<req, addrs, socks, transport, hostVars, stage, keyVars, fault>>

(* Every method was refused, or there was none.                            *)
AuthFails ==
    /\ pc = "auth" /\ stage = "password" /\ todo = <<>>
    /\ Raise("AuthenticationError")
    /\ UNCHANGED <<req, addrs, socks, transport, hostVars, authVars, names>>

-----------------------------------------------------------------------------
(* For each subsystem name a channel is opened and the subsystem invoked;  *)
(* a name refused leads to the next.                                       *)
SubsystemRefused ==
    /\ pc = "channels" /\ names # <<>> /\ transport = "active" /\ authed
    /\ names' = Tail(names)
    /\ UNCHANGED <<pc, req, addrs, socks, transport, hostVars, authVars, fault>>

OpenFails ==
    /\ pc = "channels" /\ names # <<>>
    /\ Raise("SSHException")
    /\ UNCHANGED <<req, addrs, socks, transport, hostVars, authVars, names>>

SubsystemOpened ==
    /\ pc = "channels" /\ names # <<>> /\ transport = "active" /\ authed
    /\ pc' = "post"
    /\ UNCHANGED <<req, addrs, socks, transport, hostVars, authVars, names, fault>>

NoSubsystem ==
    /\ pc = "channels" /\ names = <<>>
    /\ Raise("SSHError")
    /\ UNCHANGED <<req, addrs, socks, transport, hostVars, authVars, names>>

(* _post_connect: the hello exchange succeeds, or it fails or times out.   *)
HelloDone ==
    /\ pc = "post"
    /\ pc' = "connected"
    /\ UNCHANGED <<req, addrs, socks, transport, hostVars, authVars, names, fault>>

HelloFails ==
    /\ pc = "post"
    /\ Raise("SessionError")
    /\ UNCHANGED <<req, addrs, socks, transport, hostVars, authVars, names>>

(* The except clause of connect_ssh: a session that has a transport is     *)
(* closed, which stops a transport that runs and with it the socket.       *)
CloseFailed ==
    /\ pc = "failing"
    /\ pc' = "raised"
    /\ IF transport = "active"
         THEN transport' = "dead" /\ socks' = {}
         ELSE UNCHANGED <<transport, socks>>
    /\ UNCHANGED <<req, addrs, hostVars, authVars, names, fault>>

(* The connection goes away: paramiko's thread ends and closes the socket. *)
Drop ==
    /\ transport = "active" /\ pc # "connected"
    /\ transport' = "dead" /\ socks' = {}
    /\ UNCHANGED <<pc, req, addrs, hostVars, authVars, names, fault>>

Connecting ==
    \/ MissingHost \/ LoadKnownHosts
    \/ SocketFails \/ AddressRefuses \/ AddressAnswers \/ NoAddressLeft
    \/ MakeTransport \/ Negotiated \/ NegotiationFails \/ Verify
    \/ AuthKeyFiles \/ AuthAgent \/ AuthDiscovered \/ AuthPassword
    \/ Refused \/ Accepted \/ AuthFails
    \/ SubsystemRefused \/ OpenFails \/ SubsystemOpened \/ NoSubsystem
    \/ HelloDone \/ HelloFails \/ CloseFailed

Next == Connecting \/ Drop

Spec == Init /\ [][Next]_vars

-----------------------------------------------------------------------------
(* A connect that raised leaves no socket of its own open, whatever failed *)
(* and whenever the connection dropped: addresses that refused, a failed   *)
(* negotiation, a refused login, a refused subsystem.  The exception is a  *)
(* transport that was made and never started (see the README).             *)
NothingLeftOpen == pc = "raised" /\ transport # "fresh" => socks = {}

(* Why: a socket is open only in a place where the except clause, or the   *)
(* end of the transport, still takes care of it.                           *)
SocketsOwned ==
    /\ pc \in {"open", "failing", "raised"} /\ transport = "none" => socks = {}
    /\ transport = "dead" => socks = {}
    /\ pc \in {"start", "open", "transport"} => transport = "none"
    /\ transport = "none" => pc \in {"start", "open", "transport", "failing", "raised"}
    /\ pc = "start" /\ ~req.sock => socks = {}
    /\ pc = "negotiate" => transport = "fresh"
    /\ pc = "raised" => transport # "active"
    /\ transport \in {"none", "fresh", "active", "dead"}

(* AuthenticationError is raised only when everything the caller allowed,  *)
(* and nothing else, was tried, each thing once (but a file named twice),  *)
(* in the documented order: the given keys, the agent's keys with the      *)
(* named ones first, the keys found, and last the password.                *)
Ids(a, by) == {a[n].id : n \in {i \in DOMAIN a : a[i].by = by}}
Rank(part) == CASE part = "keys" -> 0 [] part = "file" -> 1 [] part = "agent" -> 2
                [] part = "found" -> 3 [] part = "password" -> 4
NamedKeys == {PubOf[f] : f \in Range(req.keys)}

FilesIn(a) ==
    /\ \A f \in Range(req.keys) :
          [by |-> "file", id |-> f, cls |-> ClassOf[f]] \in Range(a)
    /\ Ids(a, "file") \subseteq Range(req.keys)
NamedFirst(a) ==
    \A i, j \in DOMAIN a : /\ i < j /\ a[i].by = "agent" /\ a[j].by = "agent"
                           /\ a[j].id \in NamedKeys
                           => a[i].id \in NamedKeys
AgentIn(a) ==
    Ids(a, "agent") = (IF req.agent THEN Range(held) ELSE {}) /\ NamedFirst(a)
FoundIn(a) == Ids(a, "found") = IF req.look THEN present ELSE {}
PasswordIn(a) == Ids(a, "password") # {} <=> req.password
Once(a) ==
    \A i, j \in DOMAIN a :
        a[i] = a[j] /\ i # j => a[i].by = "file" /\ ~IsInjective(req.keys)
InOrder(a) == \A i, j \in DOMAIN a : i < j => Rank(a[i].by) <= Rank(a[j].by)

EveryMethodTried ==
    fault = "AuthenticationError" =>
        /\ FilesIn(tried) /\ AgentIn(tried) /\ FoundIn(tried) /\ PasswordIn(tried)
        /\ Once(tried) /\ InOrder(tried)

(* Why: what was tried and what this part is about to try are together     *)
(* what the parts of _auth reached so far have to try.                     *)
AttemptType ==
    [by: {"file", "agent", "found", "password"},
     id: KeyFiles \cup AgentKeys \cup Range(Found) \cup {None},
     cls: Range(Classes) \cup {None}]
Reached(part) == Rank(part) <= Rank(stage)
AttemptsOf(a) ==
    /\ IF Reached("file") THEN FilesIn(a) ELSE Ids(a, "file") = {}
    /\ IF Reached("agent") THEN AgentIn(a) ELSE Ids(a, "agent") = {} /\ held = <<>>
    /\ IF Reached("found") THEN FoundIn(a) ELSE Ids(a, "found") = {}
    /\ IF Reached("password") THEN PasswordIn(a) ELSE Ids(a, "password") = {}
    /\ Once(a) /\ InOrder(a)
Unopened == {"start", "open", "transport", "negotiate", "verify"}
AttemptsInOrder ==
    /\ req \in RequestType /\ held \in Seq(AgentKeys)
    /\ tried \in Seq(AttemptType) /\ todo \in Seq(AttemptType)
    /\ stage \in {"keys", "file", "agent", "found", "password"}
    /\ pc \in Unopened => stage = "keys"
    /\ stage = "keys" => todo = <<>>
    /\ pc \in Unopened \cup {"auth"} => AttemptsOf(tried \o todo)
    /\ fault = "AuthenticationError" => pc \in {"failing", "raised"}
    /\ EveryMethodTried

(* "avoids situation where known_hosts contains a valid key for the host,  *)
(* but that key type is not selected during negotiation": a host is taken  *)
(* for unknown only if it has none of the keys on file for it, or shows    *)
(* another key of a type that is on file.                                  *)
Acceptable ==
    IF req.b64 \in HostKeys THEN req.b64 \in server
    ELSE /\ server \cap Merged(known) # {}
         /\ OnePerType(server \cup Merged(known))
KnownHostAccepted == fault = "SSHUnknownHostError" => ~Acceptable

(* Why: the key negotiated is one of the server's, of a type that is on    *)
(* file if there is one.                                                   *)
TypesOnFile == {k.type : k \in Merged(known)}
KeysNegotiated ==
    /\ OnePerType(server)
    /\ fault = "SSHUnknownHostError" => pc \in {"failing", "raised"}
    /\ pc = "negotiate" =>
          \/ req.b64 \in HostKeys /\ wanted = {req.b64.type}
          \/ req.b64 \notin HostKeys /\ wanted = TypesOnFile
    /\ pc = "verify" =>
          /\ key \in server
          /\ req.b64 \in HostKeys => key.type = req.b64.type
          /\ req.b64 \notin HostKeys /\ TypesOnFile # {} => key.type \in TypesOnFile
=============================================================================
