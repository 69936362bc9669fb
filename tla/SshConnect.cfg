SPECIFICATION Spec
CONSTANTS
    F1 = F1
    F2 = F2
    A1 = A1
    A2 = A2
    None = None
    Unusable = Unusable
    Requests <- MCRequests
    MaxAddrs = 2
    KeyFiles <- MCKeyFiles
    ClassOf <- MCClassOf
    AgentKeys <- MCAgentKeys
    PubOf <- MCPubOf
    Found <- MCFound
    HostKeys <- MCHostKeys
    Subsystems <- MCSubsystems
INVARIANTS NothingLeftOpen  KnownHostAccepted
CHECK_DEADLOCK FALSE
