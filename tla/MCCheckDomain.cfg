SPECIFICATION Spec
CONSTANTS
    Pinned = 2
    NameServers <- MCNameServers
    Addrs <- MCAddrs
    ns1 = ns1
    ns2 = ns2
    a1 = a1
    a2 = a2
INVARIANTS
    TypeOK
    TamperingNeedsTwoVotes
    VotesAreReal
    SplitAgreesWithGate
PROPERTY
    Termination
