SPECIFICATION FairSpec
CONSTANTS
    Packets = {p1, p2}
    p1 = p1
    p2 = p2
    Ports = {d1}
    d1 = d1
    NULL = NULL
    GpdNum = 2
    LowMark = 1
    MaxChain = 2
    WriteBack = "packet"
    MaxErrBits = 1
INVARIANT TypeOK
INVARIANT RingAccounting
INVARIANT OneOwner
PROPERTY RecoverOnlyHalted
PROPERTY ImplementsService
PROPERTY PacketsReturned
PROPERTY QueuesWoken
PROPERTY ErrorsRecovered
