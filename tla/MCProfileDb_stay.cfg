SPECIFICATION Spec
CONSTANTS
    p0 = p0
    p1 = p1
    RxChannels = 2
    Ports = {p0, p1}
    NumProfiles = 3
    Profiles <- MCProfiles
    Packets <- MCPackets
    Threads = {t0}
    StackValues = {FALSE}
    Signals = FALSE
    AnyPort = any_port
    AnyValue = any
    None = none
INVARIANT ProfilesStay
