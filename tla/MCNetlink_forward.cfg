SPECIFICATION Spec
CONSTANTS
    g1 = g1
    g2 = g2
    NumFamilies = 2
    Names = {psample, other}
    SampleNames = {psample}
    GroupNames = {g1, g2}
    GroupLists <- MCGroupLists
    Arrays = {a1, a2}
    Channels = {c1, c2}
    Ports = {p1}
    Rates = {0, 1}
    Lengths = {64, 9173}
    SeqMod = 2
    GroupsFail = FALSE
    LeavesFamilies = FALSE
    Nil = nil
INVARIANT FamiliesKnown
INVARIANT GroupsOwned
INVARIANT ForwardRight
