\* Two names, for two ports in one space or for one port in two.  A state without a
\* successor is a header whose reply right is past the bounds.
CONSTANTS
    Ports = {p1, p2}
    Spaces = {s1, s2}
    Names = {n1, n2}
    None = None
    Dead = Dead
    Slots = {1}
    UrefsMax = 3
    Deltas <- UpDown
    Limit <- Few
    Windows = {}
SPECIFICATION Spec
SYMMETRY Symmetry
CHECK_DEADLOCK FALSE
INVARIANTS
    RightsExact
    ReferencesExact
    SlotsMatch
    UrefsHonest
    NoSendersTold
PROPERTIES
    HeaderAtomic
