\* Two nodes that send to each other; one frame is lost and one is discarded, for
\* want of a page or because the port is not there.
CONSTANTS
    n1 = n1
    n2 = n2
    Node <- Nodes
    NodeZero = NodeZero
    Gone = {n2}
    Shapes <- Payloads
    MaxMsgs <- Traffic
    MaxPages = 1
    MaxWire = 1
    MaxLost = 1
    MaxRefused = 1
SPECIFICATION Spec
CHECK_DEADLOCK FALSE
INVARIANTS
    WindowAgrees
    NothingLost
    NoRepeat
    NoPanic
