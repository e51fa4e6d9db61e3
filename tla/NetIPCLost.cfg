\* The same instance: what becomes of a frame that was refused.
CONSTANTS
    n1 = n1
    n2 = n2
    Node <- Nodes
    NodeZero = NodeZero
    Gone = {}
    Shapes <- Payloads
    MaxMsgs <- Traffic
    MaxPages = 1
    MaxWire = 1
    MaxLost = 1
    MaxRefused = 1
SPECIFICATION Spec
CHECK_DEADLOCK FALSE
INVARIANT RefusedNotLost
