\* The allocator of nodes uses the tree that waits for a node.
SPECIFICATION SpecReentered
CONSTANTS
    t = 2
    Key <- Keys
    Elt <- Elts
    Entry <- Entries
    NodeId <- Nodes
INVARIANTS
    SplitsFullChild
CHECK_DEADLOCK FALSE
