\* Trees of the least degree, up to three levels deep.
SPECIFICATION Spec
CONSTANTS
    t = 2
    Key <- Keys
    Elt <- Elts
    Entry <- Entries
    NodeId <- Nodes
INVARIANTS
    TypeOK
    CheckPasses
    NoNodeLost
    SearchesAgree
PROPERTIES
    BagSpec
