SPECIFICATION DnfSpec
CONSTANTS
    Atom = {1, 2}
    HasImplies = {}
    Null = Null
    MaxConds = 3
    MaxDnfOps = 8
INVARIANTS
    DnfExact
\* The client stops after MaxDnfOps operations.
CHECK_DEADLOCK FALSE
