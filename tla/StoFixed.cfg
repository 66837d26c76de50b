\* Sections of several pieces, and words that only look like pointers.
SPECIFICATION Spec
CONSTANTS
    NSections = 2
    PerSection = 2
    NClasses = 1
    MaxStale = 1
    Codes = {"pointers"}
    Resizes = FALSE
INVARIANTS
    TypeOK
    FreeListsExact
    NoDangling
    MarksCleared
PROPERTIES
    HeadroomCountsExact
