\* Three size classes and two codes, with stoResize between them.
SPECIFICATION FairSpec
CONSTANTS
    NSections = 2
    PerSection = 1
    NClasses = 3
    MaxStale = 1
    Codes = {"pointers", "plain"}
    Resizes = TRUE
INVARIANTS
    PointersTagged
PROPERTIES
    HeapSpec
    CallsReturn
\* The program exits when stoAlloc finds no store.
CHECK_DEADLOCK FALSE
