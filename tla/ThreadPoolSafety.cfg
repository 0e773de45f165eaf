\* Two workers, one producer beside the framework's thread, two API calls,
\* two frames or resizes.
SPECIFICATION Spec
CONSTANTS
    Workers = {w1, w2}
    Producers = {p1}
    Main = main
    Requests = {r1, r2}
    OffThreadKinds = {"buffer", "compile"}
    MaxCalls = 2
SYMMETRY Symmetry
INVARIANTS
    TypeOK
    LatchExact
    WorkersParked
    
    NeverEarly
    RequestAligned
    AtMostOnce
CHECK_DEADLOCK FALSE
