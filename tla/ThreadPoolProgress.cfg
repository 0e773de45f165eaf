\* FrameBarrier, and progress under fair scheduling; no symmetry, because of the liveness check.
SPECIFICATION FairSpec
CONSTANTS
    Workers = {w1, w2}
    Producers = {p1}
    Main = main
    Requests = {r1}
    OffThreadKinds = {"buffer", "compile"}
    MaxCalls = 2
PROPERTIES
    KeepsPromise
    BarrierReturns
    FirstBarrierReturns
CHECK_DEADLOCK FALSE
