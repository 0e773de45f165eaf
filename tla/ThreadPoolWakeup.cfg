\* A worker sleeps on although the pool was resumed.
SPECIFICATION FairSpec
CONSTANTS
    Workers = {w1}
    Producers = {}
    Main = main
    Requests = {r1}
    OffThreadKinds = {}
    MaxCalls = 1
PROPERTY ResumeWakes
CHECK_DEADLOCK FALSE
