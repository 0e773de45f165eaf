\* One signature, layout and state, two workers, two compilations, one swap; a
\* description whose fields all differ, signatures of up to three calls, and a
\* limit that two of them can exceed.
SPECIFICATION FairSpec
CONSTANTS
    Workers = {w1, w2}
    Signature = r1
    Layout = l1
    States = {p1}
    Sigs <- MCSigs
    Layouts <- MCLayouts
    Descs <- MCDescs
    Samples <- MCSamples
    NumTargets = 8
    SizeLimit = 2
    MaxSemantics = 2
    MaxCalls = 3
    MaxInputs = 3
    Views = {"CBV"}
    Values = {2}
    RangeTypes = {"UNORDERED_ACCESS"}
    MaxCompiles = 2
    MaxSwaps = 1
INVARIANTS
    TypeOK
    TablesKeepRanges
    LimitCaughtFirst
    NamesStay
    
    SignatureFirst
    NoUseAfterReset
PROPERTIES
    CreatedStays
    SubmittedIsCompiled
CHECK_DEADLOCK FALSE
