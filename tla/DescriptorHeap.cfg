\* Two threads, three textures, two constant buffers, two frames, heaps of three
\* descriptors, so that a request crosses heaps.
SPECIFICATION Spec
CONSTANTS
    Threads = {t1, t2}
    Textures = {x1, x2, x3}
    ConstantBuffers = {b1, b2}
    BufferCount = 2
    HeapSize = 3
    MaxHeaps = 3
SYMMETRY Symmetry
INVARIANTS
    TypeOK
    Partition
    SoleOwner
CHECK_DEADLOCK FALSE
