\* One texture, one index buffer, two workers, two frames, a swap chain of two
\* buffers, and four calls out of creations, destructions, commands and resizes.
SPECIFICATION Spec
CONSTANTS
    Workers = {w1, w2}
    NumFrames = 2
    Texture = t1
    Buffer = b1
    Default = default
    Textures <- MCTextures
    Buffers <- MCBuffers
    IndexBuffers <- MCBuffers
    Descs <- MCDescs
    Usages = {"GPU_ONLY"}
    MaxCalls = 4
    MaxFrames = 2
SYMMETRY Symmetry
INVARIANTS
    
    StatesAsAnnounced
    OpenOnlyForIndexBuffers
    
CHECK_DEADLOCK FALSE
