SPECIFICATION Spec
CONSTANTS
    Poly <- MCPoly
    ByteBits = 2
    WindowSize = 3
    MinSize = 3
    AvgSize = 4
    MaxSize = 5
    Starts = {0, 3}
    MaxFed = 8
    MaxBuf = 2
INVARIANTS
    TypeOK
    FingerprintIsResidue
    ChunksDependOnOwnBytes
    ChunksTileTheInput
