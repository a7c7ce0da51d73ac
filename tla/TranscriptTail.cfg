SPECIFICATION Spec
CONSTANTS
    Letters = {"a", "b"}
    Newline = "newline"
    ChunkSize = 2
    N = 2
    MaxSize = 8
INVARIANT TypeOK
PROPERTIES ReturnsLastLines ReturnsTheEnd
