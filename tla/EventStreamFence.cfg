SPECIFICATION StreamSpec
CONSTANTS
    Publisher = {p1}
    Viewer = {c1}
    MaxSeq = 3
    MaxBatch = 1
    MaxBuffered = 2
    MaxTokens = 2
    Paths = {"fence"}
INVARIANT Contiguous
