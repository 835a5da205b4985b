SPECIFICATION ChunkFairSpec
CONSTANTS
    TextLen = 6
    chunk_size = 4
    chunk_overlap = 2
    SentenceKinds = 1
CHECK_DEADLOCK FALSE
PROPERTY ChunkingEnds
