CONSTANTS
    Size = 5
    Overlap = 2
    TextLength <- Lengths
    MaxChunks = 12
SPECIFICATION MCSpec
INVARIANTS CutTypeOK PhrasesWhole ChunksAdvance
PROPERTIES Terminates
CHECK_DEADLOCK FALSE
