CONSTANTS
    Doc = {"d1", "d2"}
    NoDoc = NoDoc
    NumChunks <- ChunkCount
    TopK = 5
    Request <- ReqRebuild
    NoRequest = NoRequest
    Thread = {t1, t2}
SPECIFICATION Spec
INVARIANTS AnsweredIsIndexed
