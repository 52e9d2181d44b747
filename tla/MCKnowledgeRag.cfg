CONSTANTS
    Topic = {"TEMP_001"}
    Empty = ""
    Request <- ReqAll
    NoRequest = NoRequest
    Session = {s1, s2}
    Now = {1, 2}
    PublisherConfigured = TRUE
    NumChunks <- Chunks
    TopK = 5
    Direct <- DirectAll
    Thread = {t1, t2, t3}
SPECIFICATION MCSpec
SYMMETRY Symmetry
INVARIANTS SystemTypeOK AnswersAreTrue IndexExact RetrievalIsSnapshot ToldIsSearchable TasksAreIndexed
