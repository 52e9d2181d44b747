CONSTANTS
    DeviceId = {"", "d1"}
    Empty = ""
    Request <- ReqAll
    NoRequest = NoRequest
    Session = {s1, s2}
    Now = {7, 8}
    MonthLength = 6
    MaxQuerySize = 2
    PublisherConfigured = TRUE
SPECIFICATION MCSpec
INVARIANTS TypeOK AcceptedIsIndexed WrittenIsFound NoLogTwice
