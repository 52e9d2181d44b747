CONSTANTS
    DeviceId = {"", "d1"}
    Empty = ""
    Report <- ReportsAll
    NoReport = NoReport
    Session = {s1, s2}
    RedisConfigured = TRUE
    PublisherConfigured = TRUE
    OfflineTimeout = 1
    Start = 5
    MaxClock = 6
SPECIFICATION MCSpec
INVARIANTS TypeOK RedisFollowsMemory AcceptedIsFound
