CONSTANTS
    DeviceId = {"", "d1"}
    Empty = ""
    Report <- ReportsMessages
    NoReport = NoReport
    Session = {s1}
    RedisConfigured = TRUE
    PublisherConfigured = FALSE
    OfflineTimeout = 1
    Start = 5
    MaxClock = 8
SPECIFICATION Spec
INVARIANTS OnlineKeyMeansOnline
