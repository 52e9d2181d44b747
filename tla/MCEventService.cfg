CONSTANTS
    Alarm = {"a1", "a2", "a3"}
    Request <- ReqAll
    NoRequest = NoRequest
    NoRow = NoRow
    Session = {s1, s2}
    Now = {1, 2}
    PublisherConfigured = TRUE
SPECIFICATION MCSpec
INVARIANTS TypeOK AnnouncedOnce AnnouncementsAccountedFor EventIdNamesOne
