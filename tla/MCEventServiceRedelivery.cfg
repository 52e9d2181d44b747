CONSTANTS
    Alarm = {"a1", "a2", "a3"}
    Request <- ReqRedelivery
    NoRequest = NoRequest
    NoRow = NoRow
    Session = {s1}
    Now = {1, 2}
    PublisherConfigured = TRUE
SPECIFICATION Spec
INVARIANTS OneEventPerAlarm
