CONSTANTS
    Device = {"d1", "d2"}
    Event = {"e1", "e2"}
    Empty = ""
    Request <- ReqAll
    NoRequest = NoRequest
    Session = {s1, s2}
    Now = {1, 2}
    PublisherConfigured = TRUE
SPECIFICATION MCSpec
INVARIANTS TypeOK ReportsNameTheirFault TasksAreReports AnswersAreTrue VerdictStands
