CONSTANTS
    DeviceId = {"", "d1"}
    Empty = ""
    Token = {"t1", "t2"}
    Hash <- HashOfToken
    Protocol = {"", "mqtt", "tcp"}
    Mqtt = "mqtt"
    Field = {"status", "device_name"}
    Status = "status"
    Value = {"", "enabled", "disabled", "maintenance", "other", "unspecified", "n1", "n2"}
    Enabled = "enabled"
    Unspecified = "unspecified"
    KnownStatus = {"enabled", "disabled", "maintenance"}
    NoRequest = NoRequest
    NoRow = NoRow
    Request <- ReqAll
    Session = {s1, s2}
SPECIFICATION MCSpec
INVARIANTS TypeOK AnswersStayTrue PatchesSurvive
PROPERTIES RegistrySpec
