CONSTANTS
    DeviceId = {"", "d1", "d2"}
    Empty = ""
    Message <- MsgAll
    NoMessage = NoMessage
    Handler = {h1, h2}
    Enabled = TRUE
    Ready = {"device", "telemetry", "event"}
    Now = {5}
    MaxInt64 = 8
    MaxSessions = 2
SPECIFICATION MCSpec
INVARIANTS TypeOK Accounting ForwardedWasAccepted OnlyValidReachServices ListedWasReceived
PROPERTIES EventuallyHandled
CHECK_DEADLOCK FALSE
