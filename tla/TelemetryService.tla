-------------------------- MODULE TelemetryService --------------------------
(***************************************************************************)
(* The telemetry service (services/telemetry_service): the last report and *)
(* the history of each device in memory, a copy of the last report and of  *)
(* its online flag in Redis, and the status and offline messages on        *)
(* RabbitMQ.                                                               *)
(*                                                                         *)
(* upload() changes the two maps under one mutex and then, without it,     *)
(* writes two Redis keys one after the other: sessions that upload for the *)
(* same device interleave, a write may fail, and a crash loses the memory  *)
(* and leaves Redis. Online or offline is computed when a client reads,    *)
(* from the time of the report and the clock; Redis keeps what was         *)
(* reported.                                                               *)
(*                                                                         *)
(* Outside src/, modelled from its use: Redis (plain SETs, no expiry), the *)
(* RabbitMQ exchange, and the wall clock, here one that advances.          *)
(***************************************************************************)
EXTENDS Integers, Sequences, FiniteSets

CONSTANTS
    DeviceId,          \* device ids, the empty string among them
    Empty,
    Report,            \* the reports the gateway uploads
    NoReport,
    Session,           \* brpc workers
    RedisConfigured,   \* DEVICEOPS_REDIS_ENABLED
    PublisherConfigured, \* DEVICEOPS_RABBITMQ_ENABLED
    OfflineTimeout,    \* offline_timeout_ms
    Start, MaxClock    \* bounds: the clock runs from Start to MaxClock

RunMode == {"", "auto", "manual", "offline"}

\* One report; the id stands for the measured values.
ReportType == [id : Nat, device_id : DeviceId, reported_at : Int, online : BOOLEAN,
               run_mode : RunMode]
ASSUME ReportAssumption == Report \subseteq ReportType /\ NoReport \notin ReportType
ASSUME ConfigAssumption ==
    /\ Empty \in DeviceId
    /\ RedisConfigured \in BOOLEAN /\ PublisherConfigured \in BOOLEAN
    /\ OfflineTimeout \in Int
    /\ Start \in Nat \ {0} /\ MaxClock \in Nat

Device == DeviceId \ {Empty}

-----------------------------------------------------------------------------
VARIABLES
    latest,     \* _latest: the report that arrived last
    history,    \* _history: the reports in the order they arrived
    redisUp,    \* this process has a Redis connection
    publisherUp,\* and an enabled RabbitMqEventPublisher
    status,     \* Redis: deviceops:device:status:{device_id}
    online,     \* Redis: deviceops:device:online:{device_id}
    session,    \* what each worker is doing
    uploaded,   \* reports the gateway has sent
    statusMsgs, \* reports published as telemetry.status.updated
    offlineMsgs,\* reports published as telemetry.device.offline
    clock,
    unsynced    \* history: devices whose Redis copy may differ from the memory

memory   == <<latest, history, redisUp, publisherUp>>
redis    == <<status, online>>
messages == <<statusMsgs, offlineMsgs>>
vars == <<memory, redis, session, uploaded, messages, clock, unsynced>>

IdleSession == [pc |-> "idle", req |-> NoReport, report |-> NoReport, code |-> 0]
Pc == {"idle", "begun", "stored", "statusSet", "written", "publishOffline", "replied"}

TypeOK ==
    /\ latest \in [Device -> ReportType \cup {NoReport}]
    /\ history \in [Device -> Seq(ReportType)]
    /\ redisUp \in BOOLEAN /\ publisherUp \in BOOLEAN
    /\ status \in [Device -> ReportType \cup {NoReport}]
    /\ online \in [Device -> {"absent", "0", "1"}]
    /\ session \in [Session -> [pc : Pc, req : Report \cup {NoReport},
                                report : ReportType \cup {NoReport}, code : {0, 400}]]
    /\ \A s \in Session :
          /\ session[s].pc # "idle" => session[s].req \in Report
          /\ session[s].pc \in {"stored", "statusSet"} =>
                session[s].report \in ReportType /\ session[s].report.reported_at > 0
    /\ uploaded \subseteq Report
    /\ statusMsgs \subseteq Report /\ offlineMsgs \subseteq Report
    /\ clock \in Nat
    /\ unsynced \subseteq Device

\* The constructors: without a connection the process runs on without Redis, and
\* without a client its publisher is not enabled.
Redis == {RedisConfigured, FALSE}
Publisher == {PublisherConfigured, FALSE}

Init ==
    /\ latest = [d \in Device |-> NoReport]
    /\ history = [d \in Device |-> <<>>]
    /\ redisUp \in Redis /\ publisherUp \in Publisher
    /\ status = [d \in Device |-> NoReport]
    /\ online = [d \in Device |-> "absent"]
    /\ session = [s \in Session |-> IdleSession]
    /\ uploaded = {} /\ statusMsgs = {} /\ offlineMsgs = {}
    /\ clock = Start
    /\ unsynced = Device

-----------------------------------------------------------------------------
(* UploadTelemetry *)

Move(s, pc) ==
    session' = [session EXCEPT ![s] =
                 [pc |-> pc, req |-> session[s].req, report |-> session[s].report, code |-> 0]]

Begin(s, r) ==
    /\ session[s].pc = "idle"
    /\ r \notin uploaded
    /\ uploaded' = uploaded \cup {r}
    /\ session' = [session EXCEPT ![s] =
                    [pc |-> "begun", req |-> r, report |-> NoReport, code |-> 0]]
    /\ UNCHANGED <<memory, redis, messages, clock, unsynced>>

Reject(s) ==
    /\ session[s].pc = "begun"
    /\ session[s].req.device_id = Empty
    /\ session' = [session EXCEPT ![s] =
                    [pc |-> "replied", req |-> session[s].req, report |-> NoReport, code |-> 400]]
    /\ UNCHANGED <<memory, redis, uploaded, messages, clock, unsynced>>

\* Mutant: a report without a time is kept as it is.
NotNormalized(r) == r

Normalized(r) ==
    IF r.reported_at <= 0
    THEN [id |-> r.id, device_id |-> r.device_id, reported_at |-> clock,
          online |-> r.online, run_mode |-> r.run_mode]
    ELSE r

\* Sessions that have stored a report of the device and not yet written it.
Writing(d) == {s \in Session : session[s].pc \in {"stored", "statusSet"}
                               /\ session[s].report.device_id = d}

\* The critical section of upload(). The Redis copy will follow if this process
\* writes Redis and no other session is between its memory and its Redis write.
Store(s) ==
    LET r == Normalized(session[s].req)
        d == r.device_id
    IN
    /\ session[s].pc = "begun"
    /\ session[s].req.device_id # Empty
    /\ latest' = [latest EXCEPT ![d] = r]
    /\ history' = [history EXCEPT ![d] = Append(@, r)]
    /\ session' = [session EXCEPT ![s] =
                    [pc |-> IF redisUp THEN "stored" ELSE "written",
                     req |-> session[s].req, report |-> r, code |-> 0]]
    /\ unsynced' = IF redisUp /\ Writing(d) = {} THEN unsynced \ {d} ELSE unsynced \cup {d}
    /\ UNCHANGED <<redisUp, publisherUp, redis, uploaded, messages, clock>>

\* Mutant: what the gateway sent is written, not what is kept in memory.
SetStatusAsSent(s) ==
    /\ session[s].pc = "stored"
    /\ status' = [status EXCEPT ![session[s].req.device_id] = session[s].req]
    /\ Move(s, "statusSet")
    /\ UNCHANGED <<memory, online, uploaded, messages, clock, unsynced>>

\* writeRedis: the first SET.
SetStatus(s) ==
    /\ session[s].pc = "stored"
    /\ status' = [status EXCEPT ![session[s].report.device_id] = session[s].report]
    /\ Move(s, "statusSet")
    /\ UNCHANGED <<memory, online, uploaded, messages, clock, unsynced>>

\* The second SET.
SetOnline(s) ==
    /\ session[s].pc = "statusSet"
    /\ online' = [online EXCEPT ![session[s].report.device_id] =
                    IF session[s].report.online THEN "1" ELSE "0"]
    /\ Move(s, "written")
    /\ UNCHANGED <<memory, status, uploaded, messages, clock, unsynced>>

\* A SET throws: it is logged, the rest of writeRedis is skipped, the upload goes on.
RedisFails(s) ==
    /\ session[s].pc \in {"stored", "statusSet"}
    /\ unsynced' = unsynced \cup {session[s].report.device_id}
    /\ Move(s, "written")
    /\ UNCHANGED <<memory, redis, uploaded, messages, clock>>

\* publishTelemetryStatus; refused or not, the handler goes on. Both messages carry
\* the report as it was sent.
PublishStatus(s) ==
    LET r == session[s].req IN
    /\ session[s].pc = "written"
    /\ publisherUp
    /\ statusMsgs' \in {statusMsgs \cup {r}, statusMsgs}
    /\ Move(s, IF r.online THEN "replied" ELSE "publishOffline")
    /\ UNCHANGED <<memory, redis, uploaded, offlineMsgs, clock, unsynced>>

PublishOffline(s) ==
    /\ session[s].pc = "publishOffline"
    /\ offlineMsgs' \in {offlineMsgs \cup {session[s].req}, offlineMsgs}
    /\ Move(s, "replied")
    /\ UNCHANGED <<memory, redis, uploaded, statusMsgs, clock, unsynced>>

NoPublisher(s) ==
    /\ session[s].pc = "written"
    /\ ~publisherUp
    /\ Move(s, "replied")
    /\ UNCHANGED <<memory, redis, uploaded, messages, clock, unsynced>>

Answer(s) ==
    /\ session[s].pc = "replied"
    /\ session' = [session EXCEPT ![s] = IdleSession]
    /\ UNCHANGED <<memory, redis, uploaded, messages, clock, unsynced>>

-----------------------------------------------------------------------------
(* A crash and a restart, and time *)

Crash ==
    /\ latest' = [d \in Device |-> NoReport]
    /\ history' = [d \in Device |-> <<>>]
    /\ redisUp' \in Redis /\ publisherUp' \in Publisher
    /\ session' = [s \in Session |-> IdleSession]
    /\ unsynced' = Device
    /\ UNCHANGED <<redis, uploaded, messages, clock>>

Tick ==
    /\ clock < MaxClock
    /\ clock' = clock + 1
    /\ UNCHANGED <<memory, redis, session, uploaded, messages, unsynced>>

-----------------------------------------------------------------------------
SessionStep(s) ==
    \/ Reject(s) \/ Store(s) \/ SetStatus(s) \/ SetOnline(s) \/ RedisFails(s)
    \/ PublishStatus(s) \/ PublishOffline(s) \/ NoPublisher(s) \/ Answer(s)

\* Everything but the arrival of a request.
Step ==
    \/ \E s \in Session : SessionStep(s)
    \/ Crash \/ Tick

Next == (\E s \in Session, r \in Report : Begin(s, r)) \/ Step

Spec == Init /\ [][Next]_vars

-----------------------------------------------------------------------------
(* The queries: each is one critical section *)

WithComputedOnlineStatus(r) ==
    IF OfflineTimeout <= 0 \/ r.reported_at <= 0 \/ clock - r.reported_at <= OfflineTimeout
    THEN r
    ELSE [r EXCEPT !.online = FALSE,
                   !.run_mode = IF @ \in {"", "auto"} THEN "offline" ELSE @]

GetRealtime(d) ==
    IF latest[d] = NoReport THEN NoReport ELSE WithComputedOnlineStatus(latest[d])

\* deviceIds {} asks for all devices.
ListRealtime(deviceIds, onlyOnline) ==
    {GetRealtime(d) : d \in {x \in Device : /\ latest[x] # NoReport
                                            /\ deviceIds = {} \/ x \in deviceIds
                                            /\ onlyOnline => GetRealtime(x).online}}

\* Mutant: the end of the interval is excluded.
QueryHistoryHalfOpen(d, startTime, endTime) ==
    {history[d][i] : i \in {j \in DOMAIN history[d] :
        /\ startTime > 0 => history[d][j].reported_at >= startTime
        /\ endTime > 0 => history[d][j].reported_at < endTime}}

\* 0 leaves a side of the interval open. The order, that of arrival, and the page are
\* left out.
QueryHistory(d, startTime, endTime) ==
    {history[d][i] : i \in {j \in DOMAIN history[d] :
        /\ startTime > 0 => history[d][j].reported_at >= startTime
        /\ endTime > 0 => history[d][j].reported_at <= endTime}}

-----------------------------------------------------------------------------
(* Properties *)

\* Redis catches up with the memory by itself: once an upload has run through alone,
\* both keys hold what GetRealtimeStatus is computed from, whatever overlapping
\* uploads, failed writes and restarts left there before.
RedisFollowsMemory ==
    \A d \in Device \ unsynced :
        /\ \A s \in Writing(d) : session[s].pc # "stored"
        => /\ status[d] = latest[d]
           /\ Writing(d) = {} => online[d] = IF latest[d].online THEN "1" ELSE "0"

\* A report that was accepted is found: whatever its own time and whatever else
\* arrived since, a history query for the instant it carries (or was given on
\* arrival) returns it, and the device has a realtime status that a list of that
\* device shows. Consumers of telemetry.device.offline are told of none that was
\* rejected or said online, although the message carries the report as it was sent.
AcceptedIsFound ==
    /\ \A r \in offlineMsgs : ~r.online /\ r.device_id \in Device
    /\ \A s \in Session :
        session[s].pc \in {"written", "publishOffline", "replied"} /\ session[s].code = 0 =>
            LET r == session[s].report IN
            /\ r \in QueryHistory(r.device_id, r.reported_at, r.reported_at)
            /\ GetRealtime(r.device_id) \in ListRealtime({r.device_id}, FALSE)

\* docs/03_design.md:403: the online key exists with value 1 if the device is
\* online (it is to expire after 90 s without a report). The code sets no expiry.
OnlineKeyMeansOnline ==
    \A d \in Device : online[d] = "1" /\ Writing(d) = {} /\ latest[d] # NoReport
                      /\ d \notin unsynced => GetRealtime(d).online
=============================================================================
