------------------------------ MODULE Gateway ------------------------------
(***************************************************************************)
(* The device gateway (services/device_gateway): it receives the devices'  *)
(* MQTT messages, keeps the per-type forwarding counters and the view of   *)
(* connected devices, and forwards each message by one synchronous brpc    *)
(* call (two for a registration of a known device) to the service that     *)
(* owns it.                                                                 *)
(*                                                                         *)
(* The MQTT callback runs on the threads of the MQTT client (Handler); the *)
(* counters and the view are each guarded by a mutex of their own, so a    *)
(* callback is a sequence of steps that other callbacks interleave with:   *)
(*   Deliver (markReceived) -> Drop                                        *)
(*                          -> UpdateDeviceView -> Call .. reply -> Settle.*)
(* Steps local to a thread are folded into the next step others can see.   *)
(*                                                                         *)
(* Outside src/, modelled from its use: the broker and the MQTT client     *)
(* (QoS 1, ordered per topic, redelivery after a reconnection) and the     *)
(* downstream services (an answer with a code, a failed call, or a call    *)
(* that times out here and is executed there later).                       *)
(***************************************************************************)
EXTENDS Integers, Sequences, FiniteSets

CONSTANTS
    DeviceId,     \* the strings that occur as device ids
    Empty,        \* the empty string, one of them
    Message,      \* what the devices publish in a behaviour
    NoMessage,    \* what an idle callback thread holds
    Handler,      \* the threads that run the MQTT callback
    Enabled,      \* config.downstream.enabled
    Ready,        \* the services whose brpc channel was initialised
    Now,          \* values currentUnixMillis() may return (a wall clock)
    MaxInt64,     \* the largest int64_t, scaled down
    MaxSessions   \* bound: MQTT sessions opened in a behaviour

MessageType == {"register", "telemetry", "alarm", "log", "heartbeat"}

\* The members parsePayload requires; a message lists those that are present
\* with the required JSON type.
RequiredMember == {"message_id", "device_id", "timestamp"}

\* "object": a JSON object (or null); "malformed": text that does not parse;
\* "other": a JSON array, number, string or boolean.
Json == {"object", "malformed", "other"}

\* The topics of loadGatewayConfigFromEnv, "device/+/<type>", as MQTT matches them.
Subscribed(topic) ==
    /\ Len(topic) = 3
    /\ topic[1] = "device" /\ topic[2] \in DeviceId /\ topic[3] \in MessageType

ASSUME MessageAssumption ==
    /\ Empty \in DeviceId
    /\ Message \subseteq [id : Nat, topic : Seq({"device"} \cup DeviceId \cup MessageType),
                          json : Json, members : SUBSET RequiredMember,
                          device_id : DeviceId, timestamp : Int]
    /\ \A m \in Message : Subscribed(m.topic)
    /\ NoMessage \notin Message
ASSUME HandlerAssumption == IsFiniteSet(Handler)
ASSUME ConfigAssumption ==
    /\ Enabled \in BOOLEAN
    /\ Ready \subseteq {"device", "telemetry", "event", "log"}
    /\ Now \subseteq Nat \ {0}
    /\ MaxInt64 \in Nat
    /\ MaxSessions \in Nat

-----------------------------------------------------------------------------
(* Topics and payloads *)

MessageTypeFromTopic(topic) ==
    IF Len(topic) = 3 /\ topic[1] = "device" THEN topic[3] ELSE "unknown"

TypeOf(m)   == MessageTypeFromTopic(m.topic)
DeviceOf(m) == m.topic[2]

\* jsoncpp throws instead of answering: isMember on a value that is no object,
\* asInt64 on a number outside int64_t (read only when every check has passed).
PayloadChecks(m) ==
    /\ m.json = "object"
    /\ RequiredMember \subseteq m.members
    /\ m.device_id = DeviceOf(m)
    /\ TypeOf(m) \in MessageType
ParseThrows(m) ==
    \/ m.json = "other"
    \/ PayloadChecks(m) /\ (m.timestamp > MaxInt64 \/ m.timestamp < -(MaxInt64 + 1))
ParsePayload(m) == PayloadChecks(m) /\ ~ParseThrows(m)

\* MQTT keeps the order of one topic.
Before(m1, m2) == m1.topic = m2.topic /\ m1.id < m2.id

-----------------------------------------------------------------------------
(* Downstream calls *)

CallCreate == "CreateDevice"
CallVerify == "VerifyDeviceAccess"
Call == {CallCreate, CallVerify, "UploadTelemetry", "CreateEvent", "WriteLog"}

FirstCall(t) ==
    CASE t = "register"  -> CallCreate
      [] t = "telemetry" -> "UploadTelemetry"
      [] t = "alarm"     -> "CreateEvent"
      [] t = "log"       -> "WriteLog"
ServiceOf(t) ==
    CASE t = "register"  -> "device"
      [] t = "telemetry" -> "telemetry"
      [] t = "alarm"     -> "event"
      [] t = "log"       -> "log"

\* The codes the services answer with.
ReplyCode(call) ==
    CASE call = CallCreate        -> {0, 400, 409}
      [] call = CallVerify        -> {0, 403}
      [] call = "UploadTelemetry" -> {0, 400}
      [] call = "CreateEvent"     -> {0, 400}
      [] call = "WriteLog"        -> {0, 503}

-----------------------------------------------------------------------------
VARIABLES
    published,   \* messages the devices have published
    unacked,     \* messages the broker still owes the gateway
    inSession,   \* of those, delivered in the current MQTT session
    sessions,    \* number of sessions opened so far
    proc,        \* the gateway process
    stats,       \* _stats: the counters of each message type
    devices,     \* _devices: the view of connected devices
    handler,     \* what each callback thread is doing
    acknowledged,\* downstream: code-0 answers computed for each message
    late,        \* downstream: calls given up by the gateway, still to execute
    abandoned,   \* history: callbacks ended by an exception in this process
    handled      \* history: messages some callback has returned for

brokerVars == <<published, unacked, inSession, sessions>>
memory     == <<stats, devices, abandoned>>
downstream == <<acknowledged, late>>
vars == <<brokerVars, proc, memory, handler, downstream, handled>>

Counter   == [received : Nat, forwarded : Nat, dropped : Nat, failed : Nat]
NoCounter == [received |-> 0, forwarded |-> 0, dropped |-> 0, failed |-> 0]

Device    == {DeviceOf(m) : m \in Message}
Record    == [device_id : DeviceId, connected_at : Nat, last_heartbeat_at : Nat]
NoRecord  == [device_id |-> Empty, connected_at |-> 0, last_heartbeat_at |-> 0]
Listed(d) == devices[d].connected_at # 0

IdleHandler == [pc |-> "idle", msg |-> NoMessage, call |-> "none", code |-> 0]
Pc == {"idle", "parsing", "viewed", "calling", "replied"}

TypeOK ==
    /\ published \subseteq Message
    /\ unacked \subseteq published
    /\ inSession \subseteq unacked
    /\ sessions \in 0..MaxSessions
    /\ proc \in {"down", "connected", "running", "stopping"}
    /\ stats \in [MessageType -> Counter]
    /\ devices \in [Device -> Record]
    /\ handler \in [Handler -> [pc : Pc, msg : Message \cup {NoMessage},
                                call : Call \cup {"none"}, code : Nat]]
    /\ \A h \in Handler : handler[h].pc # "idle" =>
          /\ handler[h].msg \in Message
          /\ proc # "down"
          /\ handler[h].pc \in {"calling", "replied"} => handler[h].call \in Call
    /\ acknowledged \in [Message -> Nat]
    /\ late \in [Message -> Nat]
    /\ abandoned \in [MessageType -> Nat]
    /\ handled \subseteq Message

Init ==
    /\ published = {} /\ unacked = {} /\ inSession = {} /\ sessions = 0
    /\ proc = "down"
    /\ stats = [t \in MessageType |-> NoCounter]
    /\ devices = [d \in Device |-> NoRecord]
    /\ handler = [h \in Handler |-> IdleHandler]
    /\ acknowledged = [m \in Message |-> 0]
    /\ late = [m \in Message |-> 0]
    /\ abandoned = [t \in MessageType |-> 0]
    /\ handled = {}

-----------------------------------------------------------------------------
(* The broker *)

\* A device publishes its next message. While the gateway is away the broker
\* queues it (persistent session) or discards it (clean session).
Publish(m) ==
    /\ m \notin published
    /\ \A m2 \in published : ~Before(m, m2)
    /\ published' = published \cup {m}
    /\ \/ unacked' = unacked \cup {m}
       \/ proc = "down" /\ UNCHANGED unacked
    /\ UNCHANGED <<inSession, sessions, proc, memory, handler, downstream, handled>>

\* A new session redelivers what was not acknowledged, or, if clean, nothing.
OpenSession ==
    /\ sessions < MaxSessions
    /\ sessions' = sessions + 1
    /\ inSession' = {}
    /\ unacked' \in {unacked, {}}
    /\ UNCHANGED published

\* The link breaks and the client reconnects; running callbacks go on.
Reconnect ==
    /\ proc # "down"
    /\ OpenSession
    /\ UNCHANGED <<proc, memory, handler, downstream, handled>>

-----------------------------------------------------------------------------
(* The process: start(), stop() and a crash *)

\* start() registers the handler and the subscriptions and connects: callbacks
\* run from here on, before the RPC server exists and before running is set.
Connect ==
    /\ proc = "down"
    /\ OpenSession
    /\ proc' = "connected"
    /\ UNCHANGED <<memory, handler, downstream, handled>>

StartServing ==
    /\ proc = "connected"
    /\ proc' = "running"
    /\ UNCHANGED <<brokerVars, memory, handler, downstream, handled>>

\* stop() ends the RPC server first; callbacks go on until the disconnection.
StopServing ==
    /\ proc = "running"
    /\ proc' = "stopping"
    /\ UNCHANGED <<brokerVars, memory, handler, downstream, handled>>

\* The memory of the process is gone; a call it had sent may still execute.
Outstanding(m) == {h \in Handler : handler[h].pc = "calling" /\ handler[h].msg = m}
LoseProcess ==
    /\ proc' = "down"
    /\ stats' = [t \in MessageType |-> NoCounter]
    /\ devices' = [d \in Device |-> NoRecord]
    /\ abandoned' = [t \in MessageType |-> 0]
    /\ handler' = [h \in Handler |-> IdleHandler]
    /\ late' = [m \in Message |-> late[m] + Cardinality(Outstanding(m))]
    /\ UNCHANGED <<brokerVars, acknowledged, handled>>

Disconnect == proc = "stopping" /\ LoseProcess
Crash      == proc # "down" /\ LoseProcess

-----------------------------------------------------------------------------
(* handleMqttMessage *)

Count(t, field) == stats' = [stats EXCEPT ![t][field] = @ + 1]

\* Mutant: the message is not counted on entry.
DeliverUncounted(h, m) ==
    /\ proc # "down"
    /\ handler[h].pc = "idle"
    /\ m \in unacked \ inSession
    /\ inSession' = inSession \cup {m}
    /\ handler' = [handler EXCEPT ![h] =
                    [pc |-> "parsing", msg |-> m, call |-> "none", code |-> 0]]
    /\ UNCHANGED <<published, unacked, sessions, proc, memory, downstream, handled>>

\* The callback is entered; markReceived.
Deliver(h, m) ==
    /\ proc # "down"
    /\ handler[h].pc = "idle"
    /\ m \in unacked \ inSession
    /\ \A m2 \in unacked \ inSession : ~Before(m2, m)
    /\ inSession' = inSession \cup {m}
    /\ Count(TypeOf(m), "received")
    /\ handler' = [handler EXCEPT ![h] =
                    [pc |-> "parsing", msg |-> m, call |-> "none", code |-> 0]]
    /\ UNCHANGED <<published, unacked, sessions, proc, devices, abandoned, downstream, handled>>

\* The callback returns; its acknowledgement reaches the broker or is lost.
Return(h) ==
    /\ handler' = [handler EXCEPT ![h] = IdleHandler]
    /\ handled' = handled \cup {handler[h].msg}
    /\ \/ UNCHANGED <<unacked, inSession>>
       \/ /\ unacked' = unacked \ {handler[h].msg}
          /\ inSession' = inSession \ {handler[h].msg}
    /\ UNCHANGED <<published, sessions, proc>>

\* markDropped, markForwarded, markFailed, then the callback returns.
Settle(h, field) ==
    /\ Count(TypeOf(handler[h].msg), field)
    /\ Return(h)
    /\ UNCHANGED <<devices, abandoned>>

\* Mutant: the return after markDropped is missing.
DropContinues(h) ==
    /\ handler[h].pc = "parsing"
    /\ ~ParsePayload(handler[h].msg) /\ ~ParseThrows(handler[h].msg)
    /\ Count(TypeOf(handler[h].msg), "dropped")
    /\ handler' = [handler EXCEPT ![h].pc = "viewed"]
    /\ UNCHANGED <<brokerVars, proc, devices, abandoned, downstream, handled>>

\* parsePayload returned false.
Drop(h) ==
    /\ handler[h].pc = "parsing"
    /\ ~ParsePayload(handler[h].msg) /\ ~ParseThrows(handler[h].msg)
    /\ Settle(h, "dropped")
    /\ UNCHANGED downstream

\* parsePayload threw: nothing else of the callback runs. What the client does
\* with the exception is not in src/: this is the client that swallows it, a
\* client that lets it end the process is a Crash.
Abandon(h) ==
    /\ handler[h].pc = "parsing"
    /\ ParseThrows(handler[h].msg)
    /\ abandoned' = [abandoned EXCEPT ![TypeOf(handler[h].msg)] = @ + 1]
    /\ Return(h)
    /\ UNCHANGED <<stats, devices, downstream>>

\* Mutant: the device's timestamp is taken whatever it is.
UpdatedRecordUnchecked(m, old, now) ==
    LET known == IF old.device_id = Empty
                 THEN [old EXCEPT !.device_id = DeviceOf(m), !.connected_at = now]
                 ELSE old
    IN  [known EXCEPT !.last_heartbeat_at = m.timestamp]

UpdatedRecord(m, old, now) ==
    LET known == IF old.device_id = Empty
                 THEN [old EXCEPT !.device_id = DeviceOf(m), !.connected_at = now]
                 ELSE old
    IN  IF TypeOf(m) = "heartbeat"
        THEN [known EXCEPT !.last_heartbeat_at = IF m.timestamp > 0 THEN m.timestamp ELSE now]
        ELSE IF known.last_heartbeat_at = 0
             THEN [known EXCEPT !.last_heartbeat_at = now]
             ELSE known

UpdateDeviceView(h) ==
    LET m == handler[h].msg IN
    /\ handler[h].pc = "parsing"
    /\ ParsePayload(m)
    /\ \E now \in Now :
          devices' = [devices EXCEPT ![DeviceOf(m)] = UpdatedRecord(m, @, now)]
    /\ handler' = [handler EXCEPT ![h].pc = "viewed"]
    /\ UNCHANGED <<brokerVars, proc, stats, abandoned, downstream, handled>>

-----------------------------------------------------------------------------
(* DownstreamForwarder::forward and what handleMqttMessage does with its result *)

NeedsCall(m) == Enabled /\ TypeOf(m) # "heartbeat"

\* Forwarding is disabled, or the message is a heartbeat: true without a call.
ForwardWithoutCall(h) ==
    /\ handler[h].pc = "viewed"
    /\ ~NeedsCall(handler[h].msg)
    /\ Settle(h, "forwarded")
    /\ UNCHANGED downstream

\* The channel of the service was never ready.
NoStub(h) ==
    /\ handler[h].pc = "viewed"
    /\ NeedsCall(handler[h].msg)
    /\ ServiceOf(TypeOf(handler[h].msg)) \notin Ready
    /\ Settle(h, "failed")
    /\ UNCHANGED downstream

SendCall(h, call) ==
    /\ handler' = [handler EXCEPT ![h].pc = "calling", ![h].call = call]
    /\ UNCHANGED <<brokerVars, proc, memory, downstream, handled>>

CallService(h) ==
    /\ handler[h].pc = "viewed"
    /\ NeedsCall(handler[h].msg)
    /\ ServiceOf(TypeOf(handler[h].msg)) \in Ready
    /\ SendCall(h, FirstCall(TypeOf(handler[h].msg)))

\* The service executes the call and answers.
Execute(h) ==
    /\ handler[h].pc = "calling"
    /\ \E code \in ReplyCode(handler[h].call) :
          /\ handler' = [handler EXCEPT ![h].pc = "replied", ![h].code = code]
          /\ acknowledged' = IF code = 0
                             THEN [acknowledged EXCEPT ![handler[h].msg] = @ + 1]
                             ELSE acknowledged
    /\ UNCHANGED <<brokerVars, proc, memory, late, handled>>

\* Mutants: a failed call is not counted; it is not looked at, so that the empty
\* response, code 0, passes for success; it has no timeout.
CallFailsUncounted(h) ==
    /\ handler[h].pc \in {"calling", "replied"}
    /\ Return(h)
    /\ UNCHANGED <<memory, downstream>>
CallFailsUnchecked(h) ==
    /\ handler[h].pc \in {"calling", "replied"}
    /\ Settle(h, "forwarded")
    /\ UNCHANGED downstream
CallFailsNoTimeout(h) ==
    /\ handler[h].pc = "replied"
    /\ Settle(h, "failed")
    /\ UNCHANGED downstream

\* controller.Failed(): refused, or timed out before or after the execution.
CallFails(h) ==
    /\ handler[h].pc \in {"calling", "replied"}
    /\ Settle(h, "failed")
    /\ \/ UNCHANGED late
       \/ /\ handler[h].pc = "calling"
          /\ late' = [late EXCEPT ![handler[h].msg] = @ + 1]
    /\ UNCHANGED acknowledged

\* A call the gateway no longer waits for is executed after all.
ExecuteLate(m) ==
    /\ late[m] > 0
    /\ late' = [late EXCEPT ![m] = @ - 1]
    /\ \/ UNCHANGED acknowledged
       \/ acknowledged' = [acknowledged EXCEPT ![m] = @ + 1]
    /\ UNCHANGED <<brokerVars, proc, memory, handler, handled>>

Conflict(h) == handler[h].call = CallCreate /\ handler[h].code = 409

ReplyOk(h) ==
    /\ handler[h].pc = "replied"
    /\ handler[h].code = 0
    /\ Settle(h, "forwarded")
    /\ UNCHANGED downstream

\* The device is already registered: check its credentials instead.
VerifyRegistered(h) ==
    /\ handler[h].pc = "replied"
    /\ Conflict(h)
    /\ SendCall(h, CallVerify)

ReplyError(h) ==
    /\ handler[h].pc = "replied"
    /\ handler[h].code # 0 /\ ~Conflict(h)
    /\ Settle(h, "failed")
    /\ UNCHANGED downstream

-----------------------------------------------------------------------------
HandlerStep(h) ==
    \/ Drop(h)
    \/ Abandon(h)
    \/ UpdateDeviceView(h)
    \/ ForwardWithoutCall(h)
    \/ NoStub(h)
    \/ CallService(h)
    \/ CallFails(h)
    \/ ReplyOk(h)
    \/ VerifyRegistered(h)
    \/ ReplyError(h)

\* Everything but the devices.
Step ==
    \/ \E m \in Message : ExecuteLate(m)
    \/ Reconnect \/ Connect \/ StartServing \/ StopServing \/ Disconnect \/ Crash
    \/ \E h \in Handler, m \in Message : Deliver(h, m)
    \/ \E h \in Handler : HandlerStep(h) \/ Execute(h)

Next == (\E m \in Message : Publish(m)) \/ Step

Spec == Init /\ [][Next]_vars

\* The client hands over what the broker sends, a callback thread keeps running,
\* and a brpc call ends by its timeout at the latest (CallFails). Nothing makes
\* a device publish, a service answer, or anybody restart the process.
Fairness ==
    /\ WF_vars(\E h \in Handler, m \in Message : Deliver(h, m))
    /\ \A h \in Handler : WF_vars(HandlerStep(h))

FairSpec == Spec /\ Fairness

-----------------------------------------------------------------------------
(* The read-only RPCs: each takes one lock, so it reports one state *)

\* GetForwardingStats: the types received so far, or the one asked for ("" = all).
ForwardingStats(messageType) ==
    {t \in MessageType : /\ stats[t].received > 0
                         /\ messageType = "" \/ messageType = t}

InFlight(t) == {h \in Handler : handler[h].pc # "idle" /\ TypeOf(handler[h].msg) = t}

-----------------------------------------------------------------------------
(* Properties *)

\* Every callback is in the report exactly once: what GetForwardingStats shows as
\* received of a type is what it shows as forwarded, dropped and failed, plus the
\* callbacks still running, plus those an exception ended. No interleaving of
\* callbacks, reconnection, restart or failed call counts one twice or loses one.
Accounting ==
    \A t \in MessageType :
        stats[t].received = stats[t].forwarded + stats[t].dropped + stats[t].failed
                            + abandoned[t] + Cardinality(InFlight(t))

\* A message that parsePayload rejects never reaches a service: not after a
\* redelivery, a restart, or by a call that outlives its callback.
OnlyValidReachServices ==
    \A m \in Message :
        acknowledged[m] + late[m] > 0 => ParsePayload(m) /\ NeedsCall(m)

\* The counter "forwarded" of a type never exceeds the calls the owning service
\* really accepted: the gateway does not report a message as forwarded because a
\* call was merely sent, refused or timed out.
Accepted(t) ==   \* the calls of a type that were accepted, those of one message numbered
    UNION {{m} \X (1..acknowledged[m]) : m \in {x \in Message : TypeOf(x) = t /\ NeedsCall(x)}}
ForwardedWasAccepted ==
    \A t \in MessageType \ {"heartbeat"} :
        Enabled => stats[t].forwarded <= Cardinality(Accepted(t))

\* The view and the counters are two maps under two mutexes, read by two RPCs: a
\* client that lists the devices and then reads the counters always finds a
\* received message behind every listed device, and a heartbeat time for it.
ListedWasReceived ==
    \A d \in Device : Listed(d) =>
        /\ ForwardingStats("") # {}
        /\ devices[d].last_heartbeat_at > 0

\* At least once: a message the broker owes the gateway is handled, unless the
\* session that owed it is discarded or the process goes down.
IsEventuallyHandled(m) ==
    m \in unacked ~> (m \in handled \/ m \notin unacked \/ proc = "down")
=============================================================================
