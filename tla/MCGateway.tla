----------------------------- MODULE MCGateway -----------------------------
(* Instances of Gateway for TLC: which messages the devices publish. *)
EXTENDS Gateway

Msg(id, device, type, json, members, payloadDevice, timestamp) ==
    [id |-> id, topic |-> <<"device", device, type>>, json |-> json,
     members |-> members, device_id |-> payloadDevice, timestamp |-> timestamp]
Good(id, device, type, timestamp) ==
    Msg(id, device, type, "object", RequiredMember, device, timestamp)

\* A valid alarm, and then one whose payload is wrong: a member is missing, it names
\* another device, it is no JSON object, its timestamp is outside int64_t.
Alarm == Good(3, "d1", "alarm", 1)
BadAlarm == {Msg(4, "d1", "alarm", "object", {"message_id", "device_id"}, "d1", 0),
             Msg(5, "d1", "alarm", "object", RequiredMember, "d2", 4),
             Msg(6, "d1", "alarm", "other", {}, "", 0),
             Good(7, "d1", "alarm", 9)}

\* What is published in one behaviour: a registration and a report of a device; an
\* alarm and a wrong one; heartbeats with and without a usable timestamp, a log
\* nobody can be sent, and a heartbeat on the topic device//heartbeat, whose device
\* id is empty.
Workload ==
    {{Good(1, "d1", "register", 1), Good(2, "d1", "telemetry", 2)}}
    \cup {{Alarm, m} : m \in BadAlarm}
    \cup {{Good(8, "d1", "heartbeat", 1), Good(9, "d1", "heartbeat", -1), Good(10, "d1", "log", 4)},
          {Good(8, "d1", "heartbeat", 1), Good(11, "", "heartbeat", 4)}}
MsgAll == UNION Workload

Offer(m) == Publish(m) /\ \E w \in Workload : published' \subseteq w
MCNext == (\E m \in Message : Offer(m)) \/ Step
MCSpec == Init /\ [][MCNext]_vars /\ Fairness

\* IsEventuallyHandled, of the registration and of the
\* alarm that comes with each of the wrong ones.
EventuallyHandled == \A m \in {Good(1, "d1", "register", 1), Alarm} : IsEventuallyHandled(m)
=============================================================================
