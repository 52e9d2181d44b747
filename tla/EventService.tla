---------------------------- MODULE EventService ----------------------------
(***************************************************************************)
(* The event service (services/event_service): the table `events' of alarm *)
(* events, the handlers that create, read, list and move them from status  *)
(* to status, and the announcement of a new event on RabbitMQ              *)
(* (RabbitMqEventPublisher::publishAlarmCreated).                          *)
(*                                                                         *)
(* CreateEvent commits the row, then publishes, then answers: a crash or a *)
(* refusing broker in between leaves an event nobody was told of, and an   *)
(* answer the gateway no longer waits for is followed by the same alarm    *)
(* again. UpdateEventStatus reads the row without a lock and writes all of *)
(* it back.                                                                *)
(*                                                                         *)
(* Outside src/, modelled from its use: MySQL and ODB as in DeviceService, *)
(* the exchange, the wall clock (which may stand still or be set back) and *)
(* the gateway, which may send an alarm again.                             *)
(***************************************************************************)
EXTENDS Integers, Sequences, FiniteSets

CONSTANTS
    Alarm,            \* the alarms the devices raise
    Request,          \* the requests of a behaviour
    NoRequest,
    NoRow,
    Session,          \* brpc workers
    Now,              \* values currentUnixMillis() may return
    PublisherConfigured \* DEVICEOPS_RABBITMQ_ENABLED

Status == {"open", "processing", "resolved", "closed", "unspecified"}
Op == {"CreateEvent", "GetEvent", "ListEvents", "UpdateEventStatus"}

\* An event is requested by the alarm it was created for, event_id being what a
\* client has seen in the table before; `status' is what an update asks for, and
\* "unset" is EVENT_STATUS_UNSPECIFIED. complete: device_id, event_type, title and
\* severity are present (CreateEvent), event_id and status are (UpdateEventStatus).
ASSUME RequestAssumption ==
    /\ Request \subseteq [id : Nat, op : Op, alarm : Alarm, complete : BOOLEAN,
                          status : Status]
    /\ NoRequest \notin Request
ASSUME ConfigAssumption == Now \subseteq Nat \ {0} /\ PublisherConfigured \in BOOLEAN

\* resolved_at 0 is the NULL column.
Row == [id : Nat, event_id : Nat \X Nat, alarm : Alarm, status : Status, resolved_at : Nat]

-----------------------------------------------------------------------------
VARIABLES
    events,     \* the table
    nextId,     \* its auto-increment key
    sequence,   \* _sequence of EventRepository: 1 at every start
    publisherUp,\* RabbitMqEventPublisher::enabled() of this process
    session,    \* what each worker is doing
    requested,  \* requests the clients have sent
    exchange,   \* what deviceops.event.exchange has accepted, in order
    answers,    \* history: what the clients were answered
    unannounced \* history: events whose announcement failed or was cut off

vars == <<events, nextId, sequence, publisherUp, session, requested, exchange, answers, unannounced>>

Code == {0, 400, 404}
IdleSession == [pc |-> "idle", req |-> NoRequest, row |-> NoRow, code |-> 0]

TypeOK ==
    /\ events \subseteq Row
    /\ nextId \in Nat /\ sequence \in Nat /\ publisherUp \in BOOLEAN
    /\ session \in [Session -> [pc : {"idle", "begun", "queried", "publishing", "replied"},
                                req : Request \cup {NoRequest},
                                row : Row \cup {NoRow}, code : Code]]
    /\ \A s \in Session :
          /\ session[s].pc # "idle" => session[s].req \in Request
          /\ session[s].pc \in {"queried", "publishing"} => session[s].row \in Row
    /\ requested \subseteq Request
    /\ exchange \in Seq(Row)
    /\ answers \subseteq [req : Request, code : Code, row : Row \cup {NoRow}]
    /\ unannounced \subseteq Row

\* The constructor of the publisher: it is configured and has its client, or not.
Publisher == {PublisherConfigured, FALSE}

Init ==
    /\ events = {} /\ nextId = 1 /\ sequence = 1
    /\ publisherUp \in Publisher
    /\ session = [s \in Session |-> IdleSession]
    /\ requested = {} /\ exchange = <<>> /\ answers = {} /\ unannounced = {}

-----------------------------------------------------------------------------
(* Requests and answers *)

Serving(s, op) == session[s].pc = "begun" /\ session[s].req.op = op

Move(s, pc, row, code) ==
    session' = [session EXCEPT ![s] =
                 [pc |-> pc, req |-> session[s].req, row |-> row, code |-> code]]

Begin(s, req) ==
    /\ session[s].pc = "idle"
    /\ req \notin requested
    /\ requested' = requested \cup {req}
    /\ session' = [session EXCEPT ![s] =
                    [pc |-> "begun", req |-> req, row |-> NoRow, code |-> 0]]
    /\ UNCHANGED <<publisherUp, events, nextId, sequence, exchange, answers, unannounced>>

Reply(s, code, row) ==
    /\ Move(s, "replied", row, code)
    /\ UNCHANGED <<requested, answers>>

\* done_guard sends the response.
Answer(s) ==
    /\ session[s].pc = "replied"
    /\ answers' = answers \cup
         {[req |-> session[s].req, code |-> session[s].code, row |-> session[s].row]}
    /\ session' = [session EXCEPT ![s] = IdleSession]
    /\ UNCHANGED <<publisherUp, events, nextId, sequence, requested, exchange, unannounced>>

-----------------------------------------------------------------------------
(* CreateEvent *)

RejectCreate(s) ==
    /\ Serving(s, "CreateEvent")
    /\ ~session[s].req.complete
    /\ Reply(s, 400, NoRow)
    /\ UNCHANGED <<publisherUp, events, nextId, sequence, exchange, unannounced>>

\* nextEventId: the clock and the sequence number of this process.
EventIdTaken(id) == \E e \in events : e.event_id = id
NewEvent(req, now) ==
    [id |-> nextId, event_id |-> <<now, sequence>>, alarm |-> req.alarm,
     status |-> "open", resolved_at |-> 0]

\* Mutants: the event is announced before it is committed; the column has no unique
\* index; nothing is announced.
PublishFirst(s) ==
    /\ Serving(s, "CreateEvent")
    /\ session[s].req.complete
    /\ \E now \in Now : Move(s, "publishing", NewEvent(session[s].req, now), 0)
    /\ sequence' = sequence + 1
    /\ nextId' = nextId + 1
    /\ UNCHANGED <<publisherUp, events, requested, exchange, answers, unannounced>>
PersistUnindexed(s) ==
    /\ Serving(s, "CreateEvent")
    /\ session[s].req.complete
    /\ sequence' = sequence + 1
    /\ \E now \in Now :
          LET row == NewEvent(session[s].req, now) IN
          /\ events' = events \cup {row}
          /\ nextId' = nextId + 1
          /\ Move(s, "publishing", row, 0)
    /\ UNCHANGED <<publisherUp, requested, exchange, answers, unannounced>>
PersistSilently(s) ==
    /\ Serving(s, "CreateEvent")
    /\ session[s].req.complete
    /\ sequence' = sequence + 1
    /\ nextId' = nextId + 1
    /\ \E now \in Now :
          LET row == NewEvent(session[s].req, now) IN
          /\ ~EventIdTaken(row.event_id)
          /\ events' = events \cup {row}
          /\ Reply(s, 0, row)
    /\ UNCHANGED <<publisherUp, exchange, unannounced>>

\* persist and commit: the row is in the table, although the caller may read an
\* error; or the event_id is taken (by a process that ran at the same time by the
\* clock) and the unique index refuses it.
Persist(s) ==
    /\ Serving(s, "CreateEvent")
    /\ session[s].req.complete
    /\ sequence' = sequence + 1
    /\ nextId' = nextId + 1
    /\ \E now \in Now :
          LET row == NewEvent(session[s].req, now) IN
          \/ /\ ~EventIdTaken(row.event_id)
             /\ events' = events \cup {row}
             /\ Move(s, IF publisherUp THEN "publishing" ELSE "replied", row, 0)
             /\ unannounced' = IF publisherUp THEN unannounced ELSE unannounced \cup {row}
          \/ /\ ~EventIdTaken(row.event_id)
             /\ events' = events \cup {row}
             /\ Move(s, "replied", NoRow, 400)
             /\ unannounced' = unannounced \cup {row}
          \/ /\ EventIdTaken(row.event_id)
             /\ Move(s, "replied", NoRow, 400)
             /\ UNCHANGED <<events, unannounced>>
    /\ UNCHANGED <<publisherUp, requested, exchange, answers>>

\* publishAlarmCreated, one call of the client under the publisher's mutex; when the
\* broker refuses it, the handler only logs.
Publish(s) ==
    /\ session[s].pc = "publishing"
    /\ \/ exchange' = Append(exchange, session[s].row) /\ UNCHANGED unannounced
       \/ unannounced' = unannounced \cup {session[s].row} /\ UNCHANGED exchange
    /\ Reply(s, 0, session[s].row)
    /\ UNCHANGED <<publisherUp, events, nextId, sequence>>

-----------------------------------------------------------------------------
(* UpdateEventStatus *)

\* A client names an event by the id it has seen for its alarm.
EventsOf(alarm) == {e \in events : e.alarm = alarm}

RejectUpdate(s) ==
    /\ Serving(s, "UpdateEventStatus")
    /\ ~session[s].req.complete
    /\ Reply(s, 400, NoRow)
    /\ UNCHANGED <<publisherUp, events, nextId, sequence, exchange, unannounced>>

\* Mutant: the entity is not checked for null.
UpdateUnchecked(s) ==
    /\ Serving(s, "UpdateEventStatus")
    /\ session[s].req.complete
    /\ EventsOf(session[s].req.alarm) = {}
    /\ Move(s, "queried", NoRow, 0)
    /\ UNCHANGED <<publisherUp, events, nextId, sequence, requested, exchange, answers, unannounced>>

UpdateFindsNone(s) ==
    /\ Serving(s, "UpdateEventStatus")
    /\ session[s].req.complete
    /\ EventsOf(session[s].req.alarm) = {}
    /\ Reply(s, 404, NoRow)
    /\ UNCHANGED <<publisherUp, events, nextId, sequence, exchange, unannounced>>

UpdateReads(s) ==
    /\ Serving(s, "UpdateEventStatus")
    /\ session[s].req.complete
    /\ \E row \in EventsOf(session[s].req.alarm) : Move(s, "queried", row, 0)
    /\ UNCHANGED <<publisherUp, events, nextId, sequence, requested, exchange, answers, unannounced>>

\* Any status may follow any other; resolved_at is never cleared.
Moved(row, status, now) ==
    [row EXCEPT !.status = status,
                !.resolved_at = IF status \in {"resolved", "closed"} THEN now ELSE @]

\* update and commit: the whole copy is written back.
Write(s) ==
    /\ session[s].pc = "queried"
    /\ \E now \in Now :
          LET row == Moved(session[s].row, session[s].req.status, now) IN
          /\ events' = {e \in events : e.id # row.id} \cup {row}
          /\ Reply(s, 0, row) \/ Reply(s, 400, NoRow)
    /\ UNCHANGED <<publisherUp, nextId, sequence, exchange, unannounced>>

-----------------------------------------------------------------------------
(* GetEvent and ListEvents: one query each *)

GetEvent(s) ==
    /\ Serving(s, "GetEvent")
    /\ \/ \E row \in EventsOf(session[s].req.alarm) : Reply(s, 0, row)
       \/ EventsOf(session[s].req.alarm) = {} /\ Reply(s, 404, NoRow)
    /\ UNCHANGED <<publisherUp, events, nextId, sequence, exchange, unannounced>>

\* The answer is always 0; one of the rows that match, if any, stands for the page.
ListEvents(s) ==
    /\ Serving(s, "ListEvents")
    /\ \/ \E row \in events : row.status = session[s].req.status /\ Reply(s, 0, row)
       \/ Reply(s, 0, NoRow)
    /\ UNCHANGED <<publisherUp, events, nextId, sequence, exchange, unannounced>>

-----------------------------------------------------------------------------
(* Failures *)

ErrorCode(op) ==
    CASE op \in {"CreateEvent", "UpdateEventStatus"} -> 400
      [] op = "GetEvent"                             -> 404
      [] op = "ListEvents"                           -> 0

\* ODB throws and nothing was committed; a create has used its sequence number.
DatabaseFails(s) ==
    /\ session[s].pc \in {"begun", "queried"}
    /\ session[s].req.complete
    /\ sequence' = IF Serving(s, "CreateEvent") THEN sequence + 1 ELSE sequence
    /\ Reply(s, ErrorCode(session[s].req.op), NoRow)
    /\ UNCHANGED <<publisherUp, events, nextId, exchange, unannounced>>

\* The process ends and is started again.
Crash ==
    /\ session' = [s \in Session |-> IdleSession]
    /\ sequence' = 1
    /\ publisherUp' \in Publisher
    /\ unannounced' = unannounced \cup
         {session[s].row : s \in {t \in Session : session[t].pc = "publishing"}}
    /\ UNCHANGED <<events, nextId, requested, exchange, answers>>

-----------------------------------------------------------------------------
SessionStep(s) ==
    \/ RejectCreate(s) \/ Persist(s) \/ Publish(s)
    \/ RejectUpdate(s) \/ UpdateFindsNone(s) \/ UpdateReads(s) \/ Write(s)
    \/ GetEvent(s) \/ ListEvents(s) \/ DatabaseFails(s)

\* Everything but the arrival of a request.
Step ==
    \/ \E s \in Session : SessionStep(s) \/ Answer(s)
    \/ Crash

Next == (\E s \in Session, req \in Request : Begin(s, req)) \/ Step

Spec == Init /\ [][Next]_vars

-----------------------------------------------------------------------------
(* Properties *)

Announced(e) == {i \in DOMAIN exchange : exchange[i].id = e.id}
Announcing(e) == {s \in Session : session[s].pc = "publishing" /\ session[s].row.id = e.id}

\* Consumers of event.alarm.created hear only of events that are in the table, by
\* the id that finds them, and of each one once: no retry, crash or concurrent
\* session announces an event that was not committed, or announces one twice.
AnnouncedOnce ==
    /\ \A i \in DOMAIN exchange : \E e \in events : e.event_id = exchange[i].event_id
                                                    /\ e.alarm = exchange[i].alarm
    /\ \A i, j \in DOMAIN exchange : exchange[i].event_id = exchange[j].event_id => i = j

\* Every event of the table was announced, is being announced, or is one whose
\* announcement was refused or cut off (or went unsent because the caller read an
\* error): nothing else keeps an event from its consumers.
AnnouncementsAccountedFor ==
    \A e \in events :
        Announced(e) # {} \/ Announcing(e) # {} \/ \E u \in unannounced : u.id = e.id

\* Event ids name one event each, although the sequence number starts again with
\* every process and the clock may be set back; so an answer of 0 to CreateEvent
\* names an event that GetEvent and UpdateEventStatus find, and no other. An event is
\* one row, however many sessions move it at once, and one that is resolved or closed
\* has the time of it.
EventIdNamesOne ==
    /\ \A e1, e2 \in events : e1.event_id = e2.event_id => e1.id = e2.id
    /\ \A a \in answers : a.req.op = "CreateEvent" /\ a.code = 0 =>
          \E e \in events : e.event_id = a.row.event_id /\ e.alarm = a.req.alarm
    /\ \A e1, e2 \in events : e1.id = e2.id => e1 = e2
    /\ \A e \in events : e.status \in {"resolved", "closed"} => e.resolved_at # 0

\* docs/03_design.md:90: a device anomaly generates one event. The gateway
\* sends an alarm again when its acknowledgement was lost, and the service has
\* nothing to recognise it by.
OneEventPerAlarm == \A e1, e2 \in events : e1.alarm = e2.alarm => e1.id = e2.id
=============================================================================
