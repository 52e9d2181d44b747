--------------------------- MODULE MCEventService ---------------------------
(* Instances of EventService for TLC: which requests the clients send. *)
EXTENDS EventService

Req(id, op, alarm, status) ==
    [id |-> id, op |-> op, alarm |-> alarm, complete |-> TRUE, status |-> status]
Incomplete(req) == [req EXCEPT !.complete = FALSE]

\* Three alarms are raised.
ReqCreate ==
    {Req(1, "CreateEvent", "a1", "open"), Req(2, "CreateEvent", "a2", "open"),
     Req(3, "CreateEvent", "a3", "open")}

\* One event is created and its status moved twice at once; one is created, moved,
\* read and listed while a create and an update lack a field.
ReqMove ==
    {Req(11, "CreateEvent", "a1", "open"),
     Req(12, "UpdateEventStatus", "a1", "closed"),
     Req(13, "UpdateEventStatus", "a1", "processing")}
ReqRead ==
    {Req(11, "CreateEvent", "a1", "open"),
     Req(14, "GetEvent", "a1", "open"), Req(15, "ListEvents", "a1", "open"),
     Incomplete(Req(16, "CreateEvent", "a1", "open")),
     Incomplete(Req(17, "UpdateEventStatus", "a1", "open"))}

\* What is requested in one behaviour.
Workload == {ReqCreate, ReqMove, ReqRead}
ReqAll == UNION Workload

Offer(s, req) == Begin(s, req) /\ \E w \in Workload : requested' \subseteq w
MCNext == (\E s \in Session, req \in Request : Offer(s, req)) \/ Step
MCSpec == Init /\ [][MCNext]_vars

\* The gateway sends an alarm, and sends it again.
ReqRedelivery == {Req(1, "CreateEvent", "a1", "open"), Req(2, "CreateEvent", "a1", "open")}
=============================================================================
