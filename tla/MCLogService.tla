---------------------------- MODULE MCLogService ----------------------------
(* Instances of LogService for TLC: which requests the clients send. *)
EXTENDS LogService

Write(id, log, device, timestamp) ==
    [id |-> id, op |-> "WriteLog", message |-> TRUE,
     log |-> [log_id |-> <<0, log>>, device_id |-> device, timestamp |-> timestamp]]
Query(id, device, start, end, size) ==
    [id |-> id, op |-> "QueryLogs", device_id |-> device, start_time |-> start,
     end_time |-> end, page |-> 0, page_size |-> size]
Context(id, device, center, limit) ==
    [id |-> id, op |-> "GetLogContext", device_id |-> device, center_time |-> center,
     before_ms |-> 9, after_ms |-> -1, limit |-> limit]

\* The clock is in the second month (6..11). A log of the first month is written and
\* written again with a later time; one without id and time; then a query of all, one
\* of a device from the first month on, one page of a single log, and contexts.
Workload ==
    {{Write(1, 1, "d1", 4), Write(2, 1, "d1", 5), Query(3, "", 0, 0, 0)},
     {Write(4, 0, "d1", 0), Write(5, 0, "d1", 8), Query(6, "d1", 4, 0, 200)},
     {Write(1, 1, "d1", 4), Write(2, 1, "d1", 5), Write(7, 1, "d1", 7), Query(8, "d1", 0, 0, 2)},
     {Write(4, 0, "d1", 0), Context(9, "d1", 8, 1), Context(10, "", 8, 0),
      [Write(11, 2, "d1", 7) EXCEPT !.message = FALSE]}}
ReqAll == UNION Workload

Offer(s, req) == Begin(s, req) /\ \E w \in Workload : requested' \subseteq w
MCNext == (\E s \in Session, req \in Request : Offer(s, req)) \/ Step
MCSpec == Init /\ [][MCNext]_vars
=============================================================================
