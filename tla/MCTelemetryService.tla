------------------------- MODULE MCTelemetryService -------------------------
(* Instances of TelemetryService for TLC: which reports the gateway uploads. *)
EXTENDS TelemetryService

Rep(id, device, reportedAt, isOnline, mode) ==
    [id |-> id, device_id |-> device, reported_at |-> reportedAt, online |-> isOnline,
     run_mode |-> mode]

\* One device reports online, late that it was offline, and without a time.
ReportsUpload ==
    {Rep(1, "d1", 5, TRUE, "auto"), Rep(2, "d1", 4, FALSE, "manual"),
     Rep(3, "d1", 0, TRUE, "")}
\* One device reports online and then offline; one report names no device.
ReportsMessages ==
    {Rep(4, "d1", 5, TRUE, "auto"), Rep(5, "d1", 6, FALSE, "auto"),
     Rep(6, "", 5, FALSE, "auto")}

\* What is uploaded in one behaviour.
Workload == {ReportsUpload, ReportsMessages}
ReportsAll == UNION Workload

Offer(s, r) == Begin(s, r) /\ \E w \in Workload : uploaded' \subseteq w
MCNext == (\E s \in Session, r \in Report : Offer(s, r)) \/ Step
MCSpec == Init /\ [][MCNext]_vars
=============================================================================
