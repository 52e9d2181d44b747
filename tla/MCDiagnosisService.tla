------------------------- MODULE MCDiagnosisService -------------------------
(* Instances of DiagnosisService for TLC: which requests the clients send. *)
EXTENDS DiagnosisService

Req(id, op, device, fault, report) ==
    [id |-> id, op |-> op, complete |-> TRUE, device |-> device, event |-> Empty,
     fault |-> fault, report |-> report, verdict |-> "confirmed"]
Create(id, device) == Req(id, "CreateFaultRecord", device, 0, 0)
Start(id, device, fault) == Req(id, "StartDiagnosis", device, fault, 0)
Decide(id, report, verdict) ==
    [Req(id, "ConfirmDiagnosisReport", Empty, 0, report) EXCEPT !.verdict = verdict]

\* Two faults, one of them of an event, and a diagnosis of each: one names the device,
\* the other leaves it to the fault.
ReqDiagnose ==
    {[Create(16, "d1") EXCEPT !.event = "e1"], Create(2, "d2"),
     Start(17, Empty, 16), [Start(4, "d2", 2) EXCEPT !.event = "e2"]}

\* Two diagnoses of the same device and one of no device.
ReqNoFault == {Start(5, "d1", 0), Start(6, "d1", 0), Start(7, Empty, 0)}

\* A report is confirmed and rejected at once, and read.
ReqDecide ==
    {Start(5, "d1", 0), Decide(8, 5, "confirmed"), Decide(9, 5, "rejected"),
     Req(10, "GetDiagnosisReport", Empty, 0, 5)}

\* A fault and its report are read and listed, while a fault lacks its symptom and a
\* verdict its report.
ReqRead ==
    {Create(1, "d1"), Req(11, "GetFaultRecord", Empty, 1, 0),
     Req(12, "ListFaultRecords", "d1", 0, 0), [Create(13, "d1") EXCEPT !.complete = FALSE],
     Decide(14, 0, "confirmed")}
ReqList == {Create(1, "d1"), Start(3, Empty, 1), Req(15, "ListDiagnosisReports", "d1", 1, 0)}

\* What is requested in one behaviour.
Workload == {ReqDiagnose, ReqNoFault, ReqDecide, ReqRead, ReqList}
ReqAll == UNION Workload

Offer(s, req) == Begin(s, req) /\ \E w \in Workload : requested' \subseteq w
MCNext == (\E s \in Session, req \in Request : Offer(s, req)) \/ Step
MCSpec == Init /\ [][MCNext]_vars
=============================================================================
