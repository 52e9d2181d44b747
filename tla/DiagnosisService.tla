-------------------------- MODULE DiagnosisService --------------------------
(***************************************************************************)
(* The diagnosis service (services/diagnosis_service): the tables          *)
(* `fault_records' and `diagnosis_reports', the handlers that create, read *)
(* and list faults and reports, StartDiagnosis and the engineer's verdict  *)
(* on a report.                                                            *)
(*                                                                         *)
(* StartDiagnosis is four steps in four systems: it reads the fault from   *)
(* MySQL, has the RAG service draft a diagnosis (DiagnosisRagClient), puts *)
(* the report into MySQL and announces it on RabbitMQ. Nothing spans them: *)
(* each may fail alone, or the process may end in between.                 *)
(*                                                                         *)
(* Outside src/, modelled from its use: MySQL, ODB, the exchange and the   *)
(* wall clock as in EventService. The RAG service answers or it does not;  *)
(* what the draft says is left out.                                        *)
(***************************************************************************)
EXTENDS Integers, Sequences

CONSTANTS
    Device, Event,
    Empty,            \* the empty string: no device_id, no event_id
    Request,          \* the requests of a behaviour
    NoRequest,
    Session,          \* brpc workers
    Now,              \* values currentUnixMillis() may return
    PublisherConfigured \* DEVICEOPS_RABBITMQ_ENABLED

Verdict == {"confirmed", "rejected"}
Op == {"CreateFaultRecord", "GetFaultRecord", "ListFaultRecords", "StartDiagnosis",
       "GetDiagnosisReport", "ListDiagnosisReports", "ConfirmDiagnosisReport"}

\* `fault' and `report' name a row as a client does that has seen it before: by the
\* request that created it; 0 is an empty fault_id or report_id. complete: fault_type
\* and symptom are present (CreateFaultRecord).
ASSUME RequestAssumption ==
    /\ Request \subseteq [id : Nat \ {0}, op : Op, complete : BOOLEAN,
                          device : Device \cup {Empty}, event : Event \cup {Empty},
                          fault : Nat, report : Nat, verdict : Verdict]
    /\ \A r1, r2 \in Request : r1.id = r2.id => r1 = r2
    /\ NoRequest \notin Request
ASSUME ConfigAssumption ==
    /\ Now \subseteq Nat \ {0} /\ PublisherConfigured \in BOOLEAN
    /\ Empty \notin Device /\ Empty \notin Event

Id == Nat \X Nat   \* the clock and a sequence number
NoId == <<0, 0>>   \* the NULL column; no clock reads 0

\* by: the request that created the row.
Fault == [id : Nat, fault_id : Id, device : Device, event : Event \cup {Empty}, by : Nat]
Report == [id : Nat, report_id : Id, device : Device, event : Event \cup {Empty},
           fault_id : Id, status : {"draft"} \cup Verdict, by : Nat]

\* A message of diagnosis.task.created: the report, and the device the REQUEST named.
Task == [report_id : Id, device : Device \cup {Empty}]

-----------------------------------------------------------------------------
VARIABLES
    faults, reports,               \* the tables
    nextFault, nextReport,         \* their auto-increment keys
    faultSequence, reportSequence, \* atomics of DiagnosisRepository: 1 at every start
    publisherUp,                   \* RabbitMqEventPublisher::enabled() of this process
    session,                       \* what each worker is doing
    requested,                     \* requests the clients have sent
    exchange,                      \* what the exchange has accepted, in order
    answers                        \* history: what the clients were answered

tables == <<faults, nextFault, reports, nextReport>>
sequences == <<faultSequence, reportSequence>>
vars == <<tables, sequences, publisherUp, session, requested, exchange, answers>>

Code == {0, 400, 404, 503}
Pc == {"idle", "begun", "diagnosing", "drafted", "publishing", "queried", "replied"}

AtMostOne(set) == \A x, y \in set : x = y

\* What a worker holds: the fault and the report it has read or made, if any.
IdleSession == [pc |-> "idle", req |-> NoRequest, fault |-> {}, report |-> {}, code |-> 0]

TypeOK ==
    /\ faults \subseteq Fault /\ reports \subseteq Report
    /\ {nextFault, nextReport, faultSequence, reportSequence} \subseteq Nat
    /\ publisherUp \in BOOLEAN
    /\ session \in [Session -> [pc : Pc, req : Request \cup {NoRequest}, fault : SUBSET Fault,
                                report : SUBSET Report, code : Code]]
    /\ \A s \in Session :
          /\ AtMostOne(session[s].fault) /\ AtMostOne(session[s].report)
          /\ session[s].pc \in {"publishing", "queried"} => session[s].report # {}
    /\ requested \subseteq Request
    /\ exchange \in Seq(Task)
    /\ answers \subseteq [req : Request, code : Code, fault : SUBSET Fault,
                          report : SUBSET Report]

\* The constructor of the publisher: it is configured and has its client, or not.
Publisher == {PublisherConfigured, FALSE}

Init ==
    /\ faults = {} /\ reports = {}
    /\ nextFault = 1 /\ nextReport = 1
    /\ faultSequence = 1 /\ reportSequence = 1
    /\ publisherUp \in Publisher
    /\ session = [s \in Session |-> IdleSession]
    /\ requested = {} /\ exchange = <<>> /\ answers = {}

-----------------------------------------------------------------------------
(* Requests and answers *)

At(s, pc, op) == session[s].pc = pc /\ session[s].req.op = op
Serving(s, op) == At(s, "begun", op)

Move(s, pc, fault, report, code) ==
    /\ session' = [session EXCEPT ![s] =
                    [pc |-> pc, req |-> session[s].req,
                     fault |-> fault, report |-> report, code |-> code]]
    /\ UNCHANGED <<publisherUp, requested, answers>>

Reply(s, code, fault, report) == Move(s, "replied", fault, report, code)
Refuse(s, code) == Reply(s, code, {}, {}) /\ UNCHANGED <<tables, sequences, exchange>>

Begin(s, req) ==
    /\ session[s].pc = "idle"
    /\ req \notin requested
    /\ requested' = requested \cup {req}
    /\ session' = [session EXCEPT ![s] =
                    [pc |-> "begun", req |-> req, fault |-> {}, report |-> {}, code |-> 0]]
    /\ UNCHANGED <<tables, sequences, publisherUp, exchange, answers>>

\* done_guard sends the response.
Answer(s) ==
    /\ session[s].pc = "replied"
    /\ answers' = answers \cup {[req |-> session[s].req, code |-> session[s].code,
                                 fault |-> session[s].fault, report |-> session[s].report]}
    /\ session' = [session EXCEPT ![s] = IdleSession]
    /\ UNCHANGED <<tables, sequences, publisherUp, requested, exchange>>

-----------------------------------------------------------------------------
(* CreateFaultRecord *)

Complete(req) == req.complete /\ req.device # Empty

RejectFault(s) ==
    /\ Serving(s, "CreateFaultRecord")
    /\ ~Complete(session[s].req)
    /\ Refuse(s, 400)

NewFault(req, now) ==
    [id |-> nextFault, fault_id |-> <<now, faultSequence>>, device |-> req.device,
     event |-> req.event, by |-> req.id]

\* Mutant: fault_id has no unique index.
NeverTaken(id) == id = NoId
FaultIdTaken(id) == \E f \in faults : f.fault_id = id

\* persist and commit: the row is in, although the caller may read an error; or the
\* unique index refuses a fault_id of a process that ran at the same time by the clock.
PersistFault(s) ==
    /\ Serving(s, "CreateFaultRecord")
    /\ Complete(session[s].req)
    /\ faultSequence' = faultSequence + 1
    /\ nextFault' = nextFault + 1
    /\ \E now \in Now :
          LET fault == NewFault(session[s].req, now) IN
          \/ /\ ~FaultIdTaken(fault.fault_id)
             /\ faults' = faults \cup {fault}
             /\ Reply(s, 0, {fault}, {}) \/ Reply(s, 400, {}, {})
          \/ /\ FaultIdTaken(fault.fault_id)
             /\ Reply(s, 400, {}, {})
             /\ UNCHANGED faults
    /\ UNCHANGED <<reports, nextReport, reportSequence, exchange>>

-----------------------------------------------------------------------------
(* StartDiagnosis *)

\* query_one by the fault_id of the fault the client has seen.
FaultsNamed(req) ==
    {f \in faults : \E seen \in faults : seen.by = req.fault /\ f.fault_id = seen.fault_id}

SkipFault(s) ==
    /\ Serving(s, "StartDiagnosis")
    /\ session[s].req.fault = 0
    /\ Move(s, "diagnosing", {}, {}, 0)
    /\ UNCHANGED <<tables, sequences, exchange>>

ReadFault(s) ==
    /\ Serving(s, "StartDiagnosis")
    /\ session[s].req.fault # 0
    /\ \E f \in FaultsNamed(session[s].req) : Move(s, "diagnosing", {f}, {}, 0)
    /\ UNCHANGED <<tables, sequences, exchange>>

FaultNotFound(s) ==
    /\ Serving(s, "StartDiagnosis")
    /\ session[s].req.fault # 0
    /\ FaultsNamed(session[s].req) = {}
    /\ Refuse(s, 404)

\* POST /diagnose outside any transaction: the draft arrives, or the call times out,
\* fails, is refused or answered with something that is not JSON.
RagAnswers(s) ==
    /\ session[s].pc = "diagnosing"
    /\ Move(s, "drafted", session[s].fault, {}, 0)
    /\ UNCHANGED <<tables, sequences, exchange>>

RagFails(s) ==
    /\ session[s].pc = "diagnosing"
    /\ Refuse(s, 503)

\* The device and the event of a report: what the request names, else what its fault does.
Field(given, of) == IF given = Empty /\ of # {} THEN CHOOSE v \in of : TRUE ELSE given
DeviceOf(req, fault) == Field(req.device, {f.device : f \in fault})
EventOf(req, fault) == Field(req.event, {f.event : f \in fault})

\* Mutant: the device is not required.
AnyDevice(req, fault) == DeviceOf(req, fault) \in Device \cup {Empty}
HasDevice(req, fault) == DeviceOf(req, fault) # Empty

RejectReport(s) ==
    /\ session[s].pc = "drafted"
    /\ ~HasDevice(session[s].req, session[s].fault)
    /\ Refuse(s, 400)

NewReport(req, fault, now) ==
    [id |-> nextReport, report_id |-> <<now, reportSequence>>,
     device |-> DeviceOf(req, fault), event |-> EventOf(req, fault),
     fault_id |-> IF fault = {} THEN NoId ELSE (CHOOSE f \in fault : TRUE).fault_id,
     status |-> "draft", by |-> req.id]

ReportIdTaken(id) == \E r \in reports : r.report_id = id

\* As PersistFault; a report in the table is announced if the publisher is enabled.
PersistReport(s) ==
    /\ session[s].pc = "drafted"
    /\ HasDevice(session[s].req, session[s].fault)
    /\ reportSequence' = reportSequence + 1
    /\ nextReport' = nextReport + 1
    /\ \E now \in Now :
          LET report == NewReport(session[s].req, session[s].fault, now) IN
          \/ /\ ~ReportIdTaken(report.report_id)
             /\ reports' = reports \cup {report}
             /\ \/ Move(s, IF publisherUp THEN "publishing" ELSE "replied",
                        session[s].fault, {report}, 0)
                \/ Reply(s, 400, {}, {})
          \/ /\ ReportIdTaken(report.report_id)
             /\ Reply(s, 400, {}, {})
             /\ UNCHANGED reports
    /\ UNCHANGED <<faults, nextFault, faultSequence, exchange>>

\* publishDiagnosisTaskCreated, one call of the client under the publisher's mutex;
\* when the broker refuses it, the handler only logs.
Publish(s) ==
    /\ session[s].pc = "publishing"
    /\ \/ \E r \in session[s].report :
             exchange' = Append(exchange, [report_id |-> r.report_id,
                                           device |-> session[s].req.device])
       \/ UNCHANGED exchange
    /\ Reply(s, 0, session[s].fault, session[s].report)
    /\ UNCHANGED <<tables, sequences>>

-----------------------------------------------------------------------------
(* ConfirmDiagnosisReport *)

ReportsNamed(req) ==
    {r \in reports : \E seen \in reports : seen.by = req.report /\ r.report_id = seen.report_id}

RejectConfirm(s) ==
    /\ Serving(s, "ConfirmDiagnosisReport")
    /\ session[s].req.report = 0
    /\ Refuse(s, 400)

ConfirmFindsNone(s) ==
    /\ Serving(s, "ConfirmDiagnosisReport")
    /\ session[s].req.report # 0
    /\ ReportsNamed(session[s].req) = {}
    /\ Refuse(s, 404)

ConfirmReads(s) ==
    /\ Serving(s, "ConfirmDiagnosisReport")
    /\ \E r \in ReportsNamed(session[s].req) : Move(s, "queried", {}, {r}, 0)
    /\ UNCHANGED <<tables, sequences, exchange>>

\* Mutant: only a confirmation changes the status.
DecidedIfConfirmed(report, req) ==
    [report EXCEPT !.status = IF req.verdict = "confirmed" THEN "confirmed" ELSE @]

\* The status is set whatever it was before.
Decided(report, req) == [report EXCEPT !.status = req.verdict]

\* update and commit: the whole copy is written back.
Write(s) ==
    /\ session[s].pc = "queried"
    /\ \E r \in session[s].report :
          LET report == Decided(r, session[s].req) IN
          /\ reports' = {other \in reports : other.id # report.id} \cup {report}
          /\ Reply(s, 0, {}, {report}) \/ Reply(s, 400, {}, {})
    /\ UNCHANGED <<faults, nextFault, nextReport, sequences, exchange>>

-----------------------------------------------------------------------------
(* The reads: one query each *)

GetFault(s) ==
    /\ Serving(s, "GetFaultRecord")
    /\ \/ \E f \in FaultsNamed(session[s].req) : Reply(s, 0, {f}, {})
       \/ FaultsNamed(session[s].req) = {} /\ Reply(s, 404, {}, {})
    /\ UNCHANGED <<tables, sequences, exchange>>

GetReport(s) ==
    /\ Serving(s, "GetDiagnosisReport")
    /\ \/ \E r \in ReportsNamed(session[s].req) : Reply(s, 0, {}, {r})
       \/ ReportsNamed(session[s].req) = {} /\ Reply(s, 404, {}, {})
    /\ UNCHANGED <<tables, sequences, exchange>>

\* An empty field of a filter matches every row; time ranges, statuses and pages are
\* left out.
Matches(row, req) == req.device \in {Empty, row.device} /\ req.event \in {Empty, row.event}
OfFault(r, req) ==
    req.fault = 0 \/ \E f \in faults : f.by = req.fault /\ f.fault_id = r.fault_id

\* The answer is always 0; one of the rows that match, if any, stands for the page.
ListFaults(s) ==
    /\ Serving(s, "ListFaultRecords")
    /\ \/ \E f \in faults : Matches(f, session[s].req) /\ Reply(s, 0, {f}, {})
       \/ Reply(s, 0, {}, {})
    /\ UNCHANGED <<tables, sequences, exchange>>

ListReports(s) ==
    /\ Serving(s, "ListDiagnosisReports")
    /\ \/ \E r \in reports : /\ Matches(r, session[s].req)
                             /\ OfFault(r, session[s].req)
                             /\ Reply(s, 0, {}, {r})
       \/ Reply(s, 0, {}, {})
    /\ UNCHANGED <<tables, sequences, exchange>>

-----------------------------------------------------------------------------
(* Failures *)

\* Mutant: the error of a create or an update is lost.
ErrorCodeLost(s) ==
    IF session[s].req.op \in {"GetFaultRecord", "GetDiagnosisReport"} THEN 404 ELSE 0

ErrorCode(s) ==
    CASE session[s].req.op \in {"GetFaultRecord", "GetDiagnosisReport"}     -> 404
      [] session[s].req.op \in {"ListFaultRecords", "ListDiagnosisReports"} -> 0
      [] Serving(s, "StartDiagnosis")                                       -> 404
      [] OTHER                                                              -> 400

\* The handler is about to use the database.
UsesDatabase(s) ==
    \/ /\ session[s].pc = "begun"
       /\ session[s].req.op = "CreateFaultRecord" => Complete(session[s].req)
       /\ session[s].req.op = "StartDiagnosis" => session[s].req.fault # 0
       /\ session[s].req.op = "ConfirmDiagnosisReport" => session[s].req.report # 0
    \/ session[s].pc = "drafted" /\ HasDevice(session[s].req, session[s].fault)
    \/ session[s].pc = "queried"

\* ODB throws and nothing was committed; what was to be created has used its number.
DatabaseFails(s) ==
    /\ UsesDatabase(s)
    /\ faultSequence' = IF Serving(s, "CreateFaultRecord") THEN faultSequence + 1
                        ELSE faultSequence
    /\ reportSequence' = IF session[s].pc = "drafted" THEN reportSequence + 1
                         ELSE reportSequence
    /\ Reply(s, ErrorCode(s), {}, {})
    /\ UNCHANGED <<tables, exchange>>

\* The process ends and is started again.
Crash ==
    /\ session' = [s \in Session |-> IdleSession]
    /\ faultSequence' = 1 /\ reportSequence' = 1
    /\ publisherUp' \in Publisher
    /\ UNCHANGED <<tables, requested, exchange, answers>>

-----------------------------------------------------------------------------
SessionStep(s) ==
    \/ RejectFault(s) \/ PersistFault(s)
    \/ SkipFault(s) \/ ReadFault(s) \/ FaultNotFound(s) \/ RagAnswers(s) \/ RagFails(s)
    \/ RejectReport(s) \/ PersistReport(s) \/ Publish(s)
    \/ RejectConfirm(s) \/ ConfirmFindsNone(s) \/ ConfirmReads(s) \/ Write(s)
    \/ GetFault(s) \/ GetReport(s) \/ ListFaults(s) \/ ListReports(s)
    \/ DatabaseFails(s)

\* Everything but the arrival of a request.
Step ==
    \/ \E s \in Session : SessionStep(s) \/ Answer(s)
    \/ Crash

Next == (\E s \in Session, req \in Request : Begin(s, req)) \/ Step

Spec == Init /\ [][Next]_vars

-----------------------------------------------------------------------------
(* Properties *)

RequestOf(row) == CHOOSE req \in requested : req.id = row.by

\* A report of a fault names one fault and no other, the one its request asked
\* about, and takes from it what the request left open: although a process that was
\* started again, under a clock that was set back, makes the same ids again, and
\* although the RAG service is waited for between the read and the write.
ReportsNameTheirFault ==
    \A r \in reports :
        LET named == {f \in faults : f.fault_id = r.fault_id}
            req == RequestOf(r)
        IN  /\ named = {f \in faults : f.by = req.fault}
            /\ (req.fault # 0) <=> (named # {})
            /\ \A f \in named :
                  /\ r.device = IF req.device # Empty THEN req.device ELSE f.device
                  /\ r.event = IF req.event # Empty THEN req.event ELSE f.event

\* Consumers of diagnosis.task.created hear only of reports that are in the table, of
\* each one once, and of the device it is about unless of none: no restart, failing
\* commit or concurrent session announces a report that nobody can get.
TasksAreReports ==
    \A i \in DOMAIN exchange :
        /\ \E r \in reports : /\ r.report_id = exchange[i].report_id
                              /\ exchange[i].device \in {Empty, r.device}
        /\ \A j \in DOMAIN exchange : exchange[j].report_id = exchange[i].report_id => i = j

\* A client told 0 can get what it created, by the id it was told; one told that the
\* RAG service failed (503) or that the fault is unknown (404) has left no report
\* behind and may ask again without making a second one.
AnswersAreTrue ==
    \A a \in answers :
        /\ a.req.op = "CreateFaultRecord" /\ a.code = 0 =>
              \E f \in a.fault : {g \in faults : g.fault_id = f.fault_id} = {f}
        /\ a.req.op = "StartDiagnosis" /\ a.code = 0 =>
              \E r \in a.report :
                  {q.by : q \in {p \in reports : p.report_id = r.report_id}} = {a.req.id}
        /\ a.req.op = "StartDiagnosis" /\ a.code \in {404, 503} =>
              \A r \in reports : r.by # a.req.id

\* A verdict that was answered 0 is never undone but by another: the report is no
\* draft again, and what it is now some request has asked for.
VerdictStands ==
    /\ \A r \in reports : r.status # "draft" =>
          \E req \in requested : /\ req.op = "ConfirmDiagnosisReport"
                                 /\ req.report = r.by /\ req.verdict = r.status
    /\ \A a \in answers : a.req.op = "ConfirmDiagnosisReport" /\ a.code = 0 =>
          \E r \in reports : r.by = a.req.report /\ r.status # "draft"
=============================================================================
