----------------------- MODULE DiagnosisServiceProofs -----------------------
(***************************************************************************)
(* Proofs about DiagnosisService, for any requests, sessions and clocks.   *)
(* The RAG service is waited for between the read of a fault and the       *)
(* insertion of its report, and a verdict is written back over whatever    *)
(* the table holds by then. The inductive invariant IInv ties every copy a *)
(* session holds to the row it was taken of (all of a fault, all but the   *)
(* status of a report), every row to the request that made it, and every   *)
(* answer, given or about to be given, to the tables.                      *)
(***************************************************************************)
EXTENDS DiagnosisService, TLAPS

USE DEF Verdict, Op, Code, Pc, AtMostOne

\* Two copies of one report, whatever verdicts they carry.
SameReport(p, q) ==
    /\ p.id = q.id /\ p.report_id = q.report_id /\ p.device = q.device
    /\ p.event = q.event /\ p.fault_id = q.fault_id /\ p.by = q.by
Kept(table, r) == \E q \in table : SameReport(q, r)

\* The auto-increment keys and the unique indexes; a request makes one row.
FaultKeys ==
    /\ \A f \in faults : f.id < nextFault /\ f.fault_id # NoId
    /\ \A f, g \in faults : f.id = g.id \/ f.fault_id = g.fault_id \/ f.by = g.by => f = g
ReportKeys ==
    /\ \A r \in reports : r.id < nextReport
    /\ \A q, r \in reports : q.id = r.id \/ q.report_id = r.report_id \/ q.by = r.by => q = r

\* What a report has of the request that made it and of that request's fault.
NamesFault(table, r, req) ==
    LET named == {f \in table : f.fault_id = r.fault_id} IN
    /\ named = {f \in table : f.by = req.fault}
    /\ (req.fault # 0) <=> (named # {})
    /\ named = {} => r.fault_id = NoId
    /\ \A f \in named :
          /\ r.device = IF req.device # Empty THEN req.device ELSE f.device
          /\ r.event = IF req.event # Empty THEN req.event ELSE f.event
    /\ req.device \in {Empty, r.device}

FaultsRequested == \A f \in faults : \E req \in requested : req.id = f.by
ReportsRequested ==
    \A r \in reports : \E req \in requested : req.id = r.by /\ NamesFault(faults, r, req)
StatusRequested ==
    \A r \in reports : r.status # "draft" =>
        \E req \in requested : /\ req.op = "ConfirmDiagnosisReport"
                               /\ req.report = r.by /\ req.verdict = r.status

\* The answer [req, code, fault, report] is borne out by the tables f and r.
TrueOf(f, r, a) ==
    /\ a.req.op = "CreateFaultRecord" /\ a.code = 0 => \E g \in a.fault : g \in f
    /\ a.req.op = "StartDiagnosis" /\ a.code = 0 =>
          \E p \in a.report : Kept(r, p) /\ p.by = a.req.id
    /\ a.req.op = "StartDiagnosis" /\ a.code \in {404, 503} => \A p \in r : p.by # a.req.id
    /\ a.req.op = "ConfirmDiagnosisReport" /\ a.code = 0 =>
          \E p \in r : p.by = a.req.report /\ p.status # "draft"

\* The fault a diagnosis was started for: the one of the table that was asked for.
HoldsFault(f, se) ==
    IF se.req.fault = 0 THEN se.fault = {}
    ELSE \E g \in f : g.by = se.req.fault /\ se.fault = {g}

\* What a worker relies on, given the tables f and r.
SessionFits(f, r, se) ==
    /\ se.pc \in {"diagnosing", "drafted", "publishing"} => se.req.op = "StartDiagnosis"
    /\ se.pc \in {"diagnosing", "drafted"} => HoldsFault(f, se)
    /\ se.pc = "queried" => se.req.op = "ConfirmDiagnosisReport"
    /\ se.pc = "begun" /\ se.req.op = "CreateFaultRecord" => \A g \in f : g.by # se.req.id
    /\ se.pc \in {"begun", "diagnosing", "drafted"} /\ se.req.op = "StartDiagnosis" =>
          \A p \in r : p.by # se.req.id
    /\ se.pc = "publishing" =>
          \A p \in se.report : /\ Kept(r, p) /\ p.by = se.req.id
                               /\ se.req.device \in {Empty, p.device}
    /\ se.pc = "queried" => \A p \in se.report : Kept(r, p) /\ p.by = se.req.report
    /\ se.pc = "replied" => TrueOf(f, r, se)
SessionsFit == \A s \in Session : SessionFits(faults, reports, session[s])

\* A request is served by one worker, once.
ServedOnce ==
    /\ \A s \in Session : session[s].pc # "idle" => session[s].req \in requested
    /\ \A s, t \in Session :
          /\ session[s].pc # "idle" /\ session[t].pc # "idle"
          /\ session[s].req = session[t].req
          => s = t
    /\ \A a \in answers :
          /\ a.req \in requested
          /\ \A s \in Session : session[s].pc # "idle" => session[s].req # a.req

AnswersFit == \A a \in answers : TrueOf(faults, reports, a)

\* A report being announced has not been announced before.
TasksFresh ==
    \A s \in Session : session[s].pc = "publishing" =>
        \A p \in session[s].report, i \in DOMAIN exchange : exchange[i].report_id # p.report_id

IInv ==
    /\ TypeOK /\ FaultKeys /\ ReportKeys
    /\ FaultsRequested /\ ReportsRequested /\ StatusRequested
    /\ SessionsFit /\ ServedOnce /\ AnswersFit
    /\ TasksAreReports /\ TasksFresh

-----------------------------------------------------------------------------
(* What the tables give a request *)

LEMMA RequestTyped ==
    ASSUME NEW req \in Request
    PROVE  /\ req.id \in Nat \ {0} /\ req.op \in Op /\ req.device \in Device \cup {Empty}
           /\ req.event \in Event \cup {Empty} /\ req.fault \in Nat /\ req.report \in Nat
           /\ req.verdict \in Verdict
BY RequestAssumption

LEMMA IdsName ==
    ASSUME NEW r1 \in Request, NEW r2 \in Request, r1 # r2 PROVE r1.id # r2.id
BY RequestAssumption

\* A worker that is not idle serves a request that no other serves and none has served.
LEMMA Serves ==
    ASSUME IInv, NEW s \in Session, session[s].pc # "idle"
    PROVE  session[s].req \in Request /\ session[s].req \in requested
BY DEF IInv, TypeOK, ServedOnce

LEMMA NamedFaults ==
    ASSUME FaultKeys, NEW req, NEW f \in FaultsNamed(req)
    PROVE  f \in faults /\ f.by = req.fault
BY DEF FaultKeys, FaultsNamed

LEMMA NamedReports ==
    ASSUME ReportKeys, NEW req, NEW r \in ReportsNamed(req)
    PROVE  r \in reports /\ r.by = req.report
BY DEF ReportKeys, ReportsNamed

\* No fault is of request 0.
LEMMA FaultsBy ==
    ASSUME IInv, NEW f \in faults
    PROVE  f \in Fault /\ f.by \in Nat \ {0} /\ f.fault_id # NoId /\ f.device \in Device
           /\ f.event \in Event \cup {Empty} /\ f.fault_id \in Id
BY RequestAssumption DEF IInv, TypeOK, FaultsRequested, FaultKeys, Fault

LEMMA ChooseOnly == ASSUME NEW x PROVE (CHOOSE v \in {x} : TRUE) = x
OBVIOUS

LEMMA FieldOf ==
    ASSUME NEW given, NEW x
    PROVE  /\ Field(given, {}) = given
           /\ Field(given, {x}) = IF given = Empty THEN x ELSE given
BY ChooseOnly DEF Field

\* The report that is made of a request and of the fault it was started for.
LEMMA NewReportFits ==
    ASSUME IInv, NEW req \in Request, NEW fault, NEW now \in Now, HasDevice(req, fault),
           HoldsFault(faults, [req |-> req, fault |-> fault])
    PROVE  LET r == NewReport(req, fault, now) IN
           /\ r \in Report /\ r.id = nextReport /\ r.by = req.id /\ r.status = "draft"
           /\ NamesFault(faults, r, req)
<1> DEFINE r == NewReport(req, fault, now)
<1>1. /\ now \in Nat /\ reportSequence \in Nat /\ nextReport \in Nat
      /\ <<now, reportSequence>> \in Id /\ NoId \in Id /\ Empty \notin Device
  BY ConfigAssumption DEF IInv, TypeOK, Id, NoId
<1>2. CASE req.fault = 0
  <2>1. fault = {}
    BY <1>2 DEF HoldsFault
  <2>2. DeviceOf(req, fault) = req.device /\ EventOf(req, fault) = req.event
    <3>1. {f.device : f \in fault} = {} /\ {f.event : f \in fault} = {}
      BY <2>1
    <3> QED
      BY <3>1, FieldOf DEF DeviceOf, EventOf
  <2>3. r = [id |-> nextReport, report_id |-> <<now, reportSequence>>, device |-> req.device,
             event |-> req.event, fault_id |-> NoId, status |-> "draft", by |-> req.id]
    BY <2>1, <2>2 DEF NewReport
  <2>4. req.device \in Device
    BY <2>2, RequestTyped DEF HasDevice
  <2>5. {f \in faults : f.fault_id = NoId} = {} /\ {f \in faults : f.by = req.fault} = {}
    BY <1>2, FaultsBy
  <2>6. r \in Report
    BY <1>1, <2>3, <2>4, RequestTyped DEF Report
  <2>7. NamesFault(faults, r, req)
    BY <1>2, <2>3, <2>5 DEF NamesFault
  <2> QED
    BY <2>3, <2>6, <2>7
<1>3. CASE req.fault # 0
  <2>1. PICK g \in faults : g.by = req.fault /\ fault = {g}
    BY <1>3 DEF HoldsFault
  <2>2. /\ DeviceOf(req, fault) = IF req.device = Empty THEN g.device ELSE req.device
        /\ EventOf(req, fault) = IF req.event = Empty THEN g.event ELSE req.event
    <3>1. {f.device : f \in fault} = {g.device} /\ {f.event : f \in fault} = {g.event}
      BY <2>1
    <3> QED
      BY <3>1, FieldOf DEF DeviceOf, EventOf
  <2>3. r.id = nextReport /\ r.report_id = <<now, reportSequence>> /\ r.by = req.id
        /\ r.device = DeviceOf(req, fault) /\ r.event = EventOf(req, fault)
        /\ r.fault_id = g.fault_id /\ r.status = "draft"
    <3>1. (CHOOSE f \in fault : TRUE) = g
      BY <2>1, ChooseOnly
    <3>2. fault # {}
      BY <2>1
    <3> QED
      BY <3>1, <3>2 DEF NewReport
  <2>4. /\ DeviceOf(req, fault) \in Device /\ EventOf(req, fault) \in Event \cup {Empty}
        /\ g.fault_id \in Id
    BY <2>2, FaultsBy, RequestTyped
  <2>5. r \in Report
    BY <1>1, <2>3, <2>4, RequestTyped DEF NewReport, Report
  <2>6. {f \in faults : f.fault_id = r.fault_id} = {g} /\ {f \in faults : f.by = req.fault} = {g}
    BY <2>1, <2>3 DEF IInv, FaultKeys
  <2>7. NamesFault(faults, r, req)
    <3> HIDE DEF r
    <3> QED
      BY <1>3, <2>2, <2>3, <2>6 DEF NamesFault
  <2> QED
    BY <2>3, <2>5, <2>7
<1> QED
  BY <1>2, <1>3

-----------------------------------------------------------------------------
(* What a step may do to the tables *)

\* Session s inserts the fault or the report of its request, or writes back its copy.
InsertsFault(s, f) ==
    /\ Serving(s, "CreateFaultRecord")
    /\ f \in Fault /\ f.id = nextFault /\ f.by = session[s].req.id
    /\ f.fault_id # NoId /\ ~FaultIdTaken(f.fault_id)
    /\ faults' = faults \cup {f} /\ nextFault' = nextFault + 1
LeavesFaults == faults' = faults /\ nextFault' \in {nextFault, nextFault + 1}

InsertsReport(s, r) ==
    /\ session[s].pc = "drafted"
    /\ r \in Report /\ r.id = nextReport /\ r.by = session[s].req.id /\ r.status = "draft"
    /\ ~ReportIdTaken(r.report_id)
    /\ NamesFault(faults, r, session[s].req)
    /\ reports' = reports \cup {r} /\ nextReport' = nextReport + 1
WritesReport(s, r) ==
    /\ session[s].pc = "queried"
    /\ r \in Report /\ r.status = session[s].req.verdict /\ r.by = session[s].req.report
    /\ Kept(reports, r)
    /\ reports' = {q \in reports : q.id # r.id} \cup {r} /\ nextReport' = nextReport
LeavesReports == reports' = reports /\ nextReport' \in {nextReport, nextReport + 1}

LEMMA FaultStep ==
    ASSUME IInv, NEW s \in Session, SessionStep(s)
    PROVE  LeavesFaults \/ (\E f : InsertsFault(s, f) /\ reports' = reports)
<1>1. CASE PersistFault(s)
  <2>1. /\ session[s].req \in Request /\ Complete(session[s].req)
        /\ faultSequence \in Nat /\ nextFault \in Nat
    BY <1>1, Serves DEF PersistFault, Serving, At, IInv, TypeOK
  <2>2. PICK now \in Now :
          \/ /\ ~FaultIdTaken(NewFault(session[s].req, now).fault_id)
             /\ faults' = faults \cup {NewFault(session[s].req, now)}
          \/ faults' = faults
    BY <1>1 DEF PersistFault
  <2> DEFINE f == NewFault(session[s].req, now)
  <2>3. now \in Nat \ {0} /\ <<now, faultSequence>> \in Id /\ <<now, faultSequence>> # NoId
    BY <2>1, ConfigAssumption DEF Id, NoId
  <2>4. f \in Fault /\ f.id = nextFault /\ f.by = session[s].req.id /\ f.fault_id # NoId
    BY <2>1, <2>3, RequestTyped DEF NewFault, Complete, Fault
  <2> HIDE DEF f
  <2>5. Serving(s, "CreateFaultRecord") /\ nextFault' = nextFault + 1 /\ reports' = reports
    BY <1>1 DEF PersistFault
  <2>6. CASE ~FaultIdTaken(f.fault_id) /\ faults' = faults \cup {f}
    BY <2>4, <2>5, <2>6 DEF InsertsFault
  <2>7. CASE faults' = faults
    BY <2>5, <2>7 DEF LeavesFaults
  <2> QED
    BY <2>2, <2>6, <2>7 DEF f
<1>2. CASE ~PersistFault(s)
  BY <1>2 DEF SessionStep, LeavesFaults, tables, Refuse, RejectFault, SkipFault, ReadFault,
     FaultNotFound, RagAnswers, RagFails, RejectReport, PersistReport, Publish, RejectConfirm,
     ConfirmFindsNone, ConfirmReads, Write, GetFault, GetReport, ListFaults, ListReports,
     DatabaseFails
<1> QED
  BY <1>1, <1>2

LEMMA ReportStep ==
    ASSUME IInv, NEW s \in Session, SessionStep(s)
    PROVE  LeavesReports \/ (\E r : (InsertsReport(s, r) \/ WritesReport(s, r)) /\ faults' = faults)
<1>1. CASE PersistReport(s)
  <2>1. /\ session[s].req \in Request /\ HasDevice(session[s].req, session[s].fault)
        /\ session[s].pc = "drafted" /\ faults' = faults /\ nextReport' = nextReport + 1
    BY <1>1, Serves DEF PersistReport
  <2>2. HoldsFault(faults, [req |-> session[s].req, fault |-> session[s].fault])
    BY <2>1 DEF IInv, SessionsFit, SessionFits, HoldsFault
  <2>3. PICK now \in Now :
          LET r == NewReport(session[s].req, session[s].fault, now) IN
          \/ ~ReportIdTaken(r.report_id) /\ reports' = reports \cup {r}
          \/ reports' = reports
    BY <1>1 DEF PersistReport
  <2> DEFINE r == NewReport(session[s].req, session[s].fault, now)
  <2>4. /\ r \in Report /\ r.id = nextReport /\ r.by = session[s].req.id /\ r.status = "draft"
        /\ NamesFault(faults, r, session[s].req)
    BY <2>1, <2>2, NewReportFits
  <2>5. \/ ~ReportIdTaken(r.report_id) /\ reports' = reports \cup {r}
        \/ reports' = reports
    BY <2>3
  <2> HIDE DEF r
  <2> QED
    BY <2>1, <2>4, <2>5 DEF InsertsReport, LeavesReports
<1>2. CASE Write(s)
  <2>1. PICK c \in session[s].report :
          LET r == Decided(c, session[s].req) IN
          reports' = {q \in reports : q.id # r.id} \cup {r}
    BY <1>2 DEF Write
  <2> DEFINE r == Decided(c, session[s].req)
  <2>2. /\ c \in Report /\ Kept(reports, c) /\ c.by = session[s].req.report
        /\ session[s].req \in Request /\ session[s].pc = "queried"
        /\ nextReport' = nextReport /\ faults' = faults
    BY <1>2, Serves DEF Write, IInv, TypeOK, SessionsFit, SessionFits
  <2>3. r \in Report /\ r.status = session[s].req.verdict /\ SameReport(r, c)
    BY <2>2, RequestTyped DEF Decided, Report, SameReport
  <2>4. reports' = {q \in reports : q.id # r.id} \cup {r}
    BY <2>1
  <2> HIDE DEF r
  <2>5. Kept(reports, r) /\ r.by = session[s].req.report
    BY <2>2, <2>3 DEF Kept, SameReport
  <2> QED
    BY <2>2, <2>3, <2>4, <2>5 DEF WritesReport
<1>3. CASE ~PersistReport(s) /\ ~Write(s)
  BY <1>3 DEF SessionStep, LeavesReports, tables, Refuse, RejectFault, SkipFault, ReadFault,
     FaultNotFound, RagAnswers, RagFails, RejectReport, PersistFault, Publish, RejectConfirm,
     ConfirmFindsNone, ConfirmReads, GetFault, GetReport, ListFaults, ListReports,
     DatabaseFails
<1> QED
  BY <1>1, <1>2, <1>3

\* Steps that are no session's work leave the tables alone.
Elsewhere ==
    \/ UNCHANGED vars \/ (\E s \in Session, req \in Request : Begin(s, req))
    \/ (\E s \in Session : Answer(s)) \/ Crash

LEMMA NextCases ==
    ASSUME [Next]_vars PROVE Elsewhere \/ \E s \in Session : SessionStep(s)
BY DEF Next, Step, Elsewhere

LEMMA ElsewhereLeaves ==
    ASSUME Elsewhere PROVE UNCHANGED tables /\ exchange' = exchange
BY DEF Elsewhere, vars, Begin, Answer, Crash, tables

\* What grows: faults only gain rows; a report may gain a verdict; neither gains a row of
\* request id.
Grows(f, r, f2, r2, id) ==
    /\ f \subseteq f2
    /\ \A g \in f2 : g \in f \/ g.by # id
    /\ \A p \in r : \E q \in r2 : SameReport(q, p) /\ (p.status # "draft" => q.status # "draft")
    /\ \A q \in r2 : q.by = id => \E p \in r : p.by = id

LEMMA WriteKeeps ==
    ASSUME IInv, NEW s \in Session, NEW new, WritesReport(s, new), NEW p \in reports
    PROVE  /\ \E q \in reports' : SameReport(q, p) /\ (p.status # "draft" => q.status # "draft")
           /\ new.status # "draft" /\ new.status \in Verdict
<1>1. PICK old \in reports : SameReport(old, new)
  BY DEF WritesReport, Kept
<1>2. new.status \in Verdict /\ new.status # "draft"
  BY Serves, RequestTyped DEF WritesReport
<1>3. CASE p.id = new.id
  <2>1. p = old
    BY <1>1, <1>3 DEF IInv, ReportKeys, SameReport
  <2>2. SameReport(new, p) /\ new \in reports'
    BY <1>1, <2>1 DEF SameReport, WritesReport
  <2> QED
    BY <1>2, <2>2
<1>4. CASE p.id # new.id
  <2>1. p \in reports' /\ SameReport(p, p)
    BY <1>4 DEF WritesReport, SameReport
  <2> QED
    BY <1>2, <2>1
<1> QED
  BY <1>3, <1>4

LEMMA StepGrows ==
    ASSUME IInv, NEW s \in Session, SessionStep(s), NEW id, id # session[s].req.id
    PROVE  Grows(faults, reports, faults', reports', id)
<1>1. /\ faults \subseteq faults'
      /\ \A g \in faults' : g \in faults \/ g.by # id
  BY FaultStep DEF LeavesFaults, InsertsFault
<1>2. CASE LeavesReports
  BY <1>1, <1>2 DEF LeavesReports, Grows, SameReport
<1>3. ASSUME NEW r, InsertsReport(s, r) PROVE Grows(faults, reports, faults', reports', id)
  BY <1>1, <1>3 DEF InsertsReport, Grows, SameReport
<1>4. ASSUME NEW r, WritesReport(s, r) PROVE Grows(faults, reports, faults', reports', id)
  <2>1. \A q \in reports' : q \in reports \/ \E p \in reports : p.by = q.by
    BY <1>4 DEF WritesReport, Kept, SameReport
  <2> QED
    BY <1>1, <1>4, <2>1, WriteKeeps DEF Grows
<1> QED
  BY <1>2, <1>3, <1>4, ReportStep

-----------------------------------------------------------------------------
(* The tables *)

\* A fault or a report of the request being served is the first of that request.
LEMMA InsertsNew ==
    ASSUME IInv, NEW s \in Session
    PROVE  /\ \A f : InsertsFault(s, f) => \A g \in faults : g.by # f.by /\ g.fault_id # f.fault_id
           /\ \A r : InsertsReport(s, r) =>
                 \A q \in reports : q.by # r.by /\ q.report_id # r.report_id
<1>1. ASSUME NEW f, InsertsFault(s, f), NEW g \in faults
      PROVE  g.by # f.by /\ g.fault_id # f.fault_id
  BY <1>1 DEF InsertsFault, Serving, At, FaultIdTaken, IInv, SessionsFit, SessionFits
<1>2. ASSUME NEW r, InsertsReport(s, r), NEW q \in reports
      PROVE  q.by # r.by /\ q.report_id # r.report_id
  BY <1>2 DEF InsertsReport, ReportIdTaken, IInv, SessionsFit, SessionFits
<1> QED
  BY <1>1, <1>2

LEMMA StepFaultKeys ==
    ASSUME IInv, NEW s \in Session, SessionStep(s)
    PROVE  FaultKeys' /\ faults' \subseteq Fault /\ nextFault' \in Nat
<1>1. faults \subseteq Fault /\ nextFault \in Nat /\ FaultKeys /\ \A f \in faults : f.id \in Nat
  BY DEF IInv, TypeOK, Fault
<1>2. CASE LeavesFaults
  BY <1>1, <1>2 DEF LeavesFaults, FaultKeys
<1>3. ASSUME NEW f, InsertsFault(s, f)
      PROVE  FaultKeys' /\ faults' \subseteq Fault /\ nextFault' \in Nat
  <2>1. \A g \in faults : g.by # f.by /\ g.fault_id # f.fault_id
    BY <1>3, InsertsNew
  <2> QED
    BY <1>1, <1>3, <2>1 DEF InsertsFault, FaultKeys
<1> QED
  BY <1>2, <1>3, FaultStep

LEMMA StepReportKeys ==
    ASSUME IInv, NEW s \in Session, SessionStep(s)
    PROVE  ReportKeys' /\ reports' \subseteq Report /\ nextReport' \in Nat
<1>1. /\ reports \subseteq Report /\ nextReport \in Nat /\ ReportKeys
      /\ \A r \in reports : r.id \in Nat
  BY DEF IInv, TypeOK, Report
<1>2. CASE LeavesReports
  BY <1>1, <1>2 DEF LeavesReports, ReportKeys
<1>3. ASSUME NEW r, InsertsReport(s, r)
      PROVE  ReportKeys' /\ reports' \subseteq Report /\ nextReport' \in Nat
  <2>1. \A q \in reports : q.by # r.by /\ q.report_id # r.report_id
    BY <1>3, InsertsNew
  <2> QED
    BY <1>1, <1>3, <2>1 DEF InsertsReport, ReportKeys
<1>4. ASSUME NEW r, WritesReport(s, r)
      PROVE  ReportKeys' /\ reports' \subseteq Report /\ nextReport' \in Nat
  <2>1. PICK old \in reports : SameReport(old, r)
    BY <1>4 DEF WritesReport, Kept
  <2>2. reports' = {q \in reports : q.id # r.id} \cup {r} /\ nextReport' = nextReport /\ r \in Report
    BY <1>4 DEF WritesReport
  <2>3. \A q \in reports : q.id # r.id => q.report_id # r.report_id /\ q.by # r.by
    BY <1>1, <2>1 DEF ReportKeys, SameReport
  <2>4. r.id < nextReport
    BY <1>1, <2>1 DEF ReportKeys, SameReport
  <2> QED
    BY <1>1, <2>2, <2>3, <2>4 DEF ReportKeys
<1> QED
  BY <1>2, <1>3, <1>4, ReportStep

\* A report keeps the fault it names when another fault is inserted.
LEMMA NamesStays ==
    ASSUME IInv, NEW s \in Session, NEW f, InsertsFault(s, f),
           NEW r \in reports, NEW req \in Request, NamesFault(faults, r, req)
    PROVE  NamesFault(faults', r, req)
<1> DEFINE named == {g \in faults : g.fault_id = r.fault_id}
<1>1. f.by # req.fault /\ f.fault_id # r.fault_id
  <2>1. \A g \in faults : g.by # f.by /\ g.fault_id # f.fault_id
    BY InsertsNew
  <2>2. CASE named = {}
    <3>1. req.fault = 0 /\ r.fault_id = NoId
      BY <2>2 DEF NamesFault
    <3>2. f.fault_id # NoId /\ f.by = session[s].req.id /\ session[s].pc # "idle"
      BY DEF InsertsFault, Serving, At
    <3>3. f.by \in Nat \ {0}
      BY <3>2, Serves, RequestTyped
    <3> QED
      BY <3>1, <3>2, <3>3
  <2>3. CASE named # {}
    <3>1. PICK g \in faults : g.fault_id = r.fault_id /\ g.by = req.fault
      BY <2>3 DEF NamesFault
    <3> QED
      BY <2>1, <3>1
  <2> QED
    BY <2>2, <2>3
<1>2. faults' = faults \cup {f}
  BY DEF InsertsFault
<1>3. /\ {g \in faults' : g.fault_id = r.fault_id} = named
      /\ {g \in faults' : g.by = req.fault} = {g \in faults : g.by = req.fault}
  BY <1>1, <1>2
<1> QED
  BY <1>3 DEF NamesFault

LEMMA StepRequested ==
    ASSUME IInv, NEW s \in Session, SessionStep(s), requested' = requested
    PROVE  FaultsRequested' /\ ReportsRequested' /\ StatusRequested'
<1>0. /\ requested \subseteq Request /\ FaultsRequested /\ ReportsRequested /\ StatusRequested
      /\ session[s].req \in requested /\ session[s].req \in Request
  <2>1. session[s].pc # "idle"
    BY DEF SessionStep, Refuse, RejectFault, PersistFault, SkipFault, ReadFault,
       FaultNotFound, RagAnswers, RagFails, RejectReport, PersistReport, Publish, RejectConfirm,
       ConfirmFindsNone, ConfirmReads, Write, GetFault, GetReport, ListFaults, ListReports,
       DatabaseFails, Serving, At, UsesDatabase
  <2> QED
    BY <2>1, Serves DEF IInv, TypeOK
<1>1. FaultsRequested'
  BY <1>0, FaultStep DEF FaultsRequested, LeavesFaults, InsertsFault
<1>2. ASSUME NEW r \in reports, NEW req \in requested, NamesFault(faults, r, req)
      PROVE  NamesFault(faults', r, req)
  BY <1>0, <1>2, FaultStep, NamesStays DEF LeavesFaults
<1>3. ASSUME NEW r \in reports
      PROVE  \E req \in requested : req.id = r.by /\ NamesFault(faults', r, req)
  <2>1. PICK req \in requested : req.id = r.by /\ NamesFault(faults, r, req)
    BY <1>0 DEF ReportsRequested
  <2> QED
    BY <1>2, <2>1
<1>4. ASSUME NEW r, NEW q, NEW req, SameReport(q, r), NamesFault(faults', r, req)
      PROVE  NamesFault(faults', q, req)
  BY <1>4 DEF NamesFault, SameReport
<1>5. ReportsRequested'
  <2>1. CASE LeavesReports
    BY <1>3, <2>1 DEF ReportsRequested, LeavesReports
  <2>2. ASSUME NEW r, InsertsReport(s, r), faults' = faults PROVE ReportsRequested'
    BY <1>0, <1>3, <2>2 DEF ReportsRequested, InsertsReport
  <2>3. ASSUME NEW r, WritesReport(s, r) PROVE ReportsRequested'
    <3>1. PICK old \in reports : SameReport(old, r)
      BY <2>3 DEF WritesReport, Kept
    <3>2. PICK req \in requested : req.id = old.by /\ NamesFault(faults', old, req)
      BY <1>3
    <3>3. NamesFault(faults', r, req) /\ req.id = r.by
      BY <1>4, <3>1, <3>2 DEF SameReport
    <3>4. reports' \subseteq reports \cup {r}
      BY <2>3 DEF WritesReport
    <3> QED
      BY <1>3, <3>3, <3>4 DEF ReportsRequested
  <2> QED
    BY <2>1, <2>2, <2>3, ReportStep
<1>6. StatusRequested'
  <2>1. CASE LeavesReports
    BY <1>0, <2>1 DEF StatusRequested, LeavesReports
  <2>2. ASSUME NEW r, InsertsReport(s, r) PROVE StatusRequested'
    BY <1>0, <2>2 DEF StatusRequested, InsertsReport
  <2>3. ASSUME NEW r, WritesReport(s, r) PROVE StatusRequested'
    <3>1. session[s].req.op = "ConfirmDiagnosisReport"
      BY <2>3 DEF WritesReport, IInv, SessionsFit, SessionFits
    <3> QED
      BY <1>0, <2>3, <3>1 DEF StatusRequested, WritesReport
  <2> QED
    BY <2>1, <2>2, <2>3, ReportStep
<1> QED
  BY <1>1, <1>5, <1>6

-----------------------------------------------------------------------------
(* The sessions and the answers *)

\* What is true of answers and of the copies of other sessions stays true.
LEMMA TrueStays ==
    ASSUME NEW f, NEW r, NEW f2, NEW r2, NEW a, Grows(f, r, f2, r2, a.req.id), TrueOf(f, r, a)
    PROVE  TrueOf(f2, r2, a)
<1>1. \A p : Kept(r, p) => Kept(r2, p)
  BY DEF Grows, Kept, SameReport
<1>2. \A p \in r : p.by = a.req.report /\ p.status # "draft" =>
          \E q \in r2 : q.by = a.req.report /\ q.status # "draft"
  BY DEF Grows, SameReport
<1>3. (\A p \in r : p.by # a.req.id) => (\A q \in r2 : q.by # a.req.id)
  BY DEF Grows
<1> QED
  BY <1>1, <1>2, <1>3 DEF TrueOf, Grows

LEMMA FitsStays ==
    ASSUME NEW f, NEW r, NEW f2, NEW r2, NEW se, Grows(f, r, f2, r2, se.req.id),
           SessionFits(f, r, se)
    PROVE  SessionFits(f2, r2, se)
<1>1. \A p : Kept(r, p) => Kept(r2, p)
  BY DEF Grows, Kept, SameReport
<1>2. (\A p \in r : p.by # se.req.id) => (\A q \in r2 : q.by # se.req.id)
  BY DEF Grows
<1>3. (\A g \in f : g.by # se.req.id) => (\A g \in f2 : g.by # se.req.id)
  BY DEF Grows
<1>4. HoldsFault(f, se) => HoldsFault(f2, se)
  BY DEF HoldsFault, Grows
<1>5. se.pc = "replied" => TrueOf(f2, r2, se)
  BY TrueStays DEF SessionFits
<1> QED
  BY <1>1, <1>2, <1>3, <1>4, <1>5 DEF SessionFits

LEMMA MoveSession ==
    ASSUME TypeOK, NEW s \in Session, NEW pc, NEW fault, NEW report, NEW code,
           Move(s, pc, fault, report, code)
    PROVE  session'[s].pc = pc /\ session'[s].report = report
BY DEF Move, TypeOK

\* A step of session s starts when s serves a request, moves s and nothing else that is
\* told of here, and leaves what s now relies on in the tables.
StepOf(s) ==
    /\ session[s].pc \notin {"idle", "replied"}
    /\ session'[s].req = session[s].req /\ session'[s].pc # "idle"
    /\ \A t \in Session : t # s => session'[t] = session[t]
    /\ session' \in [Session -> [pc : Pc, req : Request \cup {NoRequest}, fault : SUBSET Fault,
                                 report : SUBSET Report, code : Code]]
    /\ AtMostOne(session'[s].fault) /\ AtMostOne(session'[s].report)
    /\ session'[s].pc \in {"publishing", "queried"} => session'[s].report # {}
    /\ publisherUp' = publisherUp /\ requested' = requested /\ answers' = answers
    /\ SessionFits(faults', reports', session'[s])

\* What s may move to: a record of the right type that the new tables bear out.
After(s, pc, fault, report, code) ==
    [pc |-> pc, req |-> session[s].req, fault |-> fault, report |-> report, code |-> code]
Admissible(s, pc, fault, report, code) ==
    /\ pc \in Pc \ {"idle"} /\ code \in Code
    /\ fault \in SUBSET Fault /\ AtMostOne(fault)
    /\ report \in SUBSET Report /\ AtMostOne(report)
    /\ pc \in {"publishing", "queried"} => report # {}
    /\ SessionFits(faults', reports', After(s, pc, fault, report, code))

LEMMA MoveStep ==
    ASSUME IInv, NEW s \in Session, session[s].pc \notin {"idle", "replied"},
           NEW pc, NEW fault, NEW report, NEW code,
           Move(s, pc, fault, report, code), Admissible(s, pc, fault, report, code)
    PROVE  StepOf(s)
<1> DEFINE se == After(s, pc, fault, report, code)
<1>1. /\ session' = [session EXCEPT ![s] = se]
      /\ publisherUp' = publisherUp /\ requested' = requested /\ answers' = answers
  BY DEF Move, After
<1>2. session[s].req \in Request
  BY Serves
<1>3. se \in [pc : Pc, req : Request \cup {NoRequest}, fault : SUBSET Fault,
              report : SUBSET Report, code : Code]
  BY <1>2 DEF After, Admissible
<1>4. /\ se.pc = pc /\ se.req = session[s].req /\ se.fault = fault /\ se.report = report
      /\ SessionFits(faults', reports', se)
  BY DEF After, Admissible
<1>5. session \in [Session -> [pc : Pc, req : Request \cup {NoRequest}, fault : SUBSET Fault,
                               report : SUBSET Report, code : Code]]
  BY DEF IInv, TypeOK
<1> HIDE DEF se
<1>6. session'[s] = se /\ \A t \in Session : t # s => session'[t] = session[t]
  BY <1>1, <1>5
<1> QED
  BY <1>1, <1>3, <1>4, <1>5, <1>6 DEF StepOf, Admissible

\* A reply that claims nothing of the tables.
Plain(s, code, fault, report) ==
    /\ code \in Code
    /\ fault \in SUBSET Fault /\ AtMostOne(fault)
    /\ report \in SUBSET Report /\ AtMostOne(report)
    /\ session[s].req.op \in {"CreateFaultRecord", "StartDiagnosis", "ConfirmDiagnosisReport"}
           => code # 0

LEMMA PlainReply ==
    ASSUME IInv, NEW s \in Session, NEW fault, NEW report, NEW code,
           session[s].pc \in {"begun", "diagnosing", "drafted", "queried"},
           Reply(s, code, fault, report), Plain(s, code, fault, report), reports' = reports
    PROVE  StepOf(s)
<1>1. SessionFits(faults, reports, session[s])
  BY DEF IInv, SessionsFit
<1>2. session[s].req.op = "StartDiagnosis" => \A p \in reports : p.by # session[s].req.id
  BY <1>1 DEF SessionFits
<1>3. Admissible(s, "replied", fault, report, code)
  BY <1>2 DEF Plain, Admissible, After, SessionFits, TrueOf
<1> QED
  BY <1>3, MoveStep DEF Reply

LEMMA RefuseStep ==
    ASSUME IInv, NEW s \in Session, NEW code \in Code \ {0}, Refuse(s, code),
           session[s].pc \in {"begun", "diagnosing", "drafted", "queried"}
    PROVE  StepOf(s)
<1>1. Reply(s, code, {}, {}) /\ reports' = reports
  BY DEF Refuse, tables
<1>2. Plain(s, code, {}, {})
  BY DEF Plain
<1> QED
  BY <1>1, <1>2, PlainReply

LEMMA Singles ==
    ASSUME IInv
    PROVE  /\ \A f \in faults : {f} \in SUBSET Fault /\ AtMostOne({f})
           /\ \A r \in reports : {r} \in SUBSET Report /\ AtMostOne({r})
BY DEF IInv, TypeOK

LEMMA SessionMoves ==
    ASSUME IInv, NEW s \in Session, SessionStep(s)
    PROVE  StepOf(s)
<1> USE DEF Serving, At
<1>0. /\ SessionFits(faults, reports, session[s])
      /\ session[s].fault \in SUBSET Fault /\ AtMostOne(session[s].fault)
      /\ session[s].report \in SUBSET Report /\ AtMostOne(session[s].report)
  BY DEF IInv, SessionsFit, TypeOK
<1>1. CASE RejectFault(s) \/ FaultNotFound(s) \/ RagFails(s) \/ RejectReport(s)
           \/ RejectConfirm(s) \/ ConfirmFindsNone(s)
  BY <1>1, RefuseStep DEF RejectFault, FaultNotFound, RagFails, RejectReport, RejectConfirm,
     ConfirmFindsNone
<1>2. CASE PersistFault(s)
  <2>1. /\ session[s].pc = "begun" /\ session[s].req.op = "CreateFaultRecord"
        /\ reports' = reports
    BY <1>2 DEF PersistFault
  <2>2. PICK now \in Now :
          LET f == NewFault(session[s].req, now) IN
          \/ /\ ~FaultIdTaken(f.fault_id)
             /\ faults' = faults \cup {f}
             /\ Reply(s, 0, {f}, {}) \/ Reply(s, 400, {}, {})
          \/ /\ FaultIdTaken(f.fault_id)
             /\ Reply(s, 400, {}, {})
             /\ UNCHANGED faults
    BY <1>2 DEF PersistFault
  <2> DEFINE f == NewFault(session[s].req, now)
  <2>3. CASE Reply(s, 400, {}, {})
    <3>1. Plain(s, 400, {}, {})
      BY DEF Plain
    <3> QED
      BY <2>1, <2>3, <3>1, PlainReply
  <2>4. CASE faults' = faults \cup {f} /\ Reply(s, 0, {f}, {})
    <3>1. {f} \in SUBSET Fault
      BY <2>4, StepFaultKeys
    <3> HIDE DEF f
    <3>2. f \in faults' /\ AtMostOne({f})
      BY <2>4
    <3>3. Admissible(s, "replied", {f}, {}, 0)
      BY <2>1, <3>1, <3>2 DEF Admissible, After, SessionFits, TrueOf
    <3> QED
      BY <2>1, <2>4, <3>3, MoveStep DEF Reply
  <2> QED
    BY <2>2, <2>3, <2>4
<1>3. CASE SkipFault(s) \/ ReadFault(s)
  <2>1. /\ session[s].pc = "begun" /\ session[s].req.op = "StartDiagnosis"
        /\ faults' = faults /\ reports' = reports
    BY <1>3 DEF SkipFault, ReadFault, tables
  <2>2. PICK fault : /\ Move(s, "diagnosing", fault, {}, 0)
                     /\ fault \in SUBSET Fault /\ AtMostOne(fault)
                     /\ HoldsFault(faults, [req |-> session[s].req, fault |-> fault])
    <3>1. CASE SkipFault(s)
      BY <3>1 DEF SkipFault, HoldsFault
    <3>2. CASE ReadFault(s)
      <4>1. PICK f \in FaultsNamed(session[s].req) : Move(s, "diagnosing", {f}, {}, 0)
        BY <3>2 DEF ReadFault
      <4>2. f \in faults /\ f.by = session[s].req.fault /\ session[s].req.fault # 0
        BY <3>2, NamedFaults DEF IInv, ReadFault
      <4> QED
        BY <4>1, <4>2, Singles DEF HoldsFault
    <3> QED
      BY <1>3, <3>1, <3>2
  <2>3. Admissible(s, "diagnosing", fault, {}, 0)
    BY <1>0, <2>1, <2>2 DEF Admissible, After, SessionFits, HoldsFault
  <2> QED
    BY <2>1, <2>2, <2>3, MoveStep
<1>4. CASE RagAnswers(s)
  <2>1. /\ session[s].pc = "diagnosing" /\ Move(s, "drafted", session[s].fault, {}, 0)
        /\ faults' = faults /\ reports' = reports
    BY <1>4 DEF RagAnswers, tables
  <2>2. Admissible(s, "drafted", session[s].fault, {}, 0)
    BY <1>0, <2>1 DEF Admissible, After, SessionFits, HoldsFault
  <2> QED
    BY <2>1, <2>2, MoveStep
<1>5. CASE PersistReport(s)
  <2>1. session[s].pc = "drafted" /\ session[s].req.op = "StartDiagnosis" /\ faults' = faults
        /\ HasDevice(session[s].req, session[s].fault) /\ session[s].req \in Request
    BY <1>0, <1>5, Serves DEF PersistReport, SessionFits
  <2>2. PICK now \in Now :
          LET r == NewReport(session[s].req, session[s].fault, now) IN
          \/ /\ ~ReportIdTaken(r.report_id)
             /\ reports' = reports \cup {r}
             /\ \/ Move(s, IF publisherUp THEN "publishing" ELSE "replied",
                        session[s].fault, {r}, 0)
                \/ Reply(s, 400, {}, {})
          \/ /\ ReportIdTaken(r.report_id)
             /\ Reply(s, 400, {}, {})
             /\ UNCHANGED reports
    BY <1>5 DEF PersistReport
  <2> DEFINE r == NewReport(session[s].req, session[s].fault, now)
             pc == IF publisherUp THEN "publishing" ELSE "replied"
  <2>3. CASE Reply(s, 400, {}, {})
    <3>1. Admissible(s, "replied", {}, {}, 400)
      BY <2>1 DEF Admissible, After, SessionFits, TrueOf
    <3> QED
      BY <2>1, <2>3, <3>1, MoveStep DEF Reply
  <2>4. CASE reports' = reports \cup {r} /\ Move(s, pc, session[s].fault, {r}, 0)
    <3>1. {r} \in SUBSET Report /\ AtMostOne({r})
      BY <2>4, StepReportKeys
    <3>2. r.by = session[s].req.id /\ session[s].req.device \in {Empty, r.device}
      <4>1. HoldsFault(faults, [req |-> session[s].req, fault |-> session[s].fault])
        BY <1>0, <2>1 DEF SessionFits, HoldsFault
      <4> QED
        BY <2>1, <4>1, NewReportFits DEF NamesFault
    <3> HIDE DEF r
    <3>3. Kept(reports', r)
      BY <2>4 DEF Kept, SameReport
    <3>4. pc \in {"publishing", "replied"}
      OBVIOUS
    <3> HIDE DEF pc
    <3>5. Admissible(s, pc, session[s].fault, {r}, 0)
      BY <1>0, <2>1, <3>1, <3>2, <3>3, <3>4 DEF Admissible, After, SessionFits, TrueOf
    <3> QED
      BY <2>1, <2>4, <3>5, MoveStep
  <2> QED
    BY <2>2, <2>3, <2>4
<1>6. CASE Publish(s)
  <2>1. /\ session[s].pc = "publishing" /\ session[s].req.op = "StartDiagnosis"
        /\ session[s].report # {} /\ faults' = faults /\ reports' = reports
        /\ Reply(s, 0, session[s].fault, session[s].report)
    BY <1>0, <1>6 DEF Publish, SessionFits, IInv, TypeOK, tables
  <2>2. \A p \in session[s].report : Kept(reports, p) /\ p.by = session[s].req.id
    BY <1>0, <2>1 DEF SessionFits
  <2>3. Admissible(s, "replied", session[s].fault, session[s].report, 0)
    BY <1>0, <2>1, <2>2 DEF Admissible, After, SessionFits, TrueOf
  <2> QED
    BY <2>1, <2>3, MoveStep DEF Reply
<1>7. CASE ConfirmReads(s)
  <2>1. PICK r \in ReportsNamed(session[s].req) : Move(s, "queried", {}, {r}, 0)
    BY <1>7 DEF ConfirmReads
  <2>2. /\ session[s].pc = "begun" /\ session[s].req.op = "ConfirmDiagnosisReport"
        /\ faults' = faults /\ reports' = reports
        /\ r \in reports /\ r.by = session[s].req.report
    BY <1>7, NamedReports DEF IInv, ConfirmReads, tables
  <2>3. Admissible(s, "queried", {}, {r}, 0)
    BY <2>2, Singles DEF Admissible, After, SessionFits, Kept, SameReport
  <2> QED
    BY <2>1, <2>2, <2>3, MoveStep
<1>8. CASE Write(s)
  <2>1. PICK c \in session[s].report :
          LET r == Decided(c, session[s].req) IN
          /\ reports' = {q \in reports : q.id # r.id} \cup {r}
          /\ Reply(s, 0, {}, {r}) \/ Reply(s, 400, {}, {})
    BY <1>8 DEF Write
  <2> DEFINE r == Decided(c, session[s].req)
  <2>2. /\ session[s].pc = "queried" /\ session[s].req.op = "ConfirmDiagnosisReport"
        /\ c \in Report /\ c.by = session[s].req.report /\ session[s].req \in Request
    BY <1>0, <1>8, Serves DEF Write, SessionFits
  <2>3. r.by = session[s].req.report /\ r.status # "draft"
    BY <2>2, RequestTyped DEF Decided, Report
  <2>4. r \in reports'
    BY <2>1
  <2>5. {r} \in SUBSET Report /\ AtMostOne({r})
    BY <2>4, StepReportKeys
  <2>6. Reply(s, 0, {}, {r}) \/ Reply(s, 400, {}, {})
    BY <2>1
  <2> HIDE DEF r
  <2>7. /\ Admissible(s, "replied", {}, {r}, 0)
        /\ Admissible(s, "replied", {}, {}, 400)
    BY <2>2, <2>3, <2>4, <2>5 DEF Admissible, After, SessionFits, TrueOf
  <2> QED
    BY <2>2, <2>6, <2>7, MoveStep DEF Reply
<1>9. CASE GetFault(s) \/ ListFaults(s)
  <2>1. /\ session[s].pc = "begun" /\ reports' = reports
        /\ session[s].req.op \in {"GetFaultRecord", "ListFaultRecords"}
        /\ \/ \E f \in faults : Reply(s, 0, {f}, {})
           \/ \E code \in {0, 404} : Reply(s, code, {}, {})
    BY <1>9, NamedFaults DEF GetFault, ListFaults, tables, IInv
  <2>2. /\ \A code \in {0, 404} : Plain(s, code, {}, {})
        /\ \A f \in faults : Plain(s, 0, {f}, {})
    BY <2>1, Singles DEF Plain
  <2>3. ASSUME NEW f \in faults, Reply(s, 0, {f}, {}) PROVE StepOf(s)
    BY <2>1, <2>2, <2>3, PlainReply
  <2>4. ASSUME NEW code \in {0, 404}, Reply(s, code, {}, {}) PROVE StepOf(s)
    BY <2>1, <2>2, <2>4, PlainReply
  <2> QED
    BY <2>1, <2>3, <2>4
<1>10. CASE GetReport(s) \/ ListReports(s)
  <2>1. /\ session[s].pc = "begun" /\ reports' = reports
        /\ session[s].req.op \in {"GetDiagnosisReport", "ListDiagnosisReports"}
        /\ \/ \E r \in reports : Reply(s, 0, {}, {r})
           \/ \E code \in {0, 404} : Reply(s, code, {}, {})
    BY <1>10, NamedReports DEF GetReport, ListReports, tables, IInv
  <2>2. /\ \A code \in {0, 404} : Plain(s, code, {}, {})
        /\ \A r \in reports : Plain(s, 0, {}, {r})
    BY <2>1, Singles DEF Plain
  <2>3. ASSUME NEW r \in reports, Reply(s, 0, {}, {r}) PROVE StepOf(s)
    BY <2>1, <2>2, <2>3, PlainReply
  <2>4. ASSUME NEW code \in {0, 404}, Reply(s, code, {}, {}) PROVE StepOf(s)
    BY <2>1, <2>2, <2>4, PlainReply
  <2> QED
    BY <2>1, <2>3, <2>4
<1>11. CASE DatabaseFails(s)
  <2>1. /\ session[s].pc \in {"begun", "drafted", "queried"} /\ reports' = reports
        /\ Reply(s, ErrorCode(s), {}, {})
    BY <1>11 DEF DatabaseFails, UsesDatabase, tables
  <2>2. session[s].req \in Request
    BY <2>1, Serves
  <2>3. /\ ErrorCode(s) \in Code
        /\ session[s].req.op \in {"CreateFaultRecord", "StartDiagnosis", "ConfirmDiagnosisReport"}
              => ErrorCode(s) # 0
    BY <2>2, RequestTyped DEF ErrorCode
  <2>4. Plain(s, ErrorCode(s), {}, {})
    BY <2>3 DEF Plain
  <2> QED
    BY <2>1, <2>4, PlainReply
<1> QED
  BY <1>1, <1>2, <1>3, <1>4, <1>5, <1>6, <1>7, <1>8, <1>9, <1>10, <1>11 DEF SessionStep

LEMMA OthersGrow ==
    ASSUME IInv, NEW s \in Session, SessionStep(s), NEW req \in Request, req # session[s].req
    PROVE  Grows(faults, reports, faults', reports', req.id)
<1>1. session[s].req \in Request
  BY SessionMoves, Serves DEF StepOf
<1> QED
  BY <1>1, IdsName, StepGrows

LEMMA StepSessions ==
    ASSUME IInv, NEW s \in Session, SessionStep(s)
    PROVE  SessionsFit' /\ ServedOnce' /\ AnswersFit'
<1>1. StepOf(s)
  BY SessionMoves
<1>2. ServedOnce /\ session[s].pc # "idle"
  BY <1>1 DEF IInv, StepOf
<1>3. ASSUME NEW t \in Session PROVE SessionFits(faults', reports', session'[t])
  <2>1. CASE t = s
    BY <1>1, <2>1 DEF StepOf
  <2>2. CASE t # s /\ session[t].pc = "idle"
    BY <1>1, <2>2 DEF StepOf, SessionFits
  <2>3. CASE t # s /\ session[t].pc # "idle"
    <3>1. session[t].req # session[s].req
      BY <1>2, <2>3 DEF ServedOnce
    <3>2. session[t].req \in Request
      BY <2>3, Serves
    <3>3. Grows(faults, reports, faults', reports', session[t].req.id)
      BY <3>1, <3>2, OthersGrow
    <3>4. SessionFits(faults, reports, session[t]) /\ session'[t] = session[t]
      BY <1>1, <2>3 DEF StepOf, IInv, SessionsFit
    <3> QED
      BY <3>3, <3>4, FitsStays
  <2> QED
    BY <2>1, <2>2, <2>3
<1>4. ASSUME NEW a \in answers PROVE TrueOf(faults', reports', a)
  <2>1. a.req # session[s].req /\ a.req \in Request /\ TrueOf(faults, reports, a)
    BY <1>2 DEF ServedOnce, IInv, TypeOK, AnswersFit
  <2>2. Grows(faults, reports, faults', reports', a.req.id)
    BY <2>1, OthersGrow
  <2> QED
    BY <2>1, <2>2, TrueStays
<1>5. \A t \in Session : session'[t].req = session[t].req
                         /\ (session'[t].pc # "idle" <=> session[t].pc # "idle")
  BY <1>1, <1>2 DEF StepOf
<1>6. ServedOnce'
  BY <1>1, <1>2, <1>5 DEF ServedOnce, StepOf
<1> QED
  BY <1>1, <1>3, <1>4, <1>6 DEF SessionsFit, AnswersFit, StepOf

-----------------------------------------------------------------------------
(* The announcements *)

LEMMA ExchangeStep ==
    ASSUME IInv, NEW s \in Session, SessionStep(s)
    PROVE  \/ exchange' = exchange
           \/ /\ session[s].pc = "publishing" /\ reports' = reports /\ session'[s].pc = "replied"
              /\ \E r \in session[s].report :
                    exchange' = Append(exchange, [report_id |-> r.report_id,
                                                  device |-> session[s].req.device])
<1>1. CASE Publish(s)
  <2>1. session'[s].pc = "replied"
    BY <1>1, MoveSession DEF Publish, Reply, IInv
  <2> QED
    BY <1>1, <2>1 DEF Publish, tables
<1>2. CASE ~Publish(s)
  BY <1>2 DEF SessionStep, Refuse, RejectFault, PersistFault, SkipFault, ReadFault,
     FaultNotFound, RagAnswers, RagFails, RejectReport, PersistReport, RejectConfirm,
     ConfirmFindsNone, ConfirmReads, Write, GetFault, GetReport, ListFaults, ListReports,
     DatabaseFails
<1> QED
  BY <1>1, <1>2

LEMMA KeptStays ==
    ASSUME IInv, NEW s \in Session, SessionStep(s), NEW r, Kept(reports, r)
    PROVE  Kept(reports', r)
<1>1. CASE LeavesReports
  BY <1>1 DEF LeavesReports
<1>2. ASSUME NEW new, InsertsReport(s, new) PROVE Kept(reports', r)
  BY <1>2 DEF InsertsReport, Kept
<1>3. ASSUME NEW new, WritesReport(s, new) PROVE Kept(reports', r)
  BY <1>3, WriteKeeps DEF Kept, SameReport
<1> QED
  BY <1>1, <1>2, <1>3, ReportStep

\* Which reports a worker has yet to announce: one it has just made, or as before.
LEMMA PublishingStep ==
    ASSUME IInv, NEW s \in Session, SessionStep(s), NEW t \in Session,
           session'[t].pc = "publishing", NEW p \in session'[t].report
    PROVE  \/ session[t].pc = "publishing" /\ p \in session[t].report /\ t # s
           \/ ~ReportIdTaken(p.report_id) /\ exchange' = exchange
<1>1. StepOf(s) /\ TypeOK
  BY SessionMoves DEF IInv
<1>2. CASE t # s
  BY <1>1, <1>2 DEF StepOf
<1>3. CASE t = s
  <2>1. CASE PersistReport(s)
    <3>1. PICK now \in Now :
            LET r == NewReport(session[s].req, session[s].fault, now) IN
            \/ /\ ~ReportIdTaken(r.report_id)
               /\ \/ Move(s, IF publisherUp THEN "publishing" ELSE "replied",
                          session[s].fault, {r}, 0)
                  \/ Reply(s, 400, {}, {})
            \/ Reply(s, 400, {}, {})
      BY <2>1 DEF PersistReport
    <3> DEFINE r == NewReport(session[s].req, session[s].fault, now)
    <3>2. \/ ~ReportIdTaken(r.report_id) /\ session'[s].report = {r}
          \/ session'[s].pc = "replied"
      <4>1. CASE Reply(s, 400, {}, {})
        BY <1>1, <4>1, MoveSession DEF Reply
      <4>2. ASSUME NEW pc, Move(s, pc, session[s].fault, {r}, 0) PROVE session'[s].report = {r}
        BY <1>1, <4>2, MoveSession
      <4> QED
        BY <3>1, <4>1, <4>2
    <3> HIDE DEF r
    <3>3. exchange' = exchange
      BY <2>1 DEF PersistReport
    <3> QED
      BY <1>3, <3>2, <3>3
  <2>2. CASE ~PersistReport(s)
    <3>1. ASSUME NEW code, NEW fault, NEW report, Reply(s, code, fault, report)
          PROVE  session'[s].pc = "replied"
      BY <1>1, <3>1, MoveSession DEF Reply
    <3>2. CASE SkipFault(s) \/ ReadFault(s) \/ RagAnswers(s) \/ ConfirmReads(s)
      BY <1>1, <1>3, <3>2, MoveSession DEF SkipFault, ReadFault, RagAnswers, ConfirmReads
    <3>3. CASE RejectFault(s) \/ FaultNotFound(s) \/ RagFails(s) \/ RejectReport(s)
               \/ RejectConfirm(s) \/ ConfirmFindsNone(s)
      BY <1>3, <3>1, <3>3 DEF Refuse, RejectFault, FaultNotFound, RagFails, RejectReport,
         RejectConfirm, ConfirmFindsNone
    <3>4. CASE PersistFault(s) \/ Publish(s) \/ Write(s)
      BY <1>3, <3>1, <3>4 DEF PersistFault, Publish, Write
    <3>5. CASE GetFault(s) \/ GetReport(s) \/ ListFaults(s) \/ ListReports(s) \/ DatabaseFails(s)
      BY <1>3, <3>1, <3>5 DEF GetFault, GetReport, ListFaults, ListReports, DatabaseFails
    <3> QED
      BY <2>2, <3>2, <3>3, <3>4, <3>5 DEF SessionStep
  <2> QED
    BY <2>1, <2>2
<1> QED
  BY <1>2, <1>3

LEMMA StepTasks ==
    ASSUME IInv, NEW s \in Session, SessionStep(s)
    PROVE  TasksAreReports' /\ TasksFresh' /\ exchange' \in Seq(Task)
<1>0. TasksAreReports /\ TasksFresh /\ exchange \in Seq(Task)
  BY DEF IInv, TypeOK
<1>1. ASSUME NEW i \in DOMAIN exchange
      PROVE  /\ \E r \in reports' : /\ r.report_id = exchange[i].report_id
                                    /\ exchange[i].device \in {Empty, r.device}
             /\ ReportIdTaken(exchange[i].report_id)
  <2>1. PICK r \in reports : /\ r.report_id = exchange[i].report_id
                             /\ exchange[i].device \in {Empty, r.device}
    BY <1>0 DEF TasksAreReports
  <2>2. Kept(reports', r)
    BY KeptStays DEF Kept, SameReport
  <2> QED
    BY <2>1, <2>2 DEF Kept, SameReport, ReportIdTaken
<1>2. CASE exchange' = exchange
  <2>1. TasksAreReports'
    BY <1>0, <1>1, <1>2 DEF TasksAreReports
  <2>2. TasksFresh'
    BY <1>0, <1>1, <1>2, PublishingStep DEF TasksFresh, ReportIdTaken
  <2> QED
    BY <1>0, <1>2, <2>1, <2>2
<1>3. ASSUME session[s].pc = "publishing", reports' = reports, session'[s].pc = "replied",
             NEW p \in session[s].report,
             exchange' = Append(exchange, [report_id |-> p.report_id,
                                           device |-> session[s].req.device])
      PROVE  TasksAreReports' /\ TasksFresh' /\ exchange' \in Seq(Task)
  <2> DEFINE task == [report_id |-> p.report_id, device |-> session[s].req.device]
  <2>1. /\ p \in Report /\ Kept(reports, p) /\ p.by = session[s].req.id
        /\ session[s].req.device \in {Empty, p.device}
    BY <1>3 DEF IInv, TypeOK, SessionsFit, SessionFits
  <2>2. /\ task \in Task /\ task.report_id = p.report_id /\ task.device \in {Empty, p.device}
    BY <2>1 DEF Task, Report
  <2>3. exchange' = Append(exchange, task)
    BY <1>3
  <2> HIDE DEF task
  <2>4. /\ exchange' \in Seq(Task) /\ DOMAIN exchange' = 1..(Len(exchange) + 1)
        /\ DOMAIN exchange = 1..Len(exchange) /\ Len(exchange) \in Nat
        /\ \A i \in 1..Len(exchange) : exchange'[i] = exchange[i]
        /\ exchange'[Len(exchange) + 1] = task
    BY <1>0, <2>2, <2>3
  <2>5. \A i \in DOMAIN exchange : exchange[i].report_id # task.report_id
    BY <1>0, <1>3, <2>2 DEF TasksFresh
  <2>6. \E r \in reports' : r.report_id = task.report_id /\ task.device \in {Empty, r.device}
    BY <1>3, <2>1, <2>2 DEF Kept, SameReport
  <2>7. \A i \in DOMAIN exchange' : \/ i \in DOMAIN exchange /\ exchange'[i] = exchange[i]
                                    \/ i = Len(exchange) + 1 /\ exchange'[i] = task
    BY <2>4
  <2>8. TasksAreReports'
    <3>1. ASSUME NEW i \in DOMAIN exchange'
          PROVE  /\ \E r \in reports' : /\ r.report_id = exchange'[i].report_id
                                        /\ exchange'[i].device \in {Empty, r.device}
                 /\ \A j \in DOMAIN exchange' :
                       exchange'[j].report_id = exchange'[i].report_id => i = j
      <4>1. \E r \in reports' : /\ r.report_id = exchange'[i].report_id
                                /\ exchange'[i].device \in {Empty, r.device}
        BY <1>1, <2>6, <2>7
      <4>2. ASSUME NEW j \in DOMAIN exchange', exchange'[j].report_id = exchange'[i].report_id
            PROVE  i = j
        BY <1>0, <2>5, <2>7, <4>2 DEF TasksAreReports
      <4> QED
        BY <4>1, <4>2
    <3> QED
      BY <3>1 DEF TasksAreReports
  <2>9. ASSUME NEW t \in Session, session'[t].pc = "publishing", NEW q \in session'[t].report,
               NEW i \in DOMAIN exchange'
        PROVE  exchange'[i].report_id # q.report_id
    <3>1. \/ session[t].pc = "publishing" /\ q \in session[t].report /\ t # s
          \/ ~ReportIdTaken(q.report_id)
      BY <2>9, PublishingStep
    <3>2. CASE ~ReportIdTaken(q.report_id)
      BY <1>1, <1>3, <2>6, <2>7, <3>2 DEF ReportIdTaken
    <3>3. CASE session[t].pc = "publishing" /\ q \in session[t].report /\ t # s
      <4>1. session[t].req # session[s].req /\ session[t].req \in Request
            /\ session[s].req \in Request
        BY <1>3, <3>3, Serves DEF IInv, ServedOnce
      <4>2. q.by = session[t].req.id /\ Kept(reports, q)
        BY <3>3 DEF IInv, SessionsFit, SessionFits
      <4>3. q.by # p.by
        BY <2>1, <4>1, <4>2, IdsName
      <4>4. q.report_id # p.report_id
        BY <2>1, <4>2, <4>3 DEF IInv, ReportKeys, Kept, SameReport
      <4> QED
        BY <1>0, <2>2, <2>7, <3>3, <4>4 DEF TasksFresh
    <3> QED
      BY <3>1, <3>2, <3>3
  <2> QED
    BY <2>4, <2>8, <2>9 DEF TasksFresh
<1> QED
  BY <1>2, <1>3, ExchangeStep

-----------------------------------------------------------------------------
(* The invariant *)

LEMMA StepSequences ==
    ASSUME IInv, NEW s \in Session, SessionStep(s)
    PROVE  faultSequence' \in Nat /\ reportSequence' \in Nat
<1>1. faultSequence \in Nat /\ reportSequence \in Nat
  BY DEF IInv, TypeOK
<1>2. /\ faultSequence' \in {faultSequence, faultSequence + 1}
      /\ reportSequence' \in {reportSequence, reportSequence + 1}
  BY DEF SessionStep, sequences, Refuse, RejectFault, PersistFault, SkipFault, ReadFault,
     FaultNotFound, RagAnswers, RagFails, RejectReport, PersistReport, Publish, RejectConfirm,
     ConfirmFindsNone, ConfirmReads, Write, GetFault, GetReport, ListFaults, ListReports,
     DatabaseFails
<1> QED
  BY <1>1, <1>2

LEMMA StepTypes ==
    ASSUME IInv, NEW s \in Session, SessionStep(s)
    PROVE  TypeOK'
<1>1. TypeOK /\ StepOf(s)
  BY SessionMoves DEF IInv
<1>2. \A t \in Session :
          /\ AtMostOne(session'[t].fault) /\ AtMostOne(session'[t].report)
          /\ session'[t].pc \in {"publishing", "queried"} => session'[t].report # {}
  BY <1>1 DEF StepOf, TypeOK
<1> QED
  BY <1>1, <1>2, StepFaultKeys, StepReportKeys, StepSequences, StepTasks DEF StepOf, TypeOK

LEMMA SessionStepKeeps == ASSUME IInv, NEW s \in Session, SessionStep(s) PROVE IInv'
<1>1. requested' = requested
  BY SessionMoves DEF StepOf
<1> QED
  BY <1>1, StepTypes, StepFaultKeys, StepReportKeys, StepRequested, StepSessions, StepTasks DEF IInv

\* A step that is no session's work changes sessions, requests and answers alone.
LEMMA ElsewhereKeepsRows ==
    ASSUME IInv, Elsewhere
    PROVE  /\ FaultKeys' /\ ReportKeys' /\ TasksAreReports'
           /\ FaultsRequested' /\ ReportsRequested' /\ StatusRequested'
<1>1. /\ faults' = faults /\ nextFault' = nextFault /\ reports' = reports
      /\ nextReport' = nextReport /\ exchange' = exchange
  BY ElsewhereLeaves DEF tables
<1>2. requested \subseteq requested'
  BY DEF Elsewhere, vars, Begin, Answer, Crash
<1> QED
  BY <1>1, <1>2 DEF IInv, FaultKeys, ReportKeys, TasksAreReports, FaultsRequested,
     ReportsRequested, StatusRequested

\* An idle worker relies on nothing.
LEMMA IdleFits ==
    /\ IdleSession \in [pc : Pc, req : Request \cup {NoRequest}, fault : SUBSET Fault,
                        report : SUBSET Report, code : Code]
    /\ IdleSession.pc = "idle" /\ IdleSession.fault = {} /\ IdleSession.report = {}
    /\ \A f, r : SessionFits(f, r, IdleSession)
BY DEF IdleSession, SessionFits

LEMMA BeginKeeps ==
    ASSUME IInv, NEW s \in Session, NEW req \in Request, Begin(s, req) PROVE IInv'
<1> DEFINE begun == [pc |-> "begun", req |-> req, fault |-> {}, report |-> {}, code |-> 0]
           SessionType == [pc : Pc, req : Request \cup {NoRequest}, fault : SUBSET Fault,
                           report : SUBSET Report, code : Code]
<1>0. /\ TypeOK /\ ServedOnce /\ SessionsFit /\ AnswersFit /\ TasksFresh
      /\ FaultsRequested /\ ReportsRequested
  BY DEF IInv
<1>1. /\ session' = [session EXCEPT ![s] = begun] /\ requested' = requested \cup {req}
      /\ req \notin requested /\ session[s].pc = "idle"
      /\ UNCHANGED <<tables, sequences, publisherUp, exchange, answers>>
  BY DEF Begin
<1>2. /\ begun \in SessionType /\ begun.pc = "begun" /\ begun.req = req
      /\ begun.fault = {} /\ begun.report = {}
  OBVIOUS
<1> HIDE DEF begun
<1>3. /\ session' \in [Session -> SessionType]
      /\ session'[s] = begun /\ \A t \in Session : t # s => session'[t] = session[t]
  BY <1>0, <1>1, <1>2 DEF TypeOK
<1>4. faults' = faults /\ reports' = reports /\ exchange' = exchange /\ answers' = answers
  BY <1>1 DEF tables
<1>5. /\ \A f \in faults : f.by # req.id
      /\ \A r \in reports : r.by # req.id
  BY <1>0, <1>1, IdsName DEF FaultsRequested, ReportsRequested, TypeOK
<1>6. TypeOK'
  <2>1. \A t \in Session :
          /\ AtMostOne(session'[t].fault) /\ AtMostOne(session'[t].report)
          /\ session'[t].pc \in {"publishing", "queried"} => session'[t].report # {}
    BY <1>0, <1>2, <1>3 DEF TypeOK
  <2> QED
    BY <1>0, <1>1, <1>3, <2>1 DEF TypeOK, tables, sequences
<1>7. SessionsFit'
  <2>1. SessionFits(faults, reports, begun)
    BY <1>2, <1>5 DEF SessionFits
  <2> QED
    BY <1>0, <1>3, <1>4, <2>1 DEF SessionsFit
<1>8. ServedOnce'
  BY <1>0, <1>1, <1>2, <1>3, <1>4 DEF ServedOnce
<1>9. AnswersFit' /\ TasksFresh'
  BY <1>0, <1>2, <1>3, <1>4 DEF AnswersFit, TasksFresh
<1> QED
  BY <1>6, <1>7, <1>8, <1>9, ElsewhereKeepsRows DEF IInv, Elsewhere

LEMMA AnswerKeeps == ASSUME IInv, NEW s \in Session, Answer(s) PROVE IInv'
<1> DEFINE a == [req |-> session[s].req, code |-> session[s].code,
                 fault |-> session[s].fault, report |-> session[s].report]
           SessionType == [pc : Pc, req : Request \cup {NoRequest}, fault : SUBSET Fault,
                           report : SUBSET Report, code : Code]
<1>0. TypeOK /\ ServedOnce /\ SessionsFit /\ AnswersFit /\ TasksFresh
  BY DEF IInv
<1>1. /\ session[s].pc = "replied" /\ session' = [session EXCEPT ![s] = IdleSession]
      /\ answers' = answers \cup {a}
      /\ UNCHANGED <<tables, sequences, publisherUp, requested, exchange>>
  BY DEF Answer
<1>2. session[s].req \in Request /\ session[s].req \in requested
  BY <1>1, Serves
<1>3. /\ a \in [req : Request, code : Code, fault : SUBSET Fault, report : SUBSET Report]
      /\ a.req = session[s].req /\ TrueOf(faults, reports, a)
  BY <1>0, <1>1, <1>2 DEF TypeOK, SessionsFit, SessionFits, TrueOf
<1> HIDE DEF a
<1>4. /\ session' \in [Session -> SessionType]
      /\ session'[s] = IdleSession /\ \A t \in Session : t # s => session'[t] = session[t]
  BY <1>0, <1>1, IdleFits DEF TypeOK
<1>5. faults' = faults /\ reports' = reports /\ exchange' = exchange /\ requested' = requested
  BY <1>1 DEF tables
<1>6. TypeOK'
  <2>1. \A t \in Session :
          /\ AtMostOne(session'[t].fault) /\ AtMostOne(session'[t].report)
          /\ session'[t].pc \in {"publishing", "queried"} => session'[t].report # {}
    BY <1>0, <1>4, IdleFits DEF TypeOK
  <2> QED
    BY <1>0, <1>1, <1>3, <1>4, <2>1 DEF TypeOK, tables, sequences
<1>7. SessionsFit'
  BY <1>0, <1>4, <1>5, IdleFits DEF SessionsFit
<1>8. ServedOnce'
  BY <1>0, <1>1, <1>2, <1>3, <1>4, <1>5, IdleFits DEF ServedOnce
<1>9. AnswersFit' /\ TasksFresh'
  BY <1>0, <1>1, <1>3, <1>4, <1>5, IdleFits DEF AnswersFit, TasksFresh
<1> QED
  BY <1>6, <1>7, <1>8, <1>9, ElsewhereKeepsRows DEF IInv, Elsewhere

LEMMA CrashKeeps == ASSUME IInv, Crash PROVE IInv'
<1>0. TypeOK /\ ServedOnce /\ SessionsFit /\ AnswersFit
  BY DEF IInv
<1>1. /\ session' = [s \in Session |-> IdleSession]
      /\ faultSequence' = 1 /\ reportSequence' = 1 /\ publisherUp' \in Publisher
      /\ UNCHANGED <<tables, requested, exchange, answers>>
  BY DEF Crash
<1>2. \A s \in Session : session'[s] = IdleSession
  BY <1>1
<1>3. publisherUp' \in BOOLEAN
  BY <1>1, ConfigAssumption, Zenon DEF Publisher
<1>4. TypeOK'
  <2>1. session' \in [Session -> [pc : Pc, req : Request \cup {NoRequest}, fault : SUBSET Fault,
                                  report : SUBSET Report, code : Code]]
    BY <1>1, IdleFits
  <2> QED
    BY <1>0, <1>1, <1>2, <1>3, <2>1, IdleFits DEF TypeOK, tables
<1>5. SessionsFit' /\ ServedOnce' /\ AnswersFit' /\ TasksFresh'
  BY <1>0, <1>1, <1>2, IdleFits DEF SessionsFit, ServedOnce, AnswersFit, TasksFresh, tables
<1> QED
  BY <1>4, <1>5, ElsewhereKeepsRows DEF IInv, Elsewhere

LEMMA InitInv == Init => IInv
<1> SUFFICES ASSUME Init PROVE IInv
  OBVIOUS
<1>1. /\ session = [s \in Session |-> IdleSession] /\ \A s \in Session : session[s] = IdleSession
  BY DEF Init
<1>2. publisherUp \in BOOLEAN
  BY ConfigAssumption, Zenon DEF Init, Publisher
<1>3. TypeOK
  <2>1. session \in [Session -> [pc : Pc, req : Request \cup {NoRequest}, fault : SUBSET Fault,
                                 report : SUBSET Report, code : Code]]
    BY <1>1, IdleFits
  <2> QED
    BY <1>1, <1>2, <2>1, IdleFits DEF Init, TypeOK
<1> QED
  BY <1>1, <1>3, IdleFits DEF IInv, Init, FaultKeys, ReportKeys, FaultsRequested, ReportsRequested,
     StatusRequested, SessionsFit, ServedOnce, AnswersFit, TasksAreReports, TasksFresh

LEMMA Inductive == IInv /\ [Next]_vars => IInv'
<1> SUFFICES ASSUME IInv, [Next]_vars PROVE IInv'
  OBVIOUS
<1>1. CASE UNCHANGED vars
  BY <1>1 DEF vars, tables, sequences, IInv, TypeOK, FaultKeys, ReportKeys, FaultsRequested,
     ReportsRequested, StatusRequested, SessionsFit, ServedOnce, AnswersFit, TasksAreReports,
     TasksFresh
<1> QED
  BY <1>1, SessionStepKeeps, BeginKeeps, AnswerKeeps, CrashKeeps DEF Next, Step

LEMMA Invariance == Spec => []IInv
BY InitInv, Inductive, PTL DEF Spec

-----------------------------------------------------------------------------
(* Theorems *)

\* Every variable keeps its type, and a worker that announces or decides has a report.
THEOREM TypeCorrect == Spec => []TypeOK
<1>1. IInv => TypeOK
  BY DEF IInv
<1> QED
  BY <1>1, Invariance, PTL

\* A request is found again by the id its rows carry.
LEMMA RequestOfRow ==
    ASSUME IInv, NEW req \in requested, NEW row, row.by = req.id
    PROVE  RequestOf(row) = req
<1>1. \A other \in requested : other.id = row.by => other = req
  BY IdsName DEF IInv, TypeOK
<1> QED
  BY <1>1 DEF RequestOf

\* Every report names the fault its request asked about, and no other, and has its
\* device and event of it: while the RAG service was waited for, and after any number of
\* restarts under a clock that makes the same ids again.
THEOREM ReportsNameTheirFaultHolds == Spec => []ReportsNameTheirFault
<1>1. IInv => ReportsNameTheirFault
  <2> SUFFICES ASSUME IInv, NEW r \in reports
               PROVE  LET named == {f \in faults : f.fault_id = r.fault_id}
                          req == RequestOf(r)
                      IN  /\ named = {f \in faults : f.by = req.fault}
                          /\ (req.fault # 0) <=> (named # {})
                          /\ \A f \in named :
                                /\ r.device = IF req.device # Empty THEN req.device ELSE f.device
                                /\ r.event = IF req.event # Empty THEN req.event ELSE f.event
    BY DEF ReportsNameTheirFault
  <2>1. PICK req \in requested : req.id = r.by /\ NamesFault(faults, r, req)
    BY DEF IInv, ReportsRequested
  <2>2. RequestOf(r) = req
    BY <2>1, RequestOfRow
  <2> QED
    BY <2>1, <2>2 DEF NamesFault
<1> QED
  BY <1>1, Invariance, PTL

\* Whatever crashes, fails or runs at the same time, what is announced is a report of the
\* table, once, with its device or none.
THEOREM TasksAreReportsHolds == Spec => []TasksAreReports
<1>1. IInv => TasksAreReports
  BY DEF IInv
<1> QED
  BY <1>1, Invariance, PTL

\* A client told 0 finds the one row it made under the id it was told, and one told 404
\* or 503 has left no report.
THEOREM AnswersAreTrueHolds == Spec => []AnswersAreTrue
<1>1. IInv => AnswersAreTrue
  <2> SUFFICES ASSUME IInv, NEW a \in answers
               PROVE  /\ a.req.op = "CreateFaultRecord" /\ a.code = 0 =>
                            \E f \in a.fault : {g \in faults : g.fault_id = f.fault_id} = {f}
                      /\ a.req.op = "StartDiagnosis" /\ a.code = 0 =>
                            \E r \in a.report :
                               {q.by : q \in {p \in reports : p.report_id = r.report_id}} = {a.req.id}
                      /\ a.req.op = "StartDiagnosis" /\ a.code \in {404, 503} =>
                            \A r \in reports : r.by # a.req.id
    BY DEF AnswersAreTrue
  <2>1. TrueOf(faults, reports, a) /\ FaultKeys /\ ReportKeys
    BY DEF IInv, AnswersFit
  <2>2. ASSUME a.req.op = "CreateFaultRecord", a.code = 0
        PROVE  \E f \in a.fault : {g \in faults : g.fault_id = f.fault_id} = {f}
    BY <2>1, <2>2 DEF TrueOf, FaultKeys
  <2>3. ASSUME a.req.op = "StartDiagnosis", a.code = 0
        PROVE  \E r \in a.report :
                  {q.by : q \in {p \in reports : p.report_id = r.report_id}} = {a.req.id}
    <3>1. PICK r \in a.report : Kept(reports, r) /\ r.by = a.req.id
      BY <2>1, <2>3 DEF TrueOf
    <3>2. PICK q \in reports : q.report_id = r.report_id /\ q.by = a.req.id
      BY <3>1 DEF Kept, SameReport
    <3>3. {p \in reports : p.report_id = r.report_id} = {q}
      BY <2>1, <3>2 DEF ReportKeys
    <3>4. {p.by : p \in {q}} = {a.req.id}
      BY <3>2
    <3> QED
      BY <3>3, <3>4
  <2> QED
    BY <2>1, <2>2, <2>3 DEF TrueOf
<1> QED
  BY <1>1, Invariance, PTL

\* A report that is no draft has the status some engineer asked for, and once a verdict
\* was answered 0 it is never a draft again, however verdicts race on its copies.
THEOREM VerdictStandsHolds == Spec => []VerdictStands
<1>1. IInv => VerdictStands
  BY DEF IInv, VerdictStands, StatusRequested, AnswersFit, TrueOf
<1> QED
  BY <1>1, Invariance, PTL
=============================================================================
