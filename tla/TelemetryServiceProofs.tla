------------------------ MODULE TelemetryServiceProofs ------------------------
(***************************************************************************)
(* Proofs about TelemetryService, for any devices, reports, sessions and   *)
(* clock. The inductive invariant IInv says two things of a device that is *)
(* not marked as unsynced: at most one session is between its memory and   *)
(* its Redis write, and that one carries the report the memory ends with.  *)
(***************************************************************************)
EXTENDS TelemetryService, TLAPS

ClockRuns == clock > 0

\* A session past the critical section carries a report that is in the history, and
\* one that is about to publish the offline message has a report that says so.
Carries(hist, last, r) ==
    /\ r.pc = "begun" => r.code = 0
    /\ r.pc \in {"stored", "statusSet", "written", "publishOffline", "replied"} /\ r.code = 0 =>
          /\ r.report \in ReportType /\ r.report.reported_at > 0
          /\ r.report.device_id \in Device /\ r.req.device_id = r.report.device_id
          /\ \E i \in DOMAIN hist[r.report.device_id] : hist[r.report.device_id][i] = r.report
          /\ last[r.report.device_id] # NoReport
    /\ r.pc \in {"stored", "statusSet", "written", "publishOffline"} => r.code = 0
    /\ r.pc = "publishOffline" => ~r.req.online
SessionsCarry == \A s \in Session : Carries(history, latest, session[s])

OfflineMessages == \A r \in offlineMsgs : ~r.online /\ r.device_id \in Device

\* At most one session is writing a device that is in step, and it writes what is in
\* memory; the keys it has written already, or nobody is writing, hold that too.
InStepAt(d) ==
    /\ latest[d] # NoReport
    /\ \A s, t \in Writing(d) : s = t
    /\ \A s \in Writing(d) : session[s].report = latest[d]
    /\ (\A s \in Writing(d) : session[s].pc = "statusSet") => status[d] = latest[d]
    /\ Writing(d) = {} => online[d] = IF latest[d].online THEN "1" ELSE "0"
InStep == \A d \in Device \ unsynced : InStepAt(d)

IInv == TypeOK /\ ClockRuns /\ SessionsCarry /\ OfflineMessages /\ InStep

-----------------------------------------------------------------------------
(* Sessions *)

SessionType == [pc : Pc, req : Report \cup {NoReport}, report : ReportType \cup {NoReport},
                code : {0, 400}]

\* The conjuncts of TypeOK that speak of one session.
SessionOK(r) ==
    /\ r \in SessionType
    /\ r.pc # "idle" => r.req \in Report
    /\ r.pc \in {"stored", "statusSet"} => r.report \in ReportType /\ r.report.reported_at > 0

LEMMA SessionsTyped ==
    TypeOK => session \in [Session -> SessionType] /\ \A s \in Session : SessionOK(session[s])
<1> SUFFICES ASSUME TypeOK
             PROVE  session \in [Session -> SessionType] /\ \A s \in Session : SessionOK(session[s])
  OBVIOUS
<1>1. session \in [Session -> SessionType]
  BY DEF TypeOK, SessionType
<1>2. ASSUME NEW s \in Session PROVE SessionOK(session[s])
  BY <1>1 DEF TypeOK, SessionOK
<1> QED
  BY <1>1, <1>2

\* A report as it is kept: with a time.
LEMMA NormalizedType ==
    ASSUME TypeOK, ClockRuns, NEW r \in Report
    PROVE  /\ Normalized(r) \in ReportType
           /\ Normalized(r).device_id = r.device_id
           /\ Normalized(r).reported_at > 0
<1>1. r \in ReportType
  BY ReportAssumption
<1>2. CASE r.reported_at <= 0
  <2>1. /\ r.id \in Nat /\ r.device_id \in DeviceId /\ r.online \in BOOLEAN
        /\ r.run_mode \in RunMode
    BY <1>1 DEF ReportType
  <2>2. clock \in Int /\ clock > 0
    BY DEF TypeOK, ClockRuns
  <2>3. Normalized(r) = [id |-> r.id, device_id |-> r.device_id, reported_at |-> clock,
                         online |-> r.online, run_mode |-> r.run_mode]
    BY <1>2 DEF Normalized
  <2> QED
    BY <2>1, <2>2, <2>3 DEF ReportType
<1>3. CASE ~(r.reported_at <= 0)
  BY <1>1, <1>3 DEF Normalized, ReportType
<1> QED
  BY <1>2, <1>3

Becomes(s, r) ==
    /\ session' = [session EXCEPT ![s] = r]
    /\ SessionOK(r)
    /\ Carries(history', latest', r)

\* A session that goes on with what it has.
LEMMA MoveBecomes ==
    ASSUME IInv, NEW s \in Session, NEW pc \in Pc \ {"idle", "begun", "stored"},
           Move(s, pc), history' = history, latest' = latest,
           session[s].pc \in {"stored", "statusSet", "written", "publishOffline"},
           pc = "statusSet" => session[s].pc = "stored",
           pc = "publishOffline" => ~session[s].req.online
    PROVE  Becomes(s, [pc |-> pc, req |-> session[s].req, report |-> session[s].report,
                       code |-> 0])
<1>1. SessionOK(session[s]) /\ Carries(history, latest, session[s])
  BY SessionsTyped DEF IInv, SessionsCarry
<1> QED
  BY <1>1 DEF Move, Becomes, SessionOK, SessionType, Carries, Pc

LEMMA StoreBecomes ==
    ASSUME IInv, NEW s \in Session, Store(s)
    PROVE  LET r == Normalized(session[s].req) IN
           /\ r \in ReportType /\ r.device_id \in Device
           /\ Becomes(s, [pc |-> IF redisUp THEN "stored" ELSE "written",
                          req |-> session[s].req, report |-> r, code |-> 0])
           /\ latest' = [latest EXCEPT ![r.device_id] = r]
           /\ history' = [history EXCEPT ![r.device_id] = Append(@, r)]
<1> DEFINE r == Normalized(session[s].req)
           d == r.device_id
           new == [pc |-> IF redisUp THEN "stored" ELSE "written",
                   req |-> session[s].req, report |-> r, code |-> 0]
<1>1. session[s].req \in Report
  BY DEF Store, IInv, TypeOK
<1>2. r \in ReportType /\ d = session[s].req.device_id /\ r.reported_at > 0
  BY <1>1, NormalizedType DEF IInv
<1>3. /\ d \in Device
  BY <1>2 DEF Store, ReportType, Device
<1>4. /\ latest' = [latest EXCEPT ![d] = r]
      /\ history' = [history EXCEPT ![d] = Append(@, r)]
      /\ session' = [session EXCEPT ![s] = new]
  BY DEF Store
<1>5. latest \in [Device -> ReportType \cup {NoReport}] /\ history \in [Device -> Seq(ReportType)]
  BY DEF IInv, TypeOK
<1> HIDE DEF r
<1>6. latest'[d] = r /\ history'[d] = Append(history[d], r)
  BY <1>3, <1>4, <1>5
<1>7. \E i \in DOMAIN history'[d] : history'[d][i] = r
  <2>1. /\ Len(history[d]) + 1 \in DOMAIN Append(history[d], r)
        /\ Append(history[d], r)[Len(history[d]) + 1] = r
    BY <1>2, <1>3, <1>5
  <2> QED
    BY <1>6, <2>1
<1>8. SessionOK(new)
  BY <1>1, <1>2 DEF SessionOK, SessionType, Pc
<1>9. Carries(history', latest', new)
  BY <1>2, <1>3, <1>6, <1>7, ReportAssumption DEF Carries
<1> QED
  BY <1>2, <1>3, <1>4, <1>8, <1>9 DEF Becomes, r

\* The memory only grows, except at the end of the process.
LEMMA MemoryGrows ==
    ASSUME IInv, [Next]_vars, ~Crash
    PROVE  /\ latest' \in [Device -> ReportType \cup {NoReport}]
           /\ history' \in [Device -> Seq(ReportType)]
           /\ \A r : Carries(history, latest, r) => Carries(history', latest', r)
<1>0. /\ latest \in [Device -> ReportType \cup {NoReport}]
      /\ history \in [Device -> Seq(ReportType)]
  BY DEF IInv, TypeOK
<1>1. ASSUME NEW s \in Session, Store(s)
      PROVE  /\ latest' \in [Device -> ReportType \cup {NoReport}]
             /\ history' \in [Device -> Seq(ReportType)]
             /\ \A r : Carries(history, latest, r) => Carries(history', latest', r)
  <2> DEFINE new == Normalized(session[s].req)
             d == new.device_id
  <2>1. /\ new \in ReportType /\ d \in Device
        /\ latest' = [latest EXCEPT ![d] = new]
        /\ history' = [history EXCEPT ![d] = Append(@, new)]
    BY <1>1, StoreBecomes
  <2> HIDE DEF new
  <2>2. \A e \in Device : /\ latest'[e] = IF e = d THEN new ELSE latest[e]
                          /\ history'[e] = IF e = d THEN Append(history[d], new) ELSE history[e]
    BY <1>0, <2>1
  <2>3. \A i \in DOMAIN history[d] : /\ i \in DOMAIN Append(history[d], new)
                                     /\ Append(history[d], new)[i] = history[d][i]
    BY <1>0, <2>1
  <2>4. ASSUME NEW r, Carries(history, latest, r) PROVE Carries(history', latest', r)
    BY <2>1, <2>2, <2>3, <2>4, ReportAssumption DEF Carries
  <2>5. latest' \in [Device -> ReportType \cup {NoReport}]
    BY <1>0, <2>1
  <2>6. history' \in [Device -> Seq(ReportType)]
    BY <1>0, <2>1
  <2> QED
    BY <2>4, <2>5, <2>6
<1>2. CASE UNCHANGED <<latest, history>>
  BY <1>0, <1>2
<1>3. ASSUME \A s \in Session : ~Store(s) PROVE UNCHANGED <<latest, history>>
  BY <1>3 DEF Next, Step, vars, memory, Begin, SessionStep, Reject, SetStatus, SetOnline,
     RedisFails, PublishStatus, PublishOffline, NoPublisher, Answer, Tick
<1> QED
  BY <1>1, <1>2, <1>3

LEMMA IdleOK == SessionOK(IdleSession) /\ Carries(history', latest', IdleSession)
BY DEF SessionOK, SessionType, IdleSession, Carries, Pc

LEMMA SessionMoves ==
    ASSUME IInv, NEW s \in Session, SessionStep(s)
    PROVE  \E r : Becomes(s, r)
<1>0. SessionOK(session[s]) /\ Carries(history, latest, session[s])
  BY SessionsTyped DEF IInv, SessionsCarry
<1>1. CASE Reject(s)
  <2> DEFINE r == [pc |-> "replied", req |-> session[s].req, report |-> NoReport, code |-> 400]
  <2>1. SessionOK(r) /\ Carries(history', latest', r)
    BY <1>0, <1>1 DEF Reject, SessionOK, SessionType, Carries, Pc
  <2>2. session' = [session EXCEPT ![s] = r]
    BY <1>1 DEF Reject
  <2> HIDE DEF r
  <2> QED
    BY <2>1, <2>2 DEF Becomes
<1>2. CASE Store(s)
  BY <1>2, StoreBecomes
<1>3. CASE SetStatus(s)
  BY <1>3, MoveBecomes DEF SetStatus, memory, Pc
<1>4. CASE SetOnline(s) \/ RedisFails(s)
  BY <1>4, MoveBecomes DEF SetOnline, RedisFails, memory, Pc
<1>5. CASE PublishStatus(s)
  <2>1. CASE session[s].req.online
    BY <1>5, <2>1, MoveBecomes DEF PublishStatus, memory, Pc
  <2>2. CASE ~session[s].req.online
    BY <1>5, <2>2, MoveBecomes DEF PublishStatus, memory, Pc
  <2> QED
    BY <2>1, <2>2
<1>6. CASE PublishOffline(s) \/ NoPublisher(s)
  BY <1>6, MoveBecomes DEF PublishOffline, NoPublisher, memory, Pc
<1>7. CASE Answer(s)
  BY <1>7, IdleOK DEF Answer, Becomes
<1> QED
  BY <1>1, <1>2, <1>3, <1>4, <1>5, <1>6, <1>7 DEF SessionStep

LEMMA StepSessions ==
    ASSUME IInv, [Next]_vars
    PROVE  /\ session' \in [Session -> SessionType]
           /\ \A t \in Session : SessionOK(session'[t])
           /\ SessionsCarry'
<1>0. session \in [Session -> SessionType] /\ \A t \in Session : SessionOK(session[t])
  BY SessionsTyped DEF IInv
<1>1. CASE Crash
  BY <1>1, IdleOK DEF Crash, SessionsCarry, SessionOK
<1>2. ASSUME ~Crash, NEW t \in Session PROVE Carries(history', latest', session[t])
  BY <1>2, MemoryGrows DEF IInv, SessionsCarry
<1>3. ASSUME ~Crash, NEW s \in Session, NEW r, Becomes(s, r)
      PROVE  /\ session' \in [Session -> SessionType]
             /\ \A t \in Session : SessionOK(session'[t])
             /\ SessionsCarry'
  <2>1. r \in SessionType /\ session' = [session EXCEPT ![s] = r]
    BY <1>3 DEF Becomes, SessionOK
  <2>2. \A t \in Session : session'[t] = IF t = s THEN r ELSE session[t]
    BY <1>0, <2>1
  <2>3. ASSUME NEW t \in Session PROVE Carries(history', latest', session'[t])
    BY <1>2, <1>3, <2>2 DEF Becomes
  <2> QED
    BY <1>0, <1>3, <2>1, <2>2, <2>3 DEF Becomes, SessionsCarry
<1>4. ASSUME ~Crash, session' = session
      PROVE  /\ session' \in [Session -> SessionType]
             /\ \A t \in Session : SessionOK(session'[t])
             /\ SessionsCarry'
  BY <1>0, <1>2, <1>4 DEF SessionsCarry
<1>5. ASSUME NEW s \in Session, NEW r \in Report, Begin(s, r)
      PROVE  Becomes(s, [pc |-> "begun", req |-> r, report |-> NoReport, code |-> 0])
  BY <1>5 DEF Begin, Becomes, SessionOK, SessionType, Carries, Pc
<1> QED
  BY <1>1, <1>3, <1>4, <1>5, SessionMoves DEF Next, Step, Tick, vars

-----------------------------------------------------------------------------
(* Memory and Redis *)

\* A device that nobody writes before or after a step, or that the same sessions write,
\* is in step as it was.
LEMMA OtherDevice ==
    ASSUME NEW d, InStepAt(d),
           latest'[d] = latest[d], status'[d] = status[d], online'[d] = online[d],
           \A t \in Session : t \in Writing(d) \/ t \in Writing(d)' => session'[t] = session[t]
    PROVE  InStepAt(d)'
<1>1. Writing(d)' = Writing(d) /\ \A s \in Writing(d) : session'[s] = session[s]
  BY DEF Writing
<1> QED
  BY <1>1 DEF InStepAt

LEMMA StepInStep ==
    ASSUME IInv, [Next]_vars PROVE InStep'
<1>0. /\ session \in [Session -> SessionType]
      /\ latest \in [Device -> ReportType \cup {NoReport}]
      /\ status \in [Device -> ReportType \cup {NoReport}]
      /\ online \in [Device -> {"absent", "0", "1"}]
      /\ InStep
  BY SessionsTyped DEF IInv, TypeOK
<1>1. CASE Crash
  BY <1>1 DEF Crash, InStep
<1>2. ASSUME NEW s \in Session, Store(s) PROVE InStep'
  <2> DEFINE r == Normalized(session[s].req)
             d == r.device_id
             new == [pc |-> IF redisUp THEN "stored" ELSE "written",
                     req |-> session[s].req, report |-> r, code |-> 0]
  <2>1. /\ r \in ReportType /\ d \in Device
        /\ session' = [session EXCEPT ![s] = new]
        /\ latest' = [latest EXCEPT ![d] = r]
    BY <1>2, StoreBecomes DEF Becomes
  <2>2. /\ unsynced' = IF redisUp /\ Writing(d) = {} THEN unsynced \ {d} ELSE unsynced \cup {d}
        /\ UNCHANGED redis /\ session[s].pc = "begun"
    BY <1>2 DEF Store
  <2>3. ASSUME NEW e \in Device \ unsynced', e # d PROVE InStepAt(e)'
    <3>1. latest'[e] = latest[e] /\ status'[e] = status[e] /\ online'[e] = online[e]
      BY <1>0, <2>1, <2>2, <2>3 DEF redis
    <3>2. \A t \in Session : t \in Writing(e) \/ t \in Writing(e)' => session'[t] = session[t]
      BY <1>0, <2>1, <2>2, <2>3 DEF Writing
    <3>3. e \notin unsynced
      BY <2>2, <2>3
    <3> QED
      BY <1>0, <3>1, <3>2, <3>3, OtherDevice DEF InStep
  <2>4. ASSUME NEW e \in Device \ unsynced', e = d PROVE InStepAt(e)'
    <3>1. redisUp /\ Writing(e) = {}
      BY <2>2, <2>4
    <3> HIDE DEF r
    <3>2. session' = [session EXCEPT ![s] = [pc |-> "stored", req |-> session[s].req,
                                             report |-> r, code |-> 0]]
      BY <2>1, <3>1
    <3>3. \A t \in Session : t # s => session'[t] = session[t]
      BY <1>0, <3>2
    <3>4. session'[s].report = r /\ session'[s].pc = "stored"
      BY <1>0, <3>2
    <3>5. Writing(e)' = {s}
      BY <2>4, <3>1, <3>3, <3>4 DEF Writing
    <3>6. latest'[e] = r /\ r # NoReport
      BY <1>0, <2>1, <2>4, ReportAssumption
    <3> QED
      BY <3>4, <3>5, <3>6 DEF InStepAt
  <2> HIDE DEF r
  <2> QED
    BY <2>3, <2>4 DEF InStep
<1>3. ASSUME NEW s \in Session, SetStatus(s) PROVE InStep'
  <2> DEFINE r == session[s].report
             d == r.device_id
  <2>1. /\ r \in ReportType /\ d \in Device /\ session[s].pc = "stored"
        /\ s \in Writing(d)
    BY <1>3 DEF SetStatus, IInv, TypeOK, SessionsCarry, Carries, Writing
  <2>2. /\ status' = [status EXCEPT ![d] = r]
        /\ session' = [session EXCEPT ![s] = [pc |-> "statusSet", req |-> session[s].req,
                                              report |-> r, code |-> 0]]
        /\ UNCHANGED <<latest, online, unsynced>>
    BY <1>3 DEF SetStatus, Move, memory
  <2>3. \A e \in Device : Writing(e)' = Writing(e)
    BY <1>0, <2>1, <2>2 DEF Writing
  <2>4. \A t \in Session : session'[t].report = session[t].report
    BY <1>0, <2>2
  <2>5. ASSUME NEW e \in Device \ unsynced', e # d PROVE InStepAt(e)'
    <3>1. \A t \in Writing(e) : session'[t] = session[t]
      BY <1>0, <2>2, <2>5 DEF Writing
    <3> QED
      BY <1>0, <2>2, <2>3, <2>5, <3>1, OtherDevice DEF InStep, Writing
  <2>6. ASSUME NEW e \in Device \ unsynced', e = d PROVE InStepAt(e)'
    <3>1. InStepAt(e)
      BY <1>0, <2>1, <2>2, <2>6 DEF InStep
    <3> QED
      <4> HIDE DEF r
      <4>1. latest[e] = r
        BY <2>1, <2>6, <3>1 DEF InStepAt, r
      <4>2. status'[e] = r /\ latest'[e] = r /\ Writing(e)' = Writing(e) /\ s \in Writing(e)'
        BY <1>0, <2>1, <2>2, <2>3, <2>6, <4>1
      <4>3. \A t \in Writing(e)' : session'[t].report = session[t].report
        BY <2>4 DEF Writing
      <4> QED
        BY <2>2, <3>1, <4>1, <4>2, <4>3 DEF InStepAt
  <2> HIDE DEF r
  <2> QED
    BY <2>5, <2>6 DEF InStep
<1>4. ASSUME NEW s \in Session, SetOnline(s) PROVE InStep'
  <2> DEFINE r == session[s].report
             d == r.device_id
             flag == IF r.online THEN "1" ELSE "0"
  <2>1. /\ r \in ReportType /\ d \in Device /\ session[s].pc = "statusSet"
        /\ s \in Writing(d)
    BY <1>4 DEF SetOnline, IInv, TypeOK, SessionsCarry, Carries, Writing
  <2>2. /\ online' = [online EXCEPT ![d] = flag]
        /\ session' = [session EXCEPT ![s] = [pc |-> "written", req |-> session[s].req,
                                              report |-> r, code |-> 0]]
        /\ UNCHANGED <<latest, status, unsynced>>
    BY <1>4 DEF SetOnline, Move, memory
  <2>3. ASSUME NEW e \in Device \ unsynced', e # d PROVE InStepAt(e)'
    <3>1. \A t \in Session : t \in Writing(e) \/ t \in Writing(e)' => session'[t] = session[t]
      BY <1>0, <2>2, <2>3 DEF Writing
    <3> QED
      BY <1>0, <2>2, <2>3, <3>1, OtherDevice DEF InStep
  <2>4. ASSUME NEW e \in Device \ unsynced', e = d PROVE InStepAt(e)'
    <3>1. InStepAt(e)
      BY <1>0, <2>1, <2>2, <2>4 DEF InStep
    <3>2. Writing(e) = {s} /\ latest[e] = r
      BY <2>1, <2>4, <3>1 DEF InStepAt
    <3>3. Writing(e)' = {}
      BY <1>0, <2>2, <3>2 DEF Writing
    <3>4. status[e] = latest[e] /\ latest[e] # NoReport
      BY <2>1, <3>1, <3>2 DEF InStepAt
    <3>5. online'[e] = flag
      BY <1>0, <2>1, <2>2, <2>4
    <3> QED
      BY <2>2, <3>2, <3>3, <3>4, <3>5 DEF InStepAt
  <2> HIDE DEF r
  <2> QED
    BY <2>3, <2>4 DEF InStep
<1>5. ASSUME NEW s \in Session, RedisFails(s) PROVE InStep'
  <2> DEFINE d == session[s].report.device_id
  <2>1. /\ unsynced' = unsynced \cup {d}
        /\ session' = [session EXCEPT ![s] = [pc |-> "written", req |-> session[s].req,
                                              report |-> session[s].report, code |-> 0]]
        /\ UNCHANGED <<latest, status, online>>
    BY <1>5 DEF RedisFails, Move, memory, redis
  <2>2. ASSUME NEW e \in Device \ unsynced' PROVE InStepAt(e)'
    <3>1. \A t \in Session : t \in Writing(e) \/ t \in Writing(e)' => session'[t] = session[t]
      BY <1>0, <2>1, <2>2 DEF Writing
    <3> QED
      BY <1>0, <2>1, <2>2, <3>1, OtherDevice DEF InStep
  <2> QED
    BY <2>2 DEF InStep
<1>6. ASSUME UNCHANGED <<latest, status, online, unsynced>>,
             \A t \in Session : \/ session'[t] = session[t]
                                \/ /\ session[t].pc \notin {"stored", "statusSet"}
                                   /\ session'[t].pc \notin {"stored", "statusSet"}
      PROVE  InStep'
  <2>1. ASSUME NEW e \in Device \ unsynced' PROVE InStepAt(e)'
    <3>1. \A t \in Session : t \in Writing(e) \/ t \in Writing(e)' => session'[t] = session[t]
      BY <1>6 DEF Writing
    <3> QED
      BY <1>0, <1>6, <2>1, <3>1, OtherDevice DEF InStep
  <2> QED
    BY <2>1 DEF InStep
<1>7. ASSUME ~Crash, NEW s \in Session,
             Reject(s) \/ PublishStatus(s) \/ PublishOffline(s) \/ NoPublisher(s) \/ Answer(s)
      PROVE  InStep'
  BY <1>0, <1>6, <1>7 DEF Reject, PublishStatus, PublishOffline, NoPublisher, Answer, Move,
                          memory, redis, IdleSession
<1>8. ASSUME NEW s \in Session, NEW r \in Report, Begin(s, r) PROVE InStep'
  BY <1>0, <1>6, <1>8 DEF Begin, memory, redis
<1>9. CASE UNCHANGED vars \/ Tick
  BY <1>6, <1>9 DEF vars, Tick, memory, redis
<1> QED
  BY <1>1, <1>2, <1>3, <1>4, <1>5, <1>7, <1>8, <1>9 DEF Next, Step, SessionStep

-----------------------------------------------------------------------------
(* Messages and the rest of the state *)

LEMMA StepOfflineMessages ==
    ASSUME IInv, [Next]_vars
    PROVE  OfflineMessages' /\ offlineMsgs' \subseteq Report
<1>0. OfflineMessages /\ offlineMsgs \subseteq Report
  BY DEF IInv, TypeOK
<1>1. ASSUME NEW s \in Session, PublishOffline(s)
      PROVE  OfflineMessages' /\ offlineMsgs' \subseteq Report
  <2>1. /\ session[s].pc = "publishOffline" /\ session[s].req \in Report
        /\ Carries(history, latest, session[s])
    BY <1>1 DEF PublishOffline, IInv, TypeOK, SessionsCarry
  <2>2. session[s].req.device_id \in Device /\ ~session[s].req.online
    BY <2>1 DEF Carries
  <2> QED
    BY <1>0, <1>1, <2>1, <2>2 DEF PublishOffline, OfflineMessages
<1>2. ASSUME offlineMsgs' = offlineMsgs
      PROVE  OfflineMessages' /\ offlineMsgs' \subseteq Report
  BY <1>0, <1>2 DEF OfflineMessages
<1>3. ASSUME \A s \in Session : ~PublishOffline(s) PROVE offlineMsgs' = offlineMsgs
  BY <1>3 DEF Next, Step, vars, messages, Begin, SessionStep, Reject, Store, SetStatus, SetOnline,
     RedisFails, PublishStatus, NoPublisher, Answer, Crash, Tick
<1> QED
  BY <1>1, <1>2, <1>3

\* What a session that writes Redis writes.
LEMMA WritesReport ==
    ASSUME IInv, NEW s \in Session, session[s].pc \in {"stored", "statusSet"}
    PROVE  session[s].report \in ReportType /\ session[s].report.device_id \in Device
<1>1. Carries(history, latest, session[s])
  BY DEF IInv, SessionsCarry
<1> QED
  BY <1>1 DEF Carries

LEMMA StepRedis ==
    ASSUME IInv, [Next]_vars
    PROVE  /\ status' \in [Device -> ReportType \cup {NoReport}]
           /\ online' \in [Device -> {"absent", "0", "1"}]
           /\ unsynced' \subseteq Device
<1>0. /\ status \in [Device -> ReportType \cup {NoReport}]
      /\ online \in [Device -> {"absent", "0", "1"}]
      /\ unsynced \subseteq Device
  BY DEF IInv, TypeOK
<1>1. ASSUME NEW s \in Session, Store(s)
      PROVE  unsynced' \subseteq Device /\ UNCHANGED <<status, online>>
  <2>1. Normalized(session[s].req).device_id \in Device
    BY <1>1, StoreBecomes
  <2> QED
    BY <1>0, <1>1, <2>1 DEF Store, redis
<1>2. ASSUME NEW s \in Session, SetStatus(s)
      PROVE  status' \in [Device -> ReportType \cup {NoReport}] /\ UNCHANGED <<online, unsynced>>
  BY <1>0, <1>2, WritesReport DEF SetStatus
<1>3. ASSUME NEW s \in Session, SetOnline(s)
      PROVE  online' \in [Device -> {"absent", "0", "1"}] /\ UNCHANGED <<status, unsynced>>
  BY <1>0, <1>3, WritesReport DEF SetOnline
<1>4. ASSUME NEW s \in Session, RedisFails(s)
      PROVE  unsynced' \subseteq Device /\ UNCHANGED <<status, online>>
  BY <1>0, <1>4, WritesReport DEF RedisFails, redis
<1>5. CASE Crash
  BY <1>0, <1>5 DEF Crash, redis
<1>6. ASSUME NEW s \in Session,
             Reject(s) \/ PublishStatus(s) \/ PublishOffline(s) \/ NoPublisher(s) \/ Answer(s)
      PROVE  UNCHANGED <<status, online, unsynced>>
  BY <1>6 DEF Reject, PublishStatus, PublishOffline, NoPublisher, Answer, redis
<1>7. ASSUME NEW s \in Session, NEW r \in Report, Begin(s, r) PROVE UNCHANGED <<status, online, unsynced>>
  BY <1>7 DEF Begin, redis
<1>8. CASE UNCHANGED vars \/ Tick
  BY <1>0, <1>8 DEF vars, Tick, redis
<1>9. ASSUME NEW s \in Session, SessionStep(s)
      PROVE  /\ status' \in [Device -> ReportType \cup {NoReport}]
             /\ online' \in [Device -> {"absent", "0", "1"}]
             /\ unsynced' \subseteq Device
  <2>1. CASE Store(s)
    BY <1>0, <1>1, <2>1
  <2>2. CASE SetStatus(s)
    BY <1>0, <1>2, <2>2
  <2>3. CASE SetOnline(s)
    BY <1>0, <1>3, <2>3
  <2>4. CASE RedisFails(s)
    BY <1>0, <1>4, <2>4
  <2> QED
    BY <1>0, <1>6, <1>9, <2>1, <2>2, <2>3, <2>4 DEF SessionStep
<1> QED
  BY <1>0, <1>5, <1>7, <1>8, <1>9 DEF Next, Step

LEMMA StepBookkeeping ==
    ASSUME IInv, [Next]_vars
    PROVE  uploaded' \subseteq Report /\ statusMsgs' \subseteq Report
<1>0. /\ uploaded \subseteq Report /\ statusMsgs \subseteq Report
      /\ \A s \in Session : session[s].pc # "idle" => session[s].req \in Report
  BY DEF IInv, TypeOK
<1>1. ASSUME NEW s \in Session, NEW r \in Report, Begin(s, r)
      PROVE  uploaded' = uploaded \cup {r} /\ statusMsgs' = statusMsgs
  BY <1>1 DEF Begin, messages
<1>2. ASSUME NEW s \in Session, PublishStatus(s)
      PROVE  /\ uploaded' = uploaded
             /\ statusMsgs' \subseteq statusMsgs \cup {session[s].req} /\ session[s].req \in Report
  BY <1>0, <1>2 DEF PublishStatus
<1>3. ASSUME \A s \in Session : ~PublishStatus(s) /\ (\A r \in Report : ~Begin(s, r))
      PROVE  UNCHANGED <<uploaded, statusMsgs>>
  BY <1>3 DEF Next, Step, vars, messages, SessionStep, Reject, Store, SetStatus, SetOnline,
     RedisFails, PublishOffline, NoPublisher, Answer, Crash, Tick
<1> QED
  BY <1>0, <1>1, <1>2, <1>3

LEMMA StepClock ==
    ASSUME IInv, [Next]_vars PROVE clock' \in Nat /\ ClockRuns'
<1>1. clock \in Nat /\ clock > 0
  BY DEF IInv, TypeOK, ClockRuns
<1>2. clock' = clock \/ clock' = clock + 1
  BY DEF Next, Step, vars, Begin, SessionStep, Reject, Store, SetStatus, SetOnline,
     RedisFails, PublishStatus, PublishOffline, NoPublisher, Answer, Crash, Tick
<1> QED
  BY <1>1, <1>2 DEF ClockRuns

\* A connection is had or not: Init and Crash decide, no other step.
LEMMA StepConnections ==
    ASSUME IInv, [Next]_vars PROVE redisUp' \in BOOLEAN /\ publisherUp' \in BOOLEAN
<1>1. redisUp \in BOOLEAN /\ publisherUp \in BOOLEAN
  BY DEF IInv, TypeOK
<1>2. Redis \subseteq BOOLEAN /\ Publisher \subseteq BOOLEAN
  BY ConfigAssumption, Zenon DEF Redis, Publisher
<1>3. UNCHANGED <<redisUp, publisherUp>> \/ (redisUp' \in Redis /\ publisherUp' \in Publisher)
  BY DEF Next, Step, vars, memory, Begin, SessionStep, Reject, Store, SetStatus, SetOnline,
     RedisFails, PublishStatus, PublishOffline, NoPublisher, Answer, Crash, Tick
<1> QED
  BY <1>1, <1>2, <1>3, Zenon

LEMMA CrashMemory ==
    ASSUME Crash
    PROVE  /\ latest' \in [Device -> ReportType \cup {NoReport}]
           /\ history' \in [Device -> Seq(ReportType)]
BY DEF Crash

LEMMA StepTypeOK ==
    ASSUME IInv, [Next]_vars PROVE TypeOK'
<1>1. /\ latest' \in [Device -> ReportType \cup {NoReport}]
      /\ history' \in [Device -> Seq(ReportType)]
  BY MemoryGrows, CrashMemory
<1>2. /\ session' \in [Session -> SessionType]
      /\ \A t \in Session : SessionOK(session'[t])
  BY StepSessions
<1> QED
  BY <1>1, <1>2, StepRedis, StepBookkeeping, StepOfflineMessages, StepClock, StepConnections
  DEF TypeOK, SessionType, SessionOK

LEMMA StepIInv == IInv /\ [Next]_vars => IInv'
BY StepTypeOK, StepClock, StepSessions, StepOfflineMessages, StepInStep DEF IInv

LEMMA InitIInv == Init => IInv
<1> SUFFICES ASSUME Init PROVE IInv
  OBVIOUS
<1>1. /\ latest \in [Device -> ReportType \cup {NoReport}]
      /\ history \in [Device -> Seq(ReportType)]
      /\ status \in [Device -> ReportType \cup {NoReport}]
      /\ online \in [Device -> {"absent", "0", "1"}]
  BY DEF Init
<1>2. redisUp \in BOOLEAN /\ publisherUp \in BOOLEAN
  BY ConfigAssumption, Zenon DEF Init, Redis, Publisher
<1>3. /\ session \in [Session -> SessionType]
      /\ \A s \in Session : session[s] = IdleSession
  BY IdleOK DEF Init, SessionOK
<1>4. clock \in Nat /\ clock > 0
  BY ConfigAssumption DEF Init
<1>5. TypeOK
  BY <1>1, <1>2, <1>3, <1>4 DEF Init, TypeOK, SessionType, IdleSession
<1>6. SessionsCarry
  BY <1>3 DEF SessionsCarry, Carries, IdleSession
<1> QED
  BY <1>4, <1>5, <1>6 DEF Init, IInv, ClockRuns, OfflineMessages, InStep

LEMMA Invariance == Spec => []IInv
<1>1. Init => IInv
  BY InitIInv
<1>2. IInv /\ [Next]_vars => IInv'
  BY StepIInv
<1> QED
  BY <1>1, <1>2, PTL DEF Spec

-----------------------------------------------------------------------------
(* Theorems *)

\* Every variable keeps its type; among others every session that writes Redis carries
\* a report with a time, the one the handler filled in when the gateway sent none.
THEOREM TypeCorrect == Spec => []TypeOK
<1>1. IInv => TypeOK
  BY DEF IInv
<1> QED
  BY <1>1, Invariance, PTL

\* However many uploads overlap, once one has run through alone since the last overlap,
\* failed write or restart, Redis holds what the memory holds.
THEOREM RedisFollowsMemoryHolds == Spec => []RedisFollowsMemory
<1>1. IInv => RedisFollowsMemory
  <2> SUFFICES ASSUME IInv, NEW d \in Device \ unsynced,
                      \A s \in Writing(d) : session[s].pc # "stored"
               PROVE  /\ status[d] = latest[d]
                      /\ Writing(d) = {} => online[d] = IF latest[d].online THEN "1" ELSE "0"
    BY DEF RedisFollowsMemory
  <2>1. InStepAt(d)
    BY DEF IInv, InStep
  <2>2. \A s \in Writing(d) : session[s].pc = "statusSet"
    BY DEF Writing
  <2> QED
    BY <2>1, <2>2 DEF InStepAt
<1> QED
  BY <1>1, Invariance, PTL

\* Every report that was accepted is in what a history query for its instant returns,
\* and its device is in a realtime list; the offline messages tell of accepted reports
\* that said so.
THEOREM AcceptedIsFoundHolds == Spec => []AcceptedIsFound
<1>1. IInv => AcceptedIsFound
  <2> SUFFICES ASSUME IInv, NEW s \in Session,
                      session[s].pc \in {"written", "publishOffline", "replied"},
                      session[s].code = 0
               PROVE  LET r == session[s].report IN
                      /\ r \in QueryHistory(r.device_id, r.reported_at, r.reported_at)
                      /\ GetRealtime(r.device_id) \in ListRealtime({r.device_id}, FALSE)
    BY DEF AcceptedIsFound, IInv, OfflineMessages
  <2> DEFINE r == session[s].report
             d == r.device_id
  <2>1. /\ r \in ReportType /\ d \in Device /\ latest[d] # NoReport
        /\ \E i \in DOMAIN history[d] : history[d][i] = r
    BY DEF IInv, SessionsCarry, Carries
  <2> HIDE DEF r
  <2>2. r.reported_at \in Int
    BY <2>1 DEF ReportType
  <2>3. r \in QueryHistory(d, r.reported_at, r.reported_at)
    BY <2>1, <2>2 DEF QueryHistory
  <2>4. GetRealtime(d) \in ListRealtime({d}, FALSE)
    BY <2>1 DEF ListRealtime
  <2> QED
    BY <2>3, <2>4 DEF r
<1> QED
  BY <1>1, Invariance, PTL
=============================================================================
