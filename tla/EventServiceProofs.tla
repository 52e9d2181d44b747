------------------------- MODULE EventServiceProofs -------------------------
(***************************************************************************)
(* Proofs about EventService, for any alarms, requests, sessions and       *)
(* clocks. What a handler or a consumer holds of an event is a copy; the   *)
(* inductive invariant IInv says that every copy has the identity of a row *)
(* of the table, whatever its status is by now, that a row being announced *)
(* has not been announced yet, and that no two sessions announce the same. *)
(***************************************************************************)
EXTENDS EventService, TLAPS

USE DEF Status, Op, Code

SameIdentity(r1, r2) == r1.id = r2.id /\ r1.event_id = r2.event_id /\ r1.alarm = r2.alarm
Stored(table, row) == \E e \in table : SameIdentity(e, row)

\* The auto-increment key and the unique index.
KeysUnique ==
    /\ \A e \in events : e.id < nextId
    /\ \A e1, e2 \in events : e1.id = e2.id \/ e1.event_id = e2.event_id => e1 = e2

TimesKept == \A e \in events : e.status \in {"resolved", "closed"} => e.resolved_at # 0

\* A session that writes back or announces holds a copy of a row, and so does one
\* that is about to tell its client what it created.
HoldsCopy(table, r) ==
    /\ r.pc \in {"queried", "publishing"} => Stored(table, r.row)
    /\ r.pc = "queried" => r.req.op = "UpdateEventStatus"
    /\ r.pc = "publishing" => r.req.op = "CreateEvent" /\ r.row.alarm = r.req.alarm
    /\ r.pc = "replied" /\ r.req.op = "CreateEvent" /\ r.code = 0 =>
          Stored(table, r.row) /\ r.row.alarm = r.req.alarm
SessionsHoldCopies == \A s \in Session : HoldsCopy(events, session[s])

AnswersNameRows ==
    \A a \in answers : a.req.op = "CreateEvent" /\ a.code = 0 =>
        Stored(events, a.row) /\ a.row.alarm = a.req.alarm

MessagesNameRows == \A i \in DOMAIN exchange : Stored(events, exchange[i])

AnnouncingOnce ==
    /\ \A i, j \in DOMAIN exchange : exchange[i].id = exchange[j].id => i = j
    /\ \A s \in Session : session[s].pc = "publishing" =>
          /\ \A i \in DOMAIN exchange : exchange[i].id # session[s].row.id
          /\ \A t \in Session \ {s} : session[t].pc = "publishing" =>
                session[t].row.id # session[s].row.id

IInv ==
    /\ TypeOK /\ KeysUnique /\ TimesKept
    /\ SessionsHoldCopies /\ AnswersNameRows /\ MessagesNameRows
    /\ AnnouncingOnce /\ AnnouncementsAccountedFor

-----------------------------------------------------------------------------
(* What a step may do to the table *)

LEMMA NewEventType ==
    ASSUME TypeOK, NEW req \in Request, NEW now \in Now
    PROVE  /\ NewEvent(req, now) \in Row
           /\ NewEvent(req, now).id = nextId
           /\ NewEvent(req, now).alarm = req.alarm
           /\ NewEvent(req, now).status = "open"
BY RequestAssumption, ConfigAssumption DEF NewEvent, Row, TypeOK

LEMMA MovedType ==
    ASSUME NEW row \in Row, NEW status \in Status, NEW now \in Now
    PROVE  /\ Moved(row, status, now) \in Row
           /\ SameIdentity(Moved(row, status, now), row)
           /\ Moved(row, status, now).status = status
           /\ status \in {"resolved", "closed"} => Moved(row, status, now).resolved_at # 0
BY ConfigAssumption DEF Moved, Row, SameIdentity

\* A step leaves the table alone, inserts a row under a new key and a free event_id,
\* or writes a copy back.
Inserts(row) ==
    /\ row \in Row /\ row.id = nextId /\ row.status = "open"
    /\ ~EventIdTaken(row.event_id)
    /\ events' = events \cup {row}
    /\ nextId' = nextId + 1

WritesBack(row) ==
    /\ row \in Row
    /\ row.status \in {"resolved", "closed"} => row.resolved_at # 0
    /\ Stored(events, row)
    /\ events' = {e \in events : e.id # row.id} \cup {row}
    /\ nextId' = nextId

LeavesTable == events' = events /\ nextId' \in {nextId, nextId + 1}

LEMMA TableStep ==
    ASSUME IInv, [Next]_vars
    PROVE  LeavesTable \/ \E row : Inserts(row) \/ WritesBack(row)
<1> USE DEF IInv, LeavesTable
<1>1. CASE UNCHANGED vars
  BY <1>1 DEF vars
<1>2. CASE \E s \in Session, req \in Request : Begin(s, req)
  BY <1>2 DEF Begin
<1>3. CASE \E s \in Session : Answer(s)
  BY <1>3 DEF Answer
<1>4. CASE Crash
  BY <1>4 DEF Crash
<1>5. ASSUME NEW s \in Session, SessionStep(s)
      PROVE  LeavesTable \/ \E row : Inserts(row) \/ WritesBack(row)
  <2>1. CASE Persist(s)
    <3>1. session[s].req \in Request
      BY <2>1 DEF Persist, Serving, TypeOK
    <3>2. PICK now \in Now :
            LET row == NewEvent(session[s].req, now) IN
            \/ ~EventIdTaken(row.event_id) /\ events' = events \cup {row}
            \/ events' = events
      BY <2>1 DEF Persist
    <3>3. NewEvent(session[s].req, now) \in Row
          /\ NewEvent(session[s].req, now).id = nextId
          /\ NewEvent(session[s].req, now).status = "open"
      BY <3>1, NewEventType
    <3> QED
      BY <2>1, <3>2, <3>3 DEF Persist, Inserts
  <2>2. CASE Write(s)
    <3>1. session[s].req \in Request /\ session[s].row \in Row /\ Stored(events, session[s].row)
      BY <2>2 DEF Write, TypeOK, SessionsHoldCopies, HoldsCopy
    <3>2. PICK now \in Now :
            LET row == Moved(session[s].row, session[s].req.status, now) IN
            events' = {e \in events : e.id # row.id} \cup {row}
      BY <2>2 DEF Write
    <3> DEFINE row == Moved(session[s].row, session[s].req.status, now)
    <3>3. session[s].req.status \in Status
      BY <3>1, RequestAssumption
    <3>4. /\ row \in Row /\ SameIdentity(row, session[s].row)
          /\ row.status \in {"resolved", "closed"} => row.resolved_at # 0
      BY <3>1, <3>3, MovedType, ZenonT(30)
    <3>5. events' = {e \in events : e.id # row.id} \cup {row}
      BY <3>2
    <3>6. nextId' = nextId
      BY <2>2 DEF Write
    <3> HIDE DEF row
    <3>7. Stored(events, row)
      BY <3>1, <3>4 DEF Stored, SameIdentity
    <3> QED
      BY <3>4, <3>5, <3>6, <3>7 DEF WritesBack
  <2>3. CASE ~Persist(s) /\ ~Write(s)
    BY <1>5, <2>3 DEF SessionStep, Publish, RejectCreate, RejectUpdate, UpdateFindsNone,
         UpdateReads, GetEvent, ListEvents, DatabaseFails
  <2> QED
    BY <2>1, <2>2, <2>3
<1> QED
  BY <1>1, <1>2, <1>3, <1>4, <1>5 DEF Next, Step

\* No step takes the identity of a row out of the table.
LEMMA StoredStays ==
    ASSUME IInv, [Next]_vars, NEW row, Stored(events, row)
    PROVE  Stored(events', row)
<1>1. CASE LeavesTable
  BY <1>1 DEF LeavesTable, Stored
<1>2. ASSUME NEW new, Inserts(new) PROVE Stored(events', row)
  BY <1>2 DEF Inserts, Stored
<1>3. ASSUME NEW new, WritesBack(new) PROVE Stored(events', row)
  <2>1. PICK e \in events : SameIdentity(e, row)
    BY DEF Stored
  <2>2. PICK old \in events : SameIdentity(old, new)
    BY <1>3 DEF WritesBack, Stored
  <2>3. CASE e.id = new.id
    BY <1>3, <2>1, <2>2, <2>3 DEF IInv, KeysUnique, WritesBack, SameIdentity, Stored
  <2>4. CASE e.id # new.id
    BY <1>3, <2>1, <2>4 DEF WritesBack, Stored
  <2> QED
    BY <2>3, <2>4
<1> QED
  BY <1>1, <1>2, <1>3, TableStep

LEMMA StepKeys ==
    ASSUME IInv, [Next]_vars
    PROVE  KeysUnique' /\ TimesKept' /\ events' \subseteq Row /\ nextId' \in Nat
<1>0. /\ events \subseteq Row /\ nextId \in Nat /\ KeysUnique /\ TimesKept
      /\ \A e \in events : e.id \in Nat
  BY DEF IInv, TypeOK, Row
<1>1. CASE LeavesTable
  BY <1>0, <1>1 DEF LeavesTable, KeysUnique, TimesKept
<1>2. ASSUME NEW row, Inserts(row)
      PROVE  KeysUnique' /\ TimesKept' /\ events' \subseteq Row /\ nextId' \in Nat
  <2>1. \A e \in events : e.id # row.id /\ e.event_id # row.event_id
    BY <1>0, <1>2 DEF Inserts, EventIdTaken, KeysUnique
  <2> QED
    BY <1>0, <1>2, <2>1 DEF Inserts, KeysUnique, TimesKept
<1>3. ASSUME NEW row, WritesBack(row)
      PROVE  KeysUnique' /\ TimesKept' /\ events' \subseteq Row /\ nextId' \in Nat
  <2>1. PICK old \in events : SameIdentity(old, row)
    BY <1>3 DEF WritesBack, Stored
  <2> QED
    BY <1>0, <1>3, <2>1 DEF WritesBack, KeysUnique, TimesKept, SameIdentity
<1> QED
  BY <1>1, <1>2, <1>3, TableStep

-----------------------------------------------------------------------------
(* What a step may do to the sessions *)

SessionType == [pc : {"idle", "begun", "queried", "publishing", "replied"},
                req : Request \cup {NoRequest}, row : Row \cup {NoRow}, code : Code]

\* The conjuncts of TypeOK that speak of one session.
SessionOK(r) ==
    /\ r \in SessionType
    /\ r.pc # "idle" => r.req \in Request
    /\ r.pc \in {"queried", "publishing"} => r.row \in Row

LEMMA SessionsTyped ==
    TypeOK => session \in [Session -> SessionType] /\ \A s \in Session : SessionOK(session[s])
BY DEF TypeOK, SessionOK, SessionType

\* The session s goes on as r, whose copy, if it holds one, is of a row.
Becomes(s, r) ==
    /\ session' = [session EXCEPT ![s] = r]
    /\ SessionOK(r)
    /\ HoldsCopy(events', r)

\* A session that answers with an error or answers a request that creates nothing
\* holds no copy that anybody relies on.
LEMMA ReplyBecomes ==
    ASSUME TypeOK, NEW s \in Session, NEW code \in Code, NEW row \in Row \cup {NoRow},
           session[s].req \in Request, Reply(s, code, row),
           session[s].req.op = "CreateEvent" /\ code = 0 =>
               Stored(events', row) /\ row.alarm = session[s].req.alarm
    PROVE  \E r : Becomes(s, r)
<1> DEFINE r == [pc |-> "replied", req |-> session[s].req, row |-> row, code |-> code]
<1>1. SessionOK(r)
  BY DEF SessionOK, SessionType
<1>2. session' = [session EXCEPT ![s] = r]
  BY DEF Reply, Move
<1>3. HoldsCopy(events', r)
  BY DEF HoldsCopy
<1> HIDE DEF r
<1> QED
  BY <1>1, <1>2, <1>3 DEF Becomes

LEMMA SessionMoves ==
    ASSUME IInv, Next, NEW s \in Session, SessionStep(s)
    PROVE  \E r : Becomes(s, r)
<1> USE DEF IInv
<1>0. session[s] \in SessionType /\ session[s].req \in Request /\ events \subseteq Row
  <2>1. session[s].pc # "idle"
    BY DEF SessionStep, Serving, RejectCreate, Persist, Publish, RejectUpdate,
           UpdateFindsNone, UpdateReads, Write, GetEvent, ListEvents, DatabaseFails
  <2> QED
    BY <2>1, SessionsTyped DEF TypeOK
<1>1. CASE Persist(s)
  <2>1. session[s].req.op = "CreateEvent"
    BY <1>1 DEF Persist, Serving
  <2>2. PICK now \in Now :
          LET row == NewEvent(session[s].req, now) IN
          \/ /\ events' = events \cup {row}
             /\ Move(s, IF publisherUp THEN "publishing" ELSE "replied", row, 0)
          \/ Move(s, "replied", NoRow, 400)
    BY <1>1 DEF Persist
  <2> DEFINE row == NewEvent(session[s].req, now)
  <2>3. row \in Row /\ row.alarm = session[s].req.alarm
    BY <1>0, NewEventType
  <2>4. CASE /\ events' = events \cup {row}
             /\ Move(s, IF publisherUp THEN "publishing" ELSE "replied", row, 0)
    <3> DEFINE r == [pc |-> IF publisherUp THEN "publishing" ELSE "replied",
                     req |-> session[s].req, row |-> row, code |-> 0]
    <3>1. session' = [session EXCEPT ![s] = r]
      BY <2>4 DEF Move
    <3> HIDE DEF row
    <3>2. SessionOK(r)
      BY <1>0, <2>3 DEF SessionOK, SessionType, TypeOK
    <3>3. Stored(events', row)
      BY <2>4 DEF Stored, SameIdentity
    <3>4. HoldsCopy(events', r)
      BY <2>1, <2>3, <3>3 DEF HoldsCopy, TypeOK
    <3> HIDE DEF r
    <3> QED
      BY <3>1, <3>2, <3>4 DEF Becomes
  <2>5. CASE Move(s, "replied", NoRow, 400)
    <3>1. Reply(s, 400, NoRow)
      BY <1>1, <2>5 DEF Reply, Persist
    <3> QED
      BY <1>0, <3>1, ReplyBecomes
  <2> QED
    BY <2>2, <2>4, <2>5
<1>2. CASE UpdateReads(s)
  <2>1. PICK row \in EventsOf(session[s].req.alarm) : Move(s, "queried", row, 0)
    BY <1>2 DEF UpdateReads
  <2> DEFINE r == [pc |-> "queried", req |-> session[s].req, row |-> row, code |-> 0]
  <2>2. row \in Row /\ row \in events' /\ session[s].req.op = "UpdateEventStatus"
    BY <1>0, <1>2 DEF EventsOf, UpdateReads, Serving
  <2>3. SessionOK(r)
    BY <1>0, <2>2 DEF SessionOK, SessionType
  <2>4. HoldsCopy(events', r)
    BY <2>2 DEF HoldsCopy, Stored, SameIdentity
  <2> QED
    BY <2>1, <2>3, <2>4 DEF Becomes, Move
<1>3. CASE Publish(s)
  <2>1. Reply(s, 0, session[s].row) /\ session[s].pc = "publishing" /\ events' = events
    BY <1>3 DEF Publish
  <2>2. session[s].row \in Row /\ Stored(events, session[s].row)
        /\ session[s].row.alarm = session[s].req.alarm
    BY <2>1 DEF TypeOK, SessionsHoldCopies, HoldsCopy
  <2>3. Stored(events', session[s].row)
    BY <2>1, <2>2 DEF Stored
  <2> QED
    BY <1>0, <2>1, <2>2, <2>3, ReplyBecomes
<1>4. CASE Write(s)
  <2>1. PICK now \in Now :
          LET row == Moved(session[s].row, session[s].req.status, now) IN
          Reply(s, 0, row) \/ Reply(s, 400, NoRow)
    BY <1>4 DEF Write
  <2>2. session[s].row \in Row /\ session[s].req.op = "UpdateEventStatus"
        /\ session[s].req.status \in Status
    BY <1>0, <1>4, RequestAssumption DEF Write, TypeOK, SessionsHoldCopies, HoldsCopy
  <2>3. Moved(session[s].row, session[s].req.status, now) \in Row
    BY <2>2, MovedType
  <2> QED
    BY <1>0, <2>1, <2>2, <2>3, ReplyBecomes
<1>5. CASE DatabaseFails(s)
  <2>1. /\ ErrorCode(session[s].req.op) \in Code
        /\ session[s].req.op = "CreateEvent" => ErrorCode(session[s].req.op) # 0
    BY <1>0, RequestAssumption DEF ErrorCode
  <2> DEFINE code == ErrorCode(session[s].req.op)
  <2>2. Reply(s, code, NoRow)
    BY <1>5 DEF DatabaseFails
  <2> HIDE DEF code
  <2>3. code \in Code /\ ~(session[s].req.op = "CreateEvent" /\ code = 0)
    BY <2>1 DEF code
  <2> QED
    BY <1>0, <2>2, <2>3, ReplyBecomes
<1>6. CASE GetEvent(s) \/ ListEvents(s)
  BY <1>0, <1>6, ReplyBecomes DEF GetEvent, ListEvents, EventsOf, Serving
<1>7. CASE RejectCreate(s) \/ RejectUpdate(s) \/ UpdateFindsNone(s)
  BY <1>0, <1>7, ReplyBecomes DEF RejectCreate, RejectUpdate, UpdateFindsNone
<1> QED
  BY <1>1, <1>2, <1>3, <1>4, <1>5, <1>6, <1>7 DEF SessionStep

LEMMA BeginBecomes ==
    ASSUME IInv, NEW s \in Session, NEW req \in Request, Begin(s, req)
    PROVE  \E r : Becomes(s, r)
<1> DEFINE r == [pc |-> "begun", req |-> req, row |-> NoRow, code |-> 0]
<1>1. SessionOK(r) /\ HoldsCopy(events', r)
  BY DEF SessionOK, SessionType, HoldsCopy
<1> HIDE DEF r
<1> QED
  BY <1>1 DEF Begin, Becomes, r

LEMMA IdleOK == SessionOK(IdleSession) /\ HoldsCopy(events', IdleSession)
BY DEF SessionOK, SessionType, HoldsCopy, IdleSession

LEMMA StepSessions ==
    ASSUME IInv, [Next]_vars
    PROVE  /\ session' \in [Session -> SessionType]
           /\ \A t \in Session : SessionOK(session'[t])
           /\ SessionsHoldCopies'
<1>0. session \in [Session -> SessionType] /\ \A t \in Session : SessionOK(session[t])
  BY SessionsTyped DEF IInv
<1>1. ASSUME NEW t \in Session PROVE HoldsCopy(events', session[t])
  <2>1. Stored(events, session[t].row) => Stored(events', session[t].row)
    BY StoredStays
  <2>2. HoldsCopy(events, session[t])
    BY DEF IInv, SessionsHoldCopies
  <2> QED
    BY <2>1, <2>2 DEF HoldsCopy
<1>2. ASSUME NEW s \in Session, NEW r, Becomes(s, r)
      PROVE  /\ session' \in [Session -> SessionType]
             /\ \A t \in Session : SessionOK(session'[t])
             /\ SessionsHoldCopies'
  <2>1. r \in SessionType /\ session' = [session EXCEPT ![s] = r]
    BY <1>2 DEF Becomes, SessionOK
  <2>2. \A t \in Session : session'[t] = IF t = s THEN r ELSE session[t]
    BY <1>0, <2>1
  <2>3. ASSUME NEW t \in Session PROVE HoldsCopy(events', session'[t])
    BY <1>1, <1>2, <2>2 DEF Becomes
  <2> QED
    BY <1>0, <1>2, <2>1, <2>2, <2>3 DEF Becomes, SessionsHoldCopies
<1>3. CASE UNCHANGED vars
  BY <1>0, <1>1, <1>3 DEF vars, SessionsHoldCopies
<1>4. CASE Crash
  BY <1>4, IdleOK DEF Crash, SessionsHoldCopies, SessionOK
<1>5. ASSUME NEW s \in Session, Answer(s) PROVE \E r : Becomes(s, r)
  BY <1>5, IdleOK DEF Answer, Becomes
<1> QED
  BY <1>2, <1>3, <1>4, <1>5, BeginBecomes, SessionMoves DEF Next, Step

-----------------------------------------------------------------------------
(* What a step may do to the announcements *)

\* A step starts an announcement, sends one, or does neither: then what was about to
\* be announced still is or never will be, and so is an event that is new.
Starts(t) ==
    /\ session[t].pc # "publishing" /\ session'[t].pc = "publishing"
    /\ Inserts(session'[t].row)
    /\ \A u \in Session \ {t} : session'[u] = session[u]
    /\ UNCHANGED <<exchange, unannounced>>

Sends(t) ==
    /\ session[t].pc = "publishing" /\ session'[t].pc # "publishing"
    /\ exchange' = Append(exchange, session[t].row)
    /\ \A u \in Session \ {t} : session'[u] = session[u]
    /\ UNCHANGED <<events, unannounced>>

Quiet ==
    /\ UNCHANGED exchange
    /\ \A t \in Session : session'[t].pc = "publishing" => session'[t] = session[t]
    /\ \A t \in Session : session[t].pc = "publishing" =>
          session'[t] = session[t] \/ session[t].row \in unannounced'
    /\ unannounced \subseteq unannounced'
    /\ \A e \in events' : e \in unannounced' \/ \E old \in events : old.id = e.id

LEMMA AnnouncementStep ==
    ASSUME IInv, [Next]_vars
    PROVE  Quiet \/ \E t \in Session : Starts(t) \/ Sends(t)
<1> USE DEF IInv
<1>0. session \in [Session -> SessionType]
  BY SessionsTyped
<1>1. CASE UNCHANGED vars
  BY <1>1 DEF vars, Quiet
<1>2. ASSUME NEW s \in Session, NEW req \in Request, Begin(s, req) PROVE Quiet
  <2>1. [pc |-> "begun", req |-> req, row |-> NoRow, code |-> 0] \in SessionType
    BY DEF SessionType
  <2> QED
    BY <1>0, <1>2, <2>1 DEF Begin, Quiet
<1>3. ASSUME NEW s \in Session, Answer(s) PROVE Quiet
  BY <1>0, <1>3 DEF Answer, Quiet, IdleSession
<1>4. CASE Crash
  BY <1>4 DEF Crash, Quiet, IdleSession
<1>5. ASSUME NEW s \in Session, SessionStep(s)
      PROVE  Quiet \/ \E t \in Session : Starts(t) \/ Sends(t)
  <2>1. CASE Persist(s)
    <3>1. session[s].req \in Request /\ session[s].pc = "begun"
      BY <2>1 DEF Persist, Serving, TypeOK
    <3>2. PICK now \in Now :
            LET row == NewEvent(session[s].req, now) IN
            \/ /\ ~EventIdTaken(row.event_id)
               /\ events' = events \cup {row}
               /\ Move(s, IF publisherUp THEN "publishing" ELSE "replied", row, 0)
               /\ unannounced' = IF publisherUp THEN unannounced ELSE unannounced \cup {row}
            \/ /\ ~EventIdTaken(row.event_id)
               /\ events' = events \cup {row}
               /\ Move(s, "replied", NoRow, 400)
               /\ unannounced' = unannounced \cup {row}
            \/ /\ EventIdTaken(row.event_id)
               /\ Move(s, "replied", NoRow, 400)
               /\ UNCHANGED <<events, unannounced>>
      BY <2>1 DEF Persist
    <3> DEFINE row == NewEvent(session[s].req, now)
    <3>3. row \in Row /\ row.id = nextId /\ row.status = "open"
      BY <3>1, NewEventType
    <3>4. exchange' = exchange /\ nextId' = nextId + 1
      BY <2>1 DEF Persist
    <3> HIDE DEF row
    <3>5. CASE /\ ~EventIdTaken(row.event_id) /\ events' = events \cup {row}
               /\ Move(s, "publishing", row, 0) /\ unannounced' = unannounced
      <4>1. Inserts(row)
        BY <3>3, <3>4, <3>5 DEF Inserts
      <4> QED
        BY <1>0, <3>1, <3>4, <3>5, <4>1 DEF Starts, Move
    <3>6. CASE /\ events' = events \cup {row} /\ unannounced' = unannounced \cup {row}
               /\ Move(s, "replied", row, 0) \/ Move(s, "replied", NoRow, 400)
      BY <1>0, <3>1, <3>4, <3>6 DEF Quiet, Move
    <3>7. CASE events' = events /\ unannounced' = unannounced /\ Move(s, "replied", NoRow, 400)
      BY <1>0, <3>1, <3>4, <3>7 DEF Quiet, Move
    <3> QED
      BY <3>2, <3>5, <3>6, <3>7 DEF row
  <2>2. CASE Publish(s)
    <3>1. /\ session[s].pc = "publishing" /\ events' = events
          /\ session' = [session EXCEPT ![s] = [pc |-> "replied", req |-> session[s].req,
                                                row |-> session[s].row, code |-> 0]]
      BY <2>2 DEF Publish, Reply, Move
    <3>2. CASE exchange' = Append(exchange, session[s].row) /\ UNCHANGED unannounced
      BY <1>0, <3>1, <3>2 DEF Sends
    <3>3. CASE unannounced' = unannounced \cup {session[s].row} /\ UNCHANGED exchange
      BY <1>0, <3>1, <3>3 DEF Quiet
    <3> QED
      BY <2>2, <3>2, <3>3 DEF Publish
  <2>3. CASE UpdateReads(s)
    BY <1>0, <2>3 DEF UpdateReads, Serving, Move, Quiet
  <2>4. CASE Write(s)
    <3>1. /\ session[s].pc = "queried" /\ UNCHANGED <<exchange, unannounced>>
          /\ \E row, code : Reply(s, code, row)
      BY <2>4 DEF Write
    <3>2. \A e \in events' : \E old \in events : old.id = e.id
      <4>1. PICK row : LeavesTable \/ Inserts(row) \/ WritesBack(row)
        BY TableStep
      <4>2. nextId' = nextId /\ nextId \in Nat
        BY <2>4 DEF Write, TypeOK
      <4> QED
        BY <4>1, <4>2 DEF LeavesTable, Inserts, WritesBack, Stored, SameIdentity
    <3> QED
      BY <1>0, <3>1, <3>2 DEF Quiet, Reply, Move
  <2>5. CASE \/ RejectCreate(s) \/ RejectUpdate(s) \/ UpdateFindsNone(s) \/ GetEvent(s)
             \/ ListEvents(s) \/ DatabaseFails(s)
    <3>1. /\ session[s].pc # "publishing" /\ UNCHANGED <<events, exchange, unannounced>>
          /\ \E row, code : Reply(s, code, row)
      BY <2>5 DEF RejectCreate, RejectUpdate, UpdateFindsNone, GetEvent, ListEvents,
                  DatabaseFails, Serving
    <3> QED
      BY <1>0, <3>1 DEF Quiet, Reply, Move
  <2> QED
    BY <1>5, <2>1, <2>2, <2>3, <2>4, <2>5 DEF SessionStep
<1> QED
  BY <1>1, <1>2, <1>3, <1>4, <1>5 DEF Next, Step

LEMMA StepMessages ==
    ASSUME IInv, [Next]_vars
    PROVE  exchange' \in Seq(Row) /\ MessagesNameRows'
<1>1. exchange \in Seq(Row) /\ \A i \in DOMAIN exchange : Stored(events', exchange[i])
  BY StoredStays DEF IInv, TypeOK, MessagesNameRows
<1>2. CASE exchange' = exchange
  BY <1>1, <1>2 DEF MessagesNameRows
<1>3. ASSUME NEW t \in Session, Sends(t)
      PROVE  exchange' \in Seq(Row) /\ MessagesNameRows'
  <2> DEFINE row == session[t].row
  <2>1. row \in Row /\ Stored(events, row) /\ exchange' = Append(exchange, row)
    BY <1>3 DEF Sends, IInv, TypeOK, SessionsHoldCopies, HoldsCopy
  <2> HIDE DEF row
  <2>2. Stored(events', row)
    BY <2>1, StoredStays
  <2> QED
    BY <1>1, <2>1, <2>2 DEF MessagesNameRows
<1> QED
  BY <1>2, <1>3, AnnouncementStep DEF Quiet, Starts

\* The id of every message and of every row being announced has been given out.
LEMMA IdsGivenOut ==
    ASSUME IInv
    PROVE  /\ \A i \in DOMAIN exchange : exchange[i].id \in Nat /\ exchange[i].id < nextId
           /\ \A t \in Session : session[t].pc = "publishing" =>
                 session[t].row.id \in Nat /\ session[t].row.id < nextId
<1>1. \A e \in events : e.id \in Nat /\ e.id < nextId
  BY DEF IInv, TypeOK, Row, KeysUnique
<1> QED
  BY <1>1 DEF IInv, MessagesNameRows, SessionsHoldCopies, HoldsCopy, Stored, SameIdentity

LEMMA StepAnnouncingOnce ==
    ASSUME IInv, [Next]_vars PROVE AnnouncingOnce'
<1>0. AnnouncingOnce /\ exchange \in Seq(Row) /\ nextId \in Nat
  BY DEF IInv, TypeOK
<1>1. CASE Quiet
  BY <1>0, <1>1 DEF Quiet, AnnouncingOnce
<1>2. ASSUME NEW t \in Session, Starts(t) PROVE AnnouncingOnce'
  <2>1. session'[t].row.id = nextId /\ exchange' = exchange
        /\ \A u \in Session \ {t} : session'[u] = session[u]
    BY <1>2 DEF Starts, Inserts
  <2> QED
    BY <1>0, <2>1, IdsGivenOut DEF AnnouncingOnce
<1>3. ASSUME NEW t \in Session, Sends(t) PROVE AnnouncingOnce'
  <2> DEFINE row == session[t].row
  <2>1. /\ row \in Row /\ exchange' = Append(exchange, row)
        /\ session[t].pc = "publishing" /\ session'[t].pc # "publishing"
        /\ \A u \in Session \ {t} : session'[u] = session[u]
    BY <1>3 DEF Sends, IInv, TypeOK
  <2>2. \A i \in DOMAIN exchange : exchange[i].id # row.id
    BY <1>0, <2>1 DEF AnnouncingOnce
  <2>3. \A u \in Session \ {t} : session[u].pc = "publishing" => session[u].row.id # row.id
    BY <1>0, <2>1 DEF AnnouncingOnce
  <2> HIDE DEF row
  <2>4. /\ DOMAIN exchange = 1..Len(exchange) /\ DOMAIN exchange' = 1..(Len(exchange) + 1)
        /\ \A i \in DOMAIN exchange : exchange'[i] = exchange[i]
        /\ exchange'[Len(exchange) + 1] = row
    BY <1>0, <2>1
  <2>5. \A i \in DOMAIN exchange' : i \in DOMAIN exchange \/ i = Len(exchange) + 1
    BY <1>0, <2>4
  <2>6. \A i, j \in DOMAIN exchange' : exchange'[i].id = exchange'[j].id => i = j
    BY <1>0, <2>2, <2>4, <2>5 DEF AnnouncingOnce
  <2>7. ASSUME NEW u \in Session, session'[u].pc = "publishing"
        PROVE  /\ \A i \in DOMAIN exchange' : exchange'[i].id # session'[u].row.id
               /\ \A v \in Session \ {u} : session'[v].pc = "publishing" =>
                     session'[v].row.id # session'[u].row.id
    BY <1>0, <2>1, <2>3, <2>4, <2>5, <2>7 DEF AnnouncingOnce
  <2> QED
    BY <2>6, <2>7 DEF AnnouncingOnce
<1> QED
  BY <1>1, <1>2, <1>3, AnnouncementStep

LEMMA StepAccountedFor ==
    ASSUME IInv, [Next]_vars PROVE AnnouncementsAccountedFor'
<1>0. AnnouncementsAccountedFor /\ exchange \in Seq(Row)
  BY DEF IInv, TypeOK
<1> USE DEF AnnouncementsAccountedFor, Announced, Announcing
<1>1. CASE Quiet
  <2> SUFFICES ASSUME NEW e \in events'
               PROVE  \/ \E i \in DOMAIN exchange' : exchange'[i].id = e.id
                      \/ \E s \in Session : session'[s].pc = "publishing"
                                          /\ session'[s].row.id = e.id
                      \/ \E u \in unannounced' : u.id = e.id
    OBVIOUS
  <2>1. CASE e \in unannounced'
    BY <2>1
  <2>2. ASSUME NEW old \in events, old.id = e.id
        PROVE  \/ \E i \in DOMAIN exchange : exchange[i].id = e.id
               \/ \E s \in Session : session[s].pc = "publishing" /\ session[s].row.id = e.id
               \/ \E u \in unannounced : u.id = e.id
    BY <1>0, <2>2
  <2> QED
    BY <1>1, <2>1, <2>2 DEF Quiet
<1>2. ASSUME NEW t \in Session, Starts(t) PROVE AnnouncementsAccountedFor'
  BY <1>0, <1>2 DEF Starts, Inserts
<1>3. ASSUME NEW t \in Session, Sends(t) PROVE AnnouncementsAccountedFor'
  <2>1. session[t].row \in Row
    BY <1>3 DEF Sends, IInv, TypeOK
  <2>2. /\ \A i \in DOMAIN exchange : i \in DOMAIN exchange' /\ exchange'[i] = exchange[i]
        /\ Len(exchange) + 1 \in DOMAIN exchange'
        /\ exchange'[Len(exchange) + 1] = session[t].row
    BY <1>0, <1>3, <2>1 DEF Sends
  <2> QED
    BY <1>0, <1>3, <2>2 DEF Sends
<1> QED
  BY <1>1, <1>2, <1>3, AnnouncementStep

-----------------------------------------------------------------------------
(* The inductive invariant *)

\* Only Answer tells a client anything, and it tells what the session holds.
LEMMA StepAnswers ==
    ASSUME IInv, [Next]_vars
    PROVE  /\ answers' \subseteq [req : Request, code : Code, row : Row \cup {NoRow}]
           /\ AnswersNameRows'
<1>0. /\ answers \subseteq [req : Request, code : Code, row : Row \cup {NoRow}]
      /\ \A a \in answers : a.req.op = "CreateEvent" /\ a.code = 0 =>
            Stored(events', a.row) /\ a.row.alarm = a.req.alarm
  BY StoredStays DEF IInv, TypeOK, AnswersNameRows
<1>1. ASSUME NEW s \in Session, Answer(s)
      PROVE  /\ answers' \subseteq [req : Request, code : Code, row : Row \cup {NoRow}]
             /\ AnswersNameRows'
  <2>1. /\ session[s].pc = "replied" /\ events' = events
        /\ answers' = answers \cup {[req |-> session[s].req, code |-> session[s].code,
                                      row |-> session[s].row]}
    BY <1>1 DEF Answer
  <2>2. SessionOK(session[s]) /\ HoldsCopy(events, session[s])
    BY SessionsTyped DEF IInv, SessionsHoldCopies
  <2> QED
    BY <1>0, <2>1, <2>2 DEF AnswersNameRows, SessionOK, SessionType, HoldsCopy
<1>2. CASE answers' = answers
  BY <1>0, <1>2 DEF AnswersNameRows
<1>3. ASSUME Next, ~ \E s \in Session : Answer(s) PROVE answers' = answers
  BY <1>3, ZenonT(30) DEF Next, Step, Begin, SessionStep, Crash, Reply, RejectCreate, Persist, Publish,
       RejectUpdate, UpdateFindsNone, UpdateReads, Write, GetEvent, ListEvents, DatabaseFails
<1> QED
  BY <1>1, <1>2, <1>3 DEF vars

LEMMA StepTypeOK ==
    ASSUME IInv, [Next]_vars PROVE TypeOK'
<1>1. CASE UNCHANGED vars
  BY <1>1 DEF vars, IInv, TypeOK
<1>2. CASE Next
  <2>0. TypeOK /\ session \in [Session -> SessionType]
    BY SessionsTyped DEF IInv
  <2>1. sequence' \in Nat /\ publisherUp' \in BOOLEAN /\ requested' \subseteq Request
    <3>1. ASSUME NEW s \in Session, SessionStep(s)
          PROVE  /\ sequence' \in {sequence, sequence + 1}
                 /\ publisherUp' = publisherUp /\ requested' = requested
      BY <3>1 DEF SessionStep, Reply, RejectCreate, Persist, Publish, RejectUpdate,
         UpdateFindsNone, UpdateReads, Write, GetEvent, ListEvents, DatabaseFails
    <3>2. CASE Crash
      BY <2>0, <3>2, ConfigAssumption DEF Crash, Publisher, TypeOK
    <3> QED
      BY <1>2, <2>0, <3>1, <3>2 DEF Next, Step, Begin, Answer, TypeOK
  <2>2. unannounced' \subseteq Row
    <3>1. ASSUME NEW s \in Session, Persist(s) PROVE unannounced' \subseteq Row
      <4>1. session[s].req \in Request
        BY <2>0, <3>1 DEF Persist, Serving, TypeOK
      <4>2. \A now \in Now : NewEvent(session[s].req, now) \in Row
        BY <2>0, <4>1, NewEventType
      <4> QED
        BY <2>0, <3>1, <4>2 DEF Persist, TypeOK
    <3>2. ASSUME NEW s \in Session, Publish(s) PROVE unannounced' \subseteq Row
      BY <2>0, <3>2 DEF Publish, TypeOK
    <3>3. CASE Crash
      BY <2>0, <3>3 DEF Crash, TypeOK
    <3>4. ASSUME ~Crash, \A s \in Session : ~Persist(s) /\ ~Publish(s)
          PROVE  unannounced' = unannounced
      BY <1>2, <3>4
         DEF Next, Step, Begin, Answer, SessionStep, RejectCreate, RejectUpdate,
         UpdateFindsNone, UpdateReads, Write, GetEvent, ListEvents, DatabaseFails
    <3> QED
      BY <2>0, <3>1, <3>2, <3>3, <3>4 DEF TypeOK
  <2> QED
    BY <2>1, <2>2, StepKeys, StepSessions, StepMessages, StepAnswers
       DEF TypeOK, SessionOK, SessionType
<1> QED
  BY <1>1, <1>2

LEMMA InitIInv == Init => IInv
<1> SUFFICES ASSUME Init PROVE IInv
  OBVIOUS
<1>0. session \in [Session -> SessionType] /\ \A s \in Session : session[s] = IdleSession
  BY DEF Init, IdleSession, SessionType
<1>1. publisherUp \in BOOLEAN
  <2>1. FALSE \in BOOLEAN
    OBVIOUS
  <2> QED
    BY <2>1, ConfigAssumption DEF Init, Publisher
<1>2. TypeOK
  BY <1>0, <1>1 DEF Init, TypeOK, SessionType, IdleSession
<1> QED
  BY <1>2 DEF Init, IInv, KeysUnique, TimesKept, SessionsHoldCopies, HoldsCopy, IdleSession,
     AnswersNameRows, MessagesNameRows, AnnouncingOnce, AnnouncementsAccountedFor

LEMMA StepIInv == IInv /\ [Next]_vars => IInv'
BY StepTypeOK, StepKeys, StepSessions, StepMessages, StepAnnouncingOnce, StepAccountedFor,
   StepAnswers DEF IInv

LEMMA Invariance == Spec => []IInv
BY InitIInv, StepIInv, PTL DEF Spec

-----------------------------------------------------------------------------
(* What holds of the service *)

\* The variables of the service keep their types: in particular a handler that
\* publishes or writes back always holds a row.
THEOREM TypeCorrect == Spec => []TypeOK
<1>1. IInv => TypeOK
  BY DEF IInv
<1> QED
  BY <1>1, Invariance, PTL

\* Every message is of an event in the table and no event is announced twice,
\* whatever sessions, broker and crashes do.
THEOREM AnnouncedOnceHolds == Spec => []AnnouncedOnce
<1>1. IInv => AnnouncedOnce
  <2> SUFFICES ASSUME IInv PROVE AnnouncedOnce
    OBVIOUS
  <2>1. \A i \in DOMAIN exchange : \E e \in events : SameIdentity(e, exchange[i])
    BY DEF IInv, MessagesNameRows, Stored
  <2>2. \A i, j \in DOMAIN exchange :
          exchange[i].event_id = exchange[j].event_id => exchange[i].id = exchange[j].id
    BY <2>1 DEF SameIdentity, IInv, KeysUnique
  <2> QED
    BY <2>1, <2>2 DEF AnnouncedOnce, SameIdentity, IInv, AnnouncingOnce
<1> QED
  BY <1>1, Invariance, PTL

\* No event goes unannounced but by a refusal of the broker, a crash before the
\* publish, a commit reported as failed or a process without a publisher.
THEOREM AccountedForHolds == Spec => []AnnouncementsAccountedFor
<1>1. IInv => AnnouncementsAccountedFor
  BY DEF IInv
<1> QED
  BY <1>1, Invariance, PTL

\* An event_id names one event, and the one a client was told of is in the table,
\* although sequence and clock give the same pair again after a restart.
THEOREM EventIdNamesOneHolds == Spec => []EventIdNamesOne
<1>1. IInv => EventIdNamesOne
  BY DEF IInv, EventIdNamesOne, KeysUnique, TimesKept, AnswersNameRows, Stored, SameIdentity
<1> QED
  BY <1>1, Invariance, PTL

=============================================================================
