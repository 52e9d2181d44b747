------------------------- MODULE DeviceServiceProofs -------------------------
(***************************************************************************)
(* Proofs about DeviceService, for any requests, sessions and fields. The  *)
(* inductive invariant IInv adds to TypeOK that keys and device ids are    *)
(* unique in the table, and that the copy an update holds has the identity *)
(* of a row of the table although its fields may be out of date.           *)
(***************************************************************************)
EXTENDS DeviceService, TLAPS

USE DEF Op, Code

KeysUnique ==
    /\ \A r \in devices : r.id < nextId
    /\ \A r1, r2 \in devices : r1.id = r2.id => r1 = r2

OneRow == \A r1, r2 \in devices : r1.device_id = r2.device_id => r1 = r2

SameIdentity(r1, r2) ==
    /\ r1.id = r2.id /\ r1.device_id = r2.device_id
    /\ r1.hash = r2.hash /\ r1.protocol = r2.protocol

CopiesOfRows ==
    \A s \in Session :
        session[s].pc = "queried" /\ session[s].req.op = "UpdateDevice"
        => /\ \E r \in devices : SameIdentity(r, session[s].row)
           /\ session[s].row.device_id = session[s].req.device_id

IInv == TypeOK /\ KeysUnique /\ OneRow /\ CopiesOfRows

-----------------------------------------------------------------------------
(* The operators on rows *)

LEMMA StatusType ==
    ASSUME NEW v PROVE StatusToString(v) \in Value
BY ValueAssumption DEF StatusToString

LEMMA PatchType ==
    ASSUME NEW fields \in [Field -> Value], NEW patch \in [Field -> Value]
    PROVE  Patch(fields, patch) \in [Field -> Value]
BY StatusType DEF Patch

LEMMA NewRowType ==
    ASSUME NEW req \in Request, NEW id \in Nat
    PROVE  NewRow(req, id) \in Row
<1>1. req.device_id \in DeviceId /\ req.token \in Token /\ req.protocol \in Protocol
      /\ req.fields \in [Field -> Value]
  BY RequestAssumption
<1>2. Hash[req.token] \in Digest
  BY <1>1 DEF Digest
<1>3. [f \in Field |-> IF f = Status THEN Enabled ELSE req.fields[f]] \in [Field -> Value]
  BY <1>1, ValueAssumption
<1> QED
  BY <1>1, <1>2, <1>3, ValueAssumption DEF NewRow, Row

LEMMA PatchedType ==
    ASSUME NEW row \in Row, NEW patch \in [Field -> Value]
    PROVE  Patched(row, patch) \in Row /\ SameIdentity(Patched(row, patch), row)
BY PatchType DEF Patched, Row, SameIdentity

-----------------------------------------------------------------------------
(* What a step may do to the table *)

\* A step leaves the table alone, inserts the first row of a device, or replaces
\* the fields of a row.
Inserts(s) ==
    LET row == NewRow(session[s].req, nextId) IN
    /\ session[s].req \in Request
    /\ row \in Row
    /\ row.device_id = session[s].req.device_id
    /\ RowsOf(row.device_id) = {}
    /\ devices' = devices \cup {row}
    /\ nextId' = nextId + 1
    /\ intended' = [intended EXCEPT ![row.device_id] = row.fields]
    /\ overlapped' = overlapped

WritesBack(s) ==
    LET copy  == session[s].row
        patch == session[s].req.fields
        row   == Patched(copy, patch)
    IN
    /\ copy \in Row /\ row \in Row
    /\ SameIdentity(row, copy)
    /\ patch \in [Field -> Value]
    /\ \E r \in devices : SameIdentity(r, copy)
    /\ devices' = {r \in devices : r.id # row.id} \cup {row}
    /\ nextId' = nextId
    /\ intended' = [intended EXCEPT ![row.device_id] =
                     [f \in Field |-> IF patch[f] = Empty THEN @[f] ELSE row.fields[f]]]
    /\ overlapped' = IF copy \in devices THEN overlapped ELSE overlapped \cup {row.device_id}

LeavesTable ==
    /\ devices' = devices
    /\ nextId' \in {nextId, nextId + 1}
    /\ intended' = intended
    /\ overlapped' = overlapped

LEMMA TableStep ==
    ASSUME IInv, [Next]_vars
    PROVE  \/ LeavesTable
           \/ \E s \in Session : Inserts(s) \/ WritesBack(s)
<1> USE DEF IInv
<1>1. CASE UNCHANGED vars
  BY <1>1 DEF vars, history, LeavesTable
<1>2. CASE \E s \in Session, req \in Request : Begin(s, req)
  BY <1>2 DEF Begin, history, LeavesTable
<1>3. CASE \E s \in Session : Answer(s)
  BY <1>3 DEF Answer, LeavesTable
<1>4. CASE Crash
  BY <1>4 DEF Crash, history, LeavesTable
<1>5. ASSUME NEW s \in Session, SessionStep(s)
      PROVE  LeavesTable \/ Inserts(s) \/ WritesBack(s)
  <2>1. CASE Persist(s)
    <3>1. session[s].req \in Request
      BY <2>1 DEF Persist, Creating, TypeOK
    <3>2. NewRow(session[s].req, nextId) \in Row
      BY <3>1, NewRowType DEF TypeOK
    <3> QED
      BY <2>1, <3>1, <3>2 DEF Persist, Inserts, NewRow
  <2>2. CASE Write(s)
    <3> DEFINE copy == session[s].row
               patch == session[s].req.fields
    <3>1. session[s].req \in Request /\ session[s].pc = "queried"
          /\ session[s].req.op = "UpdateDevice"
      BY <2>2 DEF Write, TypeOK
    <3>2. copy \in Row /\ patch \in [Field -> Value]
      BY <3>1, RequestAssumption DEF TypeOK
    <3>3. Patched(copy, patch) \in Row /\ SameIdentity(Patched(copy, patch), copy)
      BY <3>2, PatchedType
    <3>4. \E r \in devices : SameIdentity(r, copy)
      BY <3>1 DEF CopiesOfRows
    <3> QED
      BY <2>2, <3>2, <3>3, <3>4 DEF Write, WritesBack
  <2>3. CASE CreateFindsNone(s) \/ UpdateReads(s)
    BY <2>3 DEF CreateFindsNone, UpdateReads, history, LeavesTable
  <2>4. CASE DuplicateKey(s)
    BY <2>4 DEF DuplicateKey, LeavesTable
  <2>5. CASE \/ RejectCreate(s) \/ CreateFindsDevice(s) \/ RejectUpdate(s)
             \/ UpdateFindsNone(s) \/ GetDevice(s) \/ ListDevices(s)
             \/ VerifyDeviceAccess(s) \/ DatabaseFails(s)
    BY <2>5 DEF RejectCreate, CreateFindsDevice, RejectUpdate, UpdateFindsNone, GetDevice,
                ListDevices, VerifyDeviceAccess, DatabaseFails, LeavesTable
  <2> QED
    BY <1>5, <2>1, <2>2, <2>3, <2>4, <2>5 DEF SessionStep
<1> QED
  BY <1>1, <1>2, <1>3, <1>4, <1>5 DEF Next, Step

-----------------------------------------------------------------------------
(* Type correctness *)

SessionType == [pc : {"idle", "begun", "queried", "replied"},
                req : Request \cup {NoRequest}, row : Row \cup {NoRow}, code : Code]

\* The conjuncts of TypeOK that speak of one session.
SessionOK(r) ==
    /\ r \in SessionType
    /\ r.pc # "idle" => r.req \in Request
    /\ r.pc = "queried" => \/ r.req.op = "CreateDevice"
                           \/ r.req.op = "UpdateDevice" /\ r.row \in Row

LEMMA SessionsTyped ==
    TypeOK => session \in [Session -> SessionType] /\ \A s \in Session : SessionOK(session[s])
BY DEF TypeOK, SessionOK, SessionType

LEMMA OneSessionChanges ==
    ASSUME TypeOK, NEW s \in Session, NEW r, SessionOK(r),
           session' = [session EXCEPT ![s] = r]
    PROVE  session' \in [Session -> SessionType] /\ \A t \in Session : SessionOK(session'[t])
BY SessionsTyped DEF SessionOK

LEMMA ReplyTyped ==
    ASSUME TypeOK, NEW s \in Session, NEW code \in Code, NEW row \in Row \cup {NoRow},
           session[s].req \in Request, Reply(s, code, row)
    PROVE  session' \in [Session -> SessionType] /\ \A t \in Session : SessionOK(session'[t])
<1> DEFINE r == [pc |-> "replied", req |-> session[s].req, row |-> row, code |-> code]
<1>1. SessionOK(r)
  BY DEF SessionOK, SessionType
<1>2. session' = [session EXCEPT ![s] = r]
  BY DEF Reply
<1> HIDE DEF r
<1> QED
  BY <1>1, <1>2, OneSessionChanges

LEMMA BusySession ==
    ASSUME TypeOK, NEW s \in Session, SessionStep(s)
    PROVE  session[s] \in SessionType /\ session[s].req \in Request
<1>1. session[s].pc # "idle"
  BY DEF SessionStep, Serving, Creating, RejectCreate, CreateFindsDevice,
     CreateFindsNone, Persist, DuplicateKey, RejectUpdate, UpdateFindsNone, UpdateReads,
     Write, GetDevice, ListDevices, VerifyDeviceAccess, DatabaseFails
<1>2. session[s].req \in Request
  BY <1>1 DEF TypeOK
<1>3. session[s] \in SessionType
  BY SessionsTyped
<1> QED
  BY <1>2, <1>3

LEMMA SessionsStayTyped ==
    ASSUME TypeOK, Next
    PROVE  session' \in [Session -> SessionType] /\ \A t \in Session : SessionOK(session'[t])
<1> USE DEF SessionOK, SessionType
<1>0. \A s \in Session : RowsOf(session[s].req.device_id) \subseteq Row
  BY DEF RowsOf, TypeOK
<1>1. ASSUME NEW s \in Session, NEW req \in Request, Begin(s, req)
      PROVE  session' \in [Session -> SessionType] /\ \A t \in Session : SessionOK(session'[t])
  <2>1. SessionOK([pc |-> "begun", req |-> req, row |-> NoRow, code |-> 0])
    OBVIOUS
  <2> QED
    BY <1>1, <2>1, OneSessionChanges, ZenonT(30) DEF Begin
<1>2. ASSUME NEW s \in Session, Answer(s)
      PROVE  session' \in [Session -> SessionType] /\ \A t \in Session : SessionOK(session'[t])
  <2>1. SessionOK(IdleSession)
    BY DEF IdleSession
  <2> QED
    BY <1>2, <2>1, OneSessionChanges, ZenonT(30) DEF Answer
<1>3. ASSUME NEW s \in Session, SessionStep(s)
      PROVE  session' \in [Session -> SessionType] /\ \A t \in Session : SessionOK(session'[t])
  <2>1. session[s] \in SessionType /\ session[s].req \in Request
    BY <1>3, BusySession
  <2>2. CASE CreateFindsNone(s)
    <3>1. SessionOK([pc |-> "queried", req |-> session[s].req, row |-> NoRow, code |-> 0])
      BY <2>1, <2>2 DEF CreateFindsNone, Serving
    <3> QED
      BY <2>2, <3>1, OneSessionChanges, ZenonT(30) DEF CreateFindsNone
  <2>3. CASE UpdateReads(s)
    <3>1. PICK row \in RowsOf(session[s].req.device_id) :
            session' = [session EXCEPT ![s] = [pc |-> "queried", req |-> session[s].req,
                                               row |-> row, code |-> 0]]
      BY <2>3 DEF UpdateReads
    <3>2. SessionOK([pc |-> "queried", req |-> session[s].req, row |-> row, code |-> 0])
      BY <1>0, <2>1, <2>3, <3>1 DEF UpdateReads, Serving
    <3> QED
      BY <3>1, <3>2, OneSessionChanges, ZenonT(30)
  <2>4. CASE Persist(s)
    <3>1. NewRow(session[s].req, nextId) \in Row
      BY <2>1, NewRowType DEF TypeOK
    <3> QED
      BY <2>1, <2>4, <3>1, ReplyTyped DEF Persist
  <2>5. CASE Write(s)
    <3>1. session[s].row \in Row /\ session[s].req.fields \in [Field -> Value]
      BY <2>1, <2>5, RequestAssumption DEF Write, TypeOK
    <3>2. Patched(session[s].row, session[s].req.fields) \in Row
      BY <3>1, PatchedType
    <3>3. \/ Reply(s, 0, Patched(session[s].row, session[s].req.fields))
          \/ Reply(s, 400, NoRow)
      BY <2>5 DEF Write
    <3>4. CASE Reply(s, 400, NoRow)
      BY <2>1, <3>4, ReplyTyped
    <3>5. CASE Reply(s, 0, Patched(session[s].row, session[s].req.fields))
      BY <2>1, <3>2, <3>5, ReplyTyped
    <3> QED
      BY <3>3, <3>4, <3>5
  <2>6. CASE DatabaseFails(s)
    <3>1. ErrorCode(session[s].req.op) \in Code
      BY <2>1, RequestAssumption DEF ErrorCode
    <3> QED
      BY <2>1, <2>6, <3>1, ReplyTyped DEF DatabaseFails
  <2>7. CASE GetDevice(s) \/ VerifyDeviceAccess(s)
    BY <1>0, <2>1, <2>7, ReplyTyped DEF GetDevice, VerifyDeviceAccess
  <2>8. CASE ListDevices(s)
    BY <2>1, <2>8, ReplyTyped DEF ListDevices, TypeOK
  <2>9. CASE \/ RejectCreate(s) \/ CreateFindsDevice(s) \/ DuplicateKey(s)
             \/ RejectUpdate(s) \/ UpdateFindsNone(s)
    BY <2>1, <2>9, ReplyTyped
       DEF RejectCreate, CreateFindsDevice, DuplicateKey, RejectUpdate, UpdateFindsNone
  <2> QED
    BY <1>3, <2>2, <2>3, <2>4, <2>5, <2>6, <2>7, <2>8, <2>9 DEF SessionStep
<1>4. CASE Crash
  BY <1>4 DEF Crash, IdleSession
<1> QED
  BY <1>1, <1>2, <1>3, <1>4 DEF Next, Step

-----------------------------------------------------------------------------
(* The inductive invariant *)

LEMMA InitIInv == Init => IInv
<1> SUFFICES ASSUME Init PROVE IInv
  OBVIOUS
<1>1. intended \in [DeviceId -> [Field -> Value]]
  BY ValueAssumption DEF Init
<1>2. session \in [Session -> SessionType]
  BY DEF Init, IdleSession, SessionType
<1> QED
  BY <1>1, <1>2 DEF Init, IInv, TypeOK, IdleSession, KeysUnique, OneRow, CopiesOfRows,
                    SessionType

\* The columns and the histories keep their types.
LEMMA TableTyped ==
    ASSUME IInv, [Next]_vars
    PROVE  /\ devices' \subseteq Row /\ nextId' \in Nat
           /\ intended' \in [DeviceId -> [Field -> Value]]
           /\ overlapped' \subseteq DeviceId
<1> USE DEF IInv
<1>1. CASE LeavesTable
  BY <1>1 DEF LeavesTable, TypeOK
<1>2. ASSUME NEW s \in Session, Inserts(s)
      PROVE  /\ devices' \subseteq Row /\ nextId' \in Nat
             /\ intended' \in [DeviceId -> [Field -> Value]]
             /\ overlapped' \subseteq DeviceId
  <2> DEFINE row == NewRow(session[s].req, nextId)
  <2>1. row \in Row
    BY <1>2 DEF Inserts
  <2> HIDE DEF row
  <2>2. devices' = devices \cup {row} /\ nextId' = nextId + 1
        /\ intended' = [intended EXCEPT ![row.device_id] = row.fields]
        /\ overlapped' = overlapped
    BY <1>2 DEF Inserts, row
  <2>3. row.fields \in [Field -> Value]
    BY <2>1 DEF Row
  <2>4. intended \in [DeviceId -> [Field -> Value]] /\ devices \subseteq Row /\ nextId \in Nat
        /\ overlapped \subseteq DeviceId
    BY DEF TypeOK
  <2>5. intended' \in [DeviceId -> [Field -> Value]]
    BY <2>2, <2>3, <2>4
  <2> QED
    BY <2>1, <2>2, <2>4, <2>5
<1>3. ASSUME NEW s \in Session, WritesBack(s)
      PROVE  /\ devices' \subseteq Row /\ nextId' \in Nat
             /\ intended' \in [DeviceId -> [Field -> Value]]
             /\ overlapped' \subseteq DeviceId
  <2> DEFINE patch == session[s].req.fields
             row   == Patched(session[s].row, patch)
             merged == [f \in Field |-> IF patch[f] = Empty
                                        THEN intended[row.device_id][f] ELSE row.fields[f]]
  <2>1. row \in Row
    BY <1>3 DEF WritesBack
  <2> HIDE DEF row, patch
  <2>2. /\ devices' = {r \in devices : r.id # row.id} \cup {row} /\ nextId' = nextId
        /\ intended' = [intended EXCEPT ![row.device_id] = merged]
        /\ overlapped' \subseteq overlapped \cup {row.device_id}
    BY <1>3 DEF WritesBack, row, patch, TypeOK
  <2>3. row.fields \in [Field -> Value] /\ row.device_id \in DeviceId
    BY <2>1 DEF Row
  <2>4. merged \in [Field -> Value]
    BY <2>3 DEF TypeOK
  <2> HIDE DEF merged
  <2> QED
    BY <2>1, <2>2, <2>3, <2>4 DEF TypeOK
<1> QED
  BY <1>1, <1>2, <1>3, TableStep

LEMMA TypeStutters ==
    ASSUME TypeOK, UNCHANGED vars PROVE TypeOK'
BY DEF TypeOK, vars, history

LEMMA RequestsAreSent ==
    ASSUME Next PROVE requested' \subseteq requested \cup Request
<1>1. ASSUME NEW s \in Session, SessionStep(s) PROVE requested' = requested
  BY <1>1 DEF SessionStep, Reply, RejectCreate, CreateFindsDevice, CreateFindsNone,
     Persist, DuplicateKey, RejectUpdate, UpdateFindsNone, UpdateReads, Write, GetDevice,
     ListDevices, VerifyDeviceAccess, DatabaseFails
<1>2. ASSUME NEW s \in Session, NEW req \in Request, Begin(s, req)
      PROVE  requested' = requested \cup {req}
  BY <1>2 DEF Begin
<1> QED
  BY <1>1, <1>2 DEF Next, Step, Answer, Crash

LEMMA StepTypeOK ==
    ASSUME IInv, [Next]_vars PROVE TypeOK'
<1> USE DEF IInv
<1>1. CASE UNCHANGED vars
  BY <1>1, TypeStutters
<1>2. CASE Next
  <2>1. session' \in [Session -> SessionType] /\ \A t \in Session : SessionOK(session'[t])
    BY <1>2, SessionsStayTyped
  <2>2. requested' \subseteq Request
    BY <1>2, RequestsAreSent DEF TypeOK
  <2>3. ASSUME NEW s \in Session, Answer(s)
        PROVE  answers' \subseteq [req : Request, code : Code]
    BY <2>3 DEF Answer, TypeOK
  <2>4. ASSUME ~ \E s \in Session : Answer(s)
        PROVE  answers' = answers
    BY <1>2, <2>4, ZenonT(30) DEF Next, Step, Begin, SessionStep, Crash, Reply, history, RejectCreate,
         CreateFindsDevice, CreateFindsNone, Persist, DuplicateKey, RejectUpdate,
         UpdateFindsNone, UpdateReads, Write, GetDevice, ListDevices, VerifyDeviceAccess,
         DatabaseFails
  <2>5. answers' \subseteq [req : Request, code : Code]
    BY <2>3, <2>4 DEF TypeOK
  <2> QED
    BY <2>1, <2>2, <2>5, TableTyped DEF TypeOK, SessionOK, SessionType
<1> QED
  BY <1>1, <1>2

LEMMA StepKeys ==
    ASSUME IInv, [Next]_vars PROVE KeysUnique' /\ OneRow'
<1> USE DEF IInv
<1>1. CASE LeavesTable
  BY <1>1 DEF LeavesTable, KeysUnique, OneRow, TypeOK, Row
<1>2. ASSUME NEW s \in Session, Inserts(s) PROVE KeysUnique' /\ OneRow'
  <2> DEFINE row == NewRow(session[s].req, nextId)
  <2>1. row \in Row /\ RowsOf(row.device_id) = {} /\ devices' = devices \cup {row}
        /\ nextId' = nextId + 1
    BY <1>2 DEF Inserts
  <2>2. row.id = nextId
    BY DEF NewRow
  <2> HIDE DEF row
  <2>3. \A r \in devices : r.device_id # row.device_id /\ r.id < nextId
    BY <2>1 DEF RowsOf, KeysUnique
  <2>4. nextId \in Nat /\ \A r \in devices : r.id \in Nat
    BY DEF TypeOK, Row
  <2>5. KeysUnique'
    BY <2>1, <2>2, <2>3, <2>4 DEF KeysUnique
  <2>6. OneRow'
    BY <2>1, <2>3 DEF OneRow
  <2> QED
    BY <2>5, <2>6
<1>3. ASSUME NEW s \in Session, WritesBack(s) PROVE KeysUnique' /\ OneRow'
  <2> DEFINE row == Patched(session[s].row, session[s].req.fields)
  <2>1. /\ SameIdentity(row, session[s].row)
        /\ \E r \in devices : SameIdentity(r, session[s].row)
        /\ devices' = {r \in devices : r.id # row.id} \cup {row}
        /\ nextId' = nextId
    BY <1>3 DEF WritesBack
  <2> HIDE DEF row
  <2>2. PICK old \in devices : old.id = row.id /\ old.device_id = row.device_id
    BY <2>1 DEF SameIdentity
  <2>3. KeysUnique'
    BY <2>1, <2>2 DEF KeysUnique
  <2>4. OneRow'
    BY <2>1, <2>2 DEF OneRow
  <2> QED
    BY <2>3, <2>4
<1> QED
  BY <1>1, <1>2, <1>3, TableStep

\* No step takes a row's identity out of the table.
LEMMA RowsStay ==
    ASSUME IInv, [Next]_vars, NEW r \in devices
    PROVE  \E q \in devices' : SameIdentity(q, r)
<1> USE DEF IInv
<1>1. CASE LeavesTable
  BY <1>1 DEF LeavesTable, SameIdentity
<1>2. ASSUME NEW s \in Session, Inserts(s) PROVE \E q \in devices' : SameIdentity(q, r)
  BY <1>2 DEF Inserts, SameIdentity
<1>3. ASSUME NEW s \in Session, WritesBack(s) PROVE \E q \in devices' : SameIdentity(q, r)
  <2> DEFINE row == Patched(session[s].row, session[s].req.fields)
  <2>1. /\ SameIdentity(row, session[s].row)
        /\ \E q \in devices : SameIdentity(q, session[s].row)
        /\ devices' = {q \in devices : q.id # row.id} \cup {row}
    BY <1>3 DEF WritesBack
  <2> HIDE DEF row
  <2>2. CASE r.id = row.id
    BY <2>1, <2>2 DEF SameIdentity, KeysUnique
  <2>3. CASE r.id # row.id
    BY <2>1, <2>3 DEF SameIdentity
  <2> QED
    BY <2>2, <2>3
<1> QED
  BY <1>1, <1>2, <1>3, TableStep

LEMMA StepCopies ==
    ASSUME IInv, [Next]_vars PROVE CopiesOfRows'
<1> DEFINE CopyOK(table, t) == /\ \E r \in table : SameIdentity(r, session'[t].row)
                               /\ session'[t].row.device_id = session'[t].req.device_id
<1> USE DEF IInv
<1>1. ASSUME NEW t \in Session, session'[t].pc = "queried",
             session'[t].req.op = "UpdateDevice"
      PROVE  CopyOK(devices, t)
  <2>0. session \in [Session -> SessionType]
    BY SessionsTyped
  <2>1. CASE session'[t] = session[t]
    BY <1>1, <2>1 DEF CopiesOfRows
  <2>2. ASSUME NEW s \in Session, UpdateReads(s), s = t
        PROVE  CopyOK(devices, t)
    BY <2>2 DEF UpdateReads, RowsOf, SameIdentity, TypeOK
  <2>3. ASSUME NEW s \in Session, CreateFindsNone(s), s = t
        PROVE  FALSE
    BY <1>1, <2>3 DEF CreateFindsNone, Serving, TypeOK
  <2>4. ASSUME NEW s \in Session, NEW code, NEW row, Reply(s, code, row), s = t
        PROVE  FALSE
    BY <1>1, <2>4 DEF Reply, TypeOK
  <2>5. ASSUME NEW s \in Session, SessionStep(s), s # t
        PROVE  session'[t] = session[t]
    BY <2>0, <2>5, ZenonT(30) DEF SessionStep, Reply, RejectCreate, CreateFindsDevice,
         CreateFindsNone, Persist, DuplicateKey, RejectUpdate, UpdateFindsNone, UpdateReads,
         Write, GetDevice, ListDevices, VerifyDeviceAccess, DatabaseFails
  <2>6. ASSUME NEW s \in Session, SessionStep(s)
        PROVE  CopyOK(devices, t)
    <3>1. CASE s # t
      BY <2>1, <2>5, <2>6, <3>1
    <3>2. CASE s = t /\ (UpdateReads(s) \/ CreateFindsNone(s))
      BY <2>2, <2>3, <3>2
    <3>3. CASE s = t /\ ~(UpdateReads(s) \/ CreateFindsNone(s))
      <4>1. \E code, row : Reply(s, code, row)
        BY <2>6, <3>3, ZenonT(30) DEF SessionStep, RejectCreate, CreateFindsDevice, Persist,
             DuplicateKey, RejectUpdate, UpdateFindsNone, Write, GetDevice, ListDevices,
             VerifyDeviceAccess, DatabaseFails
      <4> QED
        BY <2>4, <3>3, <4>1
    <3> QED
      BY <3>1, <3>2, <3>3
  <2>7. ASSUME NEW s \in Session, NEW req \in Request, Begin(s, req)
        PROVE  session'[t] = session[t]
    BY <1>1, <2>7 DEF Begin, TypeOK
  <2>8. ASSUME NEW s \in Session, Answer(s)
        PROVE  session'[t] = session[t]
    BY <1>1, <2>8 DEF Answer, IdleSession, TypeOK
  <2>9. ASSUME Crash PROVE FALSE
    BY <1>1, <2>9 DEF Crash, IdleSession
  <2>10. CASE UNCHANGED vars
    BY <2>1, <2>10 DEF vars
  <2> QED
    BY <2>1, <2>6, <2>7, <2>8, <2>9, <2>10 DEF Next, Step
<1>2. ASSUME NEW t \in Session, session'[t].pc = "queried",
             session'[t].req.op = "UpdateDevice"
      PROVE  CopyOK(devices', t)
  <2>1. PICK r \in devices : SameIdentity(r, session'[t].row)
    BY <1>1, <1>2
  <2>2. PICK q \in devices' : SameIdentity(q, r)
    BY RowsStay
  <2> QED
    BY <1>1, <1>2, <2>1, <2>2 DEF SameIdentity
<1> QED
  BY <1>2 DEF CopiesOfRows

LEMMA StepIInv == IInv /\ [Next]_vars => IInv'
BY StepTypeOK, StepKeys, StepCopies DEF IInv

LEMMA Invariance == Spec => []IInv
BY InitIInv, StepIInv, PTL DEF Spec

\* The variables of the service keep their types: in particular a handler that
\* writes a row back always holds one.
THEOREM TypeCorrect == Spec => []TypeOK
<1>1. IInv => TypeOK
  BY DEF IInv
<1> QED
  BY <1>1, Invariance, PTL

-----------------------------------------------------------------------------
(* The service implements the registry *)

Identity(r) == <<r.hash, r.protocol>>

LEMMA RegistryStep ==
    ASSUME IInv, [Next]_vars
    PROVE  (\E d \in DeviceId, c \in Credential :
               Registered[d] = {} /\ Registered' = [Registered EXCEPT ![d] = {c}])
           \/ Registered' = Registered
<1> USE DEF IInv
<1>1. CASE LeavesTable
  BY <1>1 DEF LeavesTable, Registered, RowsOf
<1>2. ASSUME NEW s \in Session, Inserts(s)
      PROVE  \E d \in DeviceId, c \in Credential :
               Registered[d] = {} /\ Registered' = [Registered EXCEPT ![d] = {c}]
  <2>1. PICK row \in Row : RowsOf(row.device_id) = {} /\ devices' = devices \cup {row}
    BY <1>2 DEF Inserts
  <2>2. row.device_id \in DeviceId /\ Identity(row) \in Credential
    BY <2>1 DEF Row, Credential, Identity
  <2>3. Registered[row.device_id] = {}
    BY <2>1, <2>2 DEF Registered
  <2>4. RowsOf(row.device_id)' = {row}
    BY <2>1 DEF RowsOf
  <2>5. \A d \in DeviceId : d # row.device_id => RowsOf(d)' = RowsOf(d)
    BY <2>1 DEF RowsOf
  <2>6. Registered' = [Registered EXCEPT ![row.device_id] = {Identity(row)}]
    <3>1. \A d \in DeviceId : Registered'[d] = {Identity(r) : r \in RowsOf(d)'}
      BY DEF Registered, Identity
    <3>2. \A d \in DeviceId : Registered[d] = {Identity(r) : r \in RowsOf(d)}
      BY DEF Registered, Identity
    <3>3. Registered'[row.device_id] = {Identity(row)}
      BY <2>2, <2>4, <3>1
    <3>4. \A d \in DeviceId : d # row.device_id => Registered'[d] = Registered[d]
      BY <2>5, <3>1, <3>2
    <3>5. Registered' = [d \in DeviceId |-> Registered'[d]]
          /\ Registered = [d \in DeviceId |-> Registered[d]]
      BY DEF Registered
    <3> QED
      BY <2>2, <3>3, <3>4, <3>5
  <2> QED
    BY <2>2, <2>3, <2>6
<1>3. ASSUME NEW s \in Session, WritesBack(s) PROVE Registered' = Registered
  <2> DEFINE row == Patched(session[s].row, session[s].req.fields)
  <2>1. /\ SameIdentity(row, session[s].row)
        /\ \E r \in devices : SameIdentity(r, session[s].row)
        /\ devices' = {r \in devices : r.id # row.id} \cup {row}
    BY <1>3 DEF WritesBack
  <2> HIDE DEF row
  <2>2. PICK old \in devices : SameIdentity(old, row)
    BY <2>1 DEF SameIdentity
  <2>3. \A r \in devices : r = old \/ r \in devices'
    BY <2>1, <2>2 DEF SameIdentity, KeysUnique
  <2>4. \A r \in devices' : r = row \/ r \in devices
    BY <2>1
  <2>5. row \in devices' /\ Identity(old) = Identity(row) /\ old.device_id = row.device_id
    BY <2>1, <2>2 DEF SameIdentity, Identity
  <2>6. ASSUME NEW d \in DeviceId
        PROVE  {Identity(r) : r \in RowsOf(d)'} = {Identity(r) : r \in RowsOf(d)}
    BY <2>2, <2>3, <2>4, <2>5 DEF RowsOf
  <2> QED
    BY <2>6 DEF Registered, Identity
<1> QED
  BY <1>1, <1>2, <1>3, TableStep

\* However many sessions create, update and crash at once, the table behaves as the
\* write-once registry: every step registers a device nobody had registered, or
\* changes no registration.
THEOREM ImplementsRegistry == Spec => RegistrySpec
<1>1. Init => Registry!Init
  BY DEF Init, Registry!Init, Registered, RowsOf
<1>2. IInv /\ [Next]_vars => [Registry!Next]_Registered
  BY RegistryStep DEF Registry!Next, Registry!Register
<1> QED
  BY <1>1, <1>2, Invariance, PTL DEF Spec, RegistrySpec, Registry!Spec

-----------------------------------------------------------------------------
(* A row is what its create and its updates made of it *)

LEMMA InsertPatches ==
    ASSUME TypeOK, PatchesSurvive, NEW s \in Session, Inserts(s) PROVE PatchesSurvive'
<1> DEFINE row == NewRow(session[s].req, nextId)
<1>1. row \in Row /\ RowsOf(row.device_id) = {} /\ devices' = devices \cup {row}
      /\ intended' = [intended EXCEPT ![row.device_id] = row.fields]
      /\ overlapped' = overlapped
  BY DEF Inserts
<1> HIDE DEF row
<1>2. row.device_id \in DeviceId /\ intended \in [DeviceId -> [Field -> Value]]
  BY <1>1 DEF Row, TypeOK
<1>3. \A r \in devices : r.device_id # row.device_id /\ r.device_id \in DeviceId
  BY <1>1 DEF RowsOf, TypeOK, Row
<1> QED
  BY <1>1, <1>2, <1>3 DEF PatchesSurvive

LEMMA WritePatches ==
    ASSUME IInv, PatchesSurvive, NEW s \in Session, WritesBack(s) PROVE PatchesSurvive'
<1> DEFINE copy   == session[s].row
           patch  == session[s].req.fields
           row    == Patched(copy, patch)
           merged == [f \in Field |-> IF patch[f] = Empty
                                      THEN intended[row.device_id][f] ELSE row.fields[f]]
<1>1. /\ copy \in Row /\ row \in Row /\ SameIdentity(row, copy)
      /\ devices' = {r \in devices : r.id # row.id} \cup {row}
      /\ overlapped' = IF copy \in devices THEN overlapped ELSE overlapped \cup {row.device_id}
  BY DEF WritesBack
<1>2. intended' = [intended EXCEPT ![row.device_id] = merged]
  BY DEF WritesBack, IInv, TypeOK
<1>3. row.fields = Patch(copy.fields, patch)
  BY DEF Patched
<1>4. PICK old \in devices : SameIdentity(old, row)
  BY <1>1 DEF WritesBack, SameIdentity
<1>5. row.device_id \in DeviceId /\ intended \in [DeviceId -> [Field -> Value]]
  BY <1>1 DEF Row, IInv, TypeOK
<1>6. copy \in devices /\ row.device_id \notin overlapped => row.fields = merged
  <2> SUFFICES ASSUME copy \in devices, row.device_id \notin overlapped
               PROVE  row.fields = merged
    OBVIOUS
  <2>1. copy.fields = intended[row.device_id]
    BY <1>1 DEF PatchesSurvive, SameIdentity
  <2> QED
    BY <1>3, <2>1 DEF Patch
<1> HIDE DEF row, merged, copy, patch
<1>7. \A r \in devices : r.id # row.id => r.device_id # row.device_id
                                          /\ r.device_id \in DeviceId
  BY <1>4 DEF IInv, OneRow, SameIdentity, TypeOK, Row
<1>8. ASSUME NEW r \in devices', r.device_id \notin overlapped'
      PROVE  r.fields = intended'[r.device_id]
  <2>1. CASE r = row
    BY <1>1, <1>2, <1>5, <1>6, <1>8, <2>1
  <2>2. CASE r # row
    <3>1. r \in devices /\ r.id # row.id /\ r.device_id \notin overlapped
      BY <1>1, <1>8, <2>2
    <3> QED
      BY <1>2, <1>5, <1>7, <3>1 DEF PatchesSurvive
  <2> QED
    BY <2>1, <2>2
<1> QED
  BY <1>8 DEF PatchesSurvive

\* Updates keep what earlier ones changed, as long as none wrote back a copy that
\* another had made out of date.
THEOREM PatchesSurviveHolds == Spec => []PatchesSurvive
<1>1. Init => PatchesSurvive
  BY DEF Init, PatchesSurvive
<1>2. IInv /\ PatchesSurvive /\ [Next]_vars => PatchesSurvive'
  <2> SUFFICES ASSUME IInv, PatchesSurvive, [Next]_vars PROVE PatchesSurvive'
    OBVIOUS
  <2>1. CASE LeavesTable
    BY <2>1 DEF LeavesTable, PatchesSurvive
  <2> QED
    BY <2>1, TableStep, InsertPatches, WritePatches DEF IInv
<1> QED
  BY <1>1, <1>2, Invariance, PTL DEF Spec

-----------------------------------------------------------------------------
(* What the clients are told *)

\* An answer that the table bears out.
TrueOf(table, a) ==
    /\ a.req.op = "CreateDevice" /\ a.code \in {0, 409} =>
          \E r \in table : r.device_id = a.req.device_id
    /\ a.req.op \in {"GetDevice", "UpdateDevice"} /\ a.code = 0 =>
          \E r \in table : r.device_id = a.req.device_id
    /\ a.req.op = "VerifyDeviceAccess" /\ a.code = 0 =>
          \E r \in table : r.device_id = a.req.device_id /\ r.hash = Hash[a.req.token]
Created(a) == a.code = 0 /\ a.req.op = "CreateDevice"
OneCreator(told) ==
    \A a, b \in told : Created(a) /\ Created(b) /\ b.req.device_id = a.req.device_id => b.req = a.req

LEMMA AnswersStayTrueParts ==
    AnswersStayTrue <=> (\A a \in Told : TrueOf(devices, a)) /\ OneCreator(Told)
BY DEF AnswersStayTrue, TrueOf, OneCreator, Created, RowsOf

\* A reply of session s adds one answer to what is told; other steps add none.
Reply1(s, code) == [req |-> session[s].req, code |-> code]

LEMMA ReplyTold ==
    ASSUME TypeOK, NEW s \in Session, NEW code, NEW row, Reply(s, code, row)
    PROVE  Told' \subseteq Told \cup {Reply1(s, code)}
<1>1. session \in [Session -> SessionType]
  BY SessionsTyped
<1>2. \A t \in Session : t # s => session'[t] = session[t]
  BY <1>1 DEF Reply
<1>3. session'[s].req = session[s].req /\ session'[s].code = code
  BY <1>1 DEF Reply
<1>4. answers' = answers
  BY DEF Reply
<1> QED
  BY <1>2, <1>3, <1>4 DEF Told, Reply1

\* The one answer a step can add: the table bears it out, and if it says that a device
\* was created, the device was not in the table before.
Adds(a) ==
    /\ Told' \subseteq Told \cup {a}
    /\ TrueOf(devices', a)
    /\ Created(a) => RowsOf(a.req.device_id) = {}

\* An answer that claims nothing.
LEMMA AddsNothing ==
    ASSUME TypeOK, NEW s \in Session, NEW code, NEW row, Reply(s, code, row),
           session[s].req.op = "CreateDevice" => code \notin {0, 409},
           session[s].req.op \in {"GetDevice", "UpdateDevice"} => code # 0,
           session[s].req.op = "VerifyDeviceAccess" => code # 0
    PROVE  Adds(Reply1(s, code))
BY ReplyTold DEF Adds, TrueOf, Created, Reply1

LEMMA ToldStep ==
    ASSUME IInv, [Next]_vars
    PROVE  Told' \subseteq Told \/ \E a : Adds(a)
<1> USE DEF IInv
<1>0. session \in [Session -> SessionType]
  BY SessionsTyped
<1>1. CASE UNCHANGED vars
  BY <1>1 DEF vars, history, Told
<1>2. ASSUME NEW s \in Session, NEW r, session' = [session EXCEPT ![s] = r],
             r.pc # "replied", answers' = answers
      PROVE  Told' \subseteq Told
  <2>1. \A t \in Session : session'[t] = IF t = s THEN r ELSE session[t]
    BY <1>0, <1>2
  <2> QED
    BY <1>2, <2>1 DEF Told
<1>3. ASSUME NEW s \in Session, NEW req \in Request, Begin(s, req) PROVE Told' \subseteq Told
  <2> DEFINE r == [pc |-> "begun", req |-> req, row |-> NoRow, code |-> 0]
  <2>1. session' = [session EXCEPT ![s] = r] /\ answers' = answers /\ r.pc # "replied"
    BY <1>3 DEF Begin, history
  <2> HIDE DEF r
  <2> QED
    BY <1>2, <2>1
<1>4. ASSUME NEW s \in Session, CreateFindsNone(s) \/ UpdateReads(s) PROVE Told' \subseteq Told
  <2>1. PICK row : session' = [session EXCEPT ![s] = [pc |-> "queried", req |-> session[s].req,
                                                      row |-> row, code |-> 0]]
    BY <1>4 DEF CreateFindsNone, UpdateReads
  <2> DEFINE r == [pc |-> "queried", req |-> session[s].req, row |-> row, code |-> 0]
  <2>2. session' = [session EXCEPT ![s] = r] /\ answers' = answers /\ r.pc # "replied"
    BY <1>4, <2>1 DEF CreateFindsNone, UpdateReads, history
  <2> HIDE DEF r
  <2> QED
    BY <1>2, <2>2
<1>5. ASSUME NEW s \in Session, Answer(s) PROVE Told' \subseteq Told
  <2>1. answers' = answers \cup {[req |-> session[s].req, code |-> session[s].code]}
        /\ session[s].pc = "replied"
    BY <1>5 DEF Answer
  <2>2. \A t \in Session : session'[t] = IF t = s THEN IdleSession ELSE session[t]
    BY <1>0, <1>5 DEF Answer
  <2> QED
    BY <2>1, <2>2 DEF Told, IdleSession
<1>6. CASE Crash
  BY <1>6 DEF Crash, history, Told, IdleSession
<1>7. ASSUME NEW s \in Session, SessionStep(s), ~(CreateFindsNone(s) \/ UpdateReads(s))
      PROVE  \E a : Adds(a)
  <2>1. CASE RejectCreate(s) \/ DuplicateKey(s)
    BY <2>1, AddsNothing DEF RejectCreate, DuplicateKey, Serving, Creating
  <2>2. CASE RejectUpdate(s) \/ UpdateFindsNone(s)
    BY <2>2, AddsNothing DEF RejectUpdate, UpdateFindsNone, Serving
  <2>3. CASE CreateFindsDevice(s)
    <3>1. /\ session[s].req.op = "CreateDevice" /\ devices' = devices /\ Reply(s, 409, NoRow)
          /\ \E r \in devices : r.device_id = session[s].req.device_id
      BY <2>3 DEF CreateFindsDevice, Serving, RowsOf
    <3>2. Told' \subseteq Told \cup {Reply1(s, 409)}
      BY <3>1, ReplyTold
    <3>3. TrueOf(devices', Reply1(s, 409)) /\ ~Created(Reply1(s, 409))
      BY <3>1 DEF TrueOf, Created, Reply1
    <3>4. Adds(Reply1(s, 409))
      BY <3>2, <3>3 DEF Adds
    <3> QED
      BY <3>4
  <2>4. CASE Persist(s)
    <3> DEFINE row == NewRow(session[s].req, nextId)
    <3>1. /\ session[s].req.op = "CreateDevice" /\ RowsOf(row.device_id) = {}
          /\ row.device_id = session[s].req.device_id /\ row \in devices'
      BY <2>4 DEF Persist, Creating, NewRow
    <3> HIDE DEF row
    <3>2. ASSUME NEW code \in {0, 400}, NEW told, Reply(s, code, told) PROVE Adds(Reply1(s, code))
      BY <3>1, <3>2, ReplyTold DEF Adds, TrueOf, Created, Reply1
    <3> QED
      BY <2>4, <3>2 DEF Persist
  <2>5. CASE Write(s)
    <3>1. /\ session[s].req.op = "UpdateDevice" /\ session[s].pc = "queried"
          /\ session[s].row.device_id = session[s].req.device_id
      BY <2>5 DEF Write, CopiesOfRows
    <3>2. Patched(session[s].row, session[s].req.fields) \in devices'
      BY <2>5 DEF Write
    <3>3. Patched(session[s].row, session[s].req.fields).device_id = session[s].req.device_id
      BY <3>1 DEF Patched
    <3>4. ASSUME NEW code \in {0, 400}, NEW told, Reply(s, code, told) PROVE Adds(Reply1(s, code))
      BY <3>1, <3>2, <3>3, <3>4, ReplyTold DEF Adds, TrueOf, Created, Reply1
    <3> QED
      BY <2>5, <3>4, ZenonT(30) DEF Write
  <2>6. CASE GetDevice(s)
    <3>1. session[s].req.op = "GetDevice" /\ devices' = devices
      BY <2>6 DEF GetDevice, Serving
    <3>2. ASSUME NEW row \in RowsOf(session[s].req.device_id), Reply(s, 0, row)
          PROVE  Adds(Reply1(s, 0))
      BY <3>1, <3>2, ReplyTold DEF Adds, TrueOf, Created, Reply1, RowsOf
    <3>3. ASSUME Reply(s, 404, NoRow) PROVE Adds(Reply1(s, 404))
      BY <3>1, <3>3, AddsNothing
    <3> QED
      BY <2>6, <3>2, <3>3 DEF GetDevice
  <2>9. CASE ListDevices(s)
    BY <2>9, AddsNothing DEF ListDevices, Serving
  <2>7. CASE VerifyDeviceAccess(s)
    <3>1. session[s].req.op = "VerifyDeviceAccess" /\ devices' = devices
      BY <2>7 DEF VerifyDeviceAccess, Serving
    <3>2. ASSUME NEW row \in RowsOf(session[s].req.device_id), Allowed(row, session[s].req),
                 Reply(s, 0, row)
          PROVE  Adds(Reply1(s, 0))
      BY <3>1, <3>2, ReplyTold DEF Adds, TrueOf, Created, Reply1, Allowed, RowsOf
    <3>3. ASSUME Reply(s, 403, NoRow) PROVE Adds(Reply1(s, 403))
      BY <3>1, <3>3, AddsNothing
    <3> QED
      BY <2>7, <3>2, <3>3 DEF VerifyDeviceAccess
  <2>8. CASE DatabaseFails(s)
    <3>1. Reply(s, ErrorCode(session[s].req.op), NoRow)
      BY <2>8 DEF DatabaseFails
    <3>2. /\ session[s].req.op = "CreateDevice" => ErrorCode(session[s].req.op) = 400
          /\ session[s].req.op = "GetDevice" => ErrorCode(session[s].req.op) = 404
          /\ session[s].req.op = "UpdateDevice" => ErrorCode(session[s].req.op) = 400
          /\ session[s].req.op = "VerifyDeviceAccess" => ErrorCode(session[s].req.op) = 403
      BY DEF ErrorCode
    <3> QED
      BY <3>1, <3>2, AddsNothing
  <2> QED
    BY <1>7, <2>1, <2>2, <2>3, <2>4, <2>5, <2>6, <2>7, <2>8, <2>9 DEF SessionStep
<1> QED
  BY <1>1, <1>3, <1>4, <1>5, <1>6, <1>7 DEF Next, Step

\* What the table bears out it still bears out after a step.
LEMMA TruthStays ==
    ASSUME IInv, [Next]_vars, NEW a, TrueOf(devices, a) PROVE TrueOf(devices', a)
BY RowsStay DEF TrueOf, SameIdentity

LEMMA StepTold ==
    ASSUME IInv, [Next]_vars, \A a \in Told : TrueOf(devices, a), OneCreator(Told)
    PROVE  (\A a \in Told' : TrueOf(devices', a)) /\ OneCreator(Told')
<1>1. \A a \in Told : TrueOf(devices', a)
  BY TruthStays
<1>2. CASE Told' \subseteq Told
  BY <1>1, <1>2 DEF OneCreator
<1>3. ASSUME NEW a, Adds(a) PROVE (\A b \in Told' : TrueOf(devices', b)) /\ OneCreator(Told')
  <2>1. \A b \in Told' : TrueOf(devices', b)
    BY <1>1, <1>3 DEF Adds
  <2>2. ASSUME NEW b \in Told, Created(a), Created(b) PROVE b.req.device_id # a.req.device_id
    BY <1>3, <2>2 DEF Adds, Created, TrueOf, RowsOf
  <2>3. OneCreator(Told')
    BY <1>3, <2>2 DEF OneCreator, Adds
  <2> QED
    BY <2>1, <2>3
<1> QED
  BY <1>2, <1>3, ToldStep

\* Clients can rely on what they were told: creates, updates, crashes and lost commits
\* of other sessions do not undo it, and no two of them are told they created a device.
THEOREM AnswersStayTrueHolds == Spec => []AnswersStayTrue
<1>1. Init => AnswersStayTrue
  BY DEF Init, AnswersStayTrue, Told, IdleSession
<1>2. IInv /\ AnswersStayTrue /\ [Next]_vars => AnswersStayTrue'
  <2> SUFFICES ASSUME IInv, AnswersStayTrue, [Next]_vars PROVE AnswersStayTrue'
    OBVIOUS
  <2>1. (\A a \in Told' : TrueOf(devices', a)) /\ OneCreator(Told')
    BY StepTold, AnswersStayTrueParts
  <2> QED
    BY <2>1 DEF AnswersStayTrue, TrueOf, OneCreator, Created, RowsOf
<1> QED
  BY <1>1, <1>2, Invariance, PTL DEF Spec
=============================================================================
