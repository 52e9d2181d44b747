--------------------------- MODULE DeviceService ---------------------------
(***************************************************************************)
(* The device service (services/device_service): the table `devices' of    *)
(* device master data and the brpc handlers that create, update, read,     *)
(* list and verify devices.                                                *)
(*                                                                         *)
(* Each request runs on a brpc worker (Session) of its own. A handler is a *)
(* MySQL transaction of one or two statements; between the statements      *)
(* other sessions run. create() queries, then inserts; update() reads the  *)
(* row without a lock, changes the copy in memory and writes back the      *)
(* whole row. The write and its commit are one step: a row lock is held    *)
(* from the one to the other, and what a crash leaves in between is rolled *)
(* back.                                                                   *)
(*                                                                         *)
(* Outside src/, modelled from its use: MySQL and ODB (transactions, the   *)
(* unique index on device_id, auto-increment keys, errors, a commit whose  *)
(* acknowledgement is lost).                                               *)
(***************************************************************************)
EXTENDS Integers, FiniteSets

CONSTANTS
    DeviceId,    \* device ids, the empty string among them
    Empty,       \* the empty string: an absent request field
    Token,       \* access tokens
    Hash,        \* hashAccessToken: a digest for each token
    Protocol,    \* protocols, Empty among them
    Mqtt,        \* "mqtt", the default protocol
    Field,       \* the fields UpdateDevice may set: Status and others
    Status,      \* the field `status'
    Value,       \* values of fields: Empty, Enabled, Unspecified and others
    Enabled,     \* "enabled"
    Unspecified, \* "unspecified": what an unknown status is stored as
    KnownStatus, \* the statuses statusToString and statusFromString know
    Request,     \* the requests of a behaviour
    NoRequest,
    NoRow,
    Session      \* brpc workers

Op == {"CreateDevice", "UpdateDevice", "GetDevice", "ListDevices", "VerifyDeviceAccess"}

ASSUME ValueAssumption ==
    /\ Empty \in DeviceId \cap Protocol \cap Value
    /\ Mqtt \in Protocol
    /\ Status \in Field
    /\ KnownStatus \cup {Enabled, Unspecified} \subseteq Value
    /\ Enabled \in KnownStatus
    /\ Unspecified \notin KnownStatus
\* named: device_name and device_type are present.
ASSUME RequestAssumption ==
    /\ Request \subseteq [id : Nat, op : Op, device_id : DeviceId, named : BOOLEAN,
                          token : Token, protocol : Protocol, fields : [Field -> Value]]
    /\ NoRequest \notin Request

\* The columns; access_token_hash is `hash'. The timestamps are left out: no
\* handler decides anything by them.
Digest == {Hash[t] : t \in Token}
Row == [id : Nat, device_id : DeviceId, hash : Digest, protocol : Protocol,
        fields : [Field -> Value]]
ASSUME RowAssumption == NoRow \notin Row

-----------------------------------------------------------------------------
(* Rows *)

\* statusToString: any other number a client sends becomes "unspecified".
StatusToString(v) == IF v \in KnownStatus THEN v ELSE Unspecified

\* create(): the status is always enabled, the protocol defaults to mqtt.
NewRow(req, id) ==
    [id        |-> id,
     device_id |-> req.device_id,
     hash      |-> Hash[req.token],
     protocol  |-> IF req.protocol = Empty THEN Mqtt ELSE req.protocol,
     fields    |-> [f \in Field |-> IF f = Status THEN Enabled ELSE req.fields[f]]]

\* Mutant: fields the request leaves out are stored as empty.
PatchOverwriting(fields, patch) ==
    [f \in Field |-> IF f = Status THEN StatusToString(patch[f]) ELSE patch[f]]

\* update(): a field the request leaves out keeps its value.
Patch(fields, patch) ==
    [f \in Field |-> IF patch[f] = Empty THEN fields[f]
                     ELSE IF f = Status THEN StatusToString(patch[f])
                     ELSE patch[f]]

Allowed(row, req) ==
    /\ row.fields[Status] = Enabled
    /\ req.protocol = Empty \/ row.protocol = req.protocol
    /\ row.hash = Hash[req.token]

\* list(): by type, status and keyword; the request's set fields stand for all.
Matches(row, req) ==
    \A f \in Field : req.fields[f] = Empty \/ row.fields[f] = req.fields[f]

-----------------------------------------------------------------------------
VARIABLES
    devices,     \* the table
    nextId,      \* its auto-increment key
    session,     \* what each worker is doing
    requested,   \* requests the clients have sent
    answers,     \* history: what the clients were answered
    intended,    \* history: each device's fields as created and patched in turn
    overlapped   \* history: devices written back from a copy that was out of date

history == <<answers, intended, overlapped>>
vars == <<devices, nextId, session, requested, history>>

Code == {0, 400, 403, 404, 409}
IdleSession == [pc |-> "idle", req |-> NoRequest, row |-> NoRow, code |-> 0]

TypeOK ==
    /\ devices \subseteq Row
    /\ nextId \in Nat
    /\ session \in [Session -> [pc : {"idle", "begun", "queried", "replied"},
                                req : Request \cup {NoRequest},
                                row : Row \cup {NoRow}, code : Code]]
    /\ \A s \in Session : session[s].pc # "idle" => session[s].req \in Request
    /\ \A s \in Session : session[s].pc = "queried" =>
          \/ session[s].req.op = "CreateDevice"
          \/ session[s].req.op = "UpdateDevice" /\ session[s].row \in Row
    /\ requested \subseteq Request
    /\ answers \subseteq [req : Request, code : Code]
    /\ intended \in [DeviceId -> [Field -> Value]]
    /\ overlapped \subseteq DeviceId

Init ==
    /\ devices = {} /\ nextId = 1
    /\ session = [s \in Session |-> IdleSession]
    /\ requested = {}
    /\ answers = {}
    /\ intended = [d \in DeviceId |-> [f \in Field |-> Empty]]
    /\ overlapped = {}

-----------------------------------------------------------------------------
(* Requests and answers *)

RowsOf(d) == {r \in devices : r.device_id = d}

Begin(s, req) ==
    /\ session[s].pc = "idle"
    /\ req \notin requested
    /\ requested' = requested \cup {req}
    /\ session' = [session EXCEPT ![s] =
                    [pc |-> "begun", req |-> req, row |-> NoRow, code |-> 0]]
    /\ UNCHANGED <<devices, nextId, history>>

Reply(s, code, row) ==
    /\ session' = [session EXCEPT ![s] =
                    [pc |-> "replied", req |-> session[s].req, row |-> row, code |-> code]]
    /\ UNCHANGED <<requested, answers>>

\* done_guard sends the response; the client may have stopped waiting for it.
Answer(s) ==
    /\ session[s].pc = "replied"
    /\ answers' = answers \cup {[req |-> session[s].req, code |-> session[s].code]}
    /\ session' = [session EXCEPT ![s] = IdleSession]
    /\ UNCHANGED <<devices, nextId, requested, intended, overlapped>>

Serving(s, op) == session[s].pc = "begun" /\ session[s].req.op = op

-----------------------------------------------------------------------------
(* CreateDevice *)

Complete(req) == req.device_id # Empty /\ req.named

RejectCreate(s) ==
    /\ Serving(s, "CreateDevice")
    /\ ~Complete(session[s].req)
    /\ Reply(s, 400, NoRow)
    /\ UNCHANGED <<devices, nextId, intended, overlapped>>

\* query_one found the device: 409, for this error text and no other.
CreateFindsDevice(s) ==
    /\ Serving(s, "CreateDevice")
    /\ Complete(session[s].req)
    /\ RowsOf(session[s].req.device_id) # {}
    /\ Reply(s, 409, NoRow)
    /\ UNCHANGED <<devices, nextId, intended, overlapped>>

CreateFindsNone(s) ==
    /\ Serving(s, "CreateDevice")
    /\ Complete(session[s].req)
    /\ RowsOf(session[s].req.device_id) = {}
    /\ session' = [session EXCEPT ![s] = [pc |-> "queried", req |-> session[s].req,
                                          row |-> NoRow, code |-> 0]]
    /\ UNCHANGED <<devices, nextId, requested, history>>

Creating(s) == session[s].pc = "queried" /\ session[s].req.op = "CreateDevice"

\* Mutant: without the unique index the row of the device is replaced.
PersistReplacing(s) ==
    LET row == NewRow(session[s].req, nextId) IN
    /\ Creating(s)
    /\ devices' = (devices \ RowsOf(row.device_id)) \cup {row}
    /\ nextId' = nextId + 1
    /\ Reply(s, 0, row)
    /\ intended' = [intended EXCEPT ![row.device_id] = row.fields]
    /\ UNCHANGED overlapped

\* persist and commit. A commit may be done although its caller reads an error.
Persist(s) ==
    LET row == NewRow(session[s].req, nextId) IN
    /\ Creating(s)
    /\ RowsOf(row.device_id) = {}
    /\ devices' = devices \cup {row}
    /\ nextId' = nextId + 1
    /\ \/ Reply(s, 0, row)
       \/ Reply(s, 400, NoRow)
    /\ intended' = [intended EXCEPT ![row.device_id] = row.fields]
    /\ UNCHANGED overlapped

\* Another create came in between: the unique index refuses the row. The error is
\* MySQL's, so the answer is 400. The key is used up.
DuplicateKey(s) ==
    /\ Creating(s)
    /\ RowsOf(session[s].req.device_id) # {}
    /\ nextId' = nextId + 1
    /\ Reply(s, 400, NoRow)
    /\ UNCHANGED <<devices, intended, overlapped>>

-----------------------------------------------------------------------------
(* UpdateDevice *)

RejectUpdate(s) ==
    /\ Serving(s, "UpdateDevice")
    /\ session[s].req.device_id = Empty
    /\ Reply(s, 400, NoRow)
    /\ UNCHANGED <<devices, nextId, intended, overlapped>>

\* Mutant: the entity is not checked for null.
UpdateUnchecked(s) ==
    /\ Serving(s, "UpdateDevice")
    /\ session[s].req.device_id # Empty
    /\ RowsOf(session[s].req.device_id) = {}
    /\ session' = [session EXCEPT ![s] = [pc |-> "queried", req |-> session[s].req,
                                          row |-> NoRow, code |-> 0]]
    /\ UNCHANGED <<devices, nextId, requested, history>>

UpdateFindsNone(s) ==
    /\ Serving(s, "UpdateDevice")
    /\ session[s].req.device_id # Empty
    /\ RowsOf(session[s].req.device_id) = {}
    /\ Reply(s, 404, NoRow)
    /\ UNCHANGED <<devices, nextId, intended, overlapped>>

UpdateReads(s) ==
    /\ Serving(s, "UpdateDevice")
    /\ session[s].req.device_id # Empty
    /\ \E row \in RowsOf(session[s].req.device_id) :
          session' = [session EXCEPT ![s] = [pc |-> "queried", req |-> session[s].req,
                                             row |-> row, code |-> 0]]
    /\ UNCHANGED <<devices, nextId, requested, history>>

Patched(row, patch) ==
    [id |-> row.id, device_id |-> row.device_id, hash |-> row.hash,
     protocol |-> row.protocol, fields |-> Patch(row.fields, patch)]

\* update and commit: the whole copy is written back over the row of its key.
Write(s) ==
    LET copy  == session[s].row
        patch == session[s].req.fields
        row   == Patched(copy, patch)
    IN
    /\ session[s].pc = "queried" /\ session[s].req.op = "UpdateDevice"
    /\ devices' = {r \in devices : r.id # row.id} \cup {row}
    /\ \/ Reply(s, 0, row)
       \/ Reply(s, 400, NoRow)
    /\ intended' = [intended EXCEPT ![row.device_id] =
                     [f \in Field |-> IF patch[f] = Empty THEN @[f] ELSE row.fields[f]]]
    /\ overlapped' = IF copy \in devices THEN overlapped ELSE overlapped \cup {row.device_id}
    /\ UNCHANGED nextId

-----------------------------------------------------------------------------
(* GetDevice, ListDevices, VerifyDeviceAccess: one query each *)

GetDevice(s) ==
    /\ Serving(s, "GetDevice")
    /\ \/ \E row \in RowsOf(session[s].req.device_id) : Reply(s, 0, row)
       \/ RowsOf(session[s].req.device_id) = {} /\ Reply(s, 404, NoRow)
    /\ UNCHANGED <<devices, nextId, intended, overlapped>>

\* The answer is always 0; one of the rows, if any, stands for the page.
ListDevices(s) ==
    /\ Serving(s, "ListDevices")
    /\ \/ \E row \in devices : Matches(row, session[s].req) /\ Reply(s, 0, row)
       \/ Reply(s, 0, NoRow)
    /\ UNCHANGED <<devices, nextId, intended, overlapped>>

\* Mutant: the credentials are not compared.
VerifyAnyToken(s) ==
    /\ Serving(s, "VerifyDeviceAccess")
    /\ \/ \E row \in RowsOf(session[s].req.device_id) : Reply(s, 0, row)
       \/ RowsOf(session[s].req.device_id) = {} /\ Reply(s, 403, NoRow)
    /\ UNCHANGED <<devices, nextId, intended, overlapped>>

VerifyDeviceAccess(s) ==
    LET req == session[s].req IN
    /\ Serving(s, "VerifyDeviceAccess")
    /\ \/ \E row \in RowsOf(req.device_id) : Allowed(row, req) /\ Reply(s, 0, row)
       \/ /\ \A row \in RowsOf(req.device_id) : ~Allowed(row, req)
          /\ Reply(s, 403, NoRow)
    /\ UNCHANGED <<devices, nextId, intended, overlapped>>

-----------------------------------------------------------------------------
(* Failures *)

\* The code a handler answers with when ODB throws before anything is committed.
\* get() takes it for "not found", list() for an empty table.
ErrorCode(op) ==
    CASE op \in {"CreateDevice", "UpdateDevice"} -> 400
      [] op = "GetDevice"                        -> 404
      [] op = "ListDevices"                      -> 0
      [] op = "VerifyDeviceAccess"               -> 403

DatabaseFails(s) ==
    /\ session[s].pc \in {"begun", "queried"}
    /\ Reply(s, ErrorCode(session[s].req.op), NoRow)
    /\ UNCHANGED <<devices, nextId, intended, overlapped>>

\* The process ends and is started again; MySQL rolls back what was open.
Crash ==
    /\ session' = [s \in Session |-> IdleSession]
    /\ UNCHANGED <<devices, nextId, requested, history>>

-----------------------------------------------------------------------------
SessionStep(s) ==
    \/ RejectCreate(s) \/ CreateFindsDevice(s) \/ CreateFindsNone(s)
    \/ Persist(s) \/ DuplicateKey(s)
    \/ RejectUpdate(s) \/ UpdateFindsNone(s) \/ UpdateReads(s) \/ Write(s)
    \/ GetDevice(s) \/ ListDevices(s) \/ VerifyDeviceAccess(s)
    \/ DatabaseFails(s)

\* Everything but the arrival of a request.
Step ==
    \/ \E s \in Session : SessionStep(s) \/ Answer(s)
    \/ Crash

Next == (\E s \in Session, req \in Request : Begin(s, req)) \/ Step

Spec == Init /\ [][Next]_vars

-----------------------------------------------------------------------------
(* Properties *)

Credential == Digest \X Protocol
Registered == [d \in DeviceId |-> {<<r.hash, r.protocol>> : r \in RowsOf(d)}]
Registry == INSTANCE DeviceRegistry WITH registered <- Registered

\* The service is a write-once registry of credentials: whatever creates, updates
\* and crashes interleave, a device gets one set of credentials, that of the create
\* that won, and no later request replaces or removes it.
RegistrySpec == Registry!Spec

\* What a client was told, or is being told, stays true after the session that
\* computed it has ended: a device of which a client was told that it was created
\* (0 or 409), read, updated or verified (0) is in the table, a verified one has the
\* credentials it was verified with, and only one client is told that it created a
\* device. A 404 or 403 claims nothing: the code gives it for database errors too.
Told == answers \cup {[req |-> session[s].req, code |-> session[s].code] :
                        s \in {t \in Session : session[t].pc = "replied"}}
AnswersStayTrue ==
    \A a \in Told :
        /\ a.req.op = "CreateDevice" /\ a.code \in {0, 409} => RowsOf(a.req.device_id) # {}
        /\ a.req.op \in {"GetDevice", "UpdateDevice"} /\ a.code = 0 =>
              RowsOf(a.req.device_id) # {}
        /\ a.req.op = "VerifyDeviceAccess" /\ a.code = 0 =>
              \E r \in RowsOf(a.req.device_id) : r.hash = Hash[a.req.token]
        /\ a.req.op = "CreateDevice" /\ a.code = 0 =>
              \A b \in Told : b.code = 0 /\ b.req.op = "CreateDevice"
                              /\ b.req.device_id = a.req.device_id => b.req = a.req

\* A row is what its create and all its updates made of it, field by field: an
\* update changes only the fields it sets. The exception is an update that wrote
\* back a copy another one had made out of date (there is no version column and no
\* lock on the read): it may restore what the other had changed.
PatchesSurvive ==
    \A r \in devices : r.device_id \notin overlapped => r.fields = intended[r.device_id]
=============================================================================
