# A verification project for DeviceOps

DeviceOps is a set of C++ services (brpc, MQTT, MySQL through ODB, Redis,
Elasticsearch, RabbitMQ), a Python RAG server, a device simulator and a Qt
client. This directory holds TLA+ modules translated from its source, TLC
configurations that check them on small instances, and proofs that TLAPS checks
for every value of the constants.

    tlc -config MCGateway.cfg MCGateway.tla     # any run of the table below
    tlapm GatewayProofs.tla                     # any *Proofs module

## 1. Inventory

    simulator/device --MQTT QoS 1--> device_gateway --brpc--> device_service ----> MySQL
                                          |--> telemetry_service --> memory, Redis, RabbitMQ
                                          |--> event_service ------> MySQL, RabbitMQ
                                          '--> log_service --------> Elasticsearch, memory, RabbitMQ
    qt_client --HTTP/JSON RPC--> all services
    knowledge_service, diagnosis_service --HTTP--> rag_service (Python, in memory); --> MySQL, RabbitMQ

| Part | State | Operations | What is hard |
|---|---|---|---|
| device_gateway | MQTT session, counters per message type, view of connected devices | handleMqttMessage (parse, update view, forward in one or two calls, count), start, stop, three queries | several callback threads; calls that time out but are executed; exceptions that end a callback; redelivery; restart loses counters and view |
| device_service | table `devices` (unique device_id) | CreateDevice, UpdateDevice, GetDevice, ListDevices, VerifyDeviceAccess | create/create race, ambiguous commit, read-modify-write without a lock |
| event_service | table `events`, id sequence, publisher | CreateEvent, GetEvent, ListEvents, UpdateEventStatus | commit, publish, answer in this order without a common transaction; redelivered alarms; id sequence restarts |
| telemetry_service | last report and history per device in memory, two Redis keys per device, publisher | UploadTelemetry, GetRealtime, ListRealtime, QueryHistory | Redis written outside the mutex in two steps; clocks; restart |
| log_service | one Elasticsearch index per month, recent list in memory, id sequence | WriteLog, QueryLogs, GetLogContext | refresh delay, two critical sections with a remote call between, repeated log ids, one index per search |
| rag_service | DOCUMENTS and CHUNKS in memory | /index, /retrieve, /diagnose | a thread per request on shared lists without a lock |
| knowledge_service | table of documents (never updated) | Create, Get, List, Search, RequestKnowledgeIndex | a 503 for an indexing that goes on, a request repeated while the first is at work; id sequence restarts |
| diagnosis_service | tables of faults and reports | CreateFault, Get/List, StartDiagnosis, ConfirmDiagnosisReport | a slow call between read and write, repeated requests, status set whatever it was |
| RabbitMQ publisher (common) | one connection under a mutex | one publish per message | best effort; comes up once per process or not at all |
| ODB helper (common) | - | creates missing tables at start | sequential |
| simulator | message counter | publishes register, telemetry, heartbeat, alarm, log | reuses ids after a restart |
| qt_client | page, tables filled from replies, selected rows, filters, requests outstanding | timer, refreshes of eight pages, nine buttons | replies out of order or too late, refreshes while a dialog is open, selection reset by a refresh |

What makes each part correct, in a sentence:

- gateway: every message received is accounted for once; only what a service accepted
  counts as forwarded; nothing invalid is sent on; nothing is listed that was not heard of.
- devices: a device id is given once and its credentials never change; an update changes
  the fields it names and no others.
- events: an event is announced at most once and the missing announcements are explained
  by a failure; an id names one event; a resolved event has its time.
- telemetry: Redis holds what the memory holds once nobody is writing; an accepted report
  is found; offline messages follow offline reports.
- logs: an accepted log is indexed; it is found at once, refreshed or not; no answer
  lists a log twice.
- diagnoses: a report of a fault names that fault and no other; a task that is announced
  exists; a failed diagnosis leaves nothing behind; a verdict is only undone by another.
- rag: outside exactly described races the index holds each document's chunks once and in
  order; a search sees a consistent list; cutting a text loses nothing.
- knowledge: a document is found by the id its creator was told, whatever restarts
  and clocks, and nobody is told 404 of it later unless the database fails; an index request answered 0 leads to a searchable document, one answered
  404 or 503 to no announcement.
- Qt client: a button acts on the row that was picked, or visibly on the first row of a
  table filled anew; a late reply never undoes a newer one it did not overlap; an open
  page comes to show what the services hold.

`PROJECT.json` lists the hazards at their lines with the properties that cover them.
Some races are lost by the code and the history variables say where: `overlapped` (an
update that writes back an old copy), `abandoned` and `unannounced` (a crash or an
exception before the count or the announcement), `unsynced` (overlapping uploads, failing
Redis writes), `suspect` (overlapping rebuilds), `stale` and `crossed` (a table filled
before the button, replies that overtake each other). The properties exempt exactly what
these hold: such a hazard is named, and everything outside of it is shown to be intact; the
loss itself is not excluded, since the code does suffer it.

## 2. Modules

| Module | Models | Composed from |
|---|---|---|
| `Gateway` | device_gateway with its broker and the services as they look from it | |
| `DeviceService` | device_service over its table | refines `DeviceRegistry` |
| `DeviceRegistry` | abstract: a write-once map from device ids to credentials | |
| `EventService` | event_service, its table, the exchange | |
| `TelemetryService` | telemetry_service, memory and Redis | |
| `LogService` | log_service, Elasticsearch as two sets (indexed, searchable), the recent list | |
| `DiagnosisService` | diagnosis_service, its two tables, the RAG call between them, the exchange | |
| `RagIndex` | rag_service: threads of /index and /retrieve on DOCUMENTS and CHUNKS | |
| `KnowledgeService` | knowledge_service, its table and the exchange; the RAG service answers or does not | |
| `KnowledgeRag` | the two services together: RagClient::requestIndex between them | `KnowledgeService`, `RagIndex` |
| `QtClient` | MainWindow and HttpClient of qt_client, with the services as rows that calls list and change | |
| `ChunkText` | chunk_text of rag_service as a loop | |
| `MC*` | instances: workloads (sets of requests of one behaviour) and bounds | the module of that name |
| `GatewayProofs`, `DeviceServiceProofs`, `EventServiceProofs`, `TelemetryServiceProofs`, `LogServiceProofs`, `DiagnosisServiceProofs`, `KnowledgeRagProofs` (and of ChunkText), `QtClientProofs` | theorems | the module of that name |

### How state and actions correspond to the code

A brpc handler, an MQTT callback or a Python thread is a *session* (`handler`,
`session`, `thread`): a record with a program counter `pc` that names the place the code
has reached, and the values it holds there. Between two places lie the calls that others
can come between: a database transaction, a Redis or Elasticsearch call, a publish, a
critical section. What the code does within one critical section or one transaction is
one action. Where the code answers, `answers` records what the client was told; this and
the other variables marked `history` are never read by a guard of the code's actions.
Requests carry an `id`, a name for the one call that a client makes; it is no value of the
code, and rows remember in `by` which request made them.

*Gateway.* `Deliver` is the start of handleMqttMessage (it counts the message as
received); `ParsePayload`, `Drop`, `Abandon` (an exception), `UpdateDeviceView`, then
`CallService`, `CallFails`, `Conflict`, `VerifyRegistered`, `ReplyOk`, `ReplyError` are
parsePayload and the forwarder's branches. `Execute` and `ExecuteLate` are the service's
side of a call, the second after the gateway stopped waiting; each is numbered in
`acknowledged`, so a redelivered message counts once for every time it was accepted. The broker keeps a message
until the callback returned (QoS 1), delivers the messages of one topic in order, and may
deliver again after a reconnect. `Connect`, `StartServing`, `StopServing`, `Disconnect`
and `Crash` are start, stop and the death of the process.

*DeviceService.* A create is two transactions' worth of work: `CreateFindsDevice` or
`CreateFindsNone` (the query), then `Persist` or `DuplicateKey` (the unique index).
`UpdateReads` and `Write` are the two halves of UpdateDevice; `Write` stores the copy
that was read. `DatabaseFails` is any ODB exception, including the one after a commit
that took effect. `RegistrySpec` maps the table to `DeviceRegistry` by taking each row's
token digest and protocol.

*EventService.* `Persist`, `Publish`, `Answer` are the three steps of CreateEvent; ids
are pairs of the clock and `sequence`, which `Crash` resets, while the clock may stand or
be set back. Updates are `UpdateReads` and `Write` as for devices.

*TelemetryService.* `Store` is the critical section of upload; `SetStatus` and
`SetOnline` are the two Redis writes after it, `RedisFails` an exception in either;
`PublishStatus` and `PublishOffline` the messages. GetRealtime, ListRealtime and
QueryHistory are operators on the memory (they read under the mutex); a history query is
the set of the reports it lists. A key that was never written or is gone is `"absent"`.

*LogService.* `NextLogId` (first critical section, and normalize), `InsertToElastic` or
`InsertFails`, `Remember` (second critical section, which cuts the list), `Publish`. A
query is `SearchElastic` (one monthly index of what is searchable), `RecentSnapshot`
(merge by log_id) and `Page` (sort and cut). `Refresh` is Elasticsearch's. What a search
returns, and how a page is sorted where the times are equal, is any listing of the set
that the code leaves possible, without repetition.

*DiagnosisService.* StartDiagnosis is `ReadFault` (or `SkipFault`, or `FaultNotFound`),
`RagAnswers` or `RagFails` (DiagnosisRagClient::diagnose, in no transaction),
`PersistReport` or `RejectReport` (no device_id in the request or its fault), `Publish`.
ConfirmDiagnosisReport is `ConfirmReads` and `Write`. Ids are made as those of events, from
a sequence of their own each. The announced task carries the device the request named, as
the code does, which may be empty although the report has one.

*RagIndex.* The list comprehension of a rebuild is `FilterItem` per element,
`FilterEnds`, and the assignment `Replace`: the interpreter may switch threads between
any of them. `suspect` (history) holds the documents a race has struck, and IndexExact
says that all others are exact: it is the precise description of which overlaps harm.
`ChunksIn` is what a loop over a list finds of a document, and stands for a search of the
list as it is at one instant.

*KnowledgeService.* RequestKnowledgeIndex is `IndexReads` (or `IndexFindsNone`),
`RagAccepts` or `RagFails` (RagClient, in no transaction), and `Publish`; the other
handlers are one transaction each. *KnowledgeRag* puts RagIndex behind it: `Post` is the
request's arrival at a thread of the RAG service, and `IndexAccepted` needs its answer;
`IndexFails` needs nothing (the timeout of 3000 ms, a lost connection), so that the RAG
thread may go on for a caller that was told 503. Other clients of the RAG service's port
are `ArriveDirectly`. The two processes crash independently. `assured` (history) holds the
requests sent about a document after a client was told 0 that it was created; `DatabaseFails`
takes its request out again. A 404 for a request that is left in it would be a document lost.

*QtClient.* The GUI thread runs one callback at a time, so an action is a callback: the
timer (`Tick`), a button up to its request or its dialog (`Press`), the end of the dialog
(`CloseDialog`), and the finished signal of a reply (`FinishList`, `FinishAct`,
`FinishError`, `TimeOut`). `calls` are the requests outstanding, oldest first; a service
answers a list with the rows of that instant (`AnswerList`), and the reply is applied
whenever it arrives. QDialog::exec runs the event loop, so everything but the engineer
goes on while a dialog is open. `picked`, `stale`, `crossed` and `at` are history.

## 3. Runs

| Run | Question | Result |
|---|---|---|
| gateway | accounting, forwarding, validation and the view under failures and redelivery; is a message the broker owes handled in the end | holds |
| device | credentials written once, answers stay true, patches survive; refinement of `DeviceRegistry` | holds |
| event | announced once or accounted for, unique ids and rows, resolved_at | holds |
| event_redelivery | one event per alarm (docs/03_design.md:90, :626) | violated: a redelivered alarm makes a second event |
| telemetry | Redis follows memory, accepted reports are found, offline messages | holds |
| telemetry_online | online key means online (docs/03_design.md:393, :403) | violated: the key has no expiry |
| log | accepted logs are indexed and found, no duplicates | holds |
| diagnosis | reports name their fault, announced tasks exist, answers are true, verdicts stand | holds |
| knowledge_rag | document ids across restarts, what a client told 0 or 503 may rely on, exactness of the index outside described races, consistent searches, announced tasks | holds |
| rag_lost | an indexing answered "indexed" is there (docs/07_agent_rag_design.md:35) | violated: two rebuilds at once lose chunks |
| qt_client | which row a button acts on, which reply may take a table back, does the open page catch up (docs/05_qt_frontend_development_guide.md:633) | holds |
| chunk_text | phrases whole, chunks advance, the loop ends | holds |

### Bounds

All bounds are in the MC modules and cfg files. A *workload* is the set of requests of one
behaviour; a run explores every workload, each request at most once (a redelivery is the
broker's or a second request).

- Two sessions (three threads of the RAG service): every race in the code is between two handlers, and a
  third only matters where a second rebuild is needed to undo or redo what two did.
- Gateway: two messages per workload, three where heartbeats and a log interact, one clock
  value, two broker sessions (`MaxSessions`), enough for one crash with redelivery. The
  timestamps -1, 0, in range and above `MaxInt64` are the four cases parsePayload tells apart.
- DeviceService: one device besides the empty id, two tokens with different digests, two
  fields (status, whose strings are converted, and a plain one). More devices do not
  interact: every statement concerns one row.
- EventService: three alarms, two clock values, so that ids repeat after a restart.
- TelemetryService: a clock of a few ticks and a timeout of one: a report can be fresh,
  on the edge, stale, or from the future.
- LogService: two months, `MaxQuerySize` 2, so that the recent list overflows in the
  workload of three writes; clients repeat an id within a month and across months.
- DiagnosisService: two faults, and diagnoses with and without
  a device, an event and a fault named; two verdicts on one report; two clock values.
- KnowledgeRag: documents of two and one chunks, `TopK` above them all, two clock values;
  two documents are stored by an earlier process that ran at the first of them, so that
  ids repeat. Sessions and threads are symmetric: no action or invariant tells them apart.
- QtClient: the event, fault and report tables with a row each, three requests
  outstanding, two writes and one button per behaviour: a refresh of both tables of the
  diagnosis page can overlap an older list of one of them. In the behaviours that open the
  window and change filters nothing is written; those on a page begin after a start at
  which no service answered. The other pages have one or more tables of the same kind.
- ChunkText: every length to 30 with chunk size 5 and overlap 2 (`MaxChunks` caps a loop
  that would not end; the loop of the code never reaches it).

`CHECK_DEADLOCK FALSE` is given for the gateway, which may be stopped for good, and for
ChunkText, whose loop ends.

### Fairness

Three runs assume any. `Fairness` of Gateway: weak fairness of each callback thread's
steps (the operating system runs it; a brpc call ends by its timeout, set in
downstream_forwarder.cc, whether or not the service answers) and of the delivery of what
the broker owes. Nothing makes a device publish, a service answer or anybody restart the
process, so the property excuses a message whose process is down or whose session was
discarded; it is checked of a registration and of the alarm (`EventuallyHandled` in
MCGateway), which may fail in the downstream service, be redelivered, and share the callback
threads with a wrong message.

`Fairness` of QtClient: the event loop runs, so the timer fires (`Tick`) and the oldest
request is over at some time, by its own QTimer at the latest (http_client.cpp:62-67).
No service need answer; that it answers some of the lists it is asked for, again and
again, is the hypothesis `Answering` of `CatchesUp`, as are the open page, the checked
box and the unchanged filter. ChunkText: weak fairness of the loop's iteration.

## 4. Proofs

Every theorem is `Spec => []Property` (or `SystemSpec`, for KnowledgeRag) unless it says
otherwise. Each module has one inductive invariant, `IInv` where no other name is given;
TLC has checked it on the instance of the run before it was proved. What makes the
properties themselves not inductive is nearly always the same: a handler holds a copy of
something while others go on, so the invariant says what the copy is still good for.

| Theorem | Statement | Argument |
|---|---|---|
| GatewayProofs `TypeCorrect` | TypeOK | TypeOK with the link between a callback's place and the message it holds is inductive |
| `AccountingHolds` | received = forwarded + dropped + failed + abandoned + running, per message type | the callbacks in flight of a type are a finite set that each action enlarges or shrinks by one, together with one counter |
| `OnlyValidReachServicesHolds` | nothing parsePayload rejects reaches a service | strengthened (`ValidInv`) by: a callback past the check holds a message that passes it, and one that made a call holds a message that needs it |
| `ListedWasReceivedHolds` | whatever is listed was received and has a heartbeat time | with type correctness: a running callback has been counted (Accounting), and only it writes the view |
| `ForwardedWasAcceptedHolds` | forwarded is at most the number of calls accepted, per type | strengthened (`ForwardedInv`): forwarded plus the callbacks that hold a good reply and have not counted it are at most the calls accepted; a crash loses the counters and the callbacks, not the calls |
| DeviceServiceProofs `TypeCorrect` | TypeOK | inductive |
| `ImplementsRegistry` | `Spec => RegistrySpec` | strengthened by: keys and device ids are unique in the table, and the copy an update holds has the identity and the credentials of a row; then only `Persist` moves the registry |
| `PatchesSurviveHolds` | a row not overwritten by a stale copy is what its creates and updates made of it | from `IInv`: a step inserts a row, writes back a copy that is in the table, or marks its device as overlapped |
| `AnswersStayTrueHolds` | what a client was told was created (0, 409), read, updated or granted (0) stays so; one creator per device | what was answered and what a session is about to answer are one set (`Told`), true of the table; the table's devices and credentials never go, so only the step that makes an answer up has to be looked at |
| EventServiceProofs `TypeCorrect`, `EventIdNamesOneHolds` | TypeOK; an answer with an event id is about the one event under it | every copy a session, an answer or a message holds has the identity of a row, whatever the row's status is by now; keys are unique, and so ids made twice by a repeating clock are refused |
| `AnnouncedOnceHolds`, `AccountedForHolds` | no event is announced twice; every stored event was announced, is about to be, or is known to have been lost | no two sessions announce the same event, and one that announces holds an event not announced so far |
| TelemetryServiceProofs `TypeCorrect` | TypeOK | inductive |
| `RedisFollowsMemoryHolds` | Redis holds what the memory holds once an upload ran through alone | of a device that is in step at most one session is between memory and Redis, it carries the latest report, and the keys it has passed hold that report |
| `AcceptedIsFoundHolds` | an accepted report is in a history query and its device in the realtime list; offline messages tell of reports that said so | a session past the critical section carries a report that the history has |
| LogServiceProofs `TypeCorrect`, `AcceptedIsIndexedHolds` | TypeOK; what was answered 0 or published is in the index of its month under its id | no index has two documents of one id, a session past the insertion has its document there; a document is replaced only by one of the same id |
| `WrittenIsFoundHolds` | while `_recent` has had room for every number taken, a query finds the matching logs acknowledged before it | a count: the recent logs and the writes still to be remembered are at most the numbers taken, so nothing was pushed out |
| `NoLogTwiceHolds` | no page and no context lists a log twice | merging by id keeps ids distinct, and so do sorting and cutting |
| DiagnosisServiceProofs `TypeCorrect`, `ReportsNameTheirFaultHolds` | TypeOK; a report names the fault its request asked for and takes from it what the request left open | the copy of the fault a session holds while it waits for the RAG service is the row itself: faults are never changed and their ids and requests are unique |
| `TasksAreReportsHolds`, `AnswersAreTrueHolds` | what is announced is a report, once; answers 0 have their row, answers 404 and 503 leave none | a request is served once by one session; a session that announces has a report that is not announced; an answer given or about to be given is borne out by the tables |
| `VerdictStandsHolds` | a status was asked for, and a verdict is undone only by another | a written-back copy is a report of the table in all but its status |
| KnowledgeRagProofs `SystemTypeCorrect` | the types of both services and of what is between them | `ServiceInv` and `RagInv` |
| `AnswersAreTrueHolds` | a client told 0 finds the document it made or asked for, and nobody is told 404 of it who asks after that, but for database errors | what an `assured` request asks for is stored; with that, `ServiceInv`, which is inductive for the knowledge service alone; every step of the whole is one of its steps or leaves it alone |
| `TasksAreIndexedHolds` | what is indexed and announced comes from the table | `SystemInv`: a request a worker posted is about a stored document that is not blank, or about none, and a worker that announces was answered about such a document |
| `IndexExactHolds` | the index is exact wherever no race has struck | `RagContent`: what each thread may rely on at each place. A loop of a rebuild has kept, of every other unharmed document, what a search of the prefix finds; who records finds none of its document, who appends finds the first pos - 1 chunks, provided the document is unharmed or the thread rebuilds alone; two threads work on one unharmed document never |
| `RetrievalIsSnapshotHolds` | a search crossed by no assignment has found what one at once would | from `RagContent`: appends leave the prefix a loop has passed |
| `ToldIsSearchableHolds` | a client told 0 by RequestKnowledgeIndex finds its document recorded, and complete outside races | from `SystemInv` (what is confirmed is recorded) and IndexExact |
| `CutTypeCorrect`, `PhrasesWholeHolds`, `ChunksAdvanceHolds` (`CutSpec => ...`) | the loop of chunk_text, for every length, size and smaller overlap | `LoopInv`: the next chunk starts Overlap characters before the end of the last, short phrases before that end are whole, each chunk reaches further than the one before |
| QtClientProofs `TypeCorrect`, `ActsAsShownHolds` | TypeOK; a button acts on the row that was picked unless its table was filled again before, and a diagnosis names a fault of the service with its own event | the picked row is the current one while its table was not filled again, the dialog and the request carry copies of both; every fault a table, a reply, a dialog or a request holds is among the rows of the service, which only grow and keep their events |
| `NewerStaysHolds` | `Spec => NewerStays`: only the reply of a list that crossed another of its view takes the view back | of two lists of a view that are waited for each has crossed the other, and the answer to one that crossed none is no older than what the view shows |

The proofs assume the named ASSUMEs of the modules only, which TLC evaluates in the runs:
types of the constants, unique names for the requests, finite sets of callback threads and of
log sessions (both are counted), Overlap < Size (server.py's defaults are 700 and 120), and
room among the client's requests for the lists it sends when the window is opened.

`ChunksIn` of RagIndex and `RowsIn` of QtClient are recursive functions. That their
equations have a solution for every list (`FindsExists`), that two lists with a common
prefix agree on the first, and that the second lists rows of the list, is proved by the
smallest counterexample (`Smallest`, from the well-foundedness of < on Nat), since an
induction theorem that takes a predicate cannot be used.

Only model-checked: the liveness properties `EventuallyHandled`, `ViewCatchesUp` and
`Terminates` (fairness and ENABLED are out of the prover's reach), and, since they fail,
what the three violated runs refute. Every invariant and action property of a passing run
has a theorem. Nothing in the project uses a RECURSIVE operator.

## 5. Not modelled

- `/diagnose`, the score of a chunk and the ranking: formatting and arithmetic on texts.
- Layout, formatting and the windows of details of the Qt client, and app_config: they
  change no state another step reads. A filter is a set of row ids, so a row that leaves
  a list because its status changed is not shown; the id a reply carries and not its
  wording decides every property.
- Table creation, configuration parsing, logging, wording of errors, the message envelope.
- Paging of the database-backed lists (abstracted to the set listed).
- The simulator's generator of values; the topology the publisher declares.
- How long a broker call may block: the repository does not say.

External code (MQTT client and broker, brpc, ODB and MySQL, Redis, Elasticsearch,
RabbitMQ) is modelled from how `src/` uses it; those actions are marked external in
`PROJECT.json`.

## 6. Plan

1. Done: the path of a device's message (Gateway, DeviceService, EventService,
   TelemetryService, LogService), DiagnosisService, the RAG index, knowledge_service
   composed with it, and the Qt client.
2. Done: theorems about every invariant and action property that a run checks.
3. An abstract specification of the log store (a set of logs and what a query must find)
   refined by LogService; one of the alarm outbox refined by EventService.
4. An operator module for paging in 32 bits, checked against its definition over integers.
