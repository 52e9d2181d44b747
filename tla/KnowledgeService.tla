-------------------------- MODULE KnowledgeService --------------------------
(***************************************************************************)
(* The knowledge service (services/knowledge_service): the table           *)
(* `knowledge_documents', the handlers that create, read, list and search  *)
(* documents, and RequestKnowledgeIndex.                                   *)
(*                                                                         *)
(* RequestKnowledgeIndex is three steps in three systems: it reads the     *)
(* document from MySQL, posts a copy of it to the RAG service (RagClient)  *)
(* and announces the task on RabbitMQ.  Here the RAG service answers or it *)
(* does not; KnowledgeRag puts RagIndex in its place.                      *)
(*                                                                         *)
(* Outside src/, modelled from its use: MySQL, ODB, the exchange and the   *)
(* wall clock as in EventService.                                          *)
(***************************************************************************)
EXTENDS Integers, Sequences

CONSTANTS
    Topic,            \* what filters and queries tell documents apart by
    Empty,            \* the empty string: no filter, no query
    Request,          \* the requests of a behaviour
    NoRequest,
    Session,          \* brpc workers
    Now,              \* values currentUnixMillis() may return
    PublisherConfigured \* DEVICEOPS_RABBITMQ_ENABLED

Op == {"CreateKnowledgeDocument", "GetKnowledgeDocument", "ListKnowledgeDocuments",
       "SearchKnowledge", "RequestKnowledgeIndex"}

\* `document' names a row as a client does that has seen it before: by the request
\* that created it. complete: title, category and content are present; blank: the
\* title or the content has nothing but white space in it.
ASSUME RequestAssumption ==
    /\ Request \subseteq [id : Nat \ {0}, op : Op, complete : BOOLEAN, blank : BOOLEAN,
                          topic : Topic \cup {Empty}, document : Nat, force : BOOLEAN]
    /\ \A r1, r2 \in Request : r1.id = r2.id => r1 = r2
    /\ NoRequest \notin Request
ASSUME ConfigAssumption ==
    /\ Now \subseteq Nat \ {0} /\ PublisherConfigured \in BOOLEAN /\ Empty \notin Topic

\* by: the request that created the row; no row is ever changed.
Document == [document_id : Nat \X Nat, topic : Topic \cup {Empty}, blank : BOOLEAN, by : Nat]

\* A message of knowledge.document.index_requested; by is the request that sent it.
Task == [document_id : Nat \X Nat, by : Nat]

-----------------------------------------------------------------------------
VARIABLES
    documents,   \* the table
    sequence,    \* KnowledgeRepository::_sequence: 1 at every start of the process
    publisherUp, \* RabbitMqEventPublisher::enabled() of this process
    session,     \* what each worker is doing
    requested,   \* requests the clients have sent
    exchange,    \* what the exchange has accepted, in order
    answers,     \* history: what the clients were answered
    assured      \* history: requests sent about a document after a client was told 0
                 \* that it was created, except those the database has failed in

vars == <<documents, sequence, publisherUp, session, requested, exchange, answers, assured>>

Code == {0, 400, 404, 503}
Pc == {"idle", "begun", "indexing", "publishing", "replied"}
AtMostOne(set) == \A x, y \in set : x = y

\* row: the document a worker has read or made, if any.
IdleSession == [pc |-> "idle", req |-> NoRequest, row |-> {}, code |-> 0]

TypeOK ==
    /\ documents \subseteq Document
    /\ sequence \in Nat
    /\ publisherUp \in BOOLEAN
    /\ session \in [Session -> [pc : Pc, req : Request \cup {NoRequest},
                                row : SUBSET Document, code : Code]]
    /\ \A s \in Session :
          /\ AtMostOne(session[s].row)
          /\ session[s].pc \in {"indexing", "publishing"} => session[s].row # {}
    /\ requested \subseteq Request
    /\ exchange \in Seq(Task)
    /\ answers \subseteq [req : Request, code : Code, row : SUBSET Document]
    /\ assured \subseteq Request

\* The constructor of the publisher: it is configured and has its client, or not.
Publisher == {PublisherConfigured, FALSE}

Init ==
    /\ documents = {} /\ sequence = 1
    /\ publisherUp \in Publisher
    /\ session = [s \in Session |-> IdleSession]
    /\ requested = {} /\ exchange = <<>> /\ answers = {} /\ assured = {}

-----------------------------------------------------------------------------
(* Requests and answers *)

Serving(s, op) == session[s].pc = "begun" /\ session[s].req.op = op

Move(s, pc, row, code) ==
    /\ session' = [session EXCEPT ![s] =
                    [pc |-> pc, req |-> session[s].req, row |-> row, code |-> code]]
    /\ UNCHANGED <<publisherUp, requested, answers>>

Reply(s, code, row) == Move(s, "replied", row, code)
Read == UNCHANGED <<documents, sequence, exchange, assured>>

ToldCreated(id) ==
    \E a \in answers : a.req.op = "CreateKnowledgeDocument" /\ a.code = 0 /\ a.req.id = id

Begin(s, req) ==
    /\ session[s].pc = "idle"
    /\ req \notin requested
    /\ requested' = requested \cup {req}
    /\ session' = [session EXCEPT ![s] =
                    [pc |-> "begun", req |-> req, row |-> {}, code |-> 0]]
    /\ assured' = IF ToldCreated(req.document) THEN assured \cup {req} ELSE assured
    /\ UNCHANGED <<documents, sequence, publisherUp, exchange, answers>>

\* done_guard sends the response.
Answer(s) ==
    /\ session[s].pc = "replied"
    /\ answers' = answers \cup {[req |-> session[s].req, code |-> session[s].code,
                                 row |-> session[s].row]}
    /\ session' = [session EXCEPT ![s] = IdleSession]
    /\ UNCHANGED <<documents, sequence, publisherUp, requested, exchange, assured>>

-----------------------------------------------------------------------------
(* CreateKnowledgeDocument *)

Complete(req) == req.complete

RejectDocument(s) ==
    /\ Serving(s, "CreateKnowledgeDocument")
    /\ ~Complete(session[s].req)
    /\ Reply(s, 400, {}) /\ Read

NewDocument(req, now) ==
    [document_id |-> <<now, sequence>>, topic |-> req.topic, blank |-> req.blank, by |-> req.id]

DocumentIdTaken(id) == \E d \in documents : d.document_id = id

\* persist and commit: the row is in, although the caller may read an error; or the
\* unique index refuses a document_id of a process that ran at the same time by the
\* clock.
PersistDocument(s) ==
    /\ Serving(s, "CreateKnowledgeDocument")
    /\ Complete(session[s].req)
    /\ sequence' = sequence + 1
    /\ \E now \in Now :
          LET document == NewDocument(session[s].req, now) IN
          \/ /\ ~DocumentIdTaken(document.document_id)
             /\ documents' = documents \cup {document}
             /\ Reply(s, 0, {document}) \/ Reply(s, 400, {})
          \/ /\ DocumentIdTaken(document.document_id)
             /\ Reply(s, 400, {})
             /\ UNCHANGED documents
    /\ UNCHANGED <<exchange, assured>>

-----------------------------------------------------------------------------
(* The reads: one query each *)

\* query_one by the document_id of the document the client has seen.
DocumentsNamed(req) ==
    {d \in documents : \E seen \in documents : /\ seen.by = req.document
                                               /\ d.document_id = seen.document_id}

GetDocument(s) ==
    /\ Serving(s, "GetKnowledgeDocument")
    /\ \/ \E d \in DocumentsNamed(session[s].req) : Reply(s, 0, {d})
       \/ DocumentsNamed(session[s].req) = {} /\ Reply(s, 404, {})
    /\ Read

\* An empty filter or query matches every row; all rows are "active". The answer is
\* always 0; one of the rows that match, if any, stands for the page, or for the
\* first top_k.
Matches(row, req) == req.topic \in {Empty, row.topic}

ListDocuments(s) ==
    /\ Serving(s, "ListKnowledgeDocuments") \/ Serving(s, "SearchKnowledge")
    /\ \/ \E d \in documents : Matches(d, session[s].req) /\ Reply(s, 0, {d})
       \/ Reply(s, 0, {})
    /\ Read

-----------------------------------------------------------------------------
(* RequestKnowledgeIndex *)

IndexReads(s) ==
    /\ Serving(s, "RequestKnowledgeIndex")
    /\ \E d \in DocumentsNamed(session[s].req) : Move(s, "indexing", {d}, 0)
    /\ Read

IndexFindsNone(s) ==
    /\ Serving(s, "RequestKnowledgeIndex")
    /\ DocumentsNamed(session[s].req) = {}
    /\ Reply(s, 404, {}) /\ Read

\* POST /index outside any transaction: an answer 2xx with a task_id arrives ...
RagAccepts(s) ==
    /\ session[s].pc = "indexing"
    /\ Move(s, IF publisherUp THEN "publishing" ELSE "replied", session[s].row, 0)
    /\ Read

\* Mutant: the handler goes on after the error.
RagFailsUnseen(s) ==
    /\ session[s].pc = "indexing"
    /\ Move(s, IF publisherUp THEN "publishing" ELSE "replied", session[s].row, 503)
    /\ Read

\* ... or the call times out, fails, is refused or answered with something else.
RagFails(s) ==
    /\ session[s].pc = "indexing"
    /\ Reply(s, 503, {}) /\ Read

\* publishKnowledgeIndexRequested, one call of the client under the publisher's
\* mutex; when the broker refuses it, the handler only logs.
Publish(s) ==
    /\ session[s].pc = "publishing"
    /\ \/ \E d \in session[s].row :
             exchange' = Append(exchange, [document_id |-> d.document_id,
                                           by |-> session[s].req.id])
       \/ UNCHANGED exchange
    /\ Reply(s, session[s].code, session[s].row)
    /\ UNCHANGED <<documents, sequence, assured>>

-----------------------------------------------------------------------------
(* Failures *)

\* Mutant: the error of a create is lost.
ErrorCodeLost(s) ==
    IF session[s].req.op \in {"GetKnowledgeDocument", "RequestKnowledgeIndex"} THEN 404 ELSE 0

ErrorCode(s) ==
    CASE session[s].req.op \in {"GetKnowledgeDocument", "RequestKnowledgeIndex"} -> 404
      [] session[s].req.op = "CreateKnowledgeDocument"                           -> 400
      [] OTHER                                                                   -> 0

\* ODB throws and nothing was committed; what was to be created has used its number.
DatabaseFails(s) ==
    /\ session[s].pc = "begun"
    /\ session[s].req.op = "CreateKnowledgeDocument" => Complete(session[s].req)
    /\ sequence' = IF Serving(s, "CreateKnowledgeDocument") THEN sequence + 1 ELSE sequence
    /\ Reply(s, ErrorCode(s), {})
    /\ assured' = assured \ {session[s].req}
    /\ UNCHANGED <<documents, exchange>>

\* The process ends and is started again.
Crash ==
    /\ session' = [s \in Session |-> IdleSession]
    /\ sequence' = 1
    /\ publisherUp' \in Publisher
    /\ UNCHANGED <<documents, requested, exchange, answers, assured>>

-----------------------------------------------------------------------------
\* What a worker does without the RAG service.
LocalStep(s) ==
    \/ RejectDocument(s) \/ PersistDocument(s)
    \/ GetDocument(s) \/ ListDocuments(s)
    \/ IndexReads(s) \/ IndexFindsNone(s) \/ Publish(s)
    \/ DatabaseFails(s) \/ Answer(s)

Next ==
    \/ \E s \in Session, req \in Request : Begin(s, req)
    \/ \E s \in Session : LocalStep(s) \/ RagAccepts(s) \/ RagFails(s)
    \/ Crash

Spec == Init /\ [][Next]_vars

-----------------------------------------------------------------------------
(* Properties *)

\* A client told 0 can get the document it created, by the id it was told, and no
\* other, whatever clock and sequence the processes since have had; what was found is
\* what its creator sent; and once a client has been told 0 that a document was
\* created, nobody who asks for it is told 404, unless the database fails in that very
\* request.
AnswersAreTrue ==
    \A a \in answers :
        /\ a.req.op = "CreateKnowledgeDocument" /\ a.code = 0 =>
              \E d \in a.row : /\ {e \in documents : e.document_id = d.document_id} = {d}
                               /\ d.by = a.req.id
        /\ a.req.op \in {"GetKnowledgeDocument", "RequestKnowledgeIndex"} /\ a.code = 0 =>
              \E d \in a.row : d \in documents /\ d.by = a.req.document
        /\ a.code = 404 => a.req \notin assured
=============================================================================
