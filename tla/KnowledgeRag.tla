----------------------------- MODULE KnowledgeRag -----------------------------
(***************************************************************************)
(* The knowledge service and the RAG service together.  The index requests *)
(* of RagIndex are the POSTs of RequestKnowledgeIndex (RagClient), with    *)
(* the copy of the document the handler has read; the answers of RagIndex  *)
(* are what RagClient waits for, for at most DEVICEOPS_RAG_TIMEOUT_MS.     *)
(*                                                                         *)
(* Neither side knows how the other fares: a thread of the RAG service     *)
(* goes on when the caller has given up or is down, and the index is gone  *)
(* when the RAG service is started again.                                  *)
(*                                                                         *)
(* The RAG service keys by document_id; here a document is known by the    *)
(* request that created it, which AnswersAreTrue shows to be the same.     *)
(***************************************************************************)
EXTENDS KnowledgeService

CONSTANTS
    NumChunks, \* for the request that creates a document, its number of chunks
    TopK,
    Direct,    \* the requests other HTTP clients send: POST /index and /retrieve
    Thread     \* the threads of the RAG service

VARIABLES
    ragDocuments, ragChunks, ragThread, ragRequested, ragAnswers, ragSuspect,
    confirmed  \* history: the documents whose index request RagClient has reported as
               \* accepted, since the RAG service was started

rag == <<ragDocuments, ragChunks, ragThread, ragRequested, ragAnswers, ragSuspect>>
systemVars == <<vars, rag, confirmed>>

Creation == {req \in Request : req.op = "CreateKnowledgeDocument"}
Doc == {req.id : req \in Creation}
NoDoc == 0
IndexRequest == [id : {req.id : req \in Request}, path : {"/index"}, doc : Doc \cup {NoDoc},
                 force_rebuild : BOOLEAN]

Rag == INSTANCE RagIndex WITH
    Request <- IndexRequest \cup Direct,
    documents <- ragDocuments, chunks <- ragChunks, thread <- ragThread,
    requested <- ragRequested, answers <- ragAnswers, suspect <- ragSuspect

ASSUME RagAssumption == Rag!RequestAssumption

SystemTypeOK == TypeOK /\ Rag!TypeOK /\ confirmed \subseteq Doc

SystemInit == Init /\ Rag!Init /\ confirmed = {}

-----------------------------------------------------------------------------
(* RagClient::requestIndex *)

\* toJsonBody: handle_index strips the title and the content, so a blank one is none.
Body(s) ==
    LET document == CHOOSE d \in session[s].row : TRUE IN
    [id |-> session[s].req.id, path |-> "/index",
     doc |-> IF document.blank THEN NoDoc ELSE document.by,
     force_rebuild |-> session[s].req.force]

Post(s, t) ==
    /\ session[s].pc = "indexing"
    /\ Rag!Begin(t, Body(s))
    /\ UNCHANGED <<vars, confirmed>>

\* Mutant: the status of the HTTP answer is not looked at.
AnyStatus(status) == TRUE
Is2xx(status) == status \in {"indexed", "skipped"}

IndexAccepted(s) ==
    /\ RagAccepts(s)
    /\ \E a \in ragAnswers : a.req = Body(s) /\ Is2xx(a.status)
    /\ confirmed' = confirmed \cup {Body(s).doc}
    /\ UNCHANGED rag

\* No connection, the timeout, a status that is not 2xx, or the RAG service ends.
IndexFails(s) == RagFails(s) /\ UNCHANGED <<rag, confirmed>>

ArriveDirectly(t, req) == Rag!Begin(t, req) /\ UNCHANGED <<vars, confirmed>>

RagStep(t) == Rag!ThreadStep(t) /\ UNCHANGED <<vars, confirmed>>

RagRestart == Rag!Restart /\ confirmed' = {} /\ UNCHANGED vars

-----------------------------------------------------------------------------
\* Everything but the arrival of a request of a client.
SystemStep ==
    \/ \E s \in Session : LocalStep(s) /\ UNCHANGED <<rag, confirmed>>
    \/ Crash /\ UNCHANGED <<rag, confirmed>>
    \/ \E s \in Session, t \in Thread : Post(s, t)
    \/ \E s \in Session : IndexAccepted(s) \/ IndexFails(s)
    \/ \E t \in Thread : RagStep(t)
    \/ RagRestart

Arrive(s, req) == Begin(s, req) /\ UNCHANGED <<rag, confirmed>>

SystemNext ==
    \/ \E s \in Session, req \in Request : Arrive(s, req)
    \/ \E t \in Thread, req \in Direct : ArriveDirectly(t, req)
    \/ SystemStep

SystemSpec == SystemInit /\ [][SystemNext]_systemVars

-----------------------------------------------------------------------------
(* Properties *)

\* The properties of the index, under the requests the knowledge service really sends:
\* see RagIndex.
IndexExact == Rag!IndexExact
RetrievalIsSnapshot == Rag!RetrievalIsSnapshot

\* A client that was told 0 by RequestKnowledgeIndex finds the document in the index:
\* unless a race of RagIndex has struck the document, all its chunks are there as soon
\* as no thread is at work on it, and stay until the RAG service is started again. So
\* it is when the answer was "skipped" because of a request whose own caller gave up.
ToldIsSearchable ==
    \A d \in confirmed :
        /\ d \in ragDocuments
        /\ d \notin ragSuspect /\ (\A t \in Thread : Rag!Indexing(t) => ragThread[t].req.doc # d)
              => Rag!ChunksOf(d) = Rag!AllChunks(d)

\* What the index holds and what is announced comes from the table: every document of
\* the index is a stored one that some client asked to index (or one that another
\* client sent to the RAG service itself); consumers of
\* knowledge.document.index_requested hear of stored documents the RAG service was
\* asked to index, once for each request, and never of one whose client was told 404
\* or 503.
TasksAreIndexed ==
    /\ \A d \in ragDocuments \ {req.doc : req \in Direct \cap ragRequested} :
          /\ \E row \in documents : row.by = d /\ ~row.blank
          /\ \E req \in requested : req.op = "RequestKnowledgeIndex" /\ req.document = d
    /\ \A i \in DOMAIN exchange :
          /\ \E row \in documents, posted \in ragRequested :
                /\ row.document_id = exchange[i].document_id
                /\ posted.path = "/index" /\ posted.id = exchange[i].by /\ posted.doc = row.by
          /\ \A j \in DOMAIN exchange : exchange[i].by = exchange[j].by => i = j
          /\ \A a \in answers : a.req.id = exchange[i].by => a.code = 0
=============================================================================
