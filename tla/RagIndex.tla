------------------------------ MODULE RagIndex ------------------------------
(***************************************************************************)
(* The index of the RAG service (services/rag_service/server.py): the      *)
(* dictionary DOCUMENTS and the list CHUNKS, filled by POST /index and     *)
(* searched by POST /retrieve.                                             *)
(*                                                                         *)
(* ThreadingHTTPServer runs every request on a thread of its own and the   *)
(* two globals have no lock: the interpreter may switch threads between    *)
(* the items of a loop over CHUNKS, and such a loop walks the live list by *)
(* position while others append to it or replace its contents.  One item   *)
(* of a loop, one append and one slice assignment are the atomic steps.    *)
(*                                                                         *)
(* A rebuild is "filter out the chunks of the document, assign the rest,   *)
(* append the new ones"; the loop and the assignment are apart because the *)
(* comprehension is a call of its own (up to Python 3.11).                 *)
(***************************************************************************)
EXTENDS Integers, Sequences, FiniteSets, SequencesExt

CONSTANTS
    Doc,         \* the documents of the knowledge service
    NoDoc,       \* an empty document_id (or title, or content)
    NumChunks,   \* for each document, the number of chunks chunk_text makes of it
    TopK,        \* top_k of a retrieval, after it is clamped to 1..50
    Request,     \* the requests of a behaviour
    NoRequest,
    Thread       \* the threads of the server

\* POST /index names a document; POST /retrieve has a query that scores on the
\* chunks of the documents `doc' names: that one, or none.
RequestAssumption ==
    /\ NoDoc \notin Doc
    /\ NumChunks \in [Doc -> Nat]
    /\ TopK \in 1..50
    /\ Request \subseteq [id : Nat, path : {"/index", "/retrieve"}, doc : Doc \cup {NoDoc},
                          force_rebuild : BOOLEAN]
    /\ NoRequest \notin Request

Chunk == [document_id : Doc, index : Nat]

-----------------------------------------------------------------------------
VARIABLES
    documents,  \* DOCUMENTS: the ids recorded
    chunks,     \* CHUNKS
    thread,     \* what each thread is doing
    requested,  \* requests the clients have sent
    answers,    \* history: the answers of this process
    suspect     \* history: documents whose chunks a race may have harmed

vars == <<documents, chunks, thread, requested, answers, suspect>>

\* pos is the position of the loop over CHUNKS or over the new chunks, kept what the
\* loop has selected, alone whether nothing has crossed the request so far: another
\* index request for an index request, an assignment to CHUNKS for a retrieval.
Idle == [pc |-> "idle", req |-> NoRequest, pos |-> 0, kept |-> <<>>,
         alone |-> FALSE]
Pc == {"idle", "begun", "filtering", "replacing", "recording", "appending", "searching", "replied"}

TypeOK ==
    /\ documents \subseteq Doc
    /\ chunks \in Seq(Chunk)
    /\ thread \in [Thread -> [pc : Pc, req : Request \cup {NoRequest}, pos : Nat,
                              kept : Seq(Chunk), alone : BOOLEAN]]
    /\ requested \subseteq Request
    /\ answers \subseteq [req : Request, status : {"error", "indexed", "skipped", "snippets"},
                          snippets : Seq(Chunk)]
    /\ suspect \subseteq Doc

Init ==
    /\ documents = {} /\ chunks = <<>>
    /\ thread = [t \in Thread |-> Idle]
    /\ requested = {} /\ answers = {} /\ suspect = {}

-----------------------------------------------------------------------------
(* Which threads interfere *)

Indexing(t) == thread[t].pc \in {"begun", "filtering", "replacing", "recording", "appending"}
               /\ thread[t].req.path = "/index"
OtherIndexing(t) == {u \in Thread \ {t} : Indexing(u)}
OthersOn(t, d) == {u \in OtherIndexing(t) : thread[u].req.doc = d}

\* An index request interferes with those that index at the same time.
Interferes(t) ==
    [u \in Thread |-> IF u \in OtherIndexing(t) THEN [thread[u] EXCEPT !.alone = FALSE]
                      ELSE thread[u]]

-----------------------------------------------------------------------------
(* Requests and answers *)

Begin(t, req) ==
    /\ thread[t].pc = "idle"
    /\ req \notin requested
    /\ requested' = requested \cup {req}
    /\ IF req.path = "/index"
       THEN /\ thread' = [Interferes(t) EXCEPT ![t] =
                            [pc |-> "begun", req |-> req, pos |-> 1, kept |-> <<>>,
                             alone |-> OtherIndexing(t) = {}]]
            /\ suspect' = suspect \cup {d \in {req.doc} \cap Doc : OthersOn(t, d) # {}}
       ELSE /\ thread' = [thread EXCEPT ![t] =
                            [pc |-> "searching", req |-> req, pos |-> 1, kept |-> <<>>,
                             alone |-> TRUE]]
            /\ UNCHANGED suspect
    /\ UNCHANGED <<documents, chunks, answers>>

\* json_response, after which the thread ends; the client may be gone.
Reply(t, status, snippets) ==
    /\ answers' = answers \cup {[req |-> thread[t].req, status |-> status,
                                 snippets |-> snippets]}
    /\ thread' = [thread EXCEPT ![t] = Idle]
    /\ UNCHANGED requested

-----------------------------------------------------------------------------
(* handle_index *)

\* Mutant: the required fields are not checked.
AnyComplete(req) == TRUE
Complete(req) == req.doc # NoDoc

RejectIndex(t) ==
    /\ Indexing(t) /\ thread[t].pc = "begun"
    /\ ~Complete(thread[t].req)
    /\ Reply(t, "error", <<>>)
    /\ UNCHANGED <<documents, chunks, suspect>>

Skip(t) ==
    /\ Indexing(t) /\ thread[t].pc = "begun"
    /\ Complete(thread[t].req)
    /\ ~thread[t].req.force_rebuild
    /\ thread[t].req.doc \in documents
    /\ Reply(t, "skipped", <<>>)
    /\ UNCHANGED <<documents, chunks, suspect>>

Go(t, pc, pos, kept) ==
    /\ thread' = [thread EXCEPT ![t] =
                   [pc |-> pc, req |-> thread[t].req, pos |-> pos, kept |-> kept,
                    alone |-> thread[t].alone]]
    /\ UNCHANGED <<requested, answers>>

StartIndex(t) ==
    /\ Indexing(t) /\ thread[t].pc = "begun"
    /\ Complete(thread[t].req)
    /\ IF thread[t].req.force_rebuild
       THEN Go(t, "filtering", 1, <<>>)
       ELSE thread[t].req.doc \notin documents /\ Go(t, "recording", 1, <<>>)
    /\ UNCHANGED <<documents, chunks, suspect>>

\* Mutant: the document's own chunks are kept.
FilterKeepingAll(t) ==
    /\ thread[t].pc = "filtering"
    /\ thread[t].pos <= Len(chunks)
    /\ Go(t, "filtering", thread[t].pos + 1, Append(thread[t].kept, chunks[thread[t].pos]))
    /\ UNCHANGED <<documents, chunks, suspect>>

FilterItem(t) ==
    LET item == chunks[thread[t].pos] IN
    /\ thread[t].pc = "filtering"
    /\ thread[t].pos <= Len(chunks)
    /\ Go(t, "filtering", thread[t].pos + 1,
          IF item.document_id # thread[t].req.doc THEN Append(thread[t].kept, item)
          ELSE thread[t].kept)
    /\ UNCHANGED <<documents, chunks, suspect>>

FilterEnds(t) ==
    /\ thread[t].pc = "filtering"
    /\ thread[t].pos > Len(chunks)
    /\ thread' = [thread EXCEPT ![t].pc = "replacing"]
    /\ UNCHANGED <<documents, chunks, requested, answers, suspect>>

\* CHUNKS[:] = ...: what others appended after the loop is lost, and a loop of another
\* thread goes on at its position in the new contents.
Replace(t) ==
    /\ thread[t].pc = "replacing"
    /\ chunks' = thread[t].kept
    /\ thread' = [u \in Thread |->
                    IF u = t THEN [thread[t] EXCEPT !.pc = "recording", !.pos = 1, !.kept = <<>>]
                    ELSE IF thread[u].pc = "searching" THEN [thread[u] EXCEPT !.alone = FALSE]
                    ELSE thread[u]]
    /\ suspect' = IF \E u \in Thread \ {t} : thread[u].pc \in {"filtering", "replacing"}
                  THEN Doc ELSE suspect
    /\ UNCHANGED <<documents, requested, answers>>

Record(t) ==
    /\ thread[t].pc = "recording"
    /\ documents' = documents \cup {thread[t].req.doc}
    /\ Go(t, "appending", 1, <<>>)
    /\ UNCHANGED <<chunks, suspect>>

NewChunk(t) == [document_id |-> thread[t].req.doc, index |-> thread[t].pos]

\* Mutant: the new chunk is put in front.
AppendChunkInFront(t) ==
    /\ thread[t].pc = "appending"
    /\ thread[t].pos <= NumChunks[thread[t].req.doc]
    /\ chunks' = <<NewChunk(t)>> \o chunks
    /\ Go(t, "appending", thread[t].pos + 1, <<>>)
    /\ UNCHANGED <<documents, suspect>>

AppendChunk(t) ==
    /\ thread[t].pc = "appending"
    /\ thread[t].pos <= NumChunks[thread[t].req.doc]
    /\ chunks' = Append(chunks, NewChunk(t))
    /\ Go(t, "appending", thread[t].pos + 1, <<>>)
    /\ suspect' = IF \E u \in Thread : thread[u].pc = "replacing"
                  THEN suspect \cup {thread[t].req.doc} ELSE suspect
    /\ UNCHANGED documents

\* A rebuild that ran alone has put its document right, whatever it found.
FinishIndex(t) ==
    /\ thread[t].pc = "appending"
    /\ thread[t].pos > NumChunks[thread[t].req.doc]
    /\ Reply(t, "indexed", <<>>)
    /\ suspect' = IF thread[t].alone /\ thread[t].req.force_rebuild
                  THEN suspect \ {thread[t].req.doc} ELSE suspect
    /\ UNCHANGED <<documents, chunks>>

-----------------------------------------------------------------------------
(* handle_retrieve *)

Scores(item, req) == item.document_id = req.doc

SearchItem(t) ==
    LET item == chunks[thread[t].pos] IN
    /\ thread[t].pc = "searching"
    /\ thread[t].pos <= Len(chunks)
    /\ Go(t, "searching", thread[t].pos + 1,
          IF Scores(item, thread[t].req) THEN Append(thread[t].kept, item) ELSE thread[t].kept)
    /\ UNCHANGED <<documents, chunks, suspect>>

\* Sorted by score (here all alike: the order is kept) and cut to top_k.
FinishSearch(t) ==
    /\ thread[t].pc = "searching"
    /\ thread[t].pos > Len(chunks)
    /\ Reply(t, "snippets", SubSeq(thread[t].kept, 1,
                                   IF Len(thread[t].kept) < TopK THEN Len(thread[t].kept) ELSE TopK))
    /\ UNCHANGED <<documents, chunks, suspect>>

-----------------------------------------------------------------------------
\* The process ends and is started again: the index is empty.
Restart ==
    /\ documents' = {} /\ chunks' = <<>>
    /\ thread' = [t \in Thread |-> Idle]
    /\ answers' = {} /\ suspect' = {}
    /\ UNCHANGED requested

ThreadStep(t) ==
    \/ RejectIndex(t) \/ Skip(t) \/ StartIndex(t)
    \/ FilterItem(t) \/ FilterEnds(t) \/ Replace(t)
    \/ Record(t) \/ AppendChunk(t) \/ FinishIndex(t)
    \/ SearchItem(t) \/ FinishSearch(t)

\* Everything but the arrival of a request.
Step ==
    \/ \E t \in Thread : ThreadStep(t)
    \/ Restart

Next == (\E t \in Thread, req \in Request : Begin(t, req)) \/ Step

Spec == Init /\ [][Next]_vars

-----------------------------------------------------------------------------
(* Properties *)

\* The chunks of document d in a list, in their order.
ChunksIn(list, d) ==
    LET found[i \in 0..Len(list)] ==
            IF i = 0 THEN <<>>
            ELSE IF list[i].document_id = d THEN Append(found[i - 1], list[i]) ELSE found[i - 1]
    IN  found[Len(list)]

ChunksOf(d) == ChunksIn(chunks, d)
AllChunks(d) == [i \in 1..NumChunks[d] |-> [document_id |-> d, index |-> i]]

\* The index is exact wherever no race has struck: when nobody is indexing a document,
\* CHUNKS holds each of its chunks once and in order if the document is recorded, and
\* none otherwise. What can harm a document is an indexing of the same document at
\* the same time, a chunk appended between the loop and the assignment of a rebuild of
\* another, and an assignment while another rebuild is in its loop. Everything else
\* that overlaps is harmless, and a rebuild that runs alone repairs its document.
IndexExact ==
    \A d \in Doc \ suspect :
        (\A t \in Thread : Indexing(t) => thread[t].req.doc # d) =>
            ChunksOf(d) = IF d \in documents THEN AllChunks(d) ELSE <<>>

\* A retrieval that no assignment to CHUNKS has crossed has found what a search of
\* the list as it stands, made at once, would have found up to this position: appends
\* by others make its loop neither skip a chunk nor see one again.
RetrievalIsSnapshot ==
    \A t \in Thread :
        thread[t].pc = "searching" /\ thread[t].alone =>
            thread[t].kept = ChunksIn(SubSeq(chunks, 1, thread[t].pos - 1), thread[t].req.doc)

\* docs/07_agent_rag_design.md:35: /index takes a document and slices it into memory;
\* so the chunks of a document whose index was answered are there.
AnsweredIsIndexed ==
    \A a \in answers :
        a.status = "indexed" /\ (\A t \in Thread : ~Indexing(t)) =>
            Range(ChunksOf(a.req.doc)) = Range(AllChunks(a.req.doc))
=============================================================================
