--------------------------- MODULE MCKnowledgeRag ---------------------------
(* Instances of KnowledgeRag for TLC: which requests the clients send. *)
EXTENDS KnowledgeRag, TLC

Req(id, op, document) ==
    [id |-> id, op |-> op, complete |-> TRUE, blank |-> FALSE, topic |-> Empty,
     document |-> document, force |-> FALSE]
Create(id) == Req(id, "CreateKnowledgeDocument", 0)
Index(id, document, force) ==
    [Req(id, "RequestKnowledgeIndex", document) EXCEPT !.force = force]
ToIndex(id, doc, force) == [id |-> id, path |-> "/index", doc |-> doc, force_rebuild |-> force]
ToRetrieve(id, doc) == [id |-> id, path |-> "/retrieve", doc |-> doc, force_rebuild |-> FALSE]

\* The two documents of an earlier process, in whose time the clock read 1: this one
\* begins at 1 again.
Stored(id) == [document_id |-> <<1, id>>, topic |-> Empty, blank |-> FALSE, by |-> id]
Earlier == {Create(1), Create(2)}

\* What is requested in one behaviour, of the knowledge service and of the RAG service.
Case(client, direct) == [client |-> Earlier \cup client, direct |-> direct]
Workload ==
    \* Both documents are rebuilt; one is indexed twice, as when a first request fails;
    \* retrievals meanwhile.
    {Case({Index(3, 1, TRUE), Index(4, 2, TRUE)}, {}),
     Case({Index(3, 1, TRUE), Index(5, 1, FALSE)}, {}),
     Case({Index(5, 1, FALSE), Index(6, 1, FALSE)}, {}),
     Case({Index(5, 1, FALSE), Index(4, 2, TRUE)}, {ToRetrieve(28, 1)}),
    \* A document of nothing but blanks, an incomplete one and one nobody knows; the
    \* reads.
     Case({[Create(7) EXCEPT !.blank = TRUE], Index(8, 7, FALSE), Index(9, 10, FALSE),
           [Create(10) EXCEPT !.complete = FALSE]}, {}),
     Case({[Create(14) EXCEPT !.topic = "TEMP_001"],
           Req(11, "GetKnowledgeDocument", 14),
           [Req(12, "SearchKnowledge", 0) EXCEPT !.topic = "TEMP_001"],
           Req(13, "ListKnowledgeDocuments", 0)}, {}),
    \* The RAG service alone: up to three requests at a time.
     Case({}, {ToIndex(21, 1, FALSE), ToIndex(22, 2, FALSE), ToIndex(23, 1, TRUE), ToRetrieve(28, 1)}),
     Case({}, {ToIndex(21, 1, FALSE), ToIndex(24, 2, TRUE), ToIndex(23, 1, TRUE)}),
     Case({}, {ToIndex(21, 1, FALSE), ToIndex(25, 1, FALSE), ToIndex(24, 2, TRUE), ToRetrieve(28, 1)}),
     Case({}, {ToIndex(23, 1, TRUE), ToIndex(26, 1, TRUE)}),
     Case({}, {ToIndex(27, NoDoc, TRUE), ToIndex(22, 2, FALSE), ToIndex(24, 2, TRUE), ToRetrieve(29, 2)})}
ReqAll == UNION {w.client : w \in Workload}
DirectAll == UNION {w.direct : w \in Workload}

Chunks == [d \in Doc |-> IF d = 1 THEN 2 ELSE 1]

MCInit ==
    /\ documents = {Stored(1), Stored(2)} /\ sequence = 1
    /\ publisherUp \in Publisher
    /\ session = [s \in Session |-> IdleSession]
    /\ requested = Earlier /\ exchange = <<>>
    /\ answers = {[req |-> Create(d), code |-> 0, row |-> {Stored(d)}] : d \in {1, 2}}
    /\ assured = {}
    /\ Rag!Init /\ confirmed = {}

Offered(w) == requested' \subseteq w.client /\ ragRequested' \cap Direct \subseteq w.direct
MCNext ==
    \/ /\ \/ \E s \in Session, req \in Request : Arrive(s, req)
          \/ \E t \in Thread, req \in Direct : ArriveDirectly(t, req)
       /\ \E w \in Workload : Offered(w)
    \/ SystemStep
Symmetry == Permutations(Session) \cup Permutations(Thread)
MCSpec == MCInit /\ [][MCNext]_systemVars
=============================================================================
