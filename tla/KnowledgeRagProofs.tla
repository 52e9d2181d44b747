------------------------- MODULE KnowledgeRagProofs -------------------------
(***************************************************************************)
(* Proofs about KnowledgeService, about the whole of it and the RAG        *)
(* service (KnowledgeRag), and about the loop that cuts a document into    *)
(* the chunks of the index (ChunkText), for any requests, documents,       *)
(* threads, clocks and lengths.                                            *)
(*                                                                         *)
(* ServiceInv is the inductive invariant of the knowledge service alone:   *)
(* every row is the one its request made, every worker and every answer    *)
(* has the row it was asked for. SystemInv adds what crosses to the RAG    *)
(* service: every request it was sent by a worker is about a stored        *)
(* document that is not blank or about none, and a worker announces what   *)
(* the RAG service has been asked for and has taken. RagContent is what    *)
(* each thread of the RAG service relies on at each place of its loops,    *)
(* and LoopInv is that of the loop of chunk_text, which shares no variable *)
(* with the others.                                                        *)
(***************************************************************************)
EXTENDS KnowledgeRag, ChunkText, SequenceTheorems, WellFoundedInduction, TLAPS

USE DEF Op, Code, Pc, AtMostOne

-----------------------------------------------------------------------------
(* The knowledge service *)

Keys == \A d, e \in documents : d.document_id = e.document_id \/ d.by = e.by => d = e
Requested ==
    \A d \in documents : \E req \in requested : req.id = d.by /\ req.op = "CreateKnowledgeDocument"

\* The answer [req, code, row] is borne out by the table.
TrueOf(table, a) ==
    /\ a.req.op = "CreateKnowledgeDocument" /\ a.code = 0 =>
          \E d \in a.row : d \in table /\ d.by = a.req.id
    /\ a.req.op \in {"GetKnowledgeDocument", "RequestKnowledgeIndex"} /\ a.code = 0 =>
          \E d \in a.row : d \in table /\ d.by = a.req.document

\* What a worker relies on.
SessionFits(table, se) ==
    /\ se.pc \in {"indexing", "publishing"} =>
          /\ se.req.op = "RequestKnowledgeIndex" /\ se.code = 0
          /\ \A d \in se.row : d \in table /\ d.by = se.req.document
    /\ se.pc = "begun" /\ se.req.op = "CreateKnowledgeDocument" =>
          \A d \in table : d.by # se.req.id
    /\ se.pc = "replied" => TrueOf(table, se)
SessionsFit == \A s \in Session : SessionFits(documents, session[s])

\* A request is served by one worker, once.
ServedOnce ==
    /\ \A s \in Session : session[s].pc # "idle" => session[s].req \in requested
    /\ \A s, t \in Session :
          /\ session[s].pc # "idle" /\ session[t].pc # "idle"
          /\ session[s].req = session[t].req
          => s = t
    /\ \A a \in answers :
          /\ a.req \in requested
          /\ \A s \in Session : session[s].pc # "idle" => session[s].req # a.req

AnswersFit == \A a \in answers : TrueOf(documents, a)

\* What an assured request asks for is stored, and no 404 is on its way to its client.
Missed(set, a) == a.code = 404 /\ a.req \in set
AssuredFit ==
    /\ \A req \in assured : req \in requested /\ \E d \in documents : d.by = req.document
    /\ \A s \in Session : session[s].pc = "replied" => ~Missed(assured, session[s])
    /\ \A a \in answers : ~Missed(assured, a)

ServiceInv ==
    /\ TypeOK /\ Keys /\ Requested
    /\ SessionsFit /\ ServedOnce /\ AnswersFit /\ AssuredFit

LEMMA RequestTyped ==
    ASSUME NEW req \in Request
    PROVE  /\ req.id \in Nat \ {0} /\ req.op \in Op /\ req.topic \in Topic \cup {Empty}
           /\ req.blank \in BOOLEAN /\ req.complete \in BOOLEAN /\ req.force \in BOOLEAN
           /\ req.document \in Nat
<1>1. Request \subseteq [id : Nat \ {0}, op : Op, complete : BOOLEAN, blank : BOOLEAN,
                         topic : Topic \cup {Empty}, document : Nat, force : BOOLEAN]
  BY RequestAssumption
<1> QED
  BY <1>1

LEMMA IdsName ==
    ASSUME NEW r1 \in Request, NEW r2 \in Request, r1 # r2 PROVE r1.id # r2.id
BY RequestAssumption

LEMMA Serves ==
    ASSUME ServiceInv, NEW s \in Session, session[s].pc # "idle"
    PROVE  session[s].req \in Request /\ session[s].req \in requested
BY DEF ServiceInv, TypeOK, ServedOnce

LEMMA Named ==
    ASSUME ServiceInv, NEW req, NEW d \in DocumentsNamed(req)
    PROVE  d \in documents /\ d.by = req.document
BY DEF ServiceInv, Keys, DocumentsNamed

\* A step of worker s leaves the table alone or inserts the document of its request.
ServiceStep(s) == (LocalStep(s) /\ ~Answer(s)) \/ RagAccepts(s) \/ RagFails(s)

Inserts(s, d) ==
    /\ Serving(s, "CreateKnowledgeDocument")
    /\ d \in Document /\ d.by = session[s].req.id
    /\ ~DocumentIdTaken(d.document_id)
    /\ documents' = documents \cup {d}

LEMMA NewDocumentType ==
    ASSUME ServiceInv, NEW req \in Request, NEW now \in Now
    PROVE  NewDocument(req, now) \in Document /\ NewDocument(req, now).by = req.id
<1>1. now \in Nat /\ sequence \in Nat
  BY ConfigAssumption DEF ServiceInv, TypeOK
<1>2. <<now, sequence>> \in Nat \X Nat
  BY <1>1
<1>3. req.blank \in BOOLEAN /\ req.id \in Nat /\ req.topic \in Topic \cup {Empty}
  BY RequestTyped
<1> QED
  BY <1>2, <1>3 DEF NewDocument, Document

LEMMA TableStep ==
    ASSUME ServiceInv, NEW s \in Session, ServiceStep(s)
    PROVE  documents' = documents \/ \E d : Inserts(s, d)
<1>1. CASE PersistDocument(s)
  <2>1. session[s].req \in Request /\ Serving(s, "CreateKnowledgeDocument")
    BY <1>1, Serves DEF PersistDocument, Serving
  <2>2. PICK now \in Now :
          \/ /\ ~DocumentIdTaken(NewDocument(session[s].req, now).document_id)
             /\ documents' = documents \cup {NewDocument(session[s].req, now)}
          \/ documents' = documents
    BY <1>1 DEF PersistDocument
  <2> DEFINE d == NewDocument(session[s].req, now)
  <2>3. d \in Document /\ d.by = session[s].req.id
    BY <2>1, NewDocumentType
  <2>4. \/ ~DocumentIdTaken(d.document_id) /\ documents' = documents \cup {d}
        \/ documents' = documents
    BY <2>2
  <2> HIDE DEF d
  <2> QED
    BY <2>1, <2>3, <2>4 DEF Inserts
<1>2. CASE ~PersistDocument(s)
  BY <1>2 DEF ServiceStep, LocalStep, Read, RejectDocument, GetDocument, ListDocuments,
     IndexReads, IndexFindsNone, Publish, DatabaseFails, RagAccepts, RagFails
<1> QED
  BY <1>1, <1>2

LEMMA StepTable ==
    ASSUME ServiceInv, NEW s \in Session, ServiceStep(s), requested' = requested
    PROVE  /\ documents' \subseteq Document /\ documents \subseteq documents'
           /\ Keys' /\ Requested'
           /\ \A d \in documents' : d \in documents \/ d.by = session[s].req.id
<1>1. documents \subseteq Document /\ Keys /\ Requested /\ SessionFits(documents, session[s])
  BY DEF ServiceInv, TypeOK, SessionsFit
<1>2. CASE documents' = documents
  BY <1>1, <1>2 DEF Keys, Requested
<1>3. ASSUME NEW d, Inserts(s, d)
      PROVE  /\ documents' \subseteq Document /\ documents \subseteq documents'
             /\ Keys' /\ Requested'
             /\ \A e \in documents' : e \in documents \/ e.by = session[s].req.id
  <2>1. \A e \in documents : e.by # d.by /\ e.document_id # d.document_id
    BY <1>1, <1>3 DEF Inserts, Serving, SessionFits, DocumentIdTaken
  <2>2. session[s].req \in requested /\ session[s].req.op = "CreateKnowledgeDocument"
    BY <1>3, Serves DEF Inserts, Serving
  <2>3. documents' = documents \cup {d} /\ d \in Document /\ d.by = session[s].req.id
    BY <1>3 DEF Inserts
  <2>4. Keys'
    BY <1>1, <2>1, <2>3 DEF Keys
  <2>5. Requested'
    BY <1>1, <2>2, <2>3 DEF Requested
  <2> QED
    BY <1>1, <2>3, <2>4, <2>5
<1> QED
  BY <1>2, <1>3, TableStep

-----------------------------------------------------------------------------
(* The workers and the answers *)

\* What is true of answers and of other workers stays true when the table grows by rows
\* of other requests.
Grows(table, table2, id) == table \subseteq table2 /\ \A d \in table2 : d \in table \/ d.by # id

LEMMA FitsStays ==
    ASSUME NEW table, NEW table2, NEW se, Grows(table, table2, se.req.id)
    PROVE  /\ TrueOf(table, se) => TrueOf(table2, se)
           /\ SessionFits(table, se) => SessionFits(table2, se)
<1>1. TrueOf(table, se) => TrueOf(table2, se)
  BY DEF Grows, TrueOf
<1> QED
  BY <1>1 DEF Grows, SessionFits

\* A step of worker s moves s and nothing else that is told of here, and leaves in the
\* table what s now relies on.
SessionType == [pc : Pc, req : Request \cup {NoRequest}, row : SUBSET Document, code : Code]
StepOf(s) ==
    /\ session[s].pc \notin {"idle", "replied"}
    /\ session'[s].req = session[s].req /\ session'[s].pc # "idle"
    /\ \A t \in Session : t # s => session'[t] = session[t]
    /\ session' \in [Session -> SessionType]
    /\ AtMostOne(session'[s].row)
    /\ session'[s].pc \in {"indexing", "publishing"} => session'[s].row # {}
    /\ publisherUp' = publisherUp /\ requested' = requested /\ answers' = answers
    /\ SessionFits(documents', session'[s])

After(s, pc, row, code) == [pc |-> pc, req |-> session[s].req, row |-> row, code |-> code]
Admissible(s, pc, row, code) ==
    /\ pc \in Pc \ {"idle"} /\ code \in Code
    /\ row \in SUBSET Document /\ AtMostOne(row)
    /\ pc \in {"indexing", "publishing"} => row # {}
    /\ SessionFits(documents', After(s, pc, row, code))

LEMMA MoveSession ==
    ASSUME TypeOK, NEW s \in Session, NEW pc, NEW row, NEW code, Move(s, pc, row, code)
    PROVE  session'[s].pc = pc /\ session'[s].row = row /\ session'[s].code = code
BY DEF Move, TypeOK

LEMMA MoveStep ==
    ASSUME ServiceInv, NEW s \in Session, session[s].pc \notin {"idle", "replied"},
           NEW pc, NEW row, NEW code, Move(s, pc, row, code), Admissible(s, pc, row, code)
    PROVE  StepOf(s)
<1> DEFINE se == After(s, pc, row, code)
<1>1. /\ session' = [session EXCEPT ![s] = se]
      /\ publisherUp' = publisherUp /\ requested' = requested /\ answers' = answers
  BY DEF Move, After
<1>2. session[s].req \in Request
  BY Serves
<1>3. se \in SessionType
  BY <1>2 DEF After, Admissible, SessionType
<1>4. /\ se.pc = pc /\ se.req = session[s].req /\ se.row = row
      /\ SessionFits(documents', se)
  BY DEF After, Admissible
<1>5. session \in [Session -> SessionType]
  BY DEF ServiceInv, TypeOK, SessionType
<1> HIDE DEF se
<1>6. session'[s] = se /\ \A t \in Session : t # s => session'[t] = session[t]
  BY <1>1, <1>5
<1>7. session' \in [Session -> SessionType]
  BY <1>1, <1>3, <1>5
<1> QED
  BY <1>1, <1>4, <1>6, <1>7 DEF StepOf, Admissible

\* A reply that claims nothing of the table.
LEMMA PlainReply ==
    ASSUME ServiceInv, NEW s \in Session, session[s].pc \in {"begun", "indexing"}, NEW row, NEW code,
           Reply(s, code, row), code \in Code, row \in SUBSET Document, AtMostOne(row),
           session[s].req.op \in {"CreateKnowledgeDocument", "GetKnowledgeDocument",
                                  "RequestKnowledgeIndex"} => code # 0
    PROVE  StepOf(s)
<1>1. Admissible(s, "replied", row, code)
  BY DEF Admissible, After, SessionFits, TrueOf
<1> QED
  BY <1>1, MoveStep DEF Reply

LEMMA EmptyReply ==
    ASSUME ServiceInv, NEW s \in Session, session[s].pc \in {"begun", "indexing"},
           NEW code, Reply(s, code, {}), code \in {400, 404, 503}
    PROVE  StepOf(s)
BY PlainReply

\* A reply with a row that was asked for.
LEMMA RowReply ==
    ASSUME ServiceInv, NEW s \in Session, session[s].pc = "begun",
           session[s].req.op # "CreateKnowledgeDocument",
           NEW d \in documents, Reply(s, 0, {d}), documents' = documents,
           session[s].req.op = "GetKnowledgeDocument" => d.by = session[s].req.document,
           session[s].req.op # "RequestKnowledgeIndex"
    PROVE  StepOf(s)
<1>1. {d} \in SUBSET Document /\ AtMostOne({d})
  BY DEF ServiceInv, TypeOK
<1>2. Admissible(s, "replied", {d}, 0)
  BY <1>1 DEF Admissible, After, SessionFits, TrueOf
<1> QED
  BY <1>2, MoveStep DEF Reply

LEMMA SessionMoves ==
    ASSUME ServiceInv, NEW s \in Session, ServiceStep(s)
    PROVE  StepOf(s)
<1> USE DEF Serving, Read
<1>0. /\ SessionFits(documents, session[s])
      /\ session[s].row \in SUBSET Document /\ AtMostOne(session[s].row)
      /\ session[s].pc \in {"indexing", "publishing"} => session[s].row # {}
  BY DEF ServiceInv, SessionsFit, TypeOK
<1>1. CASE RejectDocument(s) \/ IndexFindsNone(s) \/ RagFails(s)
  BY <1>1, EmptyReply DEF RejectDocument, IndexFindsNone, RagFails
<1>2. CASE PersistDocument(s)
  <2>1. session[s].pc = "begun" /\ session[s].req.op = "CreateKnowledgeDocument"
        /\ session[s].req \in Request
    BY <1>2, Serves DEF PersistDocument
  <2>2. PICK now \in Now :
          LET d == NewDocument(session[s].req, now) IN
          \/ /\ documents' = documents \cup {d}
             /\ Reply(s, 0, {d}) \/ Reply(s, 400, {})
          \/ Reply(s, 400, {})
    BY <1>2 DEF PersistDocument
  <2> DEFINE d == NewDocument(session[s].req, now)
  <2>3. CASE Reply(s, 400, {})
    BY <2>1, <2>3, EmptyReply
  <2>4. CASE documents' = documents \cup {d} /\ Reply(s, 0, {d})
    <3>1. d \in Document /\ d.by = session[s].req.id
      BY <2>1, NewDocumentType
    <3> HIDE DEF d
    <3>2. {d} \in SUBSET Document /\ AtMostOne({d}) /\ d \in documents'
      BY <2>4, <3>1
    <3>3. Admissible(s, "replied", {d}, 0)
      BY <2>1, <3>1, <3>2 DEF Admissible, After, SessionFits, TrueOf
    <3> QED
      BY <2>1, <2>4, <3>3, MoveStep DEF Reply
  <2> QED
    BY <2>2, <2>3, <2>4
<1>3. CASE GetDocument(s)
  <2>1. CASE Reply(s, 404, {})
    BY <1>3, <2>1, EmptyReply DEF GetDocument
  <2>2. ASSUME NEW d \in DocumentsNamed(session[s].req), Reply(s, 0, {d}) PROVE StepOf(s)
    BY <1>3, <2>2, Named, RowReply DEF GetDocument
  <2> QED
    BY <1>3, <2>1, <2>2 DEF GetDocument
<1>4. CASE ListDocuments(s)
  <2>1. session[s].pc = "begun" /\ documents' = documents
        /\ session[s].req.op \in {"ListKnowledgeDocuments", "SearchKnowledge"}
    BY <1>4 DEF ListDocuments
  <2>2. CASE Reply(s, 0, {})
    BY <2>1, <2>2, PlainReply
  <2>3. ASSUME NEW d \in documents, Reply(s, 0, {d}) PROVE StepOf(s)
    BY <2>1, <2>3, RowReply
  <2> QED
    BY <1>4, <2>2, <2>3 DEF ListDocuments
<1>5. CASE IndexReads(s)
  <2>1. PICK d \in DocumentsNamed(session[s].req) : Move(s, "indexing", {d}, 0)
    BY <1>5 DEF IndexReads
  <2>2. /\ session[s].pc = "begun" /\ session[s].req.op = "RequestKnowledgeIndex"
        /\ documents' = documents /\ d \in documents /\ d.by = session[s].req.document
    BY <1>5, Named DEF IndexReads
  <2>3. {d} \in SUBSET Document /\ AtMostOne({d})
    BY <2>2 DEF ServiceInv, TypeOK
  <2>4. Admissible(s, "indexing", {d}, 0)
    BY <2>2, <2>3 DEF Admissible, After, SessionFits
  <2> QED
    BY <2>1, <2>2, <2>4, MoveStep
<1>6. CASE RagAccepts(s)
  <2> DEFINE pc == IF publisherUp THEN "publishing" ELSE "replied"
  <2>1. /\ session[s].pc = "indexing" /\ Move(s, pc, session[s].row, 0)
        /\ documents' = documents
    BY <1>6 DEF RagAccepts
  <2>2. pc \in {"publishing", "replied"}
    OBVIOUS
  <2> HIDE DEF pc
  <2>3. Admissible(s, pc, session[s].row, 0)
    BY <1>0, <2>1, <2>2 DEF Admissible, After, SessionFits, TrueOf
  <2> QED
    BY <2>1, <2>3, MoveStep
<1>7. CASE Publish(s)
  <2>1. /\ session[s].pc = "publishing" /\ Reply(s, session[s].code, session[s].row)
        /\ documents' = documents
    BY <1>7 DEF Publish
  <2>2. Admissible(s, "replied", session[s].row, session[s].code)
    BY <1>0, <2>1 DEF Admissible, After, SessionFits, TrueOf
  <2> QED
    BY <2>1, <2>2, MoveStep DEF Reply
<1>8. CASE DatabaseFails(s)
  <2>1. session[s].pc = "begun" /\ Reply(s, ErrorCode(s), {})
    BY <1>8 DEF DatabaseFails
  <2>2. /\ ErrorCode(s) \in Code
        /\ session[s].req.op \in {"CreateKnowledgeDocument", "GetKnowledgeDocument",
                                  "RequestKnowledgeIndex"} => ErrorCode(s) # 0
    BY DEF ErrorCode
  <2> QED
    BY <2>1, <2>2, PlainReply
<1> QED
  BY <1>1, <1>2, <1>3, <1>4, <1>5, <1>6, <1>7, <1>8 DEF ServiceStep, LocalStep


LEMMA OthersGrow ==
    ASSUME ServiceInv, NEW s \in Session, ServiceStep(s), NEW req \in Request,
           req # session[s].req
    PROVE  Grows(documents, documents', req.id)
<1>1. StepOf(s)
  BY SessionMoves
<1>2. session[s].req \in Request /\ requested' = requested
  BY <1>1, Serves DEF StepOf
<1> QED
  BY <1>2, IdsName, StepTable DEF Grows

LEMMA StepSessions ==
    ASSUME ServiceInv, NEW s \in Session, ServiceStep(s)
    PROVE  SessionsFit' /\ ServedOnce' /\ AnswersFit'
<1>1. StepOf(s)
  BY SessionMoves
<1>2. ServedOnce /\ session[s].pc # "idle"
  BY <1>1 DEF ServiceInv, StepOf
<1>3. ASSUME NEW t \in Session PROVE SessionFits(documents', session'[t])
  <2>1. CASE t = s
    BY <1>1, <2>1 DEF StepOf
  <2>2. CASE t # s /\ session[t].pc = "idle"
    BY <1>1, <2>2 DEF StepOf, SessionFits
  <2>3. CASE t # s /\ session[t].pc # "idle"
    <3>1. session[t].req # session[s].req /\ session[t].req \in Request
      BY <1>2, <2>3, Serves DEF ServedOnce
    <3>2. Grows(documents, documents', session[t].req.id)
      BY <3>1, OthersGrow
    <3>3. SessionFits(documents, session[t]) /\ session'[t] = session[t]
      BY <1>1, <2>3 DEF StepOf, ServiceInv, SessionsFit
    <3> QED
      BY <3>2, <3>3, FitsStays
  <2> QED
    BY <2>1, <2>2, <2>3
<1>4. ASSUME NEW a \in answers PROVE TrueOf(documents', a)
  <2>1. a.req # session[s].req /\ a.req \in Request /\ TrueOf(documents, a)
    BY <1>2 DEF ServedOnce, ServiceInv, TypeOK, AnswersFit
  <2>2. Grows(documents, documents', a.req.id)
    BY <2>1, OthersGrow
  <2> QED
    BY <2>1, <2>2, FitsStays
<1>5. \A t \in Session : session'[t].req = session[t].req
                         /\ (session'[t].pc # "idle" <=> session[t].pc # "idle")
  BY <1>1, <1>2 DEF StepOf
<1>6. ServedOnce'
  BY <1>1, <1>2, <1>5 DEF ServedOnce, StepOf
<1> QED
  BY <1>1, <1>3, <1>4, <1>6 DEF SessionsFit, AnswersFit, StepOf

\* Only a failure of the database takes a request out of the assured ones; the other
\* 404s are given for documents that are not stored.
LEMMA NoneNamed ==
    ASSUME ServiceInv, NEW req, DocumentsNamed(req) = {} PROVE req \notin assured
BY DEF ServiceInv, AssuredFit, DocumentsNamed

LEMMA AssuredStep ==
    ASSUME ServiceInv, NEW s \in Session, ServiceStep(s)
    PROVE  /\ assured' \subseteq assured
           /\ session'[s].pc = "replied" => session'[s].code # 404 \/ session[s].req \notin assured'
<1>1. ASSUME NEW pc, NEW row, NEW code, Move(s, pc, row, code)
      PROVE  session'[s].pc = pc /\ session'[s].code = code
  BY <1>1, MoveSession DEF ServiceInv
<1>2. CASE DatabaseFails(s)
  BY <1>2 DEF DatabaseFails
<1>3. CASE GetDocument(s)
  <2>1. assured' = assured
    BY <1>3 DEF GetDocument, Read
  <2>2. CASE DocumentsNamed(session[s].req) = {}
    BY <2>1, <2>2, NoneNamed
  <2>3. CASE DocumentsNamed(session[s].req) # {}
    <3>1. PICK d : Reply(s, 0, {d})
      BY <1>3, <2>3, Zenon DEF GetDocument
    <3>2. session'[s].code = 0
      BY <1>1, <3>1 DEF Reply
    <3> QED
      BY <2>1, <3>2
  <2> QED
    BY <2>2, <2>3
<1>4. CASE IndexFindsNone(s)
  <2>1. assured' = assured /\ DocumentsNamed(session[s].req) = {}
    BY <1>4 DEF IndexFindsNone, Read
  <2> QED
    BY <2>1, NoneNamed
<1>5. CASE RejectDocument(s)
  BY <1>1, <1>5 DEF RejectDocument, Reply, Read
<1>6. CASE PersistDocument(s)
  <2>1. \E row : Reply(s, 0, row) \/ Reply(s, 400, row)
    BY <1>6, ZenonT(30) DEF PersistDocument
  <2> QED
    BY <1>1, <1>6, <2>1 DEF PersistDocument, Reply
<1>7. CASE ListDocuments(s)
  <2>1. \E row : Reply(s, 0, row)
    BY <1>7, ZenonT(30) DEF ListDocuments
  <2> QED
    BY <1>1, <1>7, <2>1 DEF ListDocuments, Reply, Read
<1>8. CASE IndexReads(s)
  BY <1>1, <1>8 DEF IndexReads, Read
<1>9. CASE RagAccepts(s) \/ RagFails(s)
  BY <1>1, <1>9 DEF RagAccepts, RagFails, Reply, Read
<1>10. CASE Publish(s)
  <2>1. session[s].code = 0
    BY <1>10 DEF Publish, ServiceInv, SessionsFit, SessionFits
  <2> QED
    BY <1>1, <1>10, <2>1 DEF Publish, Reply
<1> QED
  BY <1>2, <1>3, <1>4, <1>5, <1>6, <1>7, <1>8, <1>9, <1>10 DEF ServiceStep, LocalStep

LEMMA StepAssured ==
    ASSUME ServiceInv, NEW s \in Session, ServiceStep(s)
    PROVE  AssuredFit'
<1>1. StepOf(s) /\ AssuredFit
  BY SessionMoves DEF ServiceInv
<1>2. documents \subseteq documents' /\ requested' = requested
  BY <1>1, StepTable DEF StepOf
<1>3. /\ assured' \subseteq assured
      /\ session'[s].pc = "replied" => session'[s].code # 404 \/ session[s].req \notin assured'
  BY AssuredStep
<1>4. session'[s].req = session[s].req /\ answers' = answers
      /\ \A t \in Session : t # s => session'[t] = session[t]
  BY <1>1 DEF StepOf
<1> QED
  BY <1>1, <1>2, <1>3, <1>4 DEF AssuredFit, Missed

-----------------------------------------------------------------------------
(* The invariant of the knowledge service *)

LEMMA PublishStep ==
    ASSUME ServiceInv, NEW s \in Session, ServiceStep(s)
    PROVE  \/ exchange' = exchange
           \/ /\ Publish(s) /\ session'[s].pc = "replied"
              /\ session'[s].code = session[s].code
              /\ \E d \in session[s].row :
                    exchange' = Append(exchange, [document_id |-> d.document_id,
                                                  by |-> session[s].req.id])
<1>1. CASE Publish(s)
  <2>1. session'[s].pc = "replied" /\ session'[s].code = session[s].code
    BY <1>1, MoveSession DEF Publish, Reply, ServiceInv
  <2> QED
    BY <1>1, <2>1 DEF Publish
<1>2. CASE ~Publish(s)
  BY <1>2 DEF ServiceStep, LocalStep, Read, RejectDocument, PersistDocument, GetDocument,
     ListDocuments, IndexReads, IndexFindsNone, DatabaseFails, RagAccepts, RagFails
<1> QED
  BY <1>1, <1>2

LEMMA StepTypes ==
    ASSUME ServiceInv, NEW s \in Session, ServiceStep(s)
    PROVE  TypeOK'
<1>1. TypeOK /\ StepOf(s)
  BY SessionMoves DEF ServiceInv
<1>2. \A t \in Session :
          /\ AtMostOne(session'[t].row)
          /\ session'[t].pc \in {"indexing", "publishing"} => session'[t].row # {}
  BY <1>1 DEF StepOf, TypeOK
<1>3. sequence' \in Nat
  <2>1. sequence \in Nat
    BY <1>1 DEF TypeOK
  <2>2. sequence' \in {sequence, sequence + 1}
    BY DEF ServiceStep, LocalStep, Read, RejectDocument, PersistDocument, GetDocument,
       ListDocuments, IndexReads, IndexFindsNone, Publish, DatabaseFails, RagAccepts, RagFails
  <2> QED
    BY <2>1, <2>2
<1>4. exchange' \in Seq(Task)
  <2>1. CASE exchange' = exchange
    BY <1>1, <2>1 DEF TypeOK
  <2>2. ASSUME NEW d \in session[s].row,
               exchange' = Append(exchange, [document_id |-> d.document_id,
                                             by |-> session[s].req.id])
        PROVE  exchange' \in Seq(Task)
    <3>1. d \in Document
      BY <1>1 DEF TypeOK
    <3>2. session[s].req.id \in Nat
      BY <1>1, Serves, RequestTyped DEF StepOf
    <3>3. [document_id |-> d.document_id, by |-> session[s].req.id] \in Task
      BY <3>1, <3>2 DEF Document, Task
    <3> QED
      BY <1>1, <2>2, <3>3 DEF TypeOK
  <2> QED
    BY <2>1, <2>2, PublishStep
<1>5. session' \in [Session -> [pc : Pc, req : Request \cup {NoRequest},
                                row : SUBSET Document, code : Code]]
  BY <1>1 DEF StepOf, SessionType
<1>6. documents' \subseteq Document
  BY <1>1, StepTable DEF StepOf
<1>7. publisherUp' = publisherUp /\ requested' = requested /\ answers' = answers
  BY <1>1 DEF StepOf
<1>8. assured' \subseteq Request
  BY <1>1, AssuredStep DEF TypeOK
<1> QED
  BY <1>1, <1>2, <1>3, <1>4, <1>5, <1>6, <1>7, <1>8 DEF TypeOK

LEMMA ServiceStepKeeps ==
    ASSUME ServiceInv, NEW s \in Session, ServiceStep(s) PROVE ServiceInv'
<1>1. requested' = requested
  BY SessionMoves DEF StepOf
<1> QED
  BY <1>1, StepTypes, StepTable, StepSessions, StepAssured DEF ServiceInv

\* An idle worker relies on nothing.
LEMMA IdleFits ==
    /\ IdleSession \in SessionType /\ IdleSession.pc = "idle" /\ IdleSession.row = {}
    /\ \A table : SessionFits(table, IdleSession)
BY DEF IdleSession, SessionType, SessionFits

LEMMA BeginKeeps ==
    ASSUME ServiceInv, NEW s \in Session, NEW req \in Request, Begin(s, req) PROVE ServiceInv'
<1> DEFINE begun == [pc |-> "begun", req |-> req, row |-> {}, code |-> 0]
<1>0. TypeOK /\ Keys /\ Requested /\ SessionsFit /\ ServedOnce /\ AnswersFit
      /\ AssuredFit
  BY DEF ServiceInv
<1>1. /\ session' = [session EXCEPT ![s] = begun] /\ requested' = requested \cup {req}
      /\ req \notin requested /\ session[s].pc = "idle"
      /\ assured' = IF ToldCreated(req.document) THEN assured \cup {req} ELSE assured
      /\ UNCHANGED <<documents, sequence, publisherUp, exchange, answers>>
  BY DEF Begin
<1>2. begun \in SessionType /\ begun.pc = "begun" /\ begun.req = req /\ begun.row = {}
  BY DEF SessionType
<1> HIDE DEF begun
<1>3. /\ session' \in [Session -> SessionType]
      /\ session'[s] = begun /\ \A t \in Session : t # s => session'[t] = session[t]
  BY <1>0, <1>1, <1>2 DEF TypeOK, SessionType
<1>4. \A d \in documents : d.by # req.id
  BY <1>0, <1>1, IdsName DEF Requested, TypeOK
<1>5. TypeOK'
  <2>1. \A t \in Session :
          /\ AtMostOne(session'[t].row)
          /\ session'[t].pc \in {"indexing", "publishing"} => session'[t].row # {}
    BY <1>0, <1>2, <1>3 DEF TypeOK
  <2> QED
    BY <1>0, <1>1, <1>3, <2>1 DEF TypeOK, SessionType
<1>6. SessionsFit'
  <2>1. SessionFits(documents, begun)
    BY <1>2, <1>4 DEF SessionFits
  <2> QED
    BY <1>0, <1>1, <1>3, <2>1 DEF SessionsFit
<1>7. ServedOnce'
  BY <1>0, <1>1, <1>2, <1>3 DEF ServedOnce
<1>8. AssuredFit'
  <2>1. ToldCreated(req.document) => \E d \in documents : d.by = req.document
    BY <1>0 DEF ToldCreated, AnswersFit, TrueOf
  <2>2. \A r \in assured' : r \in requested' /\ \E d \in documents' : d.by = r.document
    BY <1>0, <1>1, <2>1 DEF AssuredFit
  <2>3. \A t \in Session : session'[t].pc = "replied" => ~Missed(assured', session'[t])
    <3> SUFFICES ASSUME NEW t \in Session, session'[t].pc = "replied"
                 PROVE  session'[t].code = 404 => session'[t].req \notin assured'
      BY DEF Missed
    <3>1. t # s /\ session'[t] = session[t]
      BY <1>2, <1>3
    <3>2. session[t].req # req
      BY <1>0, <1>1, <3>1 DEF ServedOnce
    <3> QED
      BY <1>0, <1>1, <3>1, <3>2 DEF AssuredFit, Missed
  <2>4. \A a \in answers' : ~Missed(assured', a)
    BY <1>0, <1>1 DEF ServedOnce, AssuredFit, Missed
  <2> QED
    BY <2>2, <2>3, <2>4 DEF AssuredFit, Missed
<1> QED
  BY <1>0, <1>1, <1>5, <1>6, <1>7, <1>8 DEF ServiceInv, Keys, Requested, AnswersFit

LEMMA AnswerKeeps == ASSUME ServiceInv, NEW s \in Session, Answer(s) PROVE ServiceInv'
<1> DEFINE a == [req |-> session[s].req, code |-> session[s].code, row |-> session[s].row]
<1>0. TypeOK /\ Keys /\ Requested /\ SessionsFit /\ ServedOnce /\ AnswersFit
      /\ AssuredFit
  BY DEF ServiceInv
<1>1. /\ session[s].pc = "replied" /\ session' = [session EXCEPT ![s] = IdleSession]
      /\ answers' = answers \cup {a}
      /\ UNCHANGED <<documents, sequence, publisherUp, requested, exchange, assured>>
  BY DEF Answer
<1>2. session[s].req \in Request /\ session[s].req \in requested
  BY <1>1, Serves
<1>3. /\ a \in [req : Request, code : Code, row : SUBSET Document]
      /\ a.req = session[s].req /\ TrueOf(documents, a)
  BY <1>0, <1>1, <1>2 DEF TypeOK, SessionsFit, SessionFits, TrueOf
<1>c. a.code = session[s].code
  OBVIOUS
<1> HIDE DEF a
<1>4. /\ session' \in [Session -> SessionType]
      /\ session'[s] = IdleSession /\ \A t \in Session : t # s => session'[t] = session[t]
  BY <1>0, <1>1, IdleFits DEF TypeOK, SessionType
<1>5. TypeOK'
  <2>1. \A t \in Session :
          /\ AtMostOne(session'[t].row)
          /\ session'[t].pc \in {"indexing", "publishing"} => session'[t].row # {}
    BY <1>0, <1>4, IdleFits DEF TypeOK
  <2> QED
    BY <1>0, <1>1, <1>3, <1>4, <2>1 DEF TypeOK, SessionType
<1>6. SessionsFit'
  BY <1>0, <1>1, <1>4, IdleFits DEF SessionsFit
<1>7. ServedOnce'
  BY <1>0, <1>1, <1>2, <1>3, <1>4, IdleFits DEF ServedOnce
<1>8. AnswersFit'
  BY <1>0, <1>1, <1>3 DEF AnswersFit
<1>9. AssuredFit'
  <2>1. ~Missed(assured, a)
    BY <1>0, <1>1, <1>3, <1>c DEF AssuredFit, Missed
  <2> QED
    BY <1>0, <1>1, <1>4, <2>1, IdleFits DEF AssuredFit, Missed
<1> QED
  BY <1>0, <1>1, <1>5, <1>6, <1>7, <1>8, <1>9 DEF ServiceInv, Keys, Requested

LEMMA CrashKeeps == ASSUME ServiceInv, Crash PROVE ServiceInv'
<1>0. TypeOK /\ Keys /\ Requested /\ SessionsFit /\ ServedOnce /\ AnswersFit
      /\ AssuredFit
  BY DEF ServiceInv
<1>1. /\ session' = [s \in Session |-> IdleSession] /\ sequence' = 1
      /\ publisherUp' \in Publisher
      /\ UNCHANGED <<documents, requested, exchange, answers, assured>>
  BY DEF Crash
<1>2. \A s \in Session : session'[s] = IdleSession
  BY <1>1
<1>3. publisherUp' \in BOOLEAN
  BY <1>1, ConfigAssumption, Zenon DEF Publisher
<1>4. TypeOK'
  <2>1. session' \in [Session -> SessionType]
    BY <1>1, IdleFits
  <2> QED
    BY <1>0, <1>1, <1>2, <1>3, <2>1, IdleFits DEF TypeOK, SessionType
<1>5. SessionsFit' /\ ServedOnce' /\ AnswersFit' /\ AssuredFit'
  BY <1>0, <1>1, <1>2, IdleFits DEF SessionsFit, ServedOnce, AnswersFit, AssuredFit, Missed
<1> QED
  BY <1>0, <1>1, <1>4, <1>5 DEF ServiceInv, Keys, Requested

LEMMA ServiceInit == Init => ServiceInv
<1> SUFFICES ASSUME Init PROVE ServiceInv
  OBVIOUS
<1>1. session = [s \in Session |-> IdleSession] /\ \A s \in Session : session[s] = IdleSession
  BY DEF Init
<1>2. publisherUp \in BOOLEAN
  BY ConfigAssumption, Zenon DEF Init, Publisher
<1>3. TypeOK
  <2>1. session \in [Session -> SessionType]
    BY <1>1, IdleFits
  <2> QED
    BY <1>1, <1>2, <2>1, IdleFits DEF Init, TypeOK, SessionType
<1> QED
  BY <1>1, <1>3, IdleFits DEF ServiceInv, Init, Keys, Requested, SessionsFit, ServedOnce, AnswersFit,
     AssuredFit, Missed

LEMMA ServiceInductive == ServiceInv /\ [Next]_vars => ServiceInv'
<1> SUFFICES ASSUME ServiceInv, [Next]_vars PROVE ServiceInv'
  OBVIOUS
<1>1. CASE UNCHANGED vars
  BY <1>1 DEF vars, ServiceInv, TypeOK, Keys, Requested, SessionsFit, ServedOnce, AnswersFit,
     AssuredFit, Missed
<1>2. ASSUME NEW s \in Session, LocalStep(s) \/ RagAccepts(s) \/ RagFails(s)
      PROVE  ServiceInv'
  BY <1>2, AnswerKeeps, ServiceStepKeeps DEF ServiceStep
<1> QED
  BY <1>1, <1>2, BeginKeeps, CrashKeeps DEF Next


-----------------------------------------------------------------------------
(* The RAG service *)

\* A thread works on a request that was sent, one it has found complete once it touches
\* the index; it records the document before it appends the chunks.
ThreadFits(th, sent, docs) ==
    /\ th.pc # "idle" => th.req \in sent /\ th.pos # 0
    /\ th.pc \in {"begun", "filtering", "replacing", "recording", "appending"} =>
          th.req.path = "/index"
    /\ th.pc \in {"filtering", "replacing", "recording", "appending"} => th.req.doc # NoDoc
    /\ th.pc = "searching" => th.req.path = "/retrieve"
    /\ th.pc = "appending" => th.req.doc \in docs
RagServes == \A t \in Thread : ThreadFits(ragThread[t], ragRequested, ragDocuments)
RagDocumentsSent == \A d \in ragDocuments : \E p \in ragRequested : p.path = "/index" /\ p.doc = d
RagAnswersSent ==
    \A a \in ragAnswers :
        /\ a.req \in ragRequested
        /\ Is2xx(a.status) => a.req.path = "/index" /\ a.req.doc \in ragDocuments
RagInv == Rag!TypeOK /\ RagServes /\ RagDocumentsSent /\ RagAnswersSent

RagRequest == IndexRequest \cup Direct
RagThread == [pc : Rag!Pc, req : RagRequest \cup {NoRequest}, pos : Nat, kept : Seq(Rag!Chunk),
              alone : BOOLEAN]

LEMMA RagRequestTyped ==
    ASSUME NEW p \in RagRequest
    PROVE  /\ p.path \in {"/index", "/retrieve"} /\ p.doc \in Doc \cup {NoDoc}
           /\ p.force_rebuild \in BOOLEAN /\ p # NoRequest
BY RagAssumption DEF Rag!RequestAssumption, RagRequest

LEMMA RagThreadTyped ==
    ASSUME RagInv, NEW t \in Thread
    PROVE  /\ ragThread[t] \in RagThread
           /\ ragThread[t].pc # "idle" => ragThread[t].req \in RagRequest
<1>1. ragThread \in [Thread -> RagThread] /\ ragRequested \subseteq RagRequest
  BY DEF RagInv, Rag!TypeOK, RagRequest, RagThread
<1> QED
  BY <1>1 DEF RagInv, RagServes, ThreadFits

LEMMA RagIdle == Rag!Idle \in RagThread /\ Rag!Idle.pc = "idle"
<1>1. Rag!Idle.kept \in Seq(Rag!Chunk)
  BY DEF Rag!Idle
<1> QED
  BY <1>1 DEF Rag!Idle, RagThread, Rag!Pc

LEMMA RagBegin ==
    ASSUME RagInv, NEW t \in Thread, NEW p \in RagRequest, Rag!Begin(t, p)
    PROVE  RagInv'
<1>1. /\ ragThread \in [Thread -> RagThread] /\ ragRequested \subseteq RagRequest
      /\ ragSuspect \subseteq Doc
  BY DEF RagInv, Rag!TypeOK, RagRequest, RagThread
<1>2. /\ ragRequested' = ragRequested \cup {p} /\ ragThread[t].pc = "idle"
      /\ ragDocuments' = ragDocuments /\ ragChunks' = ragChunks /\ ragAnswers' = ragAnswers
  BY DEF Rag!Begin
<1>3. ragSuspect' \subseteq Doc
  BY <1>1 DEF Rag!Begin
<1> DEFINE index == [pc |-> "begun", req |-> p, pos |-> 1, kept |-> <<>>,
                     alone |-> Rag!OtherIndexing(t) = {}]
           search == [pc |-> "searching", req |-> p, pos |-> 1, kept |-> <<>>, alone |-> TRUE]
<1>4. index \in RagThread /\ search \in RagThread
  <2>1. <<>> \in Seq(Rag!Chunk) /\ 1 \in Nat
    OBVIOUS
  <2>2. (Rag!OtherIndexing(t) = {}) \in BOOLEAN
    BY Zenon
  <2> QED
    BY <2>1, <2>2 DEF RagThread, Rag!Pc
<1>5. \A u \in Thread : Rag!Interferes(t)[u] \in RagThread
                        /\ Rag!Interferes(t)[u].pc = ragThread[u].pc
                        /\ Rag!Interferes(t)[u].req = ragThread[u].req
                        /\ Rag!Interferes(t)[u].pos = ragThread[u].pos
  BY <1>1 DEF Rag!Interferes, RagThread
<1>6. Rag!Interferes(t) \in [Thread -> RagThread]
  BY <1>5 DEF Rag!Interferes
<1>7. \/ p.path = "/index" /\ ragThread' = [Rag!Interferes(t) EXCEPT ![t] = index]
      \/ p.path = "/retrieve" /\ ragThread' = [ragThread EXCEPT ![t] = search]
  BY RagRequestTyped DEF Rag!Begin
<1>8. /\ index.pc = "begun" /\ search.pc = "searching" /\ index.req = p /\ search.req = p
      /\ index.pos = 1 /\ search.pos = 1
  OBVIOUS
<1> HIDE DEF index, search
<1>9. ragThread' \in [Thread -> RagThread]
  BY <1>1, <1>4, <1>6, <1>7
<1>10. /\ \/ p.path = "/index" /\ ragThread'[t] = index
          \/ p.path = "/retrieve" /\ ragThread'[t] = search
       /\ \A u \in Thread : u # t => /\ ragThread'[u].pc = ragThread[u].pc
                                     /\ ragThread'[u].req = ragThread[u].req
                                     /\ ragThread'[u].pos = ragThread[u].pos
  BY <1>1, <1>5, <1>6, <1>7
<1>11. RagServes'
  BY <1>2, <1>8, <1>10 DEF RagInv, RagServes, ThreadFits
<1>12. Rag!TypeOK'
  BY <1>1, <1>2, <1>3, <1>9 DEF RagInv, Rag!TypeOK, RagRequest, RagThread
<1> QED
  BY <1>2, <1>11, <1>12 DEF RagInv, RagDocumentsSent, RagAnswersSent

LEMMA RagRestarts == ASSUME RagInv, Rag!Restart PROVE RagInv'
<1>1. /\ ragThread' = [t \in Thread |-> Rag!Idle] /\ ragDocuments' = {} /\ ragChunks' = <<>>
      /\ ragAnswers' = {} /\ ragSuspect' = {} /\ ragRequested' = ragRequested
  BY DEF Rag!Restart
<1>2. /\ ragThread' \in [Thread -> RagThread] /\ \A t \in Thread : ragThread'[t].pc = "idle"
  BY <1>1, RagIdle
<1>3. Rag!TypeOK'
  BY <1>1, <1>2 DEF RagInv, Rag!TypeOK, RagRequest, RagThread
<1> QED
  BY <1>1, <1>2, <1>3 DEF RagInv, RagServes, ThreadFits, RagDocumentsSent, RagAnswersSent

\* A step of a thread that sends no answer keeps its request.
LEMMA RagGo ==
    ASSUME RagInv, NEW t \in Thread, NEW pc \in Rag!Pc, NEW pos \in Nat, NEW kept \in Seq(Rag!Chunk),
           Rag!Go(t, pc, pos, kept), ragThread[t].pc # "idle"
    PROVE  /\ ragThread' \in [Thread -> RagThread]
           /\ ragThread'[t].pc = pc /\ ragThread'[t].req = ragThread[t].req
           /\ ragThread'[t].pos = pos /\ ragThread'[t].kept = kept
           /\ ragThread'[t].alone = ragThread[t].alone
           /\ \A u \in Thread : u # t => ragThread'[u] = ragThread[u]
           /\ ragRequested' = ragRequested /\ ragAnswers' = ragAnswers
<1> DEFINE th == [pc |-> pc, req |-> ragThread[t].req, pos |-> pos, kept |-> kept,
                  alone |-> ragThread[t].alone]
<1>1. ragThread \in [Thread -> RagThread]
  BY DEF RagInv, Rag!TypeOK, RagRequest, RagThread
<1>2. /\ ragThread' = [ragThread EXCEPT ![t] = th]
      /\ ragRequested' = ragRequested /\ ragAnswers' = ragAnswers
  BY DEF Rag!Go
<1>3. /\ th \in RagThread /\ th.pc = pc /\ th.req = ragThread[t].req
      /\ th.pos = pos /\ th.kept = kept /\ th.alone = ragThread[t].alone
  BY <1>1 DEF RagThread
<1> HIDE DEF th
<1> QED
  BY <1>1, <1>2, <1>3

LEMMA RagReply ==
    ASSUME RagInv, NEW t \in Thread, NEW snippets \in Seq(Rag!Chunk),
           NEW status \in {"error", "indexed", "skipped", "snippets"},
           Rag!Reply(t, status, snippets), ragThread[t].pc # "idle",
           ragDocuments' = ragDocuments,
           Is2xx(status) => ragThread[t].req.path = "/index" /\ ragThread[t].req.doc \in ragDocuments
    PROVE  /\ ragThread' \in [Thread -> RagThread]
           /\ ragThread'[t].pc = "idle"
           /\ \A u \in Thread : u # t => ragThread'[u] = ragThread[u]
           /\ ragRequested' = ragRequested
           /\ ragAnswers' \subseteq [req : RagRequest, status : {"error", "indexed", "skipped", "snippets"},
                                     snippets : Seq(Rag!Chunk)]
           /\ RagAnswersSent'
<1> DEFINE a == [req |-> ragThread[t].req, status |-> status, snippets |-> snippets]
<1>1. /\ ragThread \in [Thread -> RagThread]
      /\ ragAnswers \subseteq [req : RagRequest, status : {"error", "indexed", "skipped", "snippets"},
                               snippets : Seq(Rag!Chunk)]
  BY DEF RagInv, Rag!TypeOK, RagRequest, RagThread
<1>2. /\ ragThread' = [ragThread EXCEPT ![t] = Rag!Idle]
      /\ ragRequested' = ragRequested /\ ragAnswers' = ragAnswers \cup {a}
  BY DEF Rag!Reply
<1>3. ragThread[t].req \in RagRequest /\ ragThread[t].req \in ragRequested
  BY RagThreadTyped DEF RagInv, RagServes, ThreadFits
<1>4. /\ a \in [req : RagRequest, status : {"error", "indexed", "skipped", "snippets"},
                snippets : Seq(Rag!Chunk)]
      /\ a.req = ragThread[t].req /\ a.status = status
  BY <1>3
<1> HIDE DEF a
<1>5. RagAnswersSent'
  BY <1>2, <1>3, <1>4 DEF RagInv, RagAnswersSent
<1> QED
  BY <1>1, <1>2, <1>4, <1>5, RagIdle


\* A step of thread t: it goes on with its request or becomes idle, may record the
\* document, and leaves what the others are at.
RagMoves(t) ==
    /\ ragThread' \in [Thread -> RagThread] /\ ragRequested' = ragRequested
    /\ \A u \in Thread : u # t => /\ ragThread'[u].pc = ragThread[u].pc
                                  /\ ragThread'[u].req = ragThread[u].req
                                  /\ ragThread'[u].pos = ragThread[u].pos
    /\ ThreadFits(ragThread'[t], ragRequested, ragDocuments')
    /\ \/ ragDocuments' = ragDocuments
       \/ ragDocuments' = ragDocuments \cup {ragThread[t].req.doc} /\ ragThread[t].pc = "recording"
    /\ ragChunks' \in Seq(Rag!Chunk) /\ ragSuspect' \subseteq Doc
    /\ ragAnswers' \subseteq [req : RagRequest, status : {"error", "indexed", "skipped", "snippets"},
                              snippets : Seq(Rag!Chunk)]
    /\ RagAnswersSent'

LEMMA RagMovesKeep ==
    ASSUME RagInv, NEW t \in Thread, ragThread[t].pc # "idle", RagMoves(t) PROVE RagInv'
<1>0. /\ ragThread[t].req \in RagRequest /\ ragThread[t].req \in ragRequested
      /\ ThreadFits(ragThread[t], ragRequested, ragDocuments)
  BY RagThreadTyped DEF RagInv, RagServes, ThreadFits
<1>1. ragRequested' = ragRequested /\ ragDocuments \subseteq ragDocuments'
  BY DEF RagMoves
<1>2. RagServes'
  BY <1>1 DEF RagInv, RagServes, RagMoves, ThreadFits
<1>3. ragDocuments' \subseteq Doc /\ RagDocumentsSent'
  BY <1>0, RagRequestTyped DEF RagInv, RagDocumentsSent, RagMoves, ThreadFits, Rag!TypeOK
<1>4. Rag!TypeOK'
  BY <1>3 DEF RagInv, RagMoves, Rag!TypeOK, RagRequest, RagThread
<1> QED
  BY <1>2, <1>3, <1>4 DEF RagInv, RagMoves

LEMMA RagThreadMoves ==
    ASSUME RagInv, NEW t \in Thread, Rag!ThreadStep(t)
    PROVE  ragThread[t].pc # "idle" /\ RagMoves(t)

<1>1. ragThread[t].pc # "idle"
  BY DEF Rag!ThreadStep, Rag!RejectIndex, Rag!Skip, Rag!StartIndex, Rag!FilterItem,
     Rag!FilterEnds, Rag!Replace, Rag!Record, Rag!AppendChunk, Rag!FinishIndex,
     Rag!SearchItem, Rag!FinishSearch, Rag!Indexing
<1>2. /\ ragThread[t].req \in RagRequest /\ ragThread[t].req \in ragRequested
      /\ ragThread[t] \in RagThread
      /\ ThreadFits(ragThread[t], ragRequested, ragDocuments)
  BY <1>1, RagThreadTyped DEF RagInv, RagServes, ThreadFits
<1>3. /\ ragThread \in [Thread -> RagThread] /\ ragRequested \subseteq RagRequest
      /\ ragDocuments \subseteq Doc /\ ragChunks \in Seq(Rag!Chunk) /\ ragSuspect \subseteq Doc
      /\ ragAnswers \subseteq [req : RagRequest, status : {"error", "indexed", "skipped", "snippets"},
                               snippets : Seq(Rag!Chunk)]
      /\ NumChunks \in [Doc -> Nat] /\ TopK \in Nat
  BY RagAssumption DEF RagInv, Rag!TypeOK, RagRequest, RagThread, Rag!RequestAssumption
<1>4. /\ ragThread[t].pos \in Nat \ {0} /\ ragThread[t].kept \in Seq(Rag!Chunk)
      /\ ragThread[t].pos + 1 \in Nat \ {0} /\ <<>> \in Seq(Rag!Chunk) /\ 1 \in Nat
  BY <1>1, <1>2 DEF RagThread, ThreadFits
<1>5. RagAnswersSent
  BY DEF RagInv, RagAnswersSent
<1>6. ASSUME NEW pc \in Rag!Pc, NEW pos \in Nat \ {0}, NEW kept \in Seq(Rag!Chunk),
             Rag!Go(t, pc, pos, kept),
             \/ ragDocuments' = ragDocuments
             \/ ragDocuments' = ragDocuments \cup {ragThread[t].req.doc} /\ ragThread[t].pc = "recording",
             ragChunks' \in Seq(Rag!Chunk), ragSuspect' \subseteq Doc,
             pc \in {"filtering", "recording", "appending"} =>
                ragThread[t].req.path = "/index" /\ ragThread[t].req.doc # NoDoc,
             pc = "searching" => ragThread[t].req.path = "/retrieve",
             pc = "appending" => ragThread[t].req.doc \in ragDocuments',
             pc \in {"filtering", "recording", "appending", "searching"}
      PROVE  RagMoves(t)
  <2>1. /\ ragThread' \in [Thread -> RagThread]
        /\ ragThread'[t].pc = pc /\ ragThread'[t].req = ragThread[t].req
        /\ ragThread'[t].pos = pos
        /\ \A u \in Thread : u # t => ragThread'[u] = ragThread[u]
        /\ ragRequested' = ragRequested /\ ragAnswers' = ragAnswers
    BY <1>1, <1>6, RagGo
  <2>2. RagAnswersSent'
    BY <1>5, <1>6, <2>1 DEF RagAnswersSent
  <2> QED
    BY <1>2, <1>3, <1>6, <2>1, <2>2 DEF RagMoves, ThreadFits
<1>7. ASSUME NEW snippets \in Seq(Rag!Chunk),
             NEW status \in {"error", "indexed", "skipped", "snippets"},
             Rag!Reply(t, status, snippets),
             ragDocuments' = ragDocuments, ragChunks' = ragChunks, ragSuspect' \subseteq Doc,
             Is2xx(status) => ragThread[t].req.path = "/index" /\ ragThread[t].req.doc \in ragDocuments
      PROVE  RagMoves(t)
  <2>1. /\ ragThread' \in [Thread -> RagThread]
        /\ ragThread'[t].pc = "idle"
        /\ \A u \in Thread : u # t => ragThread'[u] = ragThread[u]
        /\ ragRequested' = ragRequested
        /\ ragAnswers' \subseteq [req : RagRequest, status : {"error", "indexed", "skipped", "snippets"},
                                  snippets : Seq(Rag!Chunk)]
        /\ RagAnswersSent'
    BY <1>1, <1>7, RagReply
  <2> QED
    BY <1>3, <1>7, <2>1 DEF RagMoves, ThreadFits
<1>8. CASE Rag!RejectIndex(t)
  BY <1>3, <1>4, <1>7, <1>8 DEF Rag!RejectIndex, Is2xx
<1>9. CASE Rag!Skip(t)
  BY <1>3, <1>4, <1>7, <1>9 DEF Rag!Skip, Rag!Indexing
<1>10. CASE Rag!StartIndex(t)
  <2>1. /\ UNCHANGED <<ragDocuments, ragChunks, ragSuspect>>
        /\ ragThread[t].req.path = "/index" /\ ragThread[t].req.doc # NoDoc
        /\ Rag!Go(t, "filtering", 1, <<>>) \/ Rag!Go(t, "recording", 1, <<>>)
    BY <1>10 DEF Rag!StartIndex, Rag!Indexing, Rag!Complete
  <2>2. "filtering" \in Rag!Pc /\ "recording" \in Rag!Pc /\ 1 \in Nat \ {0}
    BY DEF Rag!Pc
  <2> QED
    BY <1>1, <1>3, <1>4, <1>6, <2>1, <2>2
<1>11. CASE Rag!FilterItem(t)
  <2> DEFINE item == ragChunks[ragThread[t].pos]
             kept == IF item.document_id # ragThread[t].req.doc THEN Append(ragThread[t].kept, item)
                     ELSE ragThread[t].kept
  <2>1. /\ ragThread[t].pc = "filtering"
        /\ Rag!Go(t, "filtering", ragThread[t].pos + 1, kept)
        /\ ragThread[t].pos <= Len(ragChunks)
        /\ UNCHANGED <<ragDocuments, ragChunks, ragSuspect>>
    BY <1>11 DEF Rag!FilterItem
  <2>2. kept \in Seq(Rag!Chunk)
    BY <1>3, <1>4, <2>1
  <2>3. "filtering" \in Rag!Pc
    BY DEF Rag!Pc
  <2> HIDE DEF kept
  <2> QED
    BY <1>2, <1>3, <1>4, <1>6, <2>1, <2>2, <2>3 DEF ThreadFits
<1>12. CASE Rag!FilterEnds(t)
  <2>1. /\ ragThread[t].pc = "filtering" /\ ragThread' = [ragThread EXCEPT ![t].pc = "replacing"]
        /\ UNCHANGED <<ragDocuments, ragChunks, ragRequested, ragAnswers, ragSuspect>>
    BY <1>12 DEF Rag!FilterEnds
  <2>2. "replacing" \in Rag!Pc
    BY DEF Rag!Pc
  <2>3. ragThread' \in [Thread -> RagThread]
    BY <1>3, <2>1, <2>2 DEF RagThread
  <2>4. /\ ragThread'[t].pc = "replacing" /\ ragThread'[t].req = ragThread[t].req
        /\ ragThread'[t].pos = ragThread[t].pos
        /\ \A u \in Thread : u # t => ragThread'[u] = ragThread[u]
    BY <1>3, <2>1 DEF RagThread
  <2>5. RagAnswersSent'
    BY <1>5, <2>1 DEF RagAnswersSent
  <2> QED
    BY <1>2, <1>3, <2>1, <2>3, <2>4, <2>5 DEF RagMoves, ThreadFits
<1>13. CASE Rag!Replace(t)
  <2> DEFINE mine == [ragThread[t] EXCEPT !.pc = "recording", !.pos = 1, !.kept = <<>>]
             other(u) == IF ragThread[u].pc = "searching" THEN [ragThread[u] EXCEPT !.alone = FALSE]
                         ELSE ragThread[u]
  <2>1. /\ ragThread[t].pc = "replacing" /\ ragChunks' = ragThread[t].kept
        /\ ragThread' = [u \in Thread |-> IF u = t THEN mine ELSE other(u)]
        /\ UNCHANGED <<ragDocuments, ragRequested, ragAnswers>>
        /\ ragSuspect' \in {Doc, ragSuspect}
    BY <1>13 DEF Rag!Replace
  <2>2. "recording" \in Rag!Pc
    BY DEF Rag!Pc
  <2>3. mine \in RagThread /\ mine.pc = "recording" /\ mine.req = ragThread[t].req /\ mine.pos = 1
    BY <1>2, <1>4, <2>2 DEF RagThread
  <2>4. \A u \in Thread : /\ other(u) \in RagThread /\ other(u).pc = ragThread[u].pc
                          /\ other(u).req = ragThread[u].req /\ other(u).pos = ragThread[u].pos
    BY <1>3 DEF RagThread
  <2> HIDE DEF mine, other
  <2>5. ragThread' \in [Thread -> RagThread]
    BY <2>1, <2>3, <2>4
  <2>6. RagAnswersSent'
    BY <1>5, <2>1 DEF RagAnswersSent
  <2> QED
    BY <1>2, <1>3, <1>4, <2>1, <2>3, <2>4, <2>5, <2>6 DEF RagMoves, ThreadFits
<1>14. CASE Rag!Record(t)
  <2>1. "appending" \in Rag!Pc /\ 1 \in Nat \ {0}
    BY DEF Rag!Pc
  <2> QED
    BY <1>2, <1>3, <1>4, <1>6, <1>14, <2>1 DEF Rag!Record, ThreadFits
<1>15. CASE Rag!AppendChunk(t)
  <2>1. /\ ragThread[t].pc = "appending" /\ ragChunks' = Append(ragChunks, Rag!NewChunk(t))
        /\ Rag!Go(t, "appending", ragThread[t].pos + 1, <<>>)
        /\ ragSuspect' \in {ragSuspect, ragSuspect \cup {ragThread[t].req.doc}}
        /\ ragDocuments' = ragDocuments
    BY <1>15 DEF Rag!AppendChunk
  <2>2. ragThread[t].req.doc \in Doc
    BY <1>2, <2>1, RagRequestTyped DEF ThreadFits
  <2>3. Rag!NewChunk(t) \in Rag!Chunk
    BY <1>4, <2>2 DEF Rag!NewChunk, Rag!Chunk
  <2>4. "appending" \in Rag!Pc
    BY DEF Rag!Pc
  <2>5. /\ ragThread[t].req.path = "/index" /\ ragThread[t].req.doc # NoDoc
        /\ ragThread[t].req.doc \in ragDocuments /\ ragChunks' \in Seq(Rag!Chunk)
        /\ ragSuspect' \subseteq Doc
    BY <1>2, <1>3, <2>1, <2>2, <2>3 DEF ThreadFits
  <2> QED
    BY <1>3, <1>4, <1>6, <2>1, <2>4, <2>5
<1>16. CASE Rag!FinishIndex(t)
  <2>1. /\ ragThread[t].pc = "appending" /\ Rag!Reply(t, "indexed", <<>>)
        /\ ragSuspect' \subseteq ragSuspect
        /\ ragDocuments' = ragDocuments /\ ragChunks' = ragChunks
    BY <1>16 DEF Rag!FinishIndex
  <2> QED
    BY <1>2, <1>3, <1>4, <1>7, <2>1 DEF ThreadFits
<1>17. CASE Rag!SearchItem(t)
  <2> DEFINE item == ragChunks[ragThread[t].pos]
             kept == IF Rag!Scores(item, ragThread[t].req) THEN Append(ragThread[t].kept, item)
                     ELSE ragThread[t].kept
  <2>1. /\ ragThread[t].pc = "searching"
        /\ Rag!Go(t, "searching", ragThread[t].pos + 1, kept)
        /\ ragThread[t].pos <= Len(ragChunks)
        /\ UNCHANGED <<ragDocuments, ragChunks, ragSuspect>>
    BY <1>17 DEF Rag!SearchItem
  <2>2. kept \in Seq(Rag!Chunk)
    BY <1>3, <1>4, <2>1
  <2>3. "searching" \in Rag!Pc
    BY DEF Rag!Pc
  <2> HIDE DEF kept
  <2> QED
    BY <1>2, <1>3, <1>4, <1>6, <2>1, <2>2, <2>3 DEF ThreadFits
<1>18. CASE Rag!FinishSearch(t)
  <2> DEFINE kept == ragThread[t].kept
             n == IF Len(kept) < TopK THEN Len(kept) ELSE TopK
  <2>1. /\ Rag!Reply(t, "snippets", SubSeq(kept, 1, n))
        /\ UNCHANGED <<ragDocuments, ragChunks, ragSuspect>>
    BY <1>18 DEF Rag!FinishSearch
  <2>2. kept \in Seq(Rag!Chunk) /\ Len(kept) \in Nat /\ n \in 0..Len(kept)
    BY <1>3, <1>4
  <2> HIDE DEF kept, n
  <2>3. SubSeq(kept, 1, n) \in Seq(Rag!Chunk)
    BY <2>2
  <2>4. ~Is2xx("snippets") /\ ragSuspect' \subseteq Doc
    BY <1>3, <2>1 DEF Is2xx
  <2> QED
    BY <1>1, <1>7, <2>1, <2>3, <2>4
<1> QED
  BY <1>1, <1>8, <1>9, <1>10, <1>11, <1>12, <1>13, <1>14, <1>15, <1>16, <1>17, <1>18
     DEF Rag!ThreadStep

LEMMA RagThreadStep == ASSUME RagInv, NEW t \in Thread, Rag!ThreadStep(t) PROVE RagInv'
BY RagThreadMoves, RagMovesKeep


-----------------------------------------------------------------------------
(* The chunks of a document in a list *)

\* Function f finds the chunks of d in the first n elements of list.
Finds(f, list, d, n) ==
    f = [i \in 0..n |-> IF i = 0 THEN <<>>
                        ELSE IF list[i].document_id = d THEN Append(f[i - 1], list[i])
                        ELSE f[i - 1]]

LEMMA Smallest ==
    ASSUME NEW S \in SUBSET Nat, S # {} PROVE \E x \in S : \A y \in S : x <= y
<1>1. PICK x \in S : \A y \in S : <<y, x>> \notin OpToRel(<, Nat)
  BY NatLessThanWellFounded, WFMin
<1>2. ASSUME NEW y \in S PROVE ~(y < x)
  BY <1>1, Zenon DEF OpToRel
<1>3. x \in Nat /\ \A y \in S : y \in Nat
  OBVIOUS
<1> QED
  BY <1>2, <1>3

LEMMA FindsExists ==
    ASSUME NEW list, NEW d, NEW n \in Nat
    PROVE  \E f : Finds(f, list, d, n)
<1> DEFINE Bad == {k \in Nat : ~ \E f : Finds(f, list, d, k)}
<1> SUFFICES ASSUME Bad # {} PROVE FALSE
  OBVIOUS
<1>1. PICK k \in Bad : \A j \in Bad : k <= j
  BY Smallest
<1>2. k # 0
  <2>1. Finds([i \in 0..0 |-> <<>>], list, d, 0)
    BY DEF Finds
  <2> QED
    BY <1>1, <2>1
<1>3. PICK f : Finds(f, list, d, k - 1)
  BY <1>1, <1>2
<1> DEFINE last == IF list[k].document_id = d THEN Append(f[k - 1], list[k]) ELSE f[k - 1]
           g == [i \in 0..k |-> IF i = k THEN last ELSE f[i]]
<1>4. \A i \in 0..(k - 1) : g[i] = f[i]
  BY <1>1, <1>2
<1>5. g[k] = last
  BY <1>1
<1>6. g = [i \in 0..k |-> g[i]]
  OBVIOUS
<1>7. \A i \in 0..(k - 1) : f[i] = IF i = 0 THEN <<>>
                                  ELSE IF list[i].document_id = d THEN Append(f[i - 1], list[i])
                                  ELSE f[i - 1]
  BY <1>3 DEF Finds
<1> HIDE DEF g
<1>8. ASSUME NEW i \in 0..k
      PROVE  g[i] = IF i = 0 THEN <<>>
                    ELSE IF list[i].document_id = d THEN Append(g[i - 1], list[i])
                    ELSE g[i - 1]
  <2>1. CASE i = k
    <3>1. g[k - 1] = f[k - 1]
      BY <1>1, <1>2, <1>4
    <3> QED
      BY <1>2, <1>5, <2>1, <3>1
  <2>2. CASE i # k
    <3>1. i \in 0..(k - 1) /\ g[i] = f[i]
      BY <1>1, <1>4, <2>2
    <3>2. i # 0 => i - 1 \in 0..(k - 1) /\ g[i - 1] = f[i - 1]
      BY <1>1, <1>4, <3>1
    <3>3. f[i] = IF i = 0 THEN <<>>
                 ELSE IF list[i].document_id = d THEN Append(f[i - 1], list[i])
                 ELSE f[i - 1]
      BY <1>7, <3>1
    <3> QED
      BY <3>1, <3>2, <3>3, ZenonT(30)
  <2> QED
    BY <2>1, <2>2
<1>9. Finds(g, list, d, k)
  BY <1>6, <1>8 DEF Finds
<1> QED
  BY <1>1, <1>9

\* What the recursion says: nothing in an empty list, and one chunk more or none with
\* every element.
LEMMA ChunksInFound ==
    ASSUME NEW list, NEW d, Len(list) \in Nat
    PROVE  \E f : Finds(f, list, d, Len(list)) /\ Rag!ChunksIn(list, d) = f[Len(list)]
<1> DEFINE F == CHOOSE f : Finds(f, list, d, Len(list))
<1>1. Finds(F, list, d, Len(list))
  BY FindsExists
<1>2. Rag!ChunksIn(list, d) = F[Len(list)]
  BY DEF Rag!ChunksIn, Finds
<1> QED
  BY <1>1, <1>2

LEMMA ChunksInAppend ==
    ASSUME NEW list \in Seq(Rag!Chunk), NEW c \in Rag!Chunk, NEW d
    PROVE  Rag!ChunksIn(Append(list, c), d) =
              IF c.document_id = d THEN Append(Rag!ChunksIn(list, d), c) ELSE Rag!ChunksIn(list, d)
<1> DEFINE n == Len(list)
           longer == Append(list, c)
<1>1. n \in Nat /\ Len(longer) = n + 1 /\ longer[n + 1] = c
      /\ \A i \in 1..n : longer[i] = list[i]
  OBVIOUS
<1>2. PICK f : Finds(f, list, d, n) /\ Rag!ChunksIn(list, d) = f[n]
  BY <1>1, ChunksInFound
<1> HIDE DEF longer
<1>3. PICK g : Finds(g, longer, d, n + 1) /\ Rag!ChunksIn(longer, d) = g[n + 1]
  BY <1>1, ChunksInFound
<1> HIDE DEF n
<1>4. ASSUME NEW i \in 0..(n + 1)
      PROVE  g[i] = IF i = 0 THEN <<>>
                    ELSE IF longer[i].document_id = d THEN Append(g[i - 1], longer[i])
                    ELSE g[i - 1]
  BY <1>3 DEF Finds
<1>5. ASSUME NEW i \in 0..n
      PROVE  f[i] = IF i = 0 THEN <<>>
                    ELSE IF list[i].document_id = d THEN Append(f[i - 1], list[i])
                    ELSE f[i - 1]
  BY <1>2 DEF Finds
<1>6. f[n] = g[n]
  <2> DEFINE Bad == {i \in 0..n : f[i] # g[i]}
  <2> SUFFICES ASSUME Bad # {} PROVE FALSE
    BY <1>1
  <2>1. Bad \in SUBSET Nat
    BY <1>1
  <2> HIDE DEF Bad
  <2>2. PICK i \in Bad : \A j \in Bad : i <= j
    BY <2>1, Smallest
  <2>3. i \in 0..n /\ i \in 0..(n + 1) /\ f[i] # g[i]
    BY <1>1, <2>2 DEF Bad
  <2>4. i # 0
    BY <1>4, <1>5, <2>3
  <2>5. i \in 1..n /\ i - 1 \in 0..n /\ i - 1 \notin Bad
    BY <1>1, <2>1, <2>2, <2>3, <2>4
  <2>6. f[i - 1] = g[i - 1] /\ longer[i] = list[i]
    BY <1>1, <2>5 DEF Bad
  <2> QED
    BY <1>4, <1>5, <2>3, <2>4, <2>6
<1>7. n + 1 \in 0..(n + 1) /\ n + 1 # 0 /\ (n + 1) - 1 = n
  BY <1>1
<1>8. g[n + 1] = IF c.document_id = d THEN Append(g[n], c) ELSE g[n]
  BY <1>1, <1>4, <1>7
<1> QED
  BY <1>2, <1>3, <1>6, <1>8 DEF longer

LEMMA ChunksInNone == ASSUME NEW d PROVE Rag!ChunksIn(<<>>, d) = <<>>
<1>1. Len(<<>>) = 0
  OBVIOUS
<1>2. PICK f : Finds(f, <<>>, d, 0) /\ Rag!ChunksIn(<<>>, d) = f[0]
  BY <1>1, ChunksInFound
<1> QED
  BY <1>2 DEF Finds

-----------------------------------------------------------------------------
(* What is in the index *)

IndexPc == {"begun", "filtering", "replacing", "recording", "appending"}
First(d, n) == [i \in 1..n |-> [document_id |-> d, index |-> i]]

\* What thread th does is known: no race has struck its document, or it rebuilds it and
\* has met nobody.
Trusted(th, suspect) == th.req.doc \notin suspect \/ (th.alone /\ th.req.force_rebuild)

\* What thread th relies on, given the chunks and the documents a race may have harmed.
AtWork(th, list, suspect) ==
    /\ th.pc \in {"filtering", "replacing"} => Rag!ChunksIn(th.kept, th.req.doc) = <<>>
    /\ th.pc = "filtering" => \A d \in Doc \ suspect : d # th.req.doc =>
          /\ th.pos - 1 <= Len(list)
          /\ Rag!ChunksIn(th.kept, d) = Rag!ChunksIn(SubSeq(list, 1, th.pos - 1), d)
    /\ th.pc = "replacing" => \A d \in Doc \ suspect : d # th.req.doc =>
          Rag!ChunksIn(th.kept, d) = Rag!ChunksIn(list, d)
    /\ th.pc = "recording" /\ Trusted(th, suspect) => Rag!ChunksIn(list, th.req.doc) = <<>>
    /\ th.pc = "appending" /\ Trusted(th, suspect) =>
          /\ th.pos - 1 <= NumChunks[th.req.doc]
          /\ Rag!ChunksIn(list, th.req.doc) = First(th.req.doc, th.pos - 1)
    /\ th.pc = "searching" /\ th.alone =>
          /\ th.pos - 1 <= Len(list)
          /\ th.kept = Rag!ChunksIn(SubSeq(list, 1, th.pos - 1), th.req.doc)

\* A document on which nobody records or appends is there or is not.
Settled ==
    \A d \in Doc \ ragSuspect :
        (\A t \in Thread : ragThread[t].pc \in {"recording", "appending"} => ragThread[t].req.doc # d)
        => Rag!ChunksIn(ragChunks, d) = IF d \in ragDocuments THEN First(d, NumChunks[d]) ELSE <<>>

\* Who is alone indexes alone, and a document no race has struck has one thread.
NotAlone ==
    \A t, u \in Thread :
        /\ ragThread[t].pc \in IndexPc /\ ragThread[u].pc \in IndexPc
        /\ ragThread[t].alone \/ (ragThread[t].req.doc = ragThread[u].req.doc
                                  /\ ragThread[t].req.doc \in Doc \ ragSuspect)
        => t = u

RagContent ==
    /\ NotAlone /\ Settled
    /\ \A t \in Thread : AtWork(ragThread[t], ragChunks, ragSuspect)

LEMMA ListIsSeq ==
    ASSUME NEW S, NEW n \in Nat, NEW f \in [1..n -> S] PROVE f \in Seq(S) /\ Len(f) = n
BY SeqDef, LenProperties

LEMMA FirstTyped ==
    ASSUME NEW d, NEW n \in Nat
    PROVE  First(d, n) \in Seq([document_id : {d}, index : Nat]) /\ Len(First(d, n)) = n
<1> DEFINE S == [document_id : {d}, index : Nat]
<1>1. First(d, n) \in [1..n -> S]
  BY DEF First
<1> HIDE DEF S
<1>2. First(d, n) \in Seq(S) /\ Len(First(d, n)) = n
  BY <1>1, ListIsSeq
<1> QED
  BY <1>2 DEF S

LEMMA FirstGrows ==
    ASSUME NEW d, NEW n \in Nat
    PROVE  /\ First(d, 0) = <<>>
           /\ Append(First(d, n), [document_id |-> d, index |-> n + 1]) = First(d, n + 1)
<1>1. First(d, 0) = <<>>
  BY DEF First
<1>2. ASSUME NEW c, c = [document_id |-> d, index |-> n + 1]
      PROVE  Append(First(d, n), c) = First(d, n + 1)
  <2>1. \A i \in 1..n : First(d, n)[i] = First(d, n + 1)[i]
    BY DEF First
  <2>2. First(d, n + 1)[n + 1] = c
    BY <1>2 DEF First
  <2>3. n + 1 \in Nat
    OBVIOUS
  <2>4. /\ First(d, n) \in Seq([document_id : {d}, index : Nat]) /\ Len(First(d, n)) = n
        /\ First(d, n + 1) \in Seq([document_id : {d}, index : Nat])
        /\ Len(First(d, n + 1)) = n + 1
    BY <2>3, FirstTyped
  <2>5. c \in [document_id : {d}, index : Nat]
    BY <1>2
  <2> QED
    BY <2>1, <2>2, <2>4, <2>5
<1> QED
  BY <1>1, <1>2

LEMMA Prefix ==
    ASSUME NEW list \in Seq(Rag!Chunk), NEW c \in Rag!Chunk, NEW n \in Nat
    PROVE  /\ n <= Len(list) => SubSeq(Append(list, c), 1, n) = SubSeq(list, 1, n)
           /\ n <= Len(list) => SubSeq(list, 1, n) \in Seq(Rag!Chunk)
           /\ n + 1 <= Len(list) => SubSeq(list, 1, n + 1) = Append(SubSeq(list, 1, n), list[n + 1])
           /\ SubSeq(list, 1, 0) = <<>> /\ SubSeq(list, 1, Len(list)) = list
OBVIOUS

LEMMA RagTyped ==
    ASSUME RagInv
    PROVE  /\ ragThread \in [Thread -> RagThread] /\ ragRequested \subseteq RagRequest
           /\ ragDocuments \subseteq Doc /\ ragChunks \in Seq(Rag!Chunk) /\ ragSuspect \subseteq Doc
           /\ NumChunks \in [Doc -> Nat]
BY RagAssumption DEF RagInv, Rag!TypeOK, RagRequest, RagThread, Rag!RequestAssumption

\* Who indexes, by what it does.
LEMMA IndexingIs ==
    ASSUME RagInv, NEW t \in Thread PROVE Rag!Indexing(t) <=> ragThread[t].pc \in IndexPc
BY DEF RagInv, RagServes, ThreadFits, Rag!Indexing, IndexPc

\* A loop over a list finds one chunk more or none with every item.
LEMMA ChunksInNext ==
    ASSUME NEW list \in Seq(Rag!Chunk), NEW pos \in Nat \ {0}, pos <= Len(list), NEW d
    PROVE  Rag!ChunksIn(SubSeq(list, 1, pos), d) =
              IF list[pos].document_id = d
              THEN Append(Rag!ChunksIn(SubSeq(list, 1, pos - 1), d), list[pos])
              ELSE Rag!ChunksIn(SubSeq(list, 1, pos - 1), d)
<1> DEFINE front == SubSeq(list, 1, pos - 1)
           upto == SubSeq(list, 1, pos)
           item == list[pos]
<1>1. item \in Rag!Chunk /\ front \in Seq(Rag!Chunk) /\ upto = Append(front, item)
  OBVIOUS
<1> HIDE DEF front, item, upto
<1>2. Rag!ChunksIn(Append(front, item), d) =
        IF item.document_id = d THEN Append(Rag!ChunksIn(front, d), item) ELSE Rag!ChunksIn(front, d)
  BY <1>1, ChunksInAppend
<1>3. Rag!ChunksIn(upto, d) =
        IF item.document_id = d THEN Append(Rag!ChunksIn(front, d), item) ELSE Rag!ChunksIn(front, d)
  BY <1>1, <1>2
<1> QED
  BY <1>3 DEF front, item, upto

\* A thread goes on or ends and touches nothing else.
LEMMA ContentSame ==
    ASSUME RagInv, RagContent, NEW t \in Thread,
           ragChunks' = ragChunks, ragDocuments' = ragDocuments, ragSuspect' = ragSuspect,
           \A u \in Thread : u # t => ragThread'[u] = ragThread[u],
           ragThread'[t].pc \in IndexPc =>
              /\ ragThread[t].pc \in IndexPc
              /\ ragThread'[t].req = ragThread[t].req /\ ragThread'[t].alone = ragThread[t].alone,
           ragThread[t].pc \notin {"recording", "appending"},
           AtWork(ragThread'[t], ragChunks, ragSuspect)
    PROVE  RagContent'
<1>1. NotAlone'
  BY DEF RagContent, NotAlone
<1>2. Settled'
  <2>1. ASSUME NEW d \in Doc \ ragSuspect,
               \A u \in Thread : ragThread'[u].pc \in {"recording", "appending"}
                                 => ragThread'[u].req.doc # d
        PROVE  Rag!ChunksIn(ragChunks, d) = IF d \in ragDocuments THEN First(d, NumChunks[d]) ELSE <<>>
    BY <2>1 DEF RagContent, Settled
  <2> QED
    BY <2>1 DEF Settled
<1>3. \A u \in Thread : AtWork(ragThread'[u], ragChunks, ragSuspect)
  BY DEF RagContent
<1> QED
  BY <1>1, <1>2, <1>3 DEF RagContent

LEMMA IdleAtWork ==
    ASSUME NEW th, NEW list, NEW suspect, th.pc \in {"idle", "begun"} PROVE AtWork(th, list, suspect)
BY DEF AtWork

\* What a thread relies on holds whatever is no longer trusted.
LEMMA AtWorkSuspects ==
    ASSUME NEW th, NEW list, NEW less, NEW more, less \subseteq more, AtWork(th, list, less)
    PROVE  AtWork(th, list, more)
BY DEF AtWork, Trusted

\* ... and whatever alone becomes.
LEMMA AtWorkMet ==
    ASSUME NEW th, NEW th2, NEW list, NEW suspect, AtWork(th, list, suspect),
           th2.pc = th.pc, th2.req = th.req, th2.pos = th.pos, th2.kept = th.kept,
           th2.alone => th.alone
    PROVE  AtWork(th2, list, suspect)
BY DEF AtWork, Trusted

LEMMA ContentBegin ==
    ASSUME RagInv, RagContent, NEW t \in Thread, NEW p \in RagRequest, Rag!Begin(t, p)
    PROVE  RagContent'
<1>1. /\ ragThread \in [Thread -> RagThread] /\ ragChunks \in Seq(Rag!Chunk)
  BY RagTyped
<1>2. /\ ragThread[t].pc = "idle"
      /\ ragDocuments' = ragDocuments /\ ragChunks' = ragChunks
  BY DEF Rag!Begin
<1> DEFINE index == [pc |-> "begun", req |-> p, pos |-> 1, kept |-> <<>>,
                     alone |-> Rag!OtherIndexing(t) = {}]
           search == [pc |-> "searching", req |-> p, pos |-> 1, kept |-> <<>>, alone |-> TRUE]
<1>3. CASE p.path = "/index"
  <2>1. /\ ragThread' = [Rag!Interferes(t) EXCEPT ![t] = index]
        /\ ragSuspect' = ragSuspect \cup {d \in {p.doc} \cap Doc : Rag!OthersOn(t, d) # {}}
    BY <1>3 DEF Rag!Begin
  <2>2. /\ index.pc = "begun" /\ index.req = p /\ index.alone = (Rag!OtherIndexing(t) = {})
    OBVIOUS
  <2> HIDE DEF index
  <2>3. /\ ragThread'[t] = index
        /\ \A u \in Thread : u # t =>
              ragThread'[u] = IF u \in Rag!OtherIndexing(t) THEN [ragThread[u] EXCEPT !.alone = FALSE]
                              ELSE ragThread[u]
    BY <2>1 DEF Rag!Interferes
  <2>4. ASSUME NEW u \in Thread, u # t
        PROVE  /\ ragThread'[u].pc = ragThread[u].pc /\ ragThread'[u].req = ragThread[u].req
               /\ ragThread'[u].pos = ragThread[u].pos /\ ragThread'[u].kept = ragThread[u].kept
               /\ ragThread'[u].alone => ragThread[u].alone
               /\ ragThread[u].pc \in IndexPc => u \in Rag!OtherIndexing(t) /\ ~ragThread'[u].alone
    <3>1. ragThread[u] \in RagThread
      BY <1>1
    <3>2. ragThread[u].pc \in IndexPc => u \in Rag!OtherIndexing(t)
      BY <2>4, IndexingIs DEF Rag!OtherIndexing
    <3> QED
      BY <2>3, <2>4, <3>1, <3>2 DEF RagThread
  <2>5. NotAlone'
    <3>1. ASSUME NEW u \in Thread, NEW v \in Thread,
                 ragThread'[u].pc \in IndexPc, ragThread'[v].pc \in IndexPc,
                 ragThread'[u].alone \/ (/\ ragThread'[u].req.doc = ragThread'[v].req.doc
                                         /\ ragThread'[u].req.doc \in Doc \ ragSuspect')
          PROVE  u = v
      <4>1. CASE u # t /\ v # t
        BY <2>1, <2>4, <3>1, <4>1 DEF RagContent, NotAlone
      <4>2. CASE u = t /\ v # t
        <5>1. v \in Rag!OtherIndexing(t) /\ ragThread[v].req = ragThread'[v].req
          BY <2>4, <3>1, <4>2
        <5>2. p.doc = ragThread[v].req.doc /\ p.doc \in Doc \ ragSuspect'
          BY <2>2, <2>3, <3>1, <4>2, <5>1
        <5>3. v \in Rag!OthersOn(t, p.doc)
          BY <5>1, <5>2 DEF Rag!OthersOn
        <5> QED
          BY <2>1, <5>2, <5>3
      <4>3. CASE u # t /\ v = t
        <5>1. u \in Rag!OtherIndexing(t) /\ ragThread[u].req = ragThread'[u].req
              /\ ~ragThread'[u].alone
          BY <2>4, <3>1, <4>3
        <5>2. p.doc = ragThread[u].req.doc /\ p.doc \in Doc \ ragSuspect'
          BY <2>2, <2>3, <3>1, <4>3, <5>1
        <5>3. u \in Rag!OthersOn(t, p.doc)
          BY <5>1, <5>2 DEF Rag!OthersOn
        <5> QED
          BY <2>1, <5>2, <5>3
      <4> QED
        BY <4>1, <4>2, <4>3
    <3> QED
      BY <3>1 DEF NotAlone
  <2>6. Settled'
    <3>1. ASSUME NEW d \in Doc \ ragSuspect',
                 \A u \in Thread : ragThread'[u].pc \in {"recording", "appending"}
                                   => ragThread'[u].req.doc # d
          PROVE  Rag!ChunksIn(ragChunks, d) = IF d \in ragDocuments THEN First(d, NumChunks[d]) ELSE <<>>
      BY <1>2, <2>1, <2>4, <3>1 DEF RagContent, Settled
    <3> QED
      BY <1>2, <3>1 DEF Settled
  <2>7. ASSUME NEW u \in Thread PROVE AtWork(ragThread'[u], ragChunks, ragSuspect')
    <3>1. CASE u = t
      BY <2>2, <2>3, <3>1, IdleAtWork
    <3>2. CASE u # t
      <4>1. AtWork(ragThread[u], ragChunks, ragSuspect')
        BY <2>1, AtWorkSuspects DEF RagContent
      <4> QED
        BY <2>4, <3>2, <4>1, AtWorkMet
    <3> QED
      BY <3>1, <3>2
  <2> QED
    BY <1>2, <2>5, <2>6, <2>7 DEF RagContent
<1>4. CASE p.path # "/index"
  <2>1. ragThread' = [ragThread EXCEPT ![t] = search] /\ ragSuspect' = ragSuspect
    BY <1>4 DEF Rag!Begin
  <2>2. /\ search.pc = "searching" /\ search.pos = 1 /\ search.kept = <<>> /\ search.req = p
    OBVIOUS
  <2> HIDE DEF search
  <2>3. ragThread'[t] = search /\ \A u \in Thread : u # t => ragThread'[u] = ragThread[u]
    BY <1>1, <2>1
  <2>4. AtWork(search, ragChunks, ragSuspect)
    <3>1. Len(ragChunks) \in Nat /\ SubSeq(ragChunks, 1, 1 - 1) = <<>>
      BY <1>1
    <3>2. Rag!ChunksIn(SubSeq(ragChunks, 1, 1 - 1), p.doc) = <<>>
      BY <3>1, ChunksInNone
    <3> QED
      BY <2>2, <3>1, <3>2 DEF AtWork
  <2> QED
    BY <1>2, <2>1, <2>2, <2>3, <2>4, ContentSame DEF IndexPc
<1> QED
  BY <1>3, <1>4

\* A thread that ends leaves nothing to rely on.
LEMMA ContentEnds ==
    ASSUME RagInv, RagContent, NEW t \in Thread,
           ragChunks' = ragChunks, ragDocuments' = ragDocuments, ragSuspect' = ragSuspect,
           \A u \in Thread : u # t => ragThread'[u] = ragThread[u],
           ragThread'[t].pc = "idle", ragThread[t].pc \notin {"recording", "appending"}
    PROVE  RagContent'
<1>1. AtWork(ragThread'[t], ragChunks, ragSuspect)
  BY IdleAtWork
<1> QED
  BY <1>1, ContentSame DEF IndexPc

\* The thread's own step, by what Go or Reply leaves of it.
LEMMA Goes ==
    ASSUME RagInv, NEW t \in Thread, ragThread[t].pc # "idle",
           NEW pc \in Rag!Pc, NEW pos \in Nat, NEW kept \in Seq(Rag!Chunk), Rag!Go(t, pc, pos, kept)
    PROVE  /\ ragThread'[t].pc = pc /\ ragThread'[t].req = ragThread[t].req
           /\ ragThread'[t].pos = pos /\ ragThread'[t].kept = kept
           /\ ragThread'[t].alone = ragThread[t].alone
           /\ \A u \in Thread : u # t => ragThread'[u] = ragThread[u]
BY RagGo

LEMMA Ends ==
    ASSUME RagInv, NEW t \in Thread, NEW status, NEW snippets, Rag!Reply(t, status, snippets)
    PROVE  ragThread'[t].pc = "idle" /\ \A u \in Thread : u # t => ragThread'[u] = ragThread[u]
BY RagTyped, RagIdle DEF Rag!Reply

LEMMA ThreadTyped ==
    ASSUME RagInv, NEW t \in Thread, ragThread[t].pc # "idle"
    PROVE  /\ ragThread[t].pos \in Nat \ {0} /\ ragThread[t].pos - 1 \in Nat
           /\ ragThread[t].kept \in Seq(Rag!Chunk)
           /\ ragThread[t].req.doc \in Doc \cup {NoDoc}
           /\ ragThread[t].req.doc \in Doc => NumChunks[ragThread[t].req.doc] \in Nat
           /\ ragThread[t].pc \in {"filtering", "replacing", "recording", "appending"} =>
                 ragThread[t].req.doc \in Doc
           /\ ragThread[t].pc = "appending" => ragThread[t].req.doc \in ragDocuments
<1>1. ragThread[t] \in RagThread /\ ragThread[t].req \in RagRequest
      /\ ThreadFits(ragThread[t], ragRequested, ragDocuments)
  BY RagThreadTyped DEF RagInv, RagServes
<1>2. ragThread[t].req.doc \in Doc \cup {NoDoc}
  BY <1>1, RagRequestTyped
<1> QED
  BY <1>1, <1>2, RagTyped DEF RagThread, ThreadFits

LEMMA ContentFilter ==
    ASSUME RagInv, RagContent, NEW t \in Thread, Rag!FilterItem(t)
    PROVE  RagContent'
<1> DEFINE th == ragThread[t]
           item == ragChunks[th.pos]
           kept == IF item.document_id # th.req.doc THEN Append(th.kept, item) ELSE th.kept
<1>1. /\ th.pc = "filtering" /\ Rag!Go(t, "filtering", th.pos + 1, kept) /\ th.pos <= Len(ragChunks)
      /\ ragChunks' = ragChunks /\ ragDocuments' = ragDocuments /\ ragSuspect' = ragSuspect
  BY DEF Rag!FilterItem
<1>2. ragChunks \in Seq(Rag!Chunk) /\ th.pos \in Nat \ {0} /\ th.kept \in Seq(Rag!Chunk)
      /\ th.pos - 1 \in Nat
  BY <1>1, RagTyped, ThreadTyped
<1>3. item \in Rag!Chunk /\ kept \in Seq(Rag!Chunk)
  BY <1>1, <1>2
<1>4. AtWork(th, ragChunks, ragSuspect)
  BY DEF RagContent
<1>5. ASSUME NEW d
      PROVE  /\ Rag!ChunksIn(Append(th.kept, item), d) =
                   IF item.document_id = d THEN Append(Rag!ChunksIn(th.kept, d), item)
                   ELSE Rag!ChunksIn(th.kept, d)
             /\ Rag!ChunksIn(SubSeq(ragChunks, 1, th.pos), d) =
                   IF item.document_id = d
                   THEN Append(Rag!ChunksIn(SubSeq(ragChunks, 1, th.pos - 1), d), item)
                   ELSE Rag!ChunksIn(SubSeq(ragChunks, 1, th.pos - 1), d)
  <2> HIDE DEF th
  <2>1. Rag!ChunksIn(Append(th.kept, item), d) =
          IF item.document_id = d THEN Append(Rag!ChunksIn(th.kept, d), item)
          ELSE Rag!ChunksIn(th.kept, d)
    <3> HIDE DEF item
    <3> QED
      BY <1>2, <1>3, ChunksInAppend
  <2> QED
    BY <1>1, <1>2, <2>1, ChunksInNext
<1> HIDE DEF item
<1>8. /\ Rag!ChunksIn(kept, th.req.doc) = <<>>
      /\ \A d \in Doc \ ragSuspect : d # th.req.doc =>
            Rag!ChunksIn(kept, d) = Rag!ChunksIn(SubSeq(ragChunks, 1, th.pos), d)
  BY <1>1, <1>4, <1>5 DEF AtWork
<1> HIDE DEF kept
<1>9. /\ ragThread'[t].pc = "filtering" /\ ragThread'[t].req = th.req
      /\ ragThread'[t].pos = th.pos + 1 /\ ragThread'[t].kept = kept
      /\ ragThread'[t].alone = th.alone
      /\ \A u \in Thread : u # t => ragThread'[u] = ragThread[u]
  <2>1. "filtering" \in Rag!Pc /\ th.pos + 1 \in Nat
    BY <1>2 DEF Rag!Pc
  <2> QED
    BY <1>1, <1>3, <2>1, Goes
<1>10. (th.pos + 1) - 1 = th.pos
  BY <1>2
<1>11. AtWork(ragThread'[t], ragChunks, ragSuspect)
  BY <1>1, <1>8, <1>9, <1>10 DEF AtWork
<1> QED
  BY <1>1, <1>9, <1>11, ContentSame DEF IndexPc

LEMMA ContentSearch ==
    ASSUME RagInv, RagContent, NEW t \in Thread, Rag!SearchItem(t)
    PROVE  RagContent'
<1> DEFINE th == ragThread[t]
           item == ragChunks[th.pos]
           kept == IF Rag!Scores(item, th.req) THEN Append(th.kept, item) ELSE th.kept
<1>1. /\ th.pc = "searching" /\ Rag!Go(t, "searching", th.pos + 1, kept) /\ th.pos <= Len(ragChunks)
      /\ ragChunks' = ragChunks /\ ragDocuments' = ragDocuments /\ ragSuspect' = ragSuspect
  BY DEF Rag!SearchItem
<1>2. ragChunks \in Seq(Rag!Chunk) /\ th.pos \in Nat \ {0} /\ th.kept \in Seq(Rag!Chunk)
      /\ th.pos - 1 \in Nat
  BY <1>1, RagTyped, ThreadTyped
<1>3. item \in Rag!Chunk /\ kept \in Seq(Rag!Chunk)
  BY <1>1, <1>2
<1>4. AtWork(th, ragChunks, ragSuspect)
  BY DEF RagContent
<1>7. Rag!ChunksIn(SubSeq(ragChunks, 1, th.pos), th.req.doc) =
        IF item.document_id = th.req.doc
        THEN Append(Rag!ChunksIn(SubSeq(ragChunks, 1, th.pos - 1), th.req.doc), item)
        ELSE Rag!ChunksIn(SubSeq(ragChunks, 1, th.pos - 1), th.req.doc)
  <2> HIDE DEF th
  <2> QED
    BY <1>1, <1>2, ChunksInNext
<1> HIDE DEF item
<1>8. th.alone => kept = Rag!ChunksIn(SubSeq(ragChunks, 1, th.pos), th.req.doc)
  BY <1>1, <1>4, <1>7 DEF AtWork, Rag!Scores
<1> HIDE DEF kept
<1>9. /\ ragThread'[t].pc = "searching" /\ ragThread'[t].req = th.req
      /\ ragThread'[t].pos = th.pos + 1 /\ ragThread'[t].kept = kept
      /\ ragThread'[t].alone = th.alone
      /\ \A u \in Thread : u # t => ragThread'[u] = ragThread[u]
  <2>1. "searching" \in Rag!Pc /\ th.pos + 1 \in Nat
    BY <1>2 DEF Rag!Pc
  <2> QED
    BY <1>1, <1>3, <2>1, Goes
<1>10. (th.pos + 1) - 1 = th.pos
  BY <1>2
<1>11. AtWork(ragThread'[t], ragChunks, ragSuspect)
  BY <1>1, <1>8, <1>9, <1>10 DEF AtWork
<1> QED
  BY <1>1, <1>9, <1>11, ContentSame DEF IndexPc

LEMMA ContentFilterEnds ==
    ASSUME RagInv, RagContent, NEW t \in Thread, Rag!FilterEnds(t)
    PROVE  RagContent'
<1> DEFINE th == ragThread[t]
<1>1. /\ th.pc = "filtering" /\ th.pos > Len(ragChunks)
      /\ ragThread' = [ragThread EXCEPT ![t].pc = "replacing"]
      /\ ragChunks' = ragChunks /\ ragDocuments' = ragDocuments /\ ragSuspect' = ragSuspect
  BY DEF Rag!FilterEnds
<1>2. ragChunks \in Seq(Rag!Chunk) /\ th.pos \in Nat \ {0} /\ th \in RagThread
      /\ ragThread \in [Thread -> RagThread]
  BY <1>1, RagTyped, ThreadTyped
<1>3. /\ ragThread'[t].pc = "replacing" /\ ragThread'[t].req = th.req
      /\ ragThread'[t].pos = th.pos /\ ragThread'[t].kept = th.kept
      /\ ragThread'[t].alone = th.alone
      /\ \A u \in Thread : u # t => ragThread'[u] = ragThread[u]
  BY <1>1, <1>2 DEF RagThread
<1>4. AtWork(th, ragChunks, ragSuspect) /\ SubSeq(ragChunks, 1, Len(ragChunks)) = ragChunks
  BY <1>2 DEF RagContent
<1>5. th.pos - 1 <= Len(ragChunks) => th.pos - 1 = Len(ragChunks)
  BY <1>1, <1>2
<1>6. AtWork(ragThread'[t], ragChunks, ragSuspect)
  BY <1>1, <1>3, <1>4, <1>5 DEF AtWork
<1> QED
  BY <1>1, <1>3, <1>6, ContentSame DEF IndexPc

LEMMA ContentStart ==
    ASSUME RagInv, RagContent, NEW t \in Thread, Rag!StartIndex(t)
    PROVE  RagContent'
<1> DEFINE th == ragThread[t]
<1>1. /\ th.pc = "begun" /\ th.req.path = "/index" /\ th.req.doc # NoDoc
      /\ \/ th.req.force_rebuild /\ Rag!Go(t, "filtering", 1, <<>>)
         \/ /\ ~th.req.force_rebuild /\ th.req.doc \notin ragDocuments
            /\ Rag!Go(t, "recording", 1, <<>>)
      /\ ragChunks' = ragChunks /\ ragDocuments' = ragDocuments /\ ragSuspect' = ragSuspect
  BY DEF Rag!StartIndex, Rag!Indexing, Rag!Complete
<1>2. ragChunks \in Seq(Rag!Chunk) /\ th.req.doc \in Doc
  BY <1>1, RagTyped, ThreadTyped
<1>3. /\ "filtering" \in Rag!Pc /\ "recording" \in Rag!Pc /\ 1 \in Nat /\ <<>> \in Seq(Rag!Chunk)
  BY DEF Rag!Pc
<1>4. CASE th.req.force_rebuild
  <2>1. /\ ragThread'[t].pc = "filtering" /\ ragThread'[t].req = th.req
        /\ ragThread'[t].pos = 1 /\ ragThread'[t].kept = <<>>
        /\ ragThread'[t].alone = th.alone
        /\ \A u \in Thread : u # t => ragThread'[u] = ragThread[u]
    BY <1>1, <1>3, <1>4, Goes
  <2>2. SubSeq(ragChunks, 1, 1 - 1) = <<>> /\ 1 - 1 <= Len(ragChunks)
    BY <1>2
  <2>3. \A d : Rag!ChunksIn(<<>>, d) = <<>>
    BY ChunksInNone
  <2>4. AtWork(ragThread'[t], ragChunks, ragSuspect)
    BY <2>1, <2>2, <2>3 DEF AtWork
  <2> QED
    BY <1>1, <2>1, <2>4, ContentSame DEF IndexPc
<1>5. CASE ~th.req.force_rebuild
  <2>1. /\ ragThread'[t].pc = "recording" /\ ragThread'[t].req = th.req
        /\ ragThread'[t].alone = th.alone
        /\ \A u \in Thread : u # t => ragThread'[u] = ragThread[u]
    BY <1>1, <1>3, <1>5, Goes
  <2>2. ASSUME th.req.doc \notin ragSuspect PROVE Rag!ChunksIn(ragChunks, th.req.doc) = <<>>
    <3>1. ASSUME NEW u \in Thread, ragThread[u].pc \in {"recording", "appending"}
          PROVE  ragThread[u].req.doc # th.req.doc
      <4>1. ragThread[u].pc \in IndexPc /\ th.pc \in IndexPc /\ u # t
        BY <1>1, <3>1 DEF IndexPc
      <4> QED
        BY <1>2, <2>2, <4>1 DEF RagContent, NotAlone
    <3>2. th.req.doc \in Doc \ ragSuspect /\ th.req.doc \notin ragDocuments
      BY <1>1, <1>2, <1>5, <2>2
    <3> HIDE DEF th
    <3> QED
      BY <3>1, <3>2 DEF RagContent, Settled
  <2>3. AtWork(ragThread'[t], ragChunks, ragSuspect)
    BY <1>5, <2>1, <2>2 DEF AtWork, Trusted
  <2> QED
    BY <1>1, <2>1, <2>3, ContentSame DEF IndexPc
<1> QED
  BY <1>4, <1>5

\* A thread goes on, touches neither the chunks nor the suspects, and all others stay.
LEMMA ContentRecord ==
    ASSUME RagInv, RagContent, NEW t \in Thread, Rag!Record(t)
    PROVE  RagContent'
<1> DEFINE th == ragThread[t]
<1>1. /\ th.pc = "recording" /\ Rag!Go(t, "appending", 1, <<>>)
      /\ ragChunks' = ragChunks /\ ragDocuments' = ragDocuments \cup {th.req.doc}
      /\ ragSuspect' = ragSuspect
  BY DEF Rag!Record
<1>2. th.req.doc \in Doc /\ NumChunks[th.req.doc] \in Nat
  BY <1>1, ThreadTyped
<1>3. /\ ragThread'[t].pc = "appending" /\ ragThread'[t].req = th.req
      /\ ragThread'[t].pos = 1 /\ ragThread'[t].alone = th.alone
      /\ \A u \in Thread : u # t => ragThread'[u] = ragThread[u]
  <2>1. "appending" \in Rag!Pc /\ 1 \in Nat /\ <<>> \in Seq(Rag!Chunk)
    BY DEF Rag!Pc
  <2> QED
    BY <1>1, <2>1, Goes
<1>4. NotAlone'
  BY <1>1, <1>3 DEF RagContent, NotAlone, IndexPc
<1>5. Settled'
  <2>1. ASSUME NEW d \in Doc \ ragSuspect,
               \A u \in Thread : ragThread'[u].pc \in {"recording", "appending"}
                                 => ragThread'[u].req.doc # d
        PROVE  Rag!ChunksIn(ragChunks, d) = IF d \in ragDocuments' THEN First(d, NumChunks[d]) ELSE <<>>
    <3>1. d # th.req.doc
      BY <1>3, <2>1
    <3>2. \A u \in Thread : ragThread[u].pc \in {"recording", "appending"} => ragThread[u].req.doc # d
      BY <1>3, <2>1, <3>1
    <3> QED
      BY <1>1, <2>1, <3>1, <3>2 DEF RagContent, Settled
  <2> QED
    BY <1>1, <2>1 DEF Settled
<1>6. ASSUME NEW u \in Thread PROVE AtWork(ragThread'[u], ragChunks, ragSuspect)
  <2>1. CASE u # t
    BY <1>3, <2>1 DEF RagContent
  <2>2. CASE u = t
    <3>1. Trusted(th, ragSuspect) => Rag!ChunksIn(ragChunks, th.req.doc) = <<>>
      BY <1>1 DEF RagContent, AtWork
    <3>2. 1 - 1 = 0 /\ 0 <= NumChunks[th.req.doc] /\ 0 \in Nat
      BY <1>2
    <3>3. First(th.req.doc, 0) = <<>>
      BY FirstGrows, <3>2
    <3>4. Trusted(ragThread'[u], ragSuspect) => Trusted(th, ragSuspect)
      BY <1>3, <2>2 DEF Trusted
    <3>5. First(th.req.doc, 1 - 1) = <<>> /\ 1 - 1 <= NumChunks[th.req.doc]
      BY <3>2, <3>3
    <3> QED
      BY <1>3, <2>2, <3>1, <3>4, <3>5 DEF AtWork
  <2> QED
    BY <2>1, <2>2
<1> QED
  BY <1>1, <1>4, <1>5, <1>6 DEF RagContent

\* What an appended chunk changes in what another thread relies on.
LEMMA AtWorkAppended ==
    ASSUME NEW th, NEW list \in Seq(Rag!Chunk), NEW c \in Rag!Chunk, NEW suspect, NEW more,
           AtWork(th, list, suspect), suspect \subseteq more,
           th.pc \in {"filtering", "searching"} => th.pos - 1 \in Nat,
           th.pc = "replacing" => c.document_id \in more,
           th.pc \in {"recording", "appending"} /\ Trusted(th, more) => c.document_id # th.req.doc
    PROVE  AtWork(th, Append(list, c), more)
<1> DEFINE longer == Append(list, c)
<1>1. \A d : c.document_id # d => Rag!ChunksIn(longer, d) = Rag!ChunksIn(list, d)
  <2>1. ASSUME NEW d, c.document_id # d PROVE Rag!ChunksIn(longer, d) = Rag!ChunksIn(list, d)
    BY <2>1, ChunksInAppend
  <2> QED
    BY <2>1
<1>2. ASSUME NEW n \in Nat, n <= Len(list)
      PROVE  SubSeq(longer, 1, n) = SubSeq(list, 1, n) /\ n <= Len(longer)
  BY <1>2
<1> HIDE DEF longer
<1>3. Trusted(th, more) => Trusted(th, suspect)
  BY DEF Trusted
<1>4. ASSUME th.pc = "filtering" PROVE AtWork(th, longer, more)
  BY <1>2, <1>4 DEF AtWork
<1>5. ASSUME th.pc = "searching" PROVE AtWork(th, longer, more)
  BY <1>2, <1>5 DEF AtWork
<1>6. ASSUME th.pc = "replacing" PROVE AtWork(th, longer, more)
  BY <1>1, <1>6 DEF AtWork
<1>7. ASSUME th.pc \in {"recording", "appending"} PROVE AtWork(th, longer, more)
  BY <1>1, <1>3, <1>7 DEF AtWork
<1>8. ASSUME th.pc \notin {"filtering", "searching", "replacing", "recording", "appending"} PROVE AtWork(th, longer, more)
  BY <1>8 DEF AtWork
<1>9. AtWork(th, longer, more)
  BY <1>4, <1>5, <1>6, <1>7, <1>8
<1> QED
  BY <1>9 DEF longer

LEMMA ContentAppend ==
    ASSUME RagInv, RagContent, NEW t \in Thread, Rag!AppendChunk(t)
    PROVE  RagContent'
<1> DEFINE th == ragThread[t]
           c == Rag!NewChunk(t)
<1>1. /\ th.pc = "appending" /\ th.pos <= NumChunks[th.req.doc]
      /\ Rag!Go(t, "appending", th.pos + 1, <<>>)
      /\ ragChunks' = Append(ragChunks, c) /\ ragDocuments' = ragDocuments
      /\ ragSuspect' = IF \E u \in Thread : ragThread[u].pc = "replacing"
                       THEN ragSuspect \cup {th.req.doc} ELSE ragSuspect
  BY DEF Rag!AppendChunk
<1>2. /\ ragChunks \in Seq(Rag!Chunk) /\ th.req.doc \in Doc /\ NumChunks[th.req.doc] \in Nat
      /\ th.pos \in Nat \ {0} /\ th.pos - 1 \in Nat
  BY <1>1, RagTyped, ThreadTyped
<1>3. c \in Rag!Chunk /\ c.document_id = th.req.doc
      /\ c = [document_id |-> th.req.doc, index |-> th.pos]
  BY <1>2 DEF Rag!NewChunk, Rag!Chunk
<1> HIDE DEF c
<1>4. /\ ragThread'[t].pc = "appending" /\ ragThread'[t].req = th.req
      /\ ragThread'[t].pos = th.pos + 1 /\ ragThread'[t].alone = th.alone
      /\ \A u \in Thread : u # t => ragThread'[u] = ragThread[u]
  <2> DEFINE next == th.pos + 1
             none == <<>>
  <2>1. "appending" \in Rag!Pc /\ next \in Nat /\ none \in Seq(Rag!Chunk)
    BY <1>2 DEF Rag!Pc
  <2>2. Rag!Go(t, "appending", next, none) /\ ragThread[t].pc # "idle"
    BY <1>1
  <2> HIDE DEF next, none
  <2>3. /\ ragThread'[t].pc = "appending" /\ ragThread'[t].req = th.req
        /\ ragThread'[t].pos = next /\ ragThread'[t].alone = th.alone
        /\ \A u \in Thread : u # t => ragThread'[u] = ragThread[u]
    BY <2>1, <2>2, Goes
  <2> QED
    BY <2>3 DEF next
<1>5. ragSuspect \subseteq ragSuspect'
  BY <1>1
<1>6. NotAlone'
  BY <1>1, <1>4, <1>5 DEF RagContent, NotAlone, IndexPc
<1>7. Settled'
  <2>1. ASSUME NEW d \in Doc \ ragSuspect',
               \A u \in Thread : ragThread'[u].pc \in {"recording", "appending"}
                                 => ragThread'[u].req.doc # d
        PROVE  Rag!ChunksIn(ragChunks', d) = IF d \in ragDocuments THEN First(d, NumChunks[d]) ELSE <<>>
    <3>1. d # th.req.doc
      BY <1>4, <2>1
    <3>2. \A u \in Thread : ragThread[u].pc \in {"recording", "appending"} => ragThread[u].req.doc # d
      BY <1>4, <2>1, <3>1
    <3>3. Rag!ChunksIn(Append(ragChunks, c), d) = Rag!ChunksIn(ragChunks, d)
      BY <1>2, <1>3, <3>1, ChunksInAppend
    <3> QED
      BY <1>1, <1>5, <2>1, <3>2, <3>3 DEF RagContent, Settled
  <2> QED
    BY <1>1, <2>1 DEF Settled
<1>8. ASSUME NEW u \in Thread PROVE AtWork(ragThread'[u], ragChunks', ragSuspect')
  <2>1. CASE u # t
    <3>1. AtWork(ragThread[u], ragChunks, ragSuspect)
      BY DEF RagContent
    <3>2. ragThread[u].pc \in {"filtering", "searching"} => ragThread[u].pos - 1 \in Nat
      BY ThreadTyped
    <3>3. ragThread[u].pc = "replacing" => c.document_id \in ragSuspect'
      BY <1>1, <1>3
    <3>4. ASSUME ragThread[u].pc \in {"recording", "appending"}, Trusted(ragThread[u], ragSuspect')
          PROVE  c.document_id # ragThread[u].req.doc
      <4>1. ragThread[u].pc \in IndexPc /\ th.pc \in IndexPc
        BY <1>1, <3>4 DEF IndexPc
      <4> QED
        BY <1>2, <1>3, <1>5, <2>1, <3>4, <4>1 DEF Trusted, RagContent, NotAlone
    <3>5. AtWork(ragThread[u], Append(ragChunks, c), ragSuspect')
      BY <1>2, <1>3, <1>5, <3>1, <3>2, <3>3, <3>4, AtWorkAppended
    <3> QED
      BY <1>1, <1>4, <2>1, <3>5
  <2>2. CASE u = t
    <3>1. ASSUME Trusted(th, ragSuspect')
          PROVE  Rag!ChunksIn(ragChunks', th.req.doc) = First(th.req.doc, (th.pos + 1) - 1)
      <4>1. Trusted(th, ragSuspect)
        BY <1>5, <3>1 DEF Trusted
      <4>2. Rag!ChunksIn(ragChunks, th.req.doc) = First(th.req.doc, th.pos - 1)
        BY <1>1, <4>1 DEF RagContent, AtWork
      <4>3. Rag!ChunksIn(ragChunks', th.req.doc) = Append(First(th.req.doc, th.pos - 1), c)
        <5>1. Rag!ChunksIn(Append(ragChunks, c), th.req.doc)
                = Append(Rag!ChunksIn(ragChunks, th.req.doc), c)
          BY <1>2, <1>3, ChunksInAppend
        <5> QED
          BY <1>1, <4>2, <5>1
      <4>4. (th.pos - 1) + 1 = th.pos /\ (th.pos + 1) - 1 = th.pos
        BY <1>2
      <4>5. Append(First(th.req.doc, th.pos - 1), c) = First(th.req.doc, th.pos)
        <5> DEFINE n == th.pos - 1
        <5>1. n \in Nat /\ c = [document_id |-> th.req.doc, index |-> n + 1] /\ n + 1 = th.pos
          BY <1>2, <1>3, <4>4
        <5> HIDE DEF n
        <5>2. Append(First(th.req.doc, n), c) = First(th.req.doc, n + 1)
          BY <5>1, FirstGrows
        <5> QED
          BY <5>1, <5>2 DEF n
      <4> QED
        BY <4>3, <4>4, <4>5
    <3>2. (th.pos + 1) - 1 <= NumChunks[th.req.doc]
      BY <1>1, <1>2
    <3>3. Trusted(ragThread'[u], ragSuspect') => Trusted(th, ragSuspect')
      BY <1>4, <2>2 DEF Trusted
    <3> QED
      BY <1>4, <2>2, <3>1, <3>2, <3>3 DEF AtWork
  <2> QED
    BY <2>1, <2>2
<1> QED
  BY <1>6, <1>7, <1>8 DEF RagContent

\* An assignment to CHUNKS leaves what every other document has, for who trusts in it.
LEMMA ContentReplace ==
    ASSUME RagInv, RagContent, NEW t \in Thread, Rag!Replace(t)
    PROVE  RagContent'
<1> DEFINE th == ragThread[t]
<1>1. /\ th.pc = "replacing" /\ ragChunks' = th.kept /\ ragDocuments' = ragDocuments
      /\ ragThread' = [u \in Thread |->
                         IF u = t THEN [th EXCEPT !.pc = "recording", !.pos = 1, !.kept = <<>>]
                         ELSE IF ragThread[u].pc = "searching" THEN [ragThread[u] EXCEPT !.alone = FALSE]
                         ELSE ragThread[u]]
      /\ ragSuspect' = IF \E u \in Thread \ {t} : ragThread[u].pc \in {"filtering", "replacing"}
                       THEN Doc ELSE ragSuspect
  BY DEF Rag!Replace
<1>2. /\ ragThread \in [Thread -> RagThread] /\ th \in RagThread /\ th.req.doc \in Doc
      /\ ragSuspect \subseteq Doc
  BY <1>1, RagTyped, ThreadTyped
<1>3. /\ ragThread'[t].pc = "recording" /\ ragThread'[t].req = th.req
      /\ ragThread'[t].alone = th.alone
  BY <1>1, <1>2 DEF RagThread
<1>4. ASSUME NEW u \in Thread, u # t
      PROVE  /\ ragThread[u].pc = "searching" => /\ ragThread'[u].pc = "searching"
                                                 /\ ~ragThread'[u].alone
             /\ ragThread[u].pc # "searching" => ragThread'[u] = ragThread[u]
  <2>1. ragThread[u] \in RagThread
    BY <1>2
  <2> QED
    BY <1>1, <1>4, <2>1 DEF RagThread
<1>5. ragSuspect \subseteq ragSuspect'
  BY <1>1, <1>2
<1>6. /\ AtWork(th, ragChunks, ragSuspect)
      /\ \A u \in Thread : AtWork(ragThread[u], ragChunks, ragSuspect)
  BY DEF RagContent
<1>7. /\ Rag!ChunksIn(ragChunks', th.req.doc) = <<>>
      /\ \A d \in Doc \ ragSuspect : d # th.req.doc =>
            Rag!ChunksIn(ragChunks', d) = Rag!ChunksIn(ragChunks, d)
  BY <1>1, <1>6 DEF AtWork
<1>8. NotAlone'
  <2>1. ASSUME NEW u \in Thread, ragThread'[u].pc \in IndexPc
        PROVE  /\ ragThread[u].pc \in IndexPc
               /\ ragThread'[u].req = ragThread[u].req /\ ragThread'[u].alone = ragThread[u].alone
    BY <1>1, <1>3, <1>4, <2>1 DEF IndexPc
  <2> QED
    BY <1>5, <2>1 DEF RagContent, NotAlone
<1>9. Settled'
  <2>1. ASSUME NEW d \in Doc \ ragSuspect',
               \A u \in Thread : ragThread'[u].pc \in {"recording", "appending"}
                                 => ragThread'[u].req.doc # d
        PROVE  Rag!ChunksIn(ragChunks', d) = IF d \in ragDocuments THEN First(d, NumChunks[d]) ELSE <<>>
    <3>1. d # th.req.doc
      BY <1>3, <2>1
    <3>2. ASSUME NEW u \in Thread, ragThread[u].pc \in {"recording", "appending"}
          PROVE  ragThread[u].req.doc # d
      <4>1. u # t /\ ragThread'[u] = ragThread[u]
        BY <1>1, <1>4, <3>2
      <4> QED
        BY <2>1, <3>2, <4>1
    <3>3. Rag!ChunksIn(ragChunks', d) = Rag!ChunksIn(ragChunks, d)
      BY <1>5, <1>7, <2>1, <3>1
    <3> QED
      BY <1>5, <2>1, <3>2, <3>3 DEF RagContent, Settled
  <2> QED
    BY <1>1, <2>1 DEF Settled
<1>10. ASSUME NEW u \in Thread PROVE AtWork(ragThread'[u], ragChunks', ragSuspect')
  <2>1. CASE u = t
    BY <1>3, <1>7, <2>1 DEF AtWork
  <2>2. CASE u # t /\ ragThread[u].pc = "searching"
    BY <1>4, <2>2 DEF AtWork
  <2>3. CASE u # t /\ ragThread[u].pc \in {"filtering", "replacing"}
    <3>1. ragSuspect' = Doc
      BY <1>1, <2>3
    <3>2. AtWork(ragThread[u], ragChunks, ragSuspect) /\ ragThread'[u] = ragThread[u]
      BY <1>4, <1>6, <2>3
    <3> QED
      BY <2>3, <3>1, <3>2 DEF AtWork
  <2>4. CASE u # t /\ ragThread[u].pc \in {"recording", "appending"}
    <3>1. AtWork(ragThread[u], ragChunks, ragSuspect) /\ ragThread'[u] = ragThread[u]
      BY <1>4, <1>6, <2>4
    <3>2. ragThread[u].req.doc \in Doc
      BY <2>4, ThreadTyped
    <3>3. ragThread[u].pc \in IndexPc /\ th.pc \in IndexPc
      BY <1>1, <2>4 DEF IndexPc
    <3>4. ASSUME Trusted(ragThread[u], ragSuspect')
          PROVE  /\ Trusted(ragThread[u], ragSuspect)
                 /\ Rag!ChunksIn(ragChunks', ragThread[u].req.doc)
                       = Rag!ChunksIn(ragChunks, ragThread[u].req.doc)
      <4>1. ~ragThread[u].alone
        BY <2>4, <3>3 DEF RagContent, NotAlone
      <4>2. ragThread[u].req.doc \in Doc \ ragSuspect
        BY <1>5, <3>2, <3>4, <4>1 DEF Trusted
      <4>3. ragThread[u].req.doc # th.req.doc
        BY <2>4, <3>3, <4>2 DEF RagContent, NotAlone
      <4> QED
        BY <1>7, <4>2, <4>3 DEF Trusted
    <3> QED
      BY <2>4, <3>1, <3>4 DEF AtWork
  <2>5. CASE u # t /\ ragThread[u].pc \notin {"searching", "filtering", "replacing", "recording", "appending"}
    <3>1. ragThread'[u] = ragThread[u]
      BY <1>4, <2>5
    <3> QED
      BY <2>5, <3>1 DEF AtWork
  <2> QED
    BY <2>1, <2>2, <2>3, <2>4, <2>5
<1> QED
  BY <1>8, <1>9, <1>10 DEF RagContent

\* A rebuild that ran alone has put its document right.
LEMMA ContentFinish ==
    ASSUME RagInv, RagContent, NEW t \in Thread, Rag!FinishIndex(t)
    PROVE  RagContent'
<1> DEFINE th == ragThread[t]
<1>1. /\ th.pc = "appending" /\ th.pos > NumChunks[th.req.doc] /\ Rag!Reply(t, "indexed", <<>>)
      /\ ragChunks' = ragChunks /\ ragDocuments' = ragDocuments
      /\ ragSuspect' = IF th.alone /\ th.req.force_rebuild
                       THEN ragSuspect \ {th.req.doc} ELSE ragSuspect
  BY DEF Rag!FinishIndex
<1>2. /\ th.req.doc \in Doc /\ th.req.doc \in ragDocuments /\ NumChunks[th.req.doc] \in Nat
      /\ th.pos \in Nat
  BY <1>1, ThreadTyped
<1>3. ragThread'[t].pc = "idle" /\ \A u \in Thread : u # t => ragThread'[u] = ragThread[u]
  BY <1>1, Ends
<1>4. ASSUME th.req.doc \notin ragSuspect'
      PROVE  Rag!ChunksIn(ragChunks, th.req.doc) = First(th.req.doc, NumChunks[th.req.doc])
  <2>1. Trusted(th, ragSuspect)
    BY <1>1, <1>4 DEF Trusted
  <2>2. th.pos - 1 <= NumChunks[th.req.doc]
        /\ Rag!ChunksIn(ragChunks, th.req.doc) = First(th.req.doc, th.pos - 1)
    BY <1>1, <2>1 DEF RagContent, AtWork
  <2>3. th.pos - 1 = NumChunks[th.req.doc]
    BY <1>1, <1>2, <2>2
  <2> QED
    BY <2>2, <2>3
<1>5. \A u \in Thread : u # t /\ ragThread[u].pc \in IndexPc => ragSuspect' = ragSuspect
  <2>1. ASSUME NEW u \in Thread, u # t, ragThread[u].pc \in IndexPc PROVE ~th.alone
    BY <1>1, <2>1 DEF RagContent, NotAlone, IndexPc
  <2> QED
    BY <1>1, <2>1
<1>6. NotAlone'
  <2>1. ASSUME NEW u \in Thread, ragThread'[u].pc \in IndexPc
        PROVE  u # t /\ ragThread'[u] = ragThread[u] /\ ragThread[u].pc \in IndexPc
               /\ ragSuspect' = ragSuspect
    <3>1. u # t
      BY <1>3, <2>1 DEF IndexPc
    <3> QED
      BY <1>3, <1>5, <2>1, <3>1
  <2> QED
    BY <2>1 DEF RagContent, NotAlone
<1>7. Settled'
  <2>1. ASSUME NEW d \in Doc \ ragSuspect',
               \A u \in Thread : ragThread'[u].pc \in {"recording", "appending"}
                                 => ragThread'[u].req.doc # d
        PROVE  Rag!ChunksIn(ragChunks, d) = IF d \in ragDocuments THEN First(d, NumChunks[d]) ELSE <<>>
    <3>1. CASE d = th.req.doc
      BY <1>2, <1>4, <2>1, <3>1
    <3>2. CASE d # th.req.doc
      <4>1. d \in Doc \ ragSuspect
        BY <1>1, <2>1, <3>2
      <4>2. \A u \in Thread : ragThread[u].pc \in {"recording", "appending"} => ragThread[u].req.doc # d
        BY <1>3, <2>1, <3>2
      <4> QED
        BY <4>1, <4>2 DEF RagContent, Settled
    <3> QED
      BY <3>1, <3>2
  <2> QED
    BY <1>1, <2>1 DEF Settled
<1>8. ASSUME NEW u \in Thread PROVE AtWork(ragThread'[u], ragChunks, ragSuspect')
  <2>1. CASE ragThread'[u].pc \in IndexPc
    BY <1>3, <1>5, <2>1 DEF RagContent, IndexPc
  <2>2. CASE ragThread'[u].pc \notin IndexPc
    <3>1. ragThread'[u].pc = "searching" => AtWork(ragThread'[u], ragChunks, ragSuspect)
      BY <1>3 DEF RagContent
    <3> QED
      BY <2>2, <3>1 DEF AtWork, IndexPc
  <2> QED
    BY <2>1, <2>2
<1> QED
  BY <1>1, <1>6, <1>7, <1>8 DEF RagContent

LEMMA ContentStep ==
    ASSUME RagInv, RagContent, NEW t \in Thread, Rag!ThreadStep(t)
    PROVE  RagContent'
<1>1. CASE Rag!RejectIndex(t)
  <2>1. /\ ragThread[t].pc = "begun" /\ Rag!Reply(t, "error", <<>>)
        /\ ragChunks' = ragChunks /\ ragDocuments' = ragDocuments /\ ragSuspect' = ragSuspect
    BY <1>1 DEF Rag!RejectIndex
  <2> QED
    BY <2>1, Ends, ContentEnds
<1>2. CASE Rag!Skip(t)
  <2>1. /\ ragThread[t].pc = "begun" /\ Rag!Reply(t, "skipped", <<>>)
        /\ ragChunks' = ragChunks /\ ragDocuments' = ragDocuments /\ ragSuspect' = ragSuspect
    BY <1>2 DEF Rag!Skip
  <2> QED
    BY <2>1, Ends, ContentEnds
<1>3. CASE Rag!FinishSearch(t)
  <2>1. PICK snippets : Rag!Reply(t, "snippets", snippets)
    BY <1>3 DEF Rag!FinishSearch
  <2>2. /\ ragThread[t].pc = "searching"
        /\ ragChunks' = ragChunks /\ ragDocuments' = ragDocuments /\ ragSuspect' = ragSuspect
    BY <1>3 DEF Rag!FinishSearch
  <2> QED
    BY <2>1, <2>2, Ends, ContentEnds
<1> QED
  BY <1>1, <1>2, <1>3, ContentStart, ContentFilter, ContentFilterEnds, ContentReplace, ContentRecord,
     ContentAppend, ContentFinish, ContentSearch DEF Rag!ThreadStep

\* An empty index is as it should be.
LEMMA ContentEmpty ==
    ASSUME ragThread = [t \in Thread |-> Rag!Idle], ragDocuments = {}, ragChunks = <<>>
    PROVE  RagContent
<1>1. \A t \in Thread : ragThread[t].pc = "idle"
  BY RagIdle
<1>2. NotAlone
  BY <1>1 DEF NotAlone, IndexPc
<1>3. Settled
  BY ChunksInNone DEF Settled
<1> QED
  BY <1>1, <1>2, <1>3, IdleAtWork DEF RagContent

LEMMA ContentRestart == ASSUME Rag!Restart PROVE RagContent'
<1>1. ragThread' = [t \in Thread |-> Rag!Idle] /\ ragDocuments' = {} /\ ragChunks' = <<>>
  BY DEF Rag!Restart
<1>2. \A t \in Thread : ragThread'[t].pc = "idle"
  BY <1>1, RagIdle
<1>3. NotAlone'
  BY <1>2 DEF NotAlone, IndexPc
<1>4. Settled'
  BY <1>1, ChunksInNone DEF Settled
<1>5. \A t \in Thread : AtWork(ragThread'[t], ragChunks', ragSuspect')
  BY <1>2, IdleAtWork
<1> QED
  BY <1>3, <1>4, <1>5 DEF RagContent

LEMMA ContentUnchanged == ASSUME RagContent, UNCHANGED rag PROVE RagContent'
BY DEF RagContent, NotAlone, Settled, rag

-----------------------------------------------------------------------------
(* The two services together *)

\* What a worker has posted is about a stored document that is not blank, the one its
\* client asked for, or about none.
PostedFit ==
    \A p \in ragRequested \ Direct :
        \E req \in requested :
            /\ req.op = "RequestKnowledgeIndex"
            /\ p.doc # NoDoc => /\ p.doc = req.document
                                /\ \E row \in documents : row.by = p.doc /\ ~row.blank
PublishingPosted ==
    \A s \in Session : session[s].pc = "publishing" => Body(s) \in ragRequested /\ Body(s).doc # NoDoc
TasksFit ==
    \A i \in DOMAIN exchange :
        /\ \E row \in documents, posted \in ragRequested :
              /\ row.document_id = exchange[i].document_id
              /\ posted.path = "/index" /\ posted.id = exchange[i].by /\ posted.doc = row.by
        /\ \E req \in requested : req.id = exchange[i].by
        /\ \A j \in DOMAIN exchange : exchange[i].by = exchange[j].by => i = j
        /\ \A s \in Session : session[s].pc # "idle" /\ session[s].req.id = exchange[i].by =>
              session[s].pc = "replied" /\ session[s].code = 0
        /\ \A a \in answers : a.req.id = exchange[i].by => a.code = 0

SystemInv ==
    /\ ServiceInv /\ RagInv
    /\ PostedFit /\ PublishingPosted /\ TasksFit
    /\ confirmed \subseteq ragDocuments

LEMMA StoredDoc ==
    ASSUME ServiceInv, NEW d \in documents PROVE d.by \in Doc /\ d.by # NoDoc
<1>1. PICK req \in requested : req.id = d.by /\ req.op = "CreateKnowledgeDocument"
  BY DEF ServiceInv, Requested
<1>2. req \in Request /\ req.id # 0
  BY <1>1, RequestTyped DEF ServiceInv, TypeOK
<1> QED
  BY <1>1, <1>2 DEF Doc, Creation, NoDoc

\* What a worker posts.
LEMMA BodyOf ==
    ASSUME ServiceInv, NEW s \in Session, session[s].pc \in {"indexing", "publishing"}
    PROVE  /\ session[s].req \in requested /\ session[s].req.op = "RequestKnowledgeIndex"
           /\ session[s].code = 0
           /\ Body(s) \in RagRequest /\ Body(s).path = "/index" /\ Body(s).id = session[s].req.id
           /\ \E d \in documents :
                 /\ session[s].row = {d} /\ d.by = session[s].req.document
                 /\ d.by # NoDoc
                 /\ Body(s).doc = IF d.blank THEN NoDoc ELSE d.by
<1>1. /\ SessionFits(documents, session[s]) /\ AtMostOne(session[s].row) /\ session[s].row # {}
  BY DEF ServiceInv, SessionsFit, TypeOK
<1>2. PICK d : session[s].row = {d}
  BY <1>1
<1>3. /\ d \in documents /\ d.by = session[s].req.document /\ session[s].code = 0
      /\ session[s].req.op = "RequestKnowledgeIndex"
  BY <1>1, <1>2 DEF SessionFits
<1> DEFINE document == CHOOSE e \in session[s].row : TRUE
<1>4. document = d
  BY <1>2
<1>5. Body(s) = [id |-> session[s].req.id, path |-> "/index",
                 doc |-> IF document.blank THEN NoDoc ELSE document.by,
                 force_rebuild |-> session[s].req.force]
  BY DEF Body
<1> HIDE DEF document
<1>6. session[s].req \in Request /\ session[s].req \in requested
      /\ session[s].req.force \in BOOLEAN
  BY <1>1, Serves, RequestTyped
<1>7. d.by \in Doc /\ d.by # NoDoc
  BY <1>3, StoredDoc
<1>8. Body(s) \in IndexRequest
  BY <1>4, <1>5, <1>6, <1>7 DEF IndexRequest
<1> QED
  BY <1>2, <1>3, <1>4, <1>5, <1>6, <1>7, <1>8 DEF RagRequest

\* A step that is the RAG service's alone.
LEMMA RagSideKeeps ==
    ASSUME SystemInv, UNCHANGED vars, RagInv', ragRequested \subseteq ragRequested',
           \A p \in ragRequested' \ ragRequested :
               p \in Direct \/ \E s \in Session : session[s].pc = "indexing" /\ p = Body(s),
           (confirmed' = confirmed /\ ragDocuments \subseteq ragDocuments') \/ confirmed' = {}
    PROVE  SystemInv'
<1>1. /\ documents' = documents /\ session' = session /\ requested' = requested
      /\ exchange' = exchange /\ answers' = answers
  BY DEF vars
<1>2. ServiceInv'
  BY ServiceInductive DEF SystemInv
<1>3. PostedFit'
  <2>1. ASSUME NEW p \in ragRequested' \ Direct
        PROVE  \E req \in requested :
                  /\ req.op = "RequestKnowledgeIndex"
                  /\ p.doc # NoDoc => /\ p.doc = req.document
                                      /\ \E row \in documents : row.by = p.doc /\ ~row.blank
    <3>1. CASE p \in ragRequested
      BY <2>1, <3>1 DEF SystemInv, PostedFit
    <3>2. ASSUME NEW s \in Session, session[s].pc = "indexing", p = Body(s)
          PROVE  \E req \in requested :
                    /\ req.op = "RequestKnowledgeIndex"
                    /\ p.doc # NoDoc => /\ p.doc = req.document
                                        /\ \E row \in documents : row.by = p.doc /\ ~row.blank
      BY <3>2, BodyOf DEF SystemInv
    <3> QED
      BY <2>1, <3>1, <3>2
  <2> QED
    BY <1>1, <2>1 DEF PostedFit
<1>4. PublishingPosted'
  <2>1. \A s \in Session : Body(s)' = Body(s)
    BY <1>1 DEF Body
  <2> QED
    BY <1>1, <2>1 DEF SystemInv, PublishingPosted
<1>5. TasksFit'
  BY <1>1 DEF SystemInv, TasksFit
<1> QED
  BY <1>2, <1>3, <1>4, <1>5 DEF SystemInv

LEMMA RagSideSteps ==
    ASSUME SystemInv,
           \/ \E s \in Session, t \in Thread : Post(s, t)
           \/ \E t \in Thread, req \in Direct : ArriveDirectly(t, req)
           \/ \E t \in Thread : RagStep(t)
           \/ RagRestart
    PROVE  SystemInv'
<1>1. RagInv /\ ServiceInv
  BY DEF SystemInv
<1>2. ASSUME NEW s \in Session, NEW t \in Thread, Post(s, t) PROVE SystemInv'
  <2>1. /\ session[s].pc = "indexing" /\ Rag!Begin(t, Body(s)) /\ UNCHANGED vars
        /\ confirmed' = confirmed
    BY <1>2 DEF Post
  <2>2. ragRequested' = ragRequested \cup {Body(s)} /\ ragDocuments' = ragDocuments
    BY <2>1 DEF Rag!Begin
  <2>3. RagInv'
    BY <1>1, <2>1, BodyOf, RagBegin
  <2> QED
    BY <2>1, <2>2, <2>3, RagSideKeeps
<1>3. ASSUME NEW t \in Thread, NEW req \in Direct, ArriveDirectly(t, req) PROVE SystemInv'
  <2>1. Rag!Begin(t, req) /\ UNCHANGED vars /\ confirmed' = confirmed /\ req \in RagRequest
    BY <1>3 DEF ArriveDirectly, RagRequest
  <2>2. ragRequested' = ragRequested \cup {req} /\ ragDocuments' = ragDocuments
    BY <2>1 DEF Rag!Begin
  <2>3. RagInv'
    BY <1>1, <2>1, RagBegin
  <2> QED
    BY <2>1, <2>2, <2>3, RagSideKeeps
<1>4. ASSUME NEW t \in Thread, RagStep(t) PROVE SystemInv'
  <2>1. Rag!ThreadStep(t) /\ UNCHANGED vars /\ confirmed' = confirmed
    BY <1>4 DEF RagStep
  <2>2. ragRequested' = ragRequested /\ ragDocuments \subseteq ragDocuments'
    BY <1>1, <2>1, RagThreadMoves DEF RagMoves
  <2>3. RagInv'
    BY <1>1, <2>1, RagThreadStep
  <2> QED
    BY <2>1, <2>2, <2>3, RagSideKeeps
<1>5. CASE RagRestart
  <2>1. Rag!Restart /\ UNCHANGED vars /\ confirmed' = {}
    BY <1>5 DEF RagRestart
  <2>2. ragRequested' = ragRequested
    BY <2>1 DEF Rag!Restart
  <2>3. RagInv'
    BY <1>1, <2>1, RagRestarts
  <2> QED
    BY <2>1, <2>2, <2>3, RagSideKeeps
<1> QED
  BY <1>2, <1>3, <1>4, <1>5

LEMMA RagSame == ASSUME RagInv, UNCHANGED rag PROVE RagInv'
BY DEF rag, RagInv, Rag!TypeOK, RagServes, RagDocumentsSent, RagAnswersSent

LEMMA PostedStays ==
    ASSUME SystemInv, UNCHANGED rag, requested \subseteq requested', documents \subseteq documents'
    PROVE  PostedFit'
BY DEF rag, SystemInv, PostedFit

\* No step but RagAccepts leads a worker to announce something.
LEMMA LocalNeverPublishes ==
    ASSUME ServiceInv, NEW s \in Session, (LocalStep(s) /\ ~Answer(s)) \/ RagFails(s)
    PROVE  session'[s].pc # "publishing"
<1>1. ASSUME NEW code, NEW row, Reply(s, code, row) PROVE session'[s].pc = "replied"
  BY <1>1, MoveSession DEF Reply, ServiceInv
<1>2. ASSUME NEW row, Move(s, "indexing", row, 0) PROVE session'[s].pc = "indexing"
  BY <1>2, MoveSession DEF ServiceInv
<1>3. CASE IndexReads(s)
  BY <1>2, <1>3 DEF IndexReads
<1>4. CASE PersistDocument(s)
  BY <1>1, <1>4 DEF PersistDocument
<1>5. CASE RejectDocument(s) \/ GetDocument(s) \/ ListDocuments(s)
  <2>1. \E code, row : Reply(s, code, row)
    BY <1>5, ZenonT(30) DEF RejectDocument, GetDocument, ListDocuments
  <2> QED
    BY <1>1, <2>1
<1>6. CASE IndexFindsNone(s) \/ Publish(s) \/ DatabaseFails(s) \/ RagFails(s)
  <2>1. \E code, row : Reply(s, code, row)
    BY <1>6, ZenonT(30) DEF IndexFindsNone, Publish, DatabaseFails, RagFails
  <2> QED
    BY <1>1, <2>1
<1> QED
  BY <1>3, <1>4, <1>5, <1>6 DEF LocalStep

\* What an announcement adds.
LEMMA TasksStep ==
    ASSUME SystemInv, NEW s \in Session, ServiceStep(s), UNCHANGED rag
    PROVE  TasksFit'
<1>0. ServiceInv /\ TasksFit /\ ServedOnce /\ TypeOK
  BY DEF SystemInv, ServiceInv
<1>1. /\ StepOf(s) /\ documents \subseteq documents'
      /\ requested' = requested /\ answers' = answers /\ ragRequested' = ragRequested
  BY <1>0, SessionMoves, StepTable DEF StepOf, rag
<1>2. session[s].pc \notin {"idle", "replied"} /\ session[s].req \in Request
  BY <1>0, <1>1, Serves DEF StepOf
<1>3. CASE exchange' = exchange
  BY <1>0, <1>1, <1>2, <1>3 DEF TasksFit, StepOf
<1>4. CASE exchange' # exchange
  <2>1. PICK d \in session[s].row :
          /\ Publish(s) /\ session'[s].pc = "replied" /\ session'[s].code = session[s].code
          /\ exchange' = Append(exchange, [document_id |-> d.document_id, by |-> session[s].req.id])
    BY <1>0, <1>4, PublishStep
  <2> DEFINE task == [document_id |-> d.document_id, by |-> session[s].req.id]
             n == Len(exchange) + 1
  <2>2. session[s].pc = "publishing" /\ documents' = documents
    BY <2>1 DEF Publish
  <2>3. /\ d \in documents /\ session[s].req \in requested /\ session[s].code = 0
        /\ Body(s) \in ragRequested /\ Body(s).path = "/index" /\ Body(s).id = session[s].req.id
        /\ Body(s).doc = d.by
    <3>1. Body(s) \in ragRequested /\ Body(s).doc # NoDoc
      BY <2>2 DEF SystemInv, PublishingPosted
    <3> QED
      BY <1>0, <2>2, <3>1, BodyOf
  <2>4. task.by = session[s].req.id /\ task.document_id = d.document_id
    OBVIOUS
  <2>5. \A i \in DOMAIN exchange : exchange[i].by # session[s].req.id
    BY <1>0, <2>2 DEF TasksFit
  <2>6. /\ exchange' = Append(exchange, task) /\ exchange \in Seq(Task)
    BY <1>0, <2>1 DEF TypeOK
  <2> HIDE DEF task
  <2>7. /\ \A i \in DOMAIN exchange' : \/ i \in DOMAIN exchange /\ exchange'[i] = exchange[i]
                                       \/ i = n /\ exchange'[i] = task
    BY <2>6
  <2> HIDE DEF n
  <2>8. ASSUME NEW i \in DOMAIN exchange'
        PROVE  /\ \E row \in documents', posted \in ragRequested' :
                     /\ row.document_id = exchange'[i].document_id
                     /\ posted.path = "/index" /\ posted.id = exchange'[i].by /\ posted.doc = row.by
               /\ \E req \in requested' : req.id = exchange'[i].by
    BY <1>0, <1>1, <2>2, <2>3, <2>4, <2>7 DEF TasksFit
  <2>9. ASSUME NEW i \in DOMAIN exchange', NEW j \in DOMAIN exchange',
               exchange'[i].by = exchange'[j].by
        PROVE  i = j
    BY <1>0, <2>4, <2>5, <2>7, <2>9 DEF TasksFit
  <2>10. ASSUME NEW i \in DOMAIN exchange', NEW t \in Session, session'[t].pc # "idle",
                session'[t].req.id = exchange'[i].by
         PROVE  session'[t].pc = "replied" /\ session'[t].code = 0
    <3>1. CASE t = s
      BY <2>1, <2>3, <3>1
    <3>2. CASE t # s
      <4>1. session'[t] = session[t] /\ session[t].req \in Request
            /\ session[t].req # session[s].req
        BY <1>0, <1>1, <1>2, <2>10, <3>2, Serves DEF StepOf, ServedOnce
      <4>2. session[t].req.id # session[s].req.id
        BY <1>2, <4>1, IdsName
      <4> QED
        BY <1>0, <2>4, <2>7, <2>10, <4>1, <4>2 DEF TasksFit
    <3> QED
      BY <3>1, <3>2
  <2>11. ASSUME NEW i \in DOMAIN exchange', NEW a \in answers', a.req.id = exchange'[i].by
         PROVE  a.code = 0
    <3>1. a \in answers /\ a.req \in Request /\ a.req # session[s].req
      BY <1>0, <1>1, <1>2 DEF ServedOnce, TypeOK
    <3>2. a.req.id # session[s].req.id
      BY <1>2, <3>1, IdsName
    <3> QED
      BY <1>0, <2>4, <2>7, <2>11, <3>1, <3>2 DEF TasksFit
  <2> QED
    BY <2>8, <2>9, <2>10, <2>11 DEF TasksFit
<1> QED
  BY <1>3, <1>4

LEMMA WorkerKeeps ==
    ASSUME SystemInv, NEW s \in Session, ServiceStep(s), UNCHANGED rag,
           confirmed' \subseteq ragDocuments,
           session'[s].pc = "publishing" =>
              /\ Body(s) \in ragRequested /\ Body(s).doc # NoDoc
              /\ session'[s].row = session[s].row
    PROVE  SystemInv'
<1>0. ServiceInv /\ RagInv
  BY DEF SystemInv
<1>1. /\ StepOf(s) /\ documents \subseteq documents' /\ requested' = requested
      /\ ragRequested' = ragRequested /\ ragDocuments' = ragDocuments
  BY <1>0, SessionMoves, StepTable DEF StepOf, rag
<1>2. PublishingPosted'
  <2>1. ASSUME NEW t \in Session, session'[t].pc = "publishing"
        PROVE  Body(t)' \in ragRequested /\ Body(t)'.doc # NoDoc
    <3>1. session'[t].row = session[t].row /\ session'[t].req = session[t].req
          => Body(t)' = Body(t)
      BY DEF Body
    <3>2. CASE t = s
      BY <1>1, <2>1, <3>1, <3>2 DEF StepOf
    <3>3. CASE t # s
      BY <1>1, <2>1, <3>1, <3>3 DEF StepOf, SystemInv, PublishingPosted
    <3> QED
      BY <3>2, <3>3
  <2> QED
    BY <1>1, <2>1 DEF PublishingPosted
<1>3. PostedFit'
  BY <1>1, PostedStays
<1> QED
  BY <1>0, <1>1, <1>2, <1>3, ServiceStepKeeps, RagSame, TasksStep DEF SystemInv

LEMMA AcceptKeeps ==
    ASSUME SystemInv, NEW s \in Session, IndexAccepted(s) PROVE SystemInv'
<1>0. ServiceInv /\ RagInv /\ confirmed \subseteq ragDocuments
  BY DEF SystemInv
<1>1. PICK a \in ragAnswers : a.req = Body(s) /\ Is2xx(a.status)
  BY DEF IndexAccepted
<1>2. /\ Body(s) \in ragRequested /\ Body(s).doc \in ragDocuments /\ ragDocuments \subseteq Doc
  BY <1>0, <1>1 DEF RagInv, RagAnswersSent, Rag!TypeOK
<1>3. Body(s).doc # NoDoc
  BY <1>2, RagAssumption DEF Rag!RequestAssumption
<1>4. /\ RagAccepts(s) /\ UNCHANGED rag /\ confirmed' = confirmed \cup {Body(s).doc}
      /\ session'[s].row = session[s].row
  <2>1. RagAccepts(s) /\ UNCHANGED rag /\ confirmed' = confirmed \cup {Body(s).doc}
    BY DEF IndexAccepted
  <2>2. ASSUME NEW pc, Move(s, pc, session[s].row, 0) PROVE session'[s].row = session[s].row
    BY <1>0, <2>2, MoveSession DEF ServiceInv
  <2> QED
    BY <2>1, <2>2 DEF RagAccepts
<1> QED
  BY <1>0, <1>2, <1>3, <1>4, WorkerKeeps DEF ServiceStep

\* Steps of the knowledge service that are no worker's: what is announced and posted
\* stays; an answer has the code its worker had.
LEMMA ArrivalKeeps ==
    ASSUME SystemInv, NEW s \in Session, NEW req \in Request, Begin(s, req),
           UNCHANGED <<rag, confirmed>>
    PROVE  SystemInv'
<1>0. ServiceInv /\ RagInv /\ TypeOK
  BY DEF SystemInv, ServiceInv
<1> DEFINE begun == [pc |-> "begun", req |-> req, row |-> {}, code |-> 0]
<1>1. /\ session' = [session EXCEPT ![s] = begun] /\ requested' = requested \cup {req}
      /\ req \notin requested
      /\ UNCHANGED <<documents, sequence, publisherUp, exchange, answers>>
  BY DEF Begin
<1>2. begun.pc = "begun" /\ begun.req = req
  OBVIOUS
<1> HIDE DEF begun
<1>3. session'[s] = begun /\ \A t \in Session : t # s => session'[t] = session[t]
  BY <1>0, <1>1 DEF TypeOK
<1>4. \A i \in DOMAIN exchange : exchange[i].by # req.id
  BY <1>0, <1>1, IdsName DEF SystemInv, TasksFit, TypeOK
<1>5. TasksFit'
  BY <1>1, <1>2, <1>3, <1>4 DEF SystemInv, TasksFit, rag
<1>6. PublishingPosted'
  <2>1. ASSUME NEW t \in Session, t # s PROVE Body(t)' = Body(t)
    <3>1. session'[t].row = session[t].row /\ session'[t].req = session[t].req
      BY <1>3, <2>1
    <3> QED
      BY <3>1 DEF Body
  <2> QED
    BY <1>2, <1>3, <2>1 DEF SystemInv, PublishingPosted, rag
<1>7. ServiceInv'
  BY <1>0, BeginKeeps
<1>8. PostedFit'
  BY <1>1, PostedStays
<1> QED
  BY <1>0, <1>5, <1>6, <1>7, <1>8, RagSame DEF SystemInv, rag

LEMMA AnsweringKeeps ==
    ASSUME SystemInv, NEW s \in Session, Answer(s), UNCHANGED <<rag, confirmed>>
    PROVE  SystemInv'
<1>0. ServiceInv /\ RagInv /\ TypeOK
  BY DEF SystemInv, ServiceInv
<1> DEFINE a == [req |-> session[s].req, code |-> session[s].code, row |-> session[s].row]
<1>1. /\ session[s].pc = "replied" /\ session' = [session EXCEPT ![s] = IdleSession]
      /\ answers' = answers \cup {a}
      /\ UNCHANGED <<documents, sequence, publisherUp, requested, exchange>>
  BY DEF Answer
<1>2. a.req = session[s].req /\ a.code = session[s].code
  OBVIOUS
<1> HIDE DEF a
<1>3. /\ session'[s].pc = "idle" /\ \A t \in Session : t # s => session'[t] = session[t]
  BY <1>0, <1>1, IdleFits DEF TypeOK
<1>4. TasksFit'
  BY <1>1, <1>2, <1>3 DEF SystemInv, TasksFit, rag
<1>5. PublishingPosted'
  <2>1. ASSUME NEW t \in Session, t # s PROVE Body(t)' = Body(t)
    <3>1. session'[t].row = session[t].row /\ session'[t].req = session[t].req
      BY <1>3, <2>1
    <3> QED
      BY <3>1 DEF Body
  <2> QED
    BY <1>3, <2>1 DEF SystemInv, PublishingPosted, rag
<1>6. ServiceInv'
  BY <1>0, AnswerKeeps
<1>7. PostedFit'
  BY <1>1, PostedStays
<1> QED
  BY <1>0, <1>4, <1>5, <1>6, <1>7, RagSame DEF SystemInv, rag

LEMMA CrashingKeeps == ASSUME SystemInv, Crash, UNCHANGED <<rag, confirmed>> PROVE SystemInv'
<1>0. ServiceInv /\ RagInv
  BY DEF SystemInv
<1>1. /\ session' = [s \in Session |-> IdleSession]
      /\ UNCHANGED <<documents, requested, exchange, answers>>
  BY DEF Crash
<1>2. \A s \in Session : session'[s].pc = "idle"
  BY <1>1, IdleFits
<1>3. TasksFit' /\ PublishingPosted'
  BY <1>1, <1>2 DEF SystemInv, TasksFit, PublishingPosted, rag
<1>4. ServiceInv'
  BY <1>0, CrashKeeps
<1>5. PostedFit'
  BY <1>1, PostedStays
<1> QED
  BY <1>0, <1>3, <1>4, <1>5, RagSame DEF SystemInv, rag

LEMMA SystemInitInv == SystemInit => SystemInv
<1> SUFFICES ASSUME SystemInit PROVE SystemInv
  OBVIOUS
<1>1. Init /\ Rag!Init /\ confirmed = {}
  BY DEF SystemInit
<1>2. ServiceInv
  BY <1>1, ServiceInit
<1>3. /\ \A t \in Thread : ragThread[t].pc = "idle" /\ ragThread \in [Thread -> RagThread]
      /\ ragDocuments = {} /\ ragChunks \in Seq(Rag!Chunk) /\ ragRequested = {}
      /\ ragAnswers = {} /\ ragSuspect = {}
  BY <1>1, RagIdle DEF Rag!Init
<1>4. ragThread \in [Thread -> RagThread]
  BY <1>1, RagIdle DEF Rag!Init
<1>5. RagInv
  BY <1>3, <1>4 DEF RagInv, Rag!TypeOK, RagServes, RagDocumentsSent, RagAnswersSent, ThreadFits,
     RagThread, RagRequest
<1>6. \A s \in Session : session[s].pc = "idle"
  BY <1>1, IdleFits DEF Init
<1>7. exchange = <<>>
  BY <1>1 DEF Init
<1>8. PostedFit /\ PublishingPosted /\ TasksFit
  BY <1>3, <1>6, <1>7 DEF PostedFit, PublishingPosted, TasksFit
<1> QED
  BY <1>1, <1>2, <1>5, <1>8 DEF SystemInv

LEMMA SystemInductive == SystemInv /\ [SystemNext]_systemVars => SystemInv'
<1> SUFFICES ASSUME SystemInv, [SystemNext]_systemVars PROVE SystemInv'
  OBVIOUS
<1>1. CASE UNCHANGED systemVars
  <2>1. RagInv /\ UNCHANGED rag /\ confirmed \subseteq ragDocuments
    BY <1>1 DEF systemVars, SystemInv
  <2>2. RagInv'
    BY <2>1, RagSame
  <2> QED
    BY <1>1, <2>1, <2>2, RagSideKeeps DEF systemVars, rag
<1>2. ASSUME NEW s \in Session, LocalStep(s), ~Answer(s), UNCHANGED <<rag, confirmed>>
      PROVE  SystemInv'
  BY <1>2, LocalNeverPublishes, WorkerKeeps DEF ServiceStep, SystemInv
<1>3. ASSUME NEW s \in Session, IndexFails(s) PROVE SystemInv'
  BY <1>3, LocalNeverPublishes, WorkerKeeps DEF ServiceStep, SystemInv, IndexFails
<1> QED
  BY <1>1, <1>2, <1>3, RagSideSteps, AcceptKeeps, ArrivalKeeps, AnsweringKeeps, CrashingKeeps
     DEF SystemNext, SystemStep, Arrive

LEMMA SystemInvariance == SystemSpec => []SystemInv
BY SystemInitInv, SystemInductive, PTL DEF SystemSpec

-----------------------------------------------------------------------------
(* The index under the requests of the knowledge service *)

LEMMA ContentInit == SystemInit => RagContent
<1> SUFFICES ASSUME SystemInit PROVE RagContent
  OBVIOUS
<1> QED
  BY ContentEmpty DEF SystemInit, Rag!Init

\* A step of the whole is one of the RAG service or leaves the index alone.
LEMMA ContentInductive == SystemInv /\ RagContent /\ [SystemNext]_systemVars => RagContent'
<1> SUFFICES ASSUME SystemInv, RagContent, [SystemNext]_systemVars PROVE RagContent'
  OBVIOUS
<1>1. RagInv /\ ServiceInv
  BY DEF SystemInv
<1>2. CASE UNCHANGED rag
  BY <1>2, ContentUnchanged
<1>3. ASSUME NEW s \in Session, NEW t \in Thread, Post(s, t) PROVE RagContent'
  <2>1. session[s].pc = "indexing" /\ Rag!Begin(t, Body(s))
    BY <1>3 DEF Post
  <2> QED
    BY <1>1, <2>1, BodyOf, ContentBegin
<1>4. ASSUME NEW t \in Thread, NEW req \in Direct, ArriveDirectly(t, req) PROVE RagContent'
  <2>1. Rag!Begin(t, req) /\ req \in RagRequest
    BY <1>4 DEF ArriveDirectly, RagRequest
  <2> QED
    BY <1>1, <2>1, ContentBegin
<1>5. ASSUME NEW t \in Thread, RagStep(t) PROVE RagContent'
  BY <1>1, <1>5, ContentStep DEF RagStep
<1>6. CASE RagRestart
  BY <1>6, ContentRestart DEF RagRestart
<1>7. UNCHANGED systemVars => UNCHANGED rag
  BY DEF systemVars
<1>8. \A s \in Session : IndexAccepted(s) \/ IndexFails(s) => UNCHANGED rag
  BY DEF IndexAccepted, IndexFails
<1> QED
  BY <1>2, <1>3, <1>4, <1>5, <1>6, <1>7, <1>8 DEF SystemNext, SystemStep, Arrive

LEMMA ContentInvariance == SystemSpec => [](SystemInv /\ RagContent)
<1>1. SystemInit => SystemInv /\ RagContent
  BY SystemInitInv, ContentInit
<1>2. (SystemInv /\ RagContent) /\ [SystemNext]_systemVars => (SystemInv /\ RagContent)'
  BY SystemInductive, ContentInductive
<1> QED
  BY <1>1, <1>2, PTL DEF SystemSpec

LEMMA FirstIsAll == ASSUME NEW d PROVE Rag!AllChunks(d) = First(d, NumChunks[d])
BY DEF Rag!AllChunks, First

LEMMA ContentExact == ASSUME RagInv, RagContent PROVE Rag!IndexExact
<1>1. ASSUME NEW d \in Doc \ ragSuspect,
             \A t \in Thread : Rag!Indexing(t) => ragThread[t].req.doc # d
      PROVE  Rag!ChunksOf(d) = IF d \in ragDocuments THEN Rag!AllChunks(d) ELSE <<>>
  <2>1. \A t \in Thread : ragThread[t].pc \in {"recording", "appending"} => ragThread[t].req.doc # d
    BY <1>1, IndexingIs DEF IndexPc
  <2>2. Rag!ChunksIn(ragChunks, d) = IF d \in ragDocuments THEN First(d, NumChunks[d]) ELSE <<>>
    BY <1>1, <2>1 DEF RagContent, Settled
  <2> QED
    BY <2>2, FirstIsAll DEF Rag!ChunksOf
<1> QED
  BY <1>1 DEF Rag!IndexExact

-----------------------------------------------------------------------------
(* chunk_text: the loop has dealt with the text up to `end', every phrase of at most *)
(* Overlap + 1 characters before `end' lies in a chunk, and the next chunk starts    *)
(* Overlap characters before `end'; a phrase that first fits before the new end      *)
(* begins at or after that start.                                                    *)

\* Where the loop stands.
Position ==
    /\ end <= length
    /\ (chunks = <<>>) <=> (end = 0)
    /\ broke => end = length
    /\ ~broke => IF chunks = <<>> THEN start = 0
                 ELSE end < length /\ Overlap < end /\ start = end - Overlap
    /\ start <= length

\* The phrases before `end' are whole.
WholeSoFar ==
    \A a, b \in Nat : a < b /\ b <= end /\ b - a <= Overlap + 1 => InsideOne(a, b)

\* The chunks so far, and the last of them.
Advance ==
    /\ ChunksAdvance
    /\ chunks # <<>> => chunks[Len(chunks)].to = end
    /\ \A i \in DOMAIN chunks : chunks[i].to <= end
    /\ ~broke => \A i \in DOMAIN chunks : chunks[i].from < start

LoopInv == CutTypeOK /\ Position /\ WholeSoFar /\ Advance

LEMMA InitLoop == CutInit => LoopInv
  <1> SUFFICES ASSUME CutInit PROVE LoopInv OBVIOUS
  <1>s. <<>> \in Seq(Chunk)
    OBVIOUS
  <1>t. CutTypeOK
    BY <1>s DEF CutInit, CutTypeOK
  <1>1. CutTypeOK /\ Position
    BY <1>t, LengthAssumption DEF CutInit, Position
  <1>2. WholeSoFar
    BY DEF CutInit, WholeSoFar
  <1>3. Advance
    BY DEF CutInit, Advance, ChunksAdvance
  <1> QED BY <1>1, <1>2, <1>3 DEF LoopInv

\* The numbers of one iteration: the chunk goes beyond the last one and starts
\* before its end.
LEMMA IterateNumbers ==
    ASSUME LoopInv, Iterate
    PROVE  /\ start < length /\ ~broke
           /\ ChunkEnd \in Nat /\ ChunkEnd <= length /\ start < ChunkEnd
           /\ ChunkEnd - start <= Size
           /\ end < ChunkEnd /\ start <= end /\ end - start <= Overlap
           /\ end - start = Overlap \/ start = 0
           /\ ChunkEnd < length => ChunkEnd = start + Size /\ Overlap < ChunkEnd
           /\ start' \in Nat
           /\ ~broke' => start' = ChunkEnd - Overlap /\ start < start'
  <1>1. length \in Nat /\ start \in Nat /\ end \in Nat
    BY LengthAssumption DEF LoopInv, CutTypeOK
  <1>2. start < length /\ ~broke
    BY <1>1 DEF Iterate, Done
  <1>3. IF chunks = <<>> THEN start = 0 /\ end = 0
        ELSE end < length /\ Overlap < end /\ start = end - Overlap
    BY <1>2 DEF LoopInv, Position
  <1>4. /\ ChunkEnd \in Nat /\ ChunkEnd <= length /\ start < ChunkEnd
        /\ ChunkEnd - start <= Size
        /\ ChunkEnd < length => ChunkEnd = start + Size /\ Overlap < ChunkEnd
    BY <1>1, <1>2, SizeAssumption DEF ChunkEnd
  <1>5. /\ end < ChunkEnd /\ start <= end /\ end - start <= Overlap
        /\ end - start = Overlap \/ start = 0
    BY <1>1, <1>2, <1>3, SizeAssumption DEF ChunkEnd
  <1>6. CASE ChunkEnd >= length
    <2>1. broke' /\ start' = start
      BY <1>6 DEF Iterate
    <2> QED BY <1>1, <1>2, <1>4, <1>5, <2>1
  <1>7. CASE ChunkEnd < length
    <2>1. ~(ChunkEnd >= length) /\ ~(ChunkEnd < Overlap)
      BY <1>1, <1>4, <1>7, SizeAssumption
    <2>2. start' = ChunkEnd - Overlap
      BY <2>1 DEF Iterate
    <2>3. start' \in Nat /\ start < start'
      BY <1>1, <1>4, <1>7, <2>2, SizeAssumption
    <2> QED BY <1>1, <1>2, <1>4, <1>5, <2>2, <2>3
  <1> QED BY <1>1, <1>4, <1>6, <1>7

LEMMA IterateLoop == ASSUME LoopInv, Iterate PROVE LoopInv'
  <1> DEFINE new == [from |-> start, to |-> ChunkEnd]
  <1>n. /\ start < length /\ ~broke
        /\ ChunkEnd \in Nat /\ ChunkEnd <= length /\ start < ChunkEnd
        /\ ChunkEnd - start <= Size
        /\ end < ChunkEnd /\ start <= end /\ end - start <= Overlap
        /\ end - start = Overlap \/ start = 0
        /\ ChunkEnd < length => ChunkEnd = start + Size /\ Overlap < ChunkEnd
        /\ start' \in Nat
        /\ ~broke' => start' = ChunkEnd - Overlap /\ start < start'
    BY IterateNumbers
  <1>t. /\ length \in Nat /\ start \in Nat /\ end \in Nat /\ chunks \in Seq(Chunk)
        /\ length \in TextLength
    BY LengthAssumption DEF LoopInv, CutTypeOK
  <1>s. /\ end' = ChunkEnd /\ length' = length
        /\ chunks' = Append(chunks, new)
        /\ broke' = (ChunkEnd >= length)
    BY DEF Iterate
  <1>b. /\ broke' => ChunkEnd >= length
        /\ ~broke' => ~(ChunkEnd >= length)
    BY Zenon, <1>s
  <1>c. new \in Chunk
    BY <1>n, <1>t DEF Chunk
  <1> HIDE DEF new
  <1>d. /\ chunks' \in Seq(Chunk)
        /\ Len(chunks') = Len(chunks) + 1 /\ Len(chunks) \in Nat
        /\ DOMAIN chunks = 1..Len(chunks) /\ DOMAIN chunks' = 1..(Len(chunks) + 1)
        /\ \A i \in 1..Len(chunks) : chunks'[i] = chunks[i]
        /\ chunks'[Len(chunks) + 1] = new
    BY <1>t, <1>s, <1>c
  <1>1. CutTypeOK'
    BY <1>n, <1>t, <1>s, <1>d DEF CutTypeOK
  <1>2. Position'
    <2>1. chunks' # <<>>
      BY <1>d
    <2>2. start' <= length'
      BY <1>n, <1>t, <1>s, SizeAssumption DEF Iterate
    <2>3. end' <= length' /\ end' # 0
      BY <1>n, <1>t, <1>s
    <2>4. broke' => end' = length'
      <3>1. ChunkEnd >= length => ChunkEnd = length
        BY <1>n, <1>t
      <3> QED BY <3>1, <1>b, <1>s
    <2>5. ~broke' => end' < length' /\ Overlap < end' /\ start' = end' - Overlap
      <3>1. ~(ChunkEnd >= length) => ChunkEnd < length /\ Overlap < ChunkEnd
        BY <1>n, <1>t
      <3> QED BY <3>1, <1>n, <1>b, <1>s
    <2> QED BY <2>1, <2>2, <2>3, <2>4, <2>5 DEF Position
  <1>f. new.from = start /\ new.to = ChunkEnd
    BY DEF new
  <1>3. WholeSoFar'
    <2> SUFFICES ASSUME NEW a \in Nat, NEW b \in Nat,
                        a < b, b <= end', b - a <= Overlap + 1
                 PROVE  InsideOne(a, b)'
      BY DEF WholeSoFar
    <2>1. CASE b <= end
      <3>1. InsideOne(a, b)
        BY <2>1 DEF LoopInv, WholeSoFar
      <3>2. PICK i \in DOMAIN chunks : chunks[i].from <= a /\ b <= chunks[i].to
        BY <3>1 DEF InsideOne
      <3>3. i \in DOMAIN chunks' /\ chunks'[i] = chunks[i]
        BY <3>2, <1>d
      <3> QED BY <3>2, <3>3 DEF InsideOne
    <2>2. CASE b > end
      <3>1. start <= a /\ b <= ChunkEnd
        BY <2>2, <1>n, <1>t, <1>s, SizeAssumption
      <3>2. Len(chunks) + 1 \in DOMAIN chunks'
        BY <1>d
      <3>3. chunks'[Len(chunks) + 1].from <= a /\ b <= chunks'[Len(chunks) + 1].to
        BY <3>1, <1>d, <1>f
      <3> QED BY <3>2, <3>3 DEF InsideOne
    <2> QED BY <2>1, <2>2, <1>t
  <1>4. Advance'
    <2>o. /\ \A i \in 1..Len(chunks) : /\ chunks[i].from < chunks[i].to
                                       /\ chunks[i].to <= length
                                       /\ chunks[i].to - chunks[i].from <= Size
                                       /\ chunks[i].to <= end /\ chunks[i].from < start
                                       /\ chunks[i].from \in Nat /\ chunks[i].to \in Nat
          /\ \A i, j \in 1..Len(chunks) :
                i < j => chunks[i].from < chunks[j].from /\ chunks[i].to < chunks[j].to
      <3>1. \A i \in 1..Len(chunks) : chunks[i] \in Chunk
        BY <1>t, <1>d
      <3>2. \A i \in 1..Len(chunks) : chunks[i].from \in Nat /\ chunks[i].to \in Nat
        BY <3>1 DEF Chunk
      <3> QED BY <3>2, <1>n, <1>d DEF LoopInv, Advance, ChunksAdvance
    <2>1. \A i \in DOMAIN chunks' :
             /\ chunks'[i].from < chunks'[i].to /\ chunks'[i].to <= length'
             /\ chunks'[i].to - chunks'[i].from <= Size
             /\ chunks'[i].to <= end'
             /\ ~broke' => chunks'[i].from < start'
      <3> SUFFICES ASSUME NEW i \in 1..(Len(chunks) + 1)
                   PROVE  /\ chunks'[i].from < chunks'[i].to /\ chunks'[i].to <= length'
                          /\ chunks'[i].to - chunks'[i].from <= Size
                          /\ chunks'[i].to <= end'
                          /\ ~broke' => chunks'[i].from < start'
        BY <1>d
      <3>1. CASE i = Len(chunks) + 1
        BY <3>1, <1>n, <1>t, <1>s, <1>d, <1>f
      <3>2. CASE i \in 1..Len(chunks)
        BY <3>2, <2>o, <1>n, <1>t, <1>s, <1>d
      <3> QED BY <3>1, <3>2, <1>d
    <2>2. \A i, j \in DOMAIN chunks' :
             i < j => chunks'[i].from < chunks'[j].from /\ chunks'[i].to < chunks'[j].to
      <3> SUFFICES ASSUME NEW i \in 1..(Len(chunks) + 1), NEW j \in 1..(Len(chunks) + 1), i < j
                   PROVE  chunks'[i].from < chunks'[j].from /\ chunks'[i].to < chunks'[j].to
        BY <1>d
      <3>0. i \in 1..Len(chunks)
        BY <1>d
      <3>1. CASE j = Len(chunks) + 1
        BY <3>0, <3>1, <2>o, <1>n, <1>t, <1>d, <1>f
      <3>2. CASE j \in 1..Len(chunks)
        BY <3>0, <3>2, <2>o, <1>d
      <3> QED BY <3>1, <3>2, <1>d
    <2>3. chunks' # <<>> => chunks'[Len(chunks')].to = end'
      BY <1>s, <1>d, <1>f
    <2> QED BY <2>1, <2>2, <2>3 DEF Advance, ChunksAdvance
  <1> QED BY <1>1, <1>2, <1>3, <1>4 DEF LoopInv

LEMMA StutterLoop == ASSUME LoopInv, UNCHANGED cutVars PROVE LoopInv'
  <1>1. CutTypeOK' /\ Position'
    BY DEF LoopInv, cutVars, CutTypeOK, Position
  <1>2. WholeSoFar'
    BY DEF LoopInv, cutVars, WholeSoFar, InsideOne
  <1>3. Advance'
    BY DEF LoopInv, cutVars, Advance, ChunksAdvance
  <1> QED BY <1>1, <1>2, <1>3 DEF LoopInv

-----------------------------------------------------------------------------
(* Theorems *)

\* Every variable of both services keeps its type, and RagClient reports as accepted
\* documents only.
THEOREM SystemTypeCorrect == SystemSpec => []SystemTypeOK
<1>1. SystemInv => SystemTypeOK
  BY DEF SystemInv, ServiceInv, RagInv, SystemTypeOK, Rag!TypeOK
<1> QED
  BY <1>1, SystemInvariance, PTL

\* A client told 0 finds the one document it created under the id it was told, whatever
\* clock and sequence the processes since have had; what was found is what its creator
\* sent; and nobody is told 404 of a document whose client was told of its creation
\* before, unless the database fails in that request. Whatever the RAG service does,
\* every step of the whole is one of the knowledge service or leaves it alone.
THEOREM AnswersAreTrueHolds == SystemSpec => []AnswersAreTrue
<1>1. SystemInv => AnswersAreTrue
  <2> SUFFICES ASSUME SystemInv, NEW a \in answers
               PROVE  /\ a.req.op = "CreateKnowledgeDocument" /\ a.code = 0 =>
                            \E d \in a.row :
                               /\ {e \in documents : e.document_id = d.document_id} = {d}
                               /\ d.by = a.req.id
                      /\ a.req.op \in {"GetKnowledgeDocument", "RequestKnowledgeIndex"}
                            /\ a.code = 0 =>
                            \E d \in a.row : d \in documents /\ d.by = a.req.document
                      /\ a.code = 404 => a.req \notin assured
    BY DEF AnswersAreTrue
  <2>1. TrueOf(documents, a) /\ Keys
    BY DEF SystemInv, ServiceInv, AnswersFit
  <2>2. \A d \in documents : {e \in documents : e.document_id = d.document_id} = {d}
    BY <2>1 DEF Keys
  <2>3. a.code = 404 => a.req \notin assured
    BY DEF SystemInv, ServiceInv, AssuredFit, Missed
  <2> QED
    BY <2>1, <2>2, <2>3 DEF TrueOf
<1> QED
  BY <1>1, SystemInvariance, PTL

\* What the index holds and what is announced comes from the table: whatever crashes,
\* times out or restarts on either side, a document of the index is a stored one that
\* some client asked to index, and a task is announced once, of a stored document the
\* RAG service was asked to index, and never for a client told 404 or 503.
THEOREM TasksAreIndexedHolds == SystemSpec => []TasksAreIndexed
<1>1. SystemInv => TasksAreIndexed
  <2> SUFFICES ASSUME SystemInv PROVE TasksAreIndexed
    OBVIOUS
  <2>1. ASSUME NEW d \in ragDocuments \ {req.doc : req \in Direct \cap ragRequested}
        PROVE  /\ \E row \in documents : row.by = d /\ ~row.blank
               /\ \E req \in requested : req.op = "RequestKnowledgeIndex" /\ req.document = d
    <3>1. d \in Doc /\ d # NoDoc
      BY RagAssumption DEF SystemInv, RagInv, Rag!TypeOK, Rag!RequestAssumption
    <3>2. PICK p \in ragRequested : p.doc = d
      BY DEF SystemInv, RagInv, RagDocumentsSent
    <3>3. p \notin Direct
      BY <2>1, <3>2
    <3> QED
      BY <3>1, <3>2, <3>3 DEF SystemInv, PostedFit
  <2>2. TasksFit
    BY DEF SystemInv
  <2> QED
    BY <2>1, <2>2 DEF TasksAreIndexed, TasksFit
<1> QED
  BY <1>1, SystemInvariance, PTL

\* The index is exact wherever no race has struck, for any number of threads, documents
\* and clients: a settled document has its chunks once and in order if it is recorded and
\* none otherwise.
THEOREM IndexExactHolds == SystemSpec => []IndexExact
<1>1. SystemInv /\ RagContent => IndexExact
  BY ContentExact DEF SystemInv, IndexExact
<1> QED
  BY <1>1, ContentInvariance, PTL

\* A retrieval no assignment to CHUNKS has crossed has found what a search made at once
\* would have found up to its position, however many chunks others append meanwhile.
THEOREM RetrievalIsSnapshotHolds == SystemSpec => []RetrievalIsSnapshot
<1>1. SystemInv /\ RagContent => RetrievalIsSnapshot
  BY DEF RagContent, AtWork, RetrievalIsSnapshot, Rag!RetrievalIsSnapshot
<1> QED
  BY <1>1, ContentInvariance, PTL

\* A client that was told 0 by RequestKnowledgeIndex finds its document recorded, and,
\* unless a race of the RAG service has struck it, complete as soon as nobody works on it,
\* until the RAG service is started again.
THEOREM ToldIsSearchableHolds == SystemSpec => []ToldIsSearchable
<1>1. SystemInv /\ RagContent => ToldIsSearchable
  <2> SUFFICES ASSUME SystemInv, RagContent, NEW d \in confirmed
               PROVE  /\ d \in ragDocuments
                      /\ /\ d \notin ragSuspect
                         /\ \A t \in Thread : Rag!Indexing(t) => ragThread[t].req.doc # d
                         => Rag!ChunksOf(d) = Rag!AllChunks(d)
    BY DEF ToldIsSearchable
  <2>1. d \in ragDocuments /\ d \in Doc
    BY RagTyped DEF SystemInv
  <2>2. Rag!IndexExact
    BY ContentExact DEF SystemInv
  <2> QED
    BY <2>1, <2>2 DEF Rag!IndexExact
<1> QED
  BY <1>1, ContentInvariance, PTL

\* The invariant of the loop of chunk_text holds throughout.
THEOREM LoopInvariant == CutSpec => []LoopInv
  <1>1. LoopInv /\ [CutNext]_cutVars => LoopInv'
    BY IterateLoop, StutterLoop DEF CutNext
  <1> QED BY InitLoop, <1>1, PTL DEF CutSpec

\* Every variable of the loop keeps its type; in particular start and end never fall
\* below zero, for any overlap smaller than the chunk size.
THEOREM CutTypeCorrect == CutSpec => []CutTypeOK
  <1>1. LoopInv => CutTypeOK
    BY DEF LoopInv
  <1> QED BY LoopInvariant, <1>1, PTL

\* When chunk_text returns, every phrase of at most Overlap + 1 characters lies in one
\* chunk, for every text.
THEOREM PhrasesWholeHolds == CutSpec => []PhrasesWhole
  <1>1. ASSUME LoopInv PROVE PhrasesWhole
    <2> SUFFICES ASSUME Done, NEW a \in 0..length, NEW b \in 0..length,
                        a < b, b - a <= Overlap + 1
                 PROVE  InsideOne(a, b)
      BY DEF PhrasesWhole
    <2>1. length \in Nat
      BY <1>1, LengthAssumption DEF LoopInv, CutTypeOK
    <2>2. b <= end
      BY <1>1, <2>1, SizeAssumption DEF LoopInv, Position, CutTypeOK, Done
    <2> QED BY <1>1, <2>1, <2>2 DEF LoopInv, WholeSoFar
  <1>2. LoopInv => PhrasesWhole
    BY <1>1
  <1> QED BY LoopInvariant, <1>2, PTL

\* Chunks stay within the text and the size, and each reaches beyond the one before.
THEOREM ChunksAdvanceHolds == CutSpec => []ChunksAdvance
  <1>1. LoopInv => ChunksAdvance
    BY DEF LoopInv, Advance
  <1> QED BY LoopInvariant, <1>1, PTL
=============================================================================
