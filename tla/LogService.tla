----------------------------- MODULE LogService -----------------------------
(***************************************************************************)
(* The log service (services/log_service): logs are indexed in             *)
(* Elasticsearch, one index per month, and the last of them are kept in    *)
(* the process as well (_recent), because Elasticsearch shows a document   *)
(* only after its next refresh. A query merges both by log_id.             *)
(*                                                                         *)
(* WriteLog takes the number of a generated log_id under the mutex, calls  *)
(* Elasticsearch without it, takes it again to remember the log, and then  *)
(* publishes: writes, queries and refreshes come between. A query searches *)
(* one index only, that of the month it starts in.                         *)
(*                                                                         *)
(* Outside src/, modelled from its use: Elasticsearch (a document is       *)
(* replaced by one of the same id in the same index, is found after a      *)
(* refresh, and may be indexed although the caller sees an error), the     *)
(* exchange and the wall clock. The filters other than device and time     *)
(* (service, level, keyword, event) compare a field as `device' does.      *)
(***************************************************************************)
EXTENDS Integers, Sequences, FiniteSets

CONSTANTS
    DeviceId, Empty,     \* Empty is the empty string, a filter's "any"
    Request, NoRequest,
    Session,             \* brpc workers
    Now,                 \* values currentUnixMillis() may return
    MonthLength,         \* timestamps per month
    MaxQuerySize,        \* DEVICEOPS_LOG_QUERY_SIZE
    PublisherConfigured  \* DEVICEOPS_RABBITMQ_ENABLED

\* A generated log_id is log-<now>-<sequence>; <<0, k>> stands for an id the client
\* chose, which has not that form, and <<0, 0>> for none.
LogId == Nat \X Nat
NoId == <<0, 0>>

\* A log as it is stored; what clients send may lack the id and the timestamp (0).
Log == [log_id : LogId \ {NoId}, device_id : DeviceId, timestamp : Nat \ {0}]
Sent == [log_id : LogId, device_id : DeviceId, timestamp : Nat]

WriteRequest == [id : Nat, op : {"WriteLog"}, log : Sent, message : BOOLEAN]
QueryRequest == [id : Nat, op : {"QueryLogs"}, device_id : DeviceId, start_time : Int,
                 end_time : Int, page : Int, page_size : Int]
ContextRequest == [id : Nat, op : {"GetLogContext"}, device_id : DeviceId,
                   center_time : Int, before_ms : Int, after_ms : Int, limit : Int]

ASSUME RequestAssumption ==
    /\ Request \subseteq WriteRequest \cup QueryRequest \cup ContextRequest
    /\ NoRequest \notin Request
ASSUME ConfigAssumption ==
    /\ Empty \in DeviceId /\ Now \subseteq Nat \ {0} /\ PublisherConfigured \in BOOLEAN
    /\ MonthLength \in Nat \ {0} /\ MaxQuerySize \in Nat \ {0}
    /\ IsFiniteSet(Session)

-----------------------------------------------------------------------------
VARIABLES
    indexed,     \* what Elasticsearch has indexed: at most one log per month and id
    searchable,  \* what it finds: indexed, as of the last refresh
    recent,      \* _recent
    sequence,    \* _sequence
    publisherUp, \* RabbitMqEventPublisher::enabled() of this process
    session,     \* what each worker is doing
    requested,   \* requests the clients have sent
    published,   \* the log.received messages: the request as it came; history: the log of it
    answers,     \* history: what the clients were answered
    acknowledged \* history: the logs that this process answered 0 for

vars == <<indexed, searchable, recent, sequence, publisherUp, session, requested,
          published, answers, acknowledged>>

Index(timestamp) == timestamp \div MonthLength

NoLog == [log_id |-> NoId, device_id |-> Empty, timestamp |-> 0]
IdleSession == [pc |-> "idle", req |-> NoRequest, log |-> NoLog, matched |-> <<>>, known |-> {}]
Pc == {"idle", "begun", "insert", "remember", "publish", "merge", "page"}

TypeOK ==
    /\ indexed \subseteq Log /\ searchable \subseteq Log
    /\ recent \in Seq(Log) /\ Len(recent) <= MaxQuerySize
    /\ sequence \in Nat \ {0} /\ publisherUp \in BOOLEAN
    /\ session \in [Session -> [pc : Pc, req : Request \cup {NoRequest}, log : Log \cup {NoLog},
                                matched : Seq(Log), known : SUBSET Log]]
    /\ requested \subseteq Request /\ published \subseteq [req : Request, log : Log]
    /\ answers \subseteq [req : Request, code : {0, 400, 503}, log : Log \cup {NoLog}, logs : Seq(Log)]
    /\ acknowledged \subseteq Log

\* The publisher logs in once, when it is made.
Publisher == {up \in BOOLEAN : up => PublisherConfigured}

Init ==
    /\ indexed = {} /\ searchable = {}
    /\ recent = <<>> /\ sequence = 1 /\ publisherUp \in Publisher
    /\ session = [s \in Session |-> IdleSession]
    /\ requested = {} /\ published = {} /\ answers = {} /\ acknowledged = {}

-----------------------------------------------------------------------------
(* Requests and answers *)

Serving(s, op, pc) == session[s].pc = pc /\ session[s].req.op = op

Begin(s, req) ==
    /\ session[s].pc = "idle" /\ req \notin requested
    /\ requested' = requested \cup {req}
    /\ session' = [session EXCEPT ![s] =
                    [pc |-> "begun", req |-> req, log |-> NoLog, matched |-> <<>>,
                     known |-> acknowledged]]
    /\ UNCHANGED <<indexed, searchable, recent, sequence, publisherUp, published, answers,
                   acknowledged>>

\* The answer goes out when the closure guard is left.
Reply(s, code, log, logs) ==
    /\ answers' = answers \cup {[req |-> session[s].req, code |-> code, log |-> log, logs |-> logs]}
    /\ session' = [session EXCEPT ![s] = IdleSession]
    /\ UNCHANGED <<publisherUp, requested>>

Go(s, pc, log, matched) ==
    /\ session' = [session EXCEPT ![s] = [pc |-> pc, req |-> session[s].req, log |-> log,
                                          matched |-> matched, known |-> session[s].known]]
    /\ UNCHANGED <<publisherUp, requested, answers>>

-----------------------------------------------------------------------------
(* WriteLog *)

RejectWrite(s) ==
    /\ Serving(s, "WriteLog", "begun") /\ ~session[s].req.message
    /\ Reply(s, 503, NoLog, <<>>)
    /\ UNCHANGED <<indexed, searchable, recent, sequence, published, acknowledged>>

\* Mutant: a missing timestamp stays.
NormalizeIdOnly(log, id, now) == IF log.log_id = NoId THEN [log EXCEPT !.log_id = id] ELSE log
Normalize(log, id, now) ==
    [log_id |-> IF log.log_id = NoId THEN id ELSE log.log_id,
     device_id |-> log.device_id,
     timestamp |-> IF log.timestamp <= 0 THEN now ELSE log.timestamp]

\* The number is taken under the mutex, needed or not.
NextLogId(s) ==
    /\ Serving(s, "WriteLog", "begun") /\ session[s].req.message
    /\ \E now \in Now : Go(s, "insert", Normalize(session[s].req.log, <<now, sequence>>, now), <<>>)
    /\ sequence' = sequence + 1
    /\ UNCHANGED <<indexed, searchable, recent, published, acknowledged>>

SameDocument(log1, log2) ==
    log1.log_id = log2.log_id /\ Index(log1.timestamp) = Index(log2.timestamp)
WithDocument(log) == {log} \cup {other \in indexed : ~SameDocument(other, log)}

InsertToElastic(s) ==
    /\ Serving(s, "WriteLog", "insert")
    /\ indexed' = WithDocument(session[s].log)
    /\ Go(s, "remember", session[s].log, <<>>)
    /\ UNCHANGED <<searchable, recent, sequence, published, acknowledged>>

\* Mutant: the result of the insertion is not looked at.
InsertFailsUnchecked(s) ==
    /\ Serving(s, "WriteLog", "insert")
    /\ indexed' \in {indexed, WithDocument(session[s].log)}
    /\ Go(s, "remember", session[s].log, <<>>)
    /\ UNCHANGED <<searchable, recent, sequence, published, acknowledged>>

\* Elasticsearch refuses, is not reached, or is not heard after it has indexed.
InsertFails(s) ==
    /\ Serving(s, "WriteLog", "insert")
    /\ indexed' \in {indexed, WithDocument(session[s].log)}
    /\ Reply(s, 503, NoLog, <<>>)
    /\ UNCHANGED <<searchable, recent, sequence, published, acknowledged>>

\* Mutant: the list is cut one too short.
RememberedOneLess(log) ==
    LET all == Append(recent, log) IN
    IF Len(all) >= MaxQuerySize THEN SubSeq(all, Len(all) - MaxQuerySize + 2, Len(all)) ELSE all
\* The oldest go.
Remembered(log) ==
    LET all == Append(recent, log) IN
    IF Len(all) > MaxQuerySize THEN SubSeq(all, Len(all) - MaxQuerySize + 1, Len(all)) ELSE all

Remember(s) ==
    /\ Serving(s, "WriteLog", "remember")
    /\ recent' = Remembered(session[s].log)
    /\ Go(s, "publish", session[s].log, <<>>)
    /\ UNCHANGED <<indexed, searchable, sequence, published, acknowledged>>

\* The broker takes the message or not; the answer is the same.
Publish(s) ==
    /\ Serving(s, "WriteLog", "publish")
    /\ \/ UNCHANGED published
       \/ /\ publisherUp
          /\ published' = published \cup {[req |-> session[s].req, log |-> session[s].log]}
    /\ acknowledged' = acknowledged \cup {session[s].log}
    /\ Reply(s, 0, session[s].log, <<>>)
    /\ UNCHANGED <<indexed, searchable, recent, sequence>>

-----------------------------------------------------------------------------
(* QueryLogs and GetLogContext *)

NormalizePage(page) == IF page <= 0 THEN 1 ELSE page
NormalizePageSize(n) == IF n <= 0 THEN 20 ELSE IF n > 100 THEN 100 ELSE n
NotNegative(n) == IF n < 0 THEN 0 ELSE n

Filter(req) ==
    IF req.op = "QueryLogs"
    THEN [device_id |-> req.device_id, start_time |-> req.start_time, end_time |-> req.end_time,
          page |-> NormalizePage(req.page), page_size |-> NormalizePageSize(req.page_size)]
    ELSE [device_id |-> req.device_id,
          start_time |-> req.center_time - NotNegative(req.before_ms),
          end_time |-> req.center_time + NotNegative(req.after_ms),
          page |-> 1,
          page_size |-> NormalizePageSize(IF req.limit <= 0 THEN 50
                                          ELSE IF req.limit > 200 THEN 200 ELSE req.limit)]

InTimeRange(timestamp, filter) ==
    /\ filter.start_time > 0 => timestamp >= filter.start_time
    /\ filter.end_time > 0 => timestamp <= filter.end_time
Matches(log, filter) ==
    /\ filter.device_id # Empty => log.device_id = filter.device_id
    /\ InTimeRange(log.timestamp, filter)

RejectContext(s) ==
    /\ Serving(s, "GetLogContext", "begun")
    /\ session[s].req.device_id = Empty \/ session[s].req.center_time <= 0
    /\ Reply(s, 400, NoLog, <<>>)
    /\ UNCHANGED <<indexed, searchable, recent, sequence, published, acknowledged>>

\* One index, and a range that ends now unless the filter ends it.
Hits(filter, now) ==
    {log \in searchable :
        /\ Index(log.timestamp) = Index(IF filter.start_time > 0 THEN filter.start_time ELSE now)
        /\ (filter.start_time > 0 /\ filter.end_time <= 0) => log.timestamp <= now
        /\ Matches(log, filter)}

\* All of its elements, each once.
Listings(S) == {f \in [1..Cardinality(S) -> S] :
                   /\ \A x \in S : \E i \in DOMAIN f : f[i] = x
                   /\ \A i, j \in DOMAIN f : f[i] = f[j] => i = j}

\* At most MaxQuerySize of the hits, in the order Elasticsearch gives them; none when
\* the search fails.
SearchElastic(s) ==
    /\ session[s].pc = "begun"
    /\ \/ session[s].req.op = "QueryLogs"
       \/ /\ session[s].req.op = "GetLogContext"
          /\ session[s].req.device_id # Empty /\ session[s].req.center_time > 0
    /\ \E now \in Now :
         LET hits == Hits(Filter(session[s].req), now) IN
         \E some \in {S \in SUBSET hits : Cardinality(S) <= MaxQuerySize
                                          /\ (S = hits \/ Cardinality(S) = MaxQuerySize)} \cup {{}} :
            \E listing \in Listings(some) : Go(s, "merge", NoLog, listing)
    /\ UNCHANGED <<indexed, searchable, recent, sequence, published, acknowledged>>

Ids(logs) == {logs[i].log_id : i \in DOMAIN logs}

\* Mutant: what Elasticsearch has found already is added again.
AddedAgain(matched, filter) == {i \in DOMAIN recent : Matches(recent[i], filter)}
\* The places of the recent logs that match and whose id is not there yet, neither from
\* Elasticsearch nor from an older recent log.
Added(matched, filter) ==
    {i \in DOMAIN recent :
        /\ Matches(recent[i], filter) /\ recent[i].log_id \notin Ids(matched)
        /\ \A j \in 1..(i - 1) : Matches(recent[j], filter) => recent[j].log_id # recent[i].log_id}

Joined(matched, places) == matched \o [k \in DOMAIN places |-> recent[places[k]]]

\* They are added in any order: the sort that follows decides.
RecentSnapshot(s) ==
    /\ session[s].pc = "merge"
    /\ \E places \in Listings(Added(session[s].matched, Filter(session[s].req))) :
         Go(s, "page", NoLog, Joined(session[s].matched, places))
    /\ UNCHANGED <<indexed, searchable, recent, sequence, published, acknowledged>>

\* std::sort by timestamp, newest first, leaves equal ones in any order.
Sorted(logs) ==
    {[i \in DOMAIN logs |-> logs[p[i]]] : p \in
        {p \in Listings(DOMAIN logs) :
            \A i \in 2..Len(logs) : logs[p[i - 1]].timestamp >= logs[p[i]].timestamp}}
PageOf(logs, filter) ==
    LET first == (filter.page - 1) * filter.page_size + 1
        last == first + filter.page_size - 1
    IN SubSeq(logs, first, IF last < Len(logs) THEN last ELSE Len(logs))
\* GetLogContext turns the page round: oldest first.
InOrder(page, op) ==
    IF op = "QueryLogs" THEN page ELSE [i \in DOMAIN page |-> page[Len(page) + 1 - i]]

Page(s) ==
    /\ session[s].pc = "page"
    /\ \E logs \in Sorted(session[s].matched) :
         Reply(s, 0, NoLog,
               InOrder(PageOf(logs, Filter(session[s].req)), session[s].req.op))
    /\ UNCHANGED <<indexed, searchable, recent, sequence, published, acknowledged>>

-----------------------------------------------------------------------------
(* Elasticsearch, and the end of the process *)

Refresh ==
    /\ searchable # indexed
    /\ searchable' = indexed
    /\ UNCHANGED <<indexed, recent, sequence, publisherUp, session, requested, published,
                   answers, acknowledged>>

Crash ==
    /\ recent' = <<>> /\ sequence' = 1 /\ publisherUp' \in Publisher
    /\ session' = [s \in Session |-> IdleSession]
    /\ acknowledged' = {}
    /\ UNCHANGED <<indexed, searchable, requested, published, answers>>

SessionStep(s) ==
    \/ RejectWrite(s) \/ NextLogId(s) \/ InsertToElastic(s) \/ InsertFails(s)
    \/ Remember(s) \/ Publish(s)
    \/ RejectContext(s) \/ SearchElastic(s) \/ RecentSnapshot(s) \/ Page(s)

\* Everything but the arrival of a request.
Step ==
    \/ \E s \in Session : SessionStep(s)
    \/ Refresh
    \/ Crash

Next == (\E s \in Session, req \in Request : Begin(s, req)) \/ Step

Spec == Init /\ [][Next]_vars

-----------------------------------------------------------------------------
(* Properties *)

\* A log the client was told is written (WriteLog, answered 0) is in the index of its
\* month under its id, and so is one that a message was published about, whatever
\* crashes and overwriting writes of the same id come between.
AcceptedIsIndexed ==
    /\ \A a \in answers :
         a.req.op = "WriteLog" /\ a.code = 0 => \E log \in indexed : SameDocument(log, a.log)
    /\ \A m \in published : \E log \in indexed : SameDocument(log, m.log)

\* As long as this process has begun no more writes than _recent holds, a query finds
\* every matching log that was answered before it began, refreshed or not, also when
\* the search of Elasticsearch fails, looks into another month or finds an older version.
WrittenIsFound ==
    \A s \in Session :
        session[s].pc = "page" /\ sequence - 1 <= MaxQuerySize =>
            \A log \in session[s].known :
                Matches(log, Filter(session[s].req)) => log.log_id \in Ids(session[s].matched)

\* No answer lists two logs of one id: not when a log is found in both places, not
\* when it was written twice, and not when both versions of it are known.
NoLogTwice ==
    \A a \in answers : \A i, j \in DOMAIN a.logs :
        a.logs[i].log_id = a.logs[j].log_id => i = j
=============================================================================
