-------------------------- MODULE LogServiceProofs --------------------------
(***************************************************************************)
(* Proofs about LogService, for any requests, sessions, clock and sizes.   *)
(* The inductive invariant IInv adds to TypeOK that no index holds two     *)
(* documents of one id, what a session between two calls may rely on, and  *)
(* a count: the recent logs and the writes that are still to be remembered *)
(* are at most the numbers taken, so nothing has been pushed out of        *)
(* _recent before MaxQuerySize numbers are.                                *)
(***************************************************************************)
EXTENDS LogService, FiniteSetTheorems, SequenceTheorems, WellFoundedInduction, TLAPS

OneDocument(logs) == \A log1, log2 \in logs : SameDocument(log1, log2) => log1 = log2
HasDocument(logs, log) == \E other \in logs : SameDocument(other, log)
DistinctIds(logs) == \A i, j \in DOMAIN logs : logs[i].log_id = logs[j].log_id => i = j
Holds(list, log) == \E i \in DOMAIN list : list[i] = log

\* Every number taken so far still has its log in _recent.
NonePushedOut(seq) == seq - 1 <= MaxQuerySize

\* What holds of a session at each of its steps, given the tables.
SessionOK(idx, rec, seq, ack, r) ==
    /\ r.pc # "idle" => r.req \in Request
    /\ r.pc \in {"insert", "remember", "publish"} => r.req.op = "WriteLog" /\ r.log \in Log
    /\ r.pc \in {"merge", "page"} => r.req.op # "WriteLog"
    /\ r.pc \in {"remember", "publish"} => HasDocument(idx, r.log)
    /\ DistinctIds(r.matched)
    /\ r.known \subseteq ack
    /\ r.pc = "publish" /\ NonePushedOut(seq) => Holds(rec, r.log)
    /\ r.pc = "page" /\ NonePushedOut(seq) =>
          \A log \in r.known : Matches(log, Filter(r.req)) => log.log_id \in Ids(r.matched)
SessionsOK == \A s \in Session : SessionOK(indexed, recent, sequence, acknowledged, session[s])

\* The writes that have their number and are not in _recent.
Writing == {s \in Session : session[s].pc \in {"insert", "remember"}}
Counted == Len(recent) + Cardinality(Writing) <= sequence - 1

RecentHoldsAcknowledged ==
    NonePushedOut(sequence) => \A log \in acknowledged : Holds(recent, log)

IInv ==
    /\ TypeOK
    /\ OneDocument(indexed) /\ OneDocument(searchable)
    /\ IsFiniteSet(indexed) /\ IsFiniteSet(searchable)
    /\ SessionsOK
    /\ Counted
    /\ RecentHoldsAcknowledged
    /\ AcceptedIsIndexed
    /\ NoLogTwice

-----------------------------------------------------------------------------
(* Numbers and sequences *)

LEMMA Smallest ==
    ASSUME NEW S \in SUBSET Nat, S # {} PROVE \E x \in S : \A y \in S : x <= y
<1>1. PICK x \in S : \A y \in S : <<y, x>> \notin OpToRel(<, Nat)
  BY NatLessThanWellFounded, WFMin
<1>2. ASSUME NEW y \in S PROVE ~(y < x)
  BY <1>1, Zenon DEF OpToRel
<1>3. x \in Nat /\ \A y \in S : y \in Nat
  OBVIOUS
<1> QED
  BY <1>2, <1>3

LEMMA ListIsSeq ==
    ASSUME NEW S, NEW n \in Nat, NEW f \in [1..n -> S]
    PROVE  f \in Seq(S) /\ Len(f) = n
BY SeqDef, LenProperties

LEMMA JoinIsSeq ==
    ASSUME NEW S, NEW a \in Seq(S), NEW n \in Nat, NEW f \in [1..n -> S]
    PROVE  /\ a \o f \in Seq(S)
           /\ DOMAIN (a \o f) = 1..(Len(a) + n)
           /\ \A i \in 1..(Len(a) + n) : (a \o f)[i] = IF i <= Len(a) THEN a[i] ELSE f[i - Len(a)]
<1>1. f \in Seq(S) /\ Len(f) = n
  BY ListIsSeq
<1> QED
  BY <1>1, ConcatProperties, LenProperties

\* A part of a list has the ids of the list, each still once.
LEMMA PartIsDistinct ==
    ASSUME NEW list \in Seq(Log), DistinctIds(list), NEW m \in Nat \ {0}, NEW n \in Int,
           n <= Len(list)
    PROVE  SubSeq(list, m, n) \in Seq(Log) /\ DistinctIds(SubSeq(list, m, n))
<1>1. CASE m <= n
  <2>1. /\ SubSeq(list, m, n) \in Seq(Log)
        /\ Len(SubSeq(list, m, n)) = n - m + 1
        /\ \A i \in 1..(n - m + 1) : SubSeq(list, m, n)[i] = list[m + i - 1]
    BY <1>1, SubSeqProperties
  <2>2. DOMAIN SubSeq(list, m, n) = 1..(n - m + 1)
    BY <2>1, LenProperties
  <2> QED
    BY <1>1, <2>1, <2>2 DEF DistinctIds
<1>2. CASE ~(m <= n)
  <2>1. SubSeq(list, m, n) = << >>
    BY <1>2, SubSeqProperties
  <2> QED
    BY <2>1 DEF DistinctIds
<1> QED
  BY <1>1, <1>2

-----------------------------------------------------------------------------
(* The operators of the repository *)

\* A stored log has an id and a time.
LEMMA NormalizeType ==
    ASSUME NEW log \in Sent, NEW now \in Now, NEW n \in Nat
    PROVE  Normalize(log, <<now, n>>, now) \in Log
<1>1. now \in Nat \ {0}
  BY ConfigAssumption
<1>2. <<now, n>> \in LogId \ {NoId}
  BY <1>1 DEF LogId, NoId
<1> DEFINE stored == [log_id |-> IF log.log_id = NoId THEN <<now, n>> ELSE log.log_id,
                      device_id |-> log.device_id,
                      timestamp |-> IF log.timestamp <= 0 THEN now ELSE log.timestamp]
<1>3. Normalize(log, <<now, n>>, now) = stored
  BY DEF Normalize
<1>4. log.log_id \in LogId /\ log.device_id \in DeviceId /\ log.timestamp \in Nat
  BY DEF Sent
<1>5. stored \in Log
  BY <1>1, <1>2, <1>4 DEF Log
<1> QED
  BY <1>3, <1>5

\* An insertion replaces one document at most and takes none away.
LEMMA WithDocumentKeeps ==
    ASSUME NEW log \in Log, indexed \subseteq Log, OneDocument(indexed), IsFiniteSet(indexed)
    PROVE  /\ WithDocument(log) \subseteq Log
           /\ OneDocument(WithDocument(log)) /\ IsFiniteSet(WithDocument(log))
           /\ HasDocument(WithDocument(log), log)
           /\ \A other : HasDocument(indexed, other) => HasDocument(WithDocument(log), other)
<1>1. /\ WithDocument(log) \subseteq Log
      /\ OneDocument(WithDocument(log))
      /\ HasDocument(WithDocument(log), log)
      /\ \A other : HasDocument(indexed, other) => HasDocument(WithDocument(log), other)
  BY DEF WithDocument, OneDocument, HasDocument, SameDocument
<1> DEFINE others == {other \in indexed : ~SameDocument(other, log)}
<1>2. IsFiniteSet(others)
  BY FS_Subset
<1>3. IsFiniteSet(others \cup {log})
  BY <1>2, FS_AddElement
<1>4. WithDocument(log) = others \cup {log}
  BY DEF WithDocument
<1> QED
  BY <1>1, <1>3, <1>4

\* _recent keeps what it has as long as there is room.
LEMMA RememberedKeeps ==
    ASSUME NEW log \in Log, recent \in Seq(Log), Len(recent) <= MaxQuerySize
    PROVE  /\ Remembered(log) \in Seq(Log)
           /\ Len(Remembered(log)) <= MaxQuerySize
           /\ Len(Remembered(log)) <= Len(recent) + 1
           /\ Len(recent) + 1 <= MaxQuerySize =>
                 /\ Holds(Remembered(log), log)
                 /\ \A other : Holds(recent, other) => Holds(Remembered(log), other)
<1> DEFINE all == Append(recent, log)
<1>1. MaxQuerySize \in Nat \ {0}
  BY ConfigAssumption
<1>2. /\ all \in Seq(Log) /\ Len(all) = Len(recent) + 1
      /\ DOMAIN all = 1..(Len(recent) + 1) /\ DOMAIN recent = 1..Len(recent)
      /\ all[Len(recent) + 1] = log
      /\ \A i \in 1..Len(recent) : all[i] = recent[i]
  BY AppendProperties, LenProperties
<1>3. Len(recent) \in Nat
  BY LenProperties
<1> HIDE DEF all
<1>4. CASE Len(all) > MaxQuerySize
  <2> DEFINE part == SubSeq(all, Len(all) - MaxQuerySize + 1, Len(all))
  <2>1. Remembered(log) = part
    BY <1>4 DEF Remembered, all
  <2>2. part \in Seq(Log) /\ Len(part) = MaxQuerySize
    BY <1>1, <1>2, <1>3, <1>4, SubSeqProperties
  <2> HIDE DEF part
  <2> QED
    BY <1>1, <1>2, <1>3, <1>4, <2>1, <2>2
<1>5. CASE ~(Len(all) > MaxQuerySize)
  <2>1. Remembered(log) = all
    BY <1>5 DEF Remembered, all
  <2>2. Holds(all, log)
    BY <1>2, <1>3 DEF Holds
  <2>3. \A other : Holds(recent, other) => Holds(all, other)
    BY <1>2, <1>3 DEF Holds
  <2> QED
    BY <1>1, <1>2, <1>3, <1>5, <2>1, <2>2, <2>3
<1> QED
  BY <1>4, <1>5

\* All hits are of one index, so they have ids of their own.
LEMMA HitsAreDistinct ==
    ASSUME OneDocument(searchable), searchable \subseteq Log, NEW filter, NEW now,
           NEW some \in SUBSET Hits(filter, now), NEW listing \in Listings(some),
           IsFiniteSet(some)
    PROVE  listing \in Seq(Log) /\ DistinctIds(listing)
<1>1. Cardinality(some) \in Nat
  BY FS_CardinalityType
<1>2. some \subseteq Log
  BY DEF Hits
<1>3. listing \in [1..Cardinality(some) -> some]
  BY DEF Listings
<1>4. listing \in [1..Cardinality(some) -> Log]
  BY <1>2, <1>3
<1>5. \A log1, log2 \in some : log1.log_id = log2.log_id => log1 = log2
  BY DEF Hits, OneDocument, SameDocument
<1>6. DistinctIds(listing)
  BY <1>3, <1>5 DEF DistinctIds, Listings
<1> QED
  BY <1>1, <1>4, <1>6, ListIsSeq

\* The places of the recent logs that a query adds.
LEMMA AddedType ==
    ASSUME recent \in Seq(Log), NEW matched, NEW filter
    PROVE  /\ Added(matched, filter) \subseteq 1..Len(recent)
           /\ IsFiniteSet(Added(matched, filter))
           /\ \A i, j \in Added(matched, filter) : recent[i].log_id = recent[j].log_id => i = j
<1>1. DOMAIN recent = 1..Len(recent) /\ Len(recent) \in Nat
  BY LenProperties
<1>2. Added(matched, filter) \subseteq 1..Len(recent)
  BY <1>1 DEF Added
<1>3. IsFiniteSet(1..Len(recent))
  BY <1>1, FS_Interval
<1>4. IsFiniteSet(Added(matched, filter))
  BY <1>2, <1>3, FS_Subset
<1>5. ASSUME NEW i \in Added(matched, filter), NEW j \in Added(matched, filter),
             recent[i].log_id = recent[j].log_id
      PROVE  i = j
  <2>1. i \in Nat /\ j \in Nat /\ i >= 1 /\ j >= 1
    BY <1>1, <1>2
  <2>2. ~(i < j)
    BY <1>5, <2>1 DEF Added
  <2>3. ~(j < i)
    BY <1>5, <2>1 DEF Added
  <2> QED
    BY <2>1, <2>2, <2>3
<1> QED
  BY <1>2, <1>4, <1>5

\* Every matching recent log is found or added, under its id.
LEMMA AddedCovers ==
    ASSUME recent \in Seq(Log), NEW matched, NEW filter,
           NEW i \in DOMAIN recent, Matches(recent[i], filter),
           recent[i].log_id \notin Ids(matched)
    PROVE  \E j \in Added(matched, filter) : recent[j].log_id = recent[i].log_id
<1> DEFINE same == {j \in DOMAIN recent : /\ Matches(recent[j], filter)
                                         /\ recent[j].log_id = recent[i].log_id}
<1>1. DOMAIN recent = 1..Len(recent) /\ Len(recent) \in Nat
  BY LenProperties
<1>2. same \in SUBSET Nat /\ same # {}
  BY <1>1
<1>3. PICK j \in same : \A k \in same : j <= k
  BY <1>2, Smallest
<1>4. \A k \in 1..(j - 1) : Matches(recent[k], filter) => recent[k].log_id # recent[j].log_id
  BY <1>1, <1>3
<1> QED
  BY <1>3, <1>4 DEF Added

\* What is found and what is added is a list of logs with ids of their own.
LEMMA JoinedIsDistinct ==
    ASSUME recent \in Seq(Log), NEW matched \in Seq(Log), DistinctIds(matched), NEW filter,
           NEW places \in Listings(Added(matched, filter))
    PROVE  Joined(matched, places) \in Seq(Log) /\ DistinctIds(Joined(matched, places))
<1> DEFINE added == Added(matched, filter)
           n == Cardinality(added)
           more == [k \in DOMAIN places |-> recent[places[k]]]
<1>1. /\ added \subseteq 1..Len(recent) /\ IsFiniteSet(added)
      /\ \A i, j \in added : recent[i].log_id = recent[j].log_id => i = j
  BY AddedType
<1>0. \A i \in added : recent[i].log_id \notin Ids(matched)
  BY DEF Added
<1>2. n \in Nat
  BY <1>1, FS_CardinalityType
<1>3. places \in [1..n -> added] /\ \A k, l \in 1..n : places[k] = places[l] => k = l
  BY DEF Listings
<1> HIDE DEF added, n
<1>4. DOMAIN recent = 1..Len(recent) /\ \A i \in 1..Len(recent) : recent[i] \in Log
  BY LenProperties
<1>5. more \in [1..n -> Log] /\ \A k \in 1..n : more[k] = recent[places[k]]
  BY <1>1, <1>3, <1>4
<1>6. \A k, l \in 1..n : more[k].log_id = more[l].log_id => k = l
  BY <1>1, <1>3, <1>5
<1>7. \A k \in 1..n : more[k].log_id \notin Ids(matched)
  BY <1>0, <1>3, <1>5
<1>8. Len(matched) \in Nat /\ DOMAIN matched = 1..Len(matched)
  BY LenProperties
<1> DEFINE joined == matched \o more
<1>9. /\ joined \in Seq(Log) /\ DOMAIN joined = 1..(Len(matched) + n)
      /\ \A i \in 1..(Len(matched) + n) :
            joined[i] = IF i <= Len(matched) THEN matched[i] ELSE more[i - Len(matched)]
  BY <1>2, <1>5, JoinIsSeq
<1> HIDE DEF joined, more
<1>10. ASSUME NEW i \in DOMAIN joined, NEW j \in DOMAIN joined,
              joined[i].log_id = joined[j].log_id
       PROVE  i = j
  <2>1. CASE i <= Len(matched) /\ j <= Len(matched)
    BY <1>8, <1>9, <1>10, <2>1 DEF DistinctIds
  <2>2. CASE ~(i <= Len(matched)) /\ ~(j <= Len(matched))
    <3>1. i - Len(matched) \in 1..n /\ j - Len(matched) \in 1..n
      BY <1>2, <1>8, <1>9, <2>2
    <3> QED
      BY <1>2, <1>6, <1>8, <1>9, <1>10, <2>2, <3>1
  <2>3. ASSUME NEW k \in 1..Len(matched), NEW l \in 1..n PROVE matched[k].log_id # more[l].log_id
    BY <1>7, <1>8 DEF Ids
  <2>4. CASE i <= Len(matched) /\ ~(j <= Len(matched))
    <3>1. i \in 1..Len(matched) /\ j - Len(matched) \in 1..n
      BY <1>2, <1>8, <1>9, <2>4
    <3> QED
      BY <1>9, <1>10, <2>3, <2>4, <3>1
  <2>5. CASE ~(i <= Len(matched)) /\ j <= Len(matched)
    <3>1. j \in 1..Len(matched) /\ i - Len(matched) \in 1..n
      BY <1>2, <1>8, <1>9, <2>5
    <3> QED
      BY <1>9, <1>10, <2>3, <2>5, <3>1
  <2> QED
    BY <2>1, <2>2, <2>4, <2>5
<1> QED
  BY <1>9, <1>10 DEF Joined, DistinctIds, joined, more

\* A matching recent log is in the list, by its id.
LEMMA JoinedFinds ==
    ASSUME recent \in Seq(Log), NEW matched \in Seq(Log), NEW filter,
           NEW places \in Listings(Added(matched, filter)),
           NEW log, Holds(recent, log), Matches(log, filter)
    PROVE  log.log_id \in Ids(Joined(matched, places))
<1> DEFINE added == Added(matched, filter)
           n == Cardinality(added)
           more == [k \in DOMAIN places |-> recent[places[k]]]
           joined == matched \o more
<1>1. added \subseteq 1..Len(recent) /\ IsFiniteSet(added)
  BY AddedType
<1>2. n \in Nat
  BY <1>1, FS_CardinalityType
<1>3. places \in [1..n -> added] /\ \A x \in added : \E k \in 1..n : places[k] = x
  BY DEF Listings
<1>4. PICK i \in DOMAIN recent : recent[i] = log
  BY DEF Holds
<1>5. log.log_id \notin Ids(matched) => \E x \in added : recent[x].log_id = log.log_id
  BY <1>4, AddedCovers
<1> HIDE DEF added, n
<1>6. \A x \in 1..Len(recent) : recent[x] \in Log
  BY LenProperties
<1>7. more \in [1..n -> Log] /\ \A k \in 1..n : more[k] = recent[places[k]]
  BY <1>1, <1>3, <1>6
<1>8. Len(matched) \in Nat /\ DOMAIN matched = 1..Len(matched)
  BY LenProperties
<1>9. /\ DOMAIN joined = 1..(Len(matched) + n)
      /\ \A k \in 1..(Len(matched) + n) :
            joined[k] = IF k <= Len(matched) THEN matched[k] ELSE more[k - Len(matched)]
  BY <1>2, <1>7, JoinIsSeq
<1> HIDE DEF joined, more
<1>10. CASE log.log_id \in Ids(matched)
  <2>1. PICK k \in 1..Len(matched) : matched[k].log_id = log.log_id
    BY <1>8, <1>10 DEF Ids
  <2>2. k \in DOMAIN joined /\ joined[k].log_id = log.log_id
    BY <1>2, <1>8, <1>9, <2>1
  <2> QED
    BY <2>2 DEF Ids, Joined, joined, more
<1>11. CASE log.log_id \notin Ids(matched)
  <2>1. PICK k \in 1..n : recent[places[k]].log_id = log.log_id
    BY <1>3, <1>5, <1>11
  <2>2. Len(matched) + k \in 1..(Len(matched) + n) /\ ~(Len(matched) + k <= Len(matched))
        /\ (Len(matched) + k) - Len(matched) = k
    BY <1>2, <1>8
  <2>3. joined[Len(matched) + k].log_id = log.log_id
    BY <1>7, <1>9, <2>1, <2>2
  <2> QED
    BY <1>9, <2>2, <2>3 DEF Ids, Joined, joined, more
<1> QED
  BY <1>10, <1>11

\* A request asks for a page that exists.
LEMMA FilterType ==
    ASSUME NEW req \in Request, req.op # "WriteLog"
    PROVE  Filter(req).page \in Nat \ {0} /\ Filter(req).page_size \in Nat \ {0}
<1>1. req \in QueryRequest \cup ContextRequest
  BY RequestAssumption DEF WriteRequest
<1>2. CASE req \in QueryRequest
  BY <1>2 DEF QueryRequest, Filter, NormalizePage, NormalizePageSize
<1>3. CASE req \in ContextRequest
  BY <1>3 DEF ContextRequest, Filter, NormalizePageSize
<1> QED
  BY <1>1, <1>2, <1>3

\* Sorting, cutting out the page and turning it round leave each id once.
LEMMA PageIsDistinct ==
    ASSUME NEW list \in Seq(Log), DistinctIds(list), NEW logs \in Sorted(list),
           NEW req \in Request, req.op # "WriteLog"
    PROVE  LET page == InOrder(PageOf(logs, Filter(req)), req.op) IN
           page \in Seq(Log) /\ DistinctIds(page)
<1>1. Len(list) \in Nat /\ DOMAIN list = 1..Len(list) /\ list \in [1..Len(list) -> Log]
  BY LenProperties
<1>2. Cardinality(1..Len(list)) = Len(list)
  BY <1>1, FS_Interval
<1>3. PICK p \in Listings(1..Len(list)) : logs = [i \in 1..Len(list) |-> list[p[i]]]
  BY <1>1 DEF Sorted
<1>4. p \in [1..Len(list) -> 1..Len(list)] /\ \A i, j \in 1..Len(list) : p[i] = p[j] => i = j
  BY <1>2 DEF Listings
<1>5. logs \in [1..Len(list) -> Log]
  BY <1>1, <1>3, <1>4
<1>6. logs \in Seq(Log) /\ Len(logs) = Len(list)
  BY <1>1, <1>5, ListIsSeq
<1>7. DistinctIds(logs)
  BY <1>1, <1>3, <1>4, <1>5 DEF DistinctIds
<1> DEFINE f == Filter(req)
           first == (f.page - 1) * f.page_size + 1
           last == first + f.page_size - 1
           end == IF last < Len(logs) THEN last ELSE Len(logs)
           part == SubSeq(logs, first, end)
<1>8. f.page \in Nat \ {0} /\ f.page_size \in Nat \ {0}
  BY FilterType
<1> HIDE DEF f
<1>9. (f.page - 1) * f.page_size \in Nat
  BY <1>8
<1>10. first \in Nat \ {0} /\ end \in Int /\ end <= Len(logs)
  BY <1>1, <1>6, <1>8, <1>9
<1> HIDE DEF first, end
<1>11. part \in Seq(Log) /\ DistinctIds(part)
  BY <1>6, <1>7, <1>10, PartIsDistinct
<1>12. PageOf(logs, f) = part
  BY DEF PageOf, first, end
<1> HIDE DEF part
<1>13. CASE req.op = "QueryLogs"
  BY <1>11, <1>12, <1>13 DEF InOrder, f
<1>14. CASE req.op # "QueryLogs"
  <2> DEFINE turned == [i \in DOMAIN part |-> part[Len(part) + 1 - i]]
  <2>1. Len(part) \in Nat /\ DOMAIN part = 1..Len(part) /\ \A i \in 1..Len(part) : part[i] \in Log
    BY <1>11, LenProperties
  <2>2. \A i \in 1..Len(part) : Len(part) + 1 - i \in 1..Len(part)
    BY <2>1
  <2>3. turned \in [1..Len(part) -> Log]
    BY <2>1, <2>2
  <2>4. DistinctIds(turned)
    BY <1>11, <2>1, <2>2 DEF DistinctIds
  <2>5. InOrder(part, req.op) = turned
    BY <1>14 DEF InOrder
  <2> HIDE DEF turned
  <2>6. turned \in Seq(Log)
    BY <2>1, <2>3, ListIsSeq
  <2> QED
    BY <1>12, <2>4, <2>5, <2>6 DEF f
<1> QED
  BY <1>13, <1>14

-----------------------------------------------------------------------------
(* The steps of a session *)

SessionType == [pc : Pc, req : Request \cup {NoRequest}, log : Log \cup {NoLog},
                matched : Seq(Log), known : SUBSET Log]

\* What a step of this process leaves: no document goes, no number comes back, and what
\* is in _recent stays there while there is room for what has a number.
TablesGrow ==
    /\ \A log : HasDocument(indexed, log) => HasDocument(indexed', log)
    /\ sequence' \in Nat /\ sequence' >= sequence
    /\ acknowledged \subseteq acknowledged'
    /\ NonePushedOut(sequence) => \A log : Holds(recent, log) => Holds(recent', log)

LEMMA NumbersGrow ==
    ASSUME NEW m \in Nat, NEW n \in Nat, m <= n, NonePushedOut(n) PROVE NonePushedOut(m)
<1>1. MaxQuerySize \in Nat
  BY ConfigAssumption
<1> QED
  BY <1>1 DEF NonePushedOut

LEMMA SessionStaysOK ==
    ASSUME TypeOK, TablesGrow, NEW r, SessionOK(indexed, recent, sequence, acknowledged, r)
    PROVE  SessionOK(indexed', recent', sequence', acknowledged', r)
<1>1. NonePushedOut(sequence') => NonePushedOut(sequence)
  <2>1. sequence \in Nat /\ sequence' \in Nat /\ sequence <= sequence'
    BY DEF TypeOK, TablesGrow
  <2> QED
    BY <2>1, NumbersGrow
<1> QED
  BY <1>1 DEF SessionOK, TablesGrow

Becomes(s, r) ==
    /\ r \in SessionType
    /\ session' = [session EXCEPT ![s] = r]
    /\ SessionOK(indexed', recent', sequence', acknowledged', r)

LEMMA IdleOK ==
    /\ IdleSession \in SessionType
    /\ \A idx, rec, seq, ack : SessionOK(idx, rec, seq, ack, IdleSession)
<1>1. IdleSession \in SessionType
  BY DEF IdleSession, SessionType, Pc
<1>2. \A idx, rec, seq, ack : SessionOK(idx, rec, seq, ack, IdleSession)
  BY DEF IdleSession, SessionOK, DistinctIds
<1> QED
  BY <1>1, <1>2

LEMMA SessionFields ==
    ASSUME IInv, NEW s \in Session
    PROVE  /\ session[s] \in SessionType
           /\ session[s].pc \in Pc /\ session[s].req \in Request \cup {NoRequest}
           /\ session[s].log \in Log \cup {NoLog} /\ session[s].matched \in Seq(Log)
           /\ session[s].known \in SUBSET Log
           /\ SessionOK(indexed, recent, sequence, acknowledged, session[s])
<1>1. session \in [Session -> SessionType]
  BY DEF IInv, TypeOK, SessionType
<1>2. session[s] \in SessionType
  BY <1>1
<1>3. SessionOK(indexed, recent, sequence, acknowledged, session[s])
  BY DEF IInv, SessionsOK
<1> QED
  BY <1>2, <1>3 DEF SessionType

\* What Go makes of the session.
LEMMA GoRecord ==
    ASSUME IInv, NEW s \in Session, NEW pc \in Pc, NEW log \in Log \cup {NoLog},
           NEW matched \in Seq(Log), Go(s, pc, log, matched)
    PROVE  LET r == [pc |-> pc, req |-> session[s].req, log |-> log, matched |-> matched,
                     known |-> session[s].known]
           IN  r \in SessionType /\ session' = [session EXCEPT ![s] = r]
<1>1. session \in [Session -> SessionType]
  BY DEF IInv, TypeOK, SessionType
<1>2. /\ session[s].req \in Request \cup {NoRequest} /\ session[s].known \in SUBSET Log
  BY SessionFields
<1> QED
  BY <1>1, <1>2 DEF Go, SessionType

-----------------------------------------------------------------------------
(* The tables *)

LEMMA WritingFinite == IsFiniteSet(Writing) /\ Cardinality(Writing) \in Nat
<1>1. IsFiniteSet(Session) /\ Writing \in SUBSET Session
  BY ConfigAssumption DEF Writing
<1> QED
  BY <1>1, FS_Subset, FS_CardinalityType

\* A write that has its number finds room as long as all numbers do.
LEMMA RoomToRemember ==
    ASSUME IInv, NEW s \in Writing, NonePushedOut(sequence)
    PROVE  Len(recent) + 1 <= MaxQuerySize
<1>1. Cardinality(Writing) # 0
  BY WritingFinite, FS_EmptySet
<1>2. Len(recent) + Cardinality(Writing) <= sequence - 1 /\ sequence - 1 <= MaxQuerySize
  BY DEF IInv, Counted, NonePushedOut
<1>3. Len(recent) \in Nat /\ sequence \in Nat /\ MaxQuerySize \in Nat
  BY ConfigAssumption, LenProperties DEF IInv, TypeOK
<1> QED
  BY <1>1, <1>2, <1>3, WritingFinite

\* Which actions change which table.
LEMMA TableSteps ==
    ASSUME [Next]_vars
    PROVE  \/ Crash
           \/ Refresh
           \/ \E s \in Session : NextLogId(s)
           \/ \E s \in Session : InsertToElastic(s) \/ InsertFails(s)
           \/ \E s \in Session : Remember(s)
           \/ \E s \in Session : Publish(s)
           \/ UNCHANGED <<indexed, searchable, recent, sequence, published, acknowledged>>
BY DEF Next, Step, SessionStep, vars, Begin, RejectWrite, RejectContext, SearchElastic,
   RecentSnapshot, Page

LEMMA StepDocuments ==
    ASSUME IInv, [Next]_vars
    PROVE  /\ indexed' \subseteq Log /\ searchable' \subseteq Log
           /\ OneDocument(indexed') /\ OneDocument(searchable')
           /\ IsFiniteSet(indexed') /\ IsFiniteSet(searchable')
           /\ \A log : HasDocument(indexed, log) => HasDocument(indexed', log)
<1>0. /\ indexed \subseteq Log /\ searchable \subseteq Log
      /\ OneDocument(indexed) /\ OneDocument(searchable)
      /\ IsFiniteSet(indexed) /\ IsFiniteSet(searchable)
  BY DEF IInv, TypeOK
<1>1. ASSUME NEW s \in Session, InsertToElastic(s) \/ InsertFails(s)
      PROVE  /\ session[s].log \in Log /\ indexed' \in {indexed, WithDocument(session[s].log)}
             /\ UNCHANGED searchable
  BY <1>1, SessionFields DEF InsertToElastic, InsertFails, SessionOK, Serving
<1>2. ASSUME NEW log \in Log, indexed' = WithDocument(log), UNCHANGED searchable
      PROVE  /\ indexed' \subseteq Log /\ searchable' \subseteq Log
             /\ OneDocument(indexed') /\ OneDocument(searchable')
             /\ IsFiniteSet(indexed') /\ IsFiniteSet(searchable')
           /\ IsFiniteSet(indexed') /\ IsFiniteSet(searchable')
             /\ \A other : HasDocument(indexed, other) => HasDocument(indexed', other)
  BY <1>0, <1>2, WithDocumentKeeps
<1>3. CASE indexed' = indexed /\ searchable' \in {indexed, searchable}
  BY <1>0, <1>3
<1>4. CASE Refresh
  BY <1>3, <1>4 DEF Refresh
<1>5. ASSUME NEW s \in Session, NextLogId(s) \/ Remember(s) \/ Publish(s)
      PROVE  UNCHANGED <<indexed, searchable>>
  BY <1>5 DEF NextLogId, Remember, Publish
<1>6. Crash => UNCHANGED <<indexed, searchable>>
  BY DEF Crash
<1> QED
  BY <1>1, <1>2, <1>3, <1>4, <1>5, <1>6, TableSteps

LEMMA StepRecent ==
    ASSUME IInv, [Next]_vars
    PROVE  /\ recent' \in Seq(Log) /\ Len(recent') <= MaxQuerySize
           /\ ~Crash /\ NonePushedOut(sequence) =>
                 \A log : Holds(recent, log) => Holds(recent', log)
<1>0. recent \in Seq(Log) /\ Len(recent) <= MaxQuerySize /\ MaxQuerySize \in Nat
  BY ConfigAssumption DEF IInv, TypeOK
<1>1. ASSUME NEW s \in Session, Remember(s)
      PROVE  /\ recent' \in Seq(Log) /\ Len(recent') <= MaxQuerySize
             /\ NonePushedOut(sequence) => \A log : Holds(recent, log) => Holds(recent', log)
  <2>1. s \in Writing /\ session[s].log \in Log /\ recent' = Remembered(session[s].log)
    BY <1>1, SessionFields DEF Remember, Serving, Writing, SessionOK
  <2>2. NonePushedOut(sequence) => Len(recent) + 1 <= MaxQuerySize
    BY <2>1, RoomToRemember
  <2> QED
    BY <1>0, <2>1, <2>2, RememberedKeeps
<1>2. Crash => recent' = <<>>
  BY DEF Crash
<1>3. ASSUME NEW s \in Session, NextLogId(s) \/ InsertToElastic(s) \/ InsertFails(s) \/ Publish(s)
      PROVE  UNCHANGED recent
  BY <1>3 DEF NextLogId, InsertToElastic, InsertFails, Publish
<1>4. Refresh => UNCHANGED recent
  BY DEF Refresh
<1>5. CASE UNCHANGED recent
  BY <1>0, <1>5
<1>6. CASE Crash
  <2>1. recent' \in Seq(Log) /\ Len(recent') = 0
    BY <1>2, <1>6, EmptySeq
  <2> QED
    BY <1>0, <1>6, <2>1
<1> QED
  BY <1>1, <1>3, <1>4, <1>5, <1>6, TableSteps

LEMMA StepSequence ==
    ASSUME IInv, [Next]_vars
    PROVE  /\ sequence' \in Nat \ {0}
           /\ ~Crash => sequence' >= sequence /\ acknowledged \subseteq acknowledged'
           /\ acknowledged' \subseteq Log
<1>0. sequence \in Nat \ {0} /\ acknowledged \subseteq Log
  BY DEF IInv, TypeOK
<1>1. ASSUME NEW s \in Session, NextLogId(s)
      PROVE  sequence' = sequence + 1 /\ UNCHANGED acknowledged
  BY <1>1 DEF NextLogId
<1>2. ASSUME NEW s \in Session, Publish(s)
      PROVE  /\ acknowledged' = acknowledged \cup {session[s].log} /\ session[s].log \in Log
             /\ UNCHANGED sequence
  BY <1>2, SessionFields DEF Publish, Serving, SessionOK
<1>3. Crash => sequence' = 1 /\ acknowledged' = {}
  BY DEF Crash
<1>4. ASSUME NEW s \in Session, InsertToElastic(s) \/ InsertFails(s) \/ Remember(s)
      PROVE  UNCHANGED <<sequence, acknowledged>>
  BY <1>4 DEF InsertToElastic, InsertFails, Remember
<1>5. Refresh => UNCHANGED <<sequence, acknowledged>>
  BY DEF Refresh
<1> QED
  BY <1>0, <1>1, <1>2, <1>3, <1>4, <1>5, TableSteps

LEMMA StepTables ==
    ASSUME IInv, [Next]_vars, ~Crash PROVE TablesGrow
BY StepDocuments, StepRecent, StepSequence DEF TablesGrow

-----------------------------------------------------------------------------
(* The sessions *)

LEMMA SessionMoves ==
    ASSUME IInv, [Next]_vars, ~Crash, NEW s \in Session, SessionStep(s)
    PROVE  \E r : Becomes(s, r)
<1>0. /\ session[s].req \in Request \cup {NoRequest} /\ session[s].log \in Log \cup {NoLog}
      /\ session[s].matched \in Seq(Log) /\ session[s].known \in SUBSET Log
      /\ SessionOK(indexed, recent, sequence, acknowledged, session[s])
  BY SessionFields
<1>1. SessionOK(indexed', recent', sequence', acknowledged', session[s])
  BY <1>0, StepTables, SessionStaysOK DEF IInv
<1>2. <<>> \in Seq(Log) /\ DistinctIds(<<>>)
  BY EmptySeq DEF DistinctIds
<1> DEFINE rec(pc, log, matched) == [pc |-> pc, req |-> session[s].req, log |-> log,
                                     matched |-> matched, known |-> session[s].known]
<1>3. ASSUME NEW pc \in Pc, NEW log \in Log \cup {NoLog}, NEW matched \in Seq(Log),
             Go(s, pc, log, matched),
             SessionOK(indexed', recent', sequence', acknowledged', rec(pc, log, matched))
      PROVE  Becomes(s, rec(pc, log, matched))
  BY <1>3, GoRecord DEF Becomes
<1>4. CASE session' = [session EXCEPT ![s] = IdleSession]
  BY <1>4, IdleOK DEF Becomes
<1>5. CASE RejectWrite(s) \/ RejectContext(s) \/ InsertFails(s) \/ Publish(s) \/ Page(s)
  BY <1>4, <1>5 DEF RejectWrite, RejectContext, InsertFails, Publish, Page, Reply
<1>6. CASE NextLogId(s)
  <2>1. PICK now \in Now :
           Go(s, "insert", Normalize(session[s].req.log, <<now, sequence>>, now), <<>>)
    BY <1>6 DEF NextLogId
  <2> DEFINE log == Normalize(session[s].req.log, <<now, sequence>>, now)
  <2>2. session[s].req \in Request /\ session[s].req.op = "WriteLog"
    BY <1>0, <1>6 DEF NextLogId, Serving, SessionOK
  <2>3. session[s].req.log \in Sent
    BY <2>2, RequestAssumption DEF WriteRequest, QueryRequest, ContextRequest
  <2>4. log \in Log
    BY <2>3, NormalizeType DEF IInv, TypeOK
  <2> HIDE DEF log
  <2>5. SessionOK(indexed', recent', sequence', acknowledged', rec("insert", log, <<>>))
    BY <1>1, <1>2, <2>2, <2>4 DEF SessionOK
  <2>6. Go(s, "insert", log, <<>>)
    BY <2>1 DEF log
  <2> QED
    BY <1>2, <1>3, <2>4, <2>5, <2>6 DEF Pc
<1>7. CASE InsertToElastic(s)
  <2> DEFINE log == session[s].log
  <2>1. log \in Log /\ session[s].req \in Request /\ session[s].req.op = "WriteLog"
    BY <1>0, <1>7 DEF InsertToElastic, Serving, SessionOK
  <2>2. HasDocument(indexed', log)
    BY <1>7, <2>1, WithDocumentKeeps DEF InsertToElastic, IInv, TypeOK
  <2>3. SessionOK(indexed', recent', sequence', acknowledged', rec("remember", log, <<>>))
    BY <1>1, <1>2, <2>1, <2>2 DEF SessionOK
  <2> QED
    BY <1>2, <1>3, <1>7, <2>1, <2>3 DEF InsertToElastic, Pc
<1>8. CASE Remember(s)
  <2> DEFINE log == session[s].log
  <2>1. log \in Log /\ session[s].req \in Request /\ session[s].req.op = "WriteLog"
        /\ s \in Writing /\ recent' = Remembered(log) /\ sequence' = sequence
        /\ HasDocument(indexed', log)
    BY <1>0, <1>1, <1>8 DEF Remember, Serving, SessionOK, Writing
  <2>2. NonePushedOut(sequence') => Holds(recent', log)
    BY <2>1, RoomToRemember, RememberedKeeps DEF IInv, TypeOK
  <2>3. SessionOK(indexed', recent', sequence', acknowledged', rec("publish", log, <<>>))
    BY <1>1, <1>2, <2>1, <2>2 DEF SessionOK
  <2> QED
    BY <1>2, <1>3, <1>8, <2>1, <2>3 DEF Remember, Pc
<1>9. CASE SearchElastic(s)
  <2> DEFINE filter == Filter(session[s].req)
             SomeOf(hits) == {S \in SUBSET hits : Cardinality(S) <= MaxQuerySize
                                 /\ (S = hits \/ Cardinality(S) = MaxQuerySize)} \cup {{}}
  <2>1. PICK now \in Now : \E some \in SomeOf(Hits(filter, now)) :
                             \E listing \in Listings(some) : Go(s, "merge", NoLog, listing)
    BY <1>9 DEF SearchElastic
  <2>2. PICK some \in SUBSET Hits(filter, now) :
                             \E listing \in Listings(some) : Go(s, "merge", NoLog, listing)
    BY <2>1
  <2>3. PICK listing \in Listings(some) : Go(s, "merge", NoLog, listing)
    BY <2>2
  <2>4. IsFiniteSet(some)
    <3>1. some \in SUBSET searchable
      BY DEF Hits
    <3> QED
      BY <3>1, FS_Subset DEF IInv
  <2>5. listing \in Seq(Log) /\ DistinctIds(listing)
    BY <2>4, HitsAreDistinct DEF IInv, TypeOK
  <2>6. session[s].req \in Request /\ session[s].req.op # "WriteLog"
    BY <1>0, <1>9 DEF SearchElastic, SessionOK
  <2>7. SessionOK(indexed', recent', sequence', acknowledged', rec("merge", NoLog, listing))
    BY <1>1, <2>5, <2>6 DEF SessionOK
  <2> QED
    BY <1>3, <2>3, <2>5, <2>7 DEF Pc
<1>10. CASE RecentSnapshot(s)
  <2> DEFINE matched == session[s].matched
             filter == Filter(session[s].req)
  <2>1. PICK places \in Listings(Added(matched, filter)) :
           Go(s, "page", NoLog, Joined(matched, places))
    BY <1>10 DEF RecentSnapshot
  <2> DEFINE joined == Joined(matched, places)
  <2>2. /\ session[s].req \in Request /\ session[s].req.op # "WriteLog"
        /\ DistinctIds(matched) /\ session[s].known \subseteq acknowledged
        /\ UNCHANGED <<indexed, recent, sequence, acknowledged>>
    BY <1>0, <1>10 DEF RecentSnapshot, SessionOK
  <2>3. recent \in Seq(Log)
    BY DEF IInv, TypeOK
  <2>4. joined \in Seq(Log) /\ DistinctIds(joined)
    BY <1>0, <2>2, <2>3, JoinedIsDistinct
  <2>5. ASSUME NonePushedOut(sequence), NEW log \in session[s].known, Matches(log, filter)
        PROVE  log.log_id \in Ids(joined)
    <3>1. Holds(recent, log)
      BY <2>2, <2>5 DEF IInv, RecentHoldsAcknowledged
    <3> QED
      BY <1>0, <2>3, <2>5, <3>1, JoinedFinds
  <2> HIDE DEF joined, filter
  <2>6. SessionOK(indexed', recent', sequence', acknowledged', rec("page", NoLog, joined))
    BY <2>2, <2>4, <2>5 DEF SessionOK, filter
  <2>7. Go(s, "page", NoLog, joined)
    BY <2>1 DEF joined
  <2> QED
    BY <1>3, <2>4, <2>6, <2>7 DEF Pc
<1> QED
  BY <1>5, <1>6, <1>7, <1>8, <1>9, <1>10 DEF SessionStep

LEMMA StepSessions ==
    ASSUME IInv, [Next]_vars PROVE session' \in [Session -> SessionType] /\ SessionsOK'
<1>0. session \in [Session -> SessionType] /\ SessionsOK
  BY DEF IInv, TypeOK, SessionType
<1>1. CASE Crash
  BY <1>1, IdleOK DEF Crash, SessionsOK
<1>2. ASSUME ~Crash, NEW t \in Session
      PROVE  SessionOK(indexed', recent', sequence', acknowledged', session[t])
  BY <1>0, <1>2, StepTables, SessionStaysOK DEF IInv, SessionsOK
<1>3. ASSUME ~Crash, NEW s \in Session, NEW r, Becomes(s, r)
      PROVE  session' \in [Session -> SessionType] /\ SessionsOK'
  <2>1. r \in SessionType /\ session' = [session EXCEPT ![s] = r]
    BY <1>3 DEF Becomes
  <2>2. \A t \in Session : session'[t] = IF t = s THEN r ELSE session[t]
    BY <1>0, <2>1
  <2>3. ASSUME NEW t \in Session
        PROVE  SessionOK(indexed', recent', sequence', acknowledged', session'[t])
    BY <1>2, <1>3, <2>2 DEF Becomes
  <2> QED
    BY <1>0, <2>1, <2>3 DEF SessionsOK
<1>4. ASSUME ~Crash, UNCHANGED session
      PROVE  session' \in [Session -> SessionType] /\ SessionsOK'
  BY <1>0, <1>2, <1>4 DEF SessionsOK
<1>5. ASSUME ~Crash, NEW s \in Session, NEW req \in Request, Begin(s, req)
      PROVE  \E r : Becomes(s, r)
  <2> DEFINE r == [pc |-> "begun", req |-> req, log |-> NoLog, matched |-> <<>>,
                   known |-> acknowledged]
  <2>1. r \in SessionType
    BY EmptySeq DEF SessionType, Pc, IInv, TypeOK
  <2>2. SessionOK(indexed', recent', sequence', acknowledged', r)
    BY <1>5 DEF SessionOK, DistinctIds, Begin
  <2>3. session' = [session EXCEPT ![s] = r]
    BY <1>5 DEF Begin
  <2> HIDE DEF r
  <2> QED
    BY <2>1, <2>2, <2>3 DEF Becomes
<1>6. UNCHANGED vars \/ Refresh => UNCHANGED session
  BY DEF vars, Refresh
<1> QED
  BY <1>1, <1>3, <1>4, <1>5, <1>6, SessionMoves DEF Next, Step

-----------------------------------------------------------------------------
(* The count of the numbers *)

LEMMA StepCounted ==
    ASSUME IInv, [Next]_vars PROVE Counted'
<1>0. /\ Len(recent) + Cardinality(Writing) <= sequence - 1
      /\ Len(recent) \in Nat /\ sequence \in Nat
      /\ IsFiniteSet(Writing) /\ Cardinality(Writing) \in Nat
      /\ session \in [Session -> SessionType]
  BY WritingFinite, LenProperties DEF IInv, Counted, TypeOK, SessionType
<1>1. CASE Crash
  <2>1. Writing' = {}
    BY <1>1 DEF Crash, Writing, IdleSession
  <2>2. Cardinality(Writing') = 0
    BY <2>1, FS_EmptySet
  <2>3. Len(recent') = 0 /\ sequence' = 1
    BY <1>1, EmptySeq DEF Crash
  <2> QED
    BY <2>2, <2>3 DEF Counted
<1>2. ASSUME NEW s \in Session, NextLogId(s) PROVE Counted'
  <2>1. Writing' \subseteq Writing \cup {s}
    BY <1>0, <1>2 DEF NextLogId, Go, Writing
  <2>2. /\ IsFiniteSet(Writing \cup {s}) /\ Cardinality(Writing \cup {s}) \in Nat
        /\ Cardinality(Writing \cup {s}) <= Cardinality(Writing) + 1
    <3>1. /\ IsFiniteSet(Writing \cup {s})
          /\ Cardinality(Writing \cup {s}) = IF s \in Writing THEN Cardinality(Writing)
                                             ELSE Cardinality(Writing) + 1
      BY <1>0, FS_AddElement
    <3> QED
      BY <1>0, <3>1
  <2>3. Cardinality(Writing') \in Nat /\ Cardinality(Writing') <= Cardinality(Writing) + 1
    BY <1>0, <2>1, <2>2, FS_Subset, FS_CardinalityType
  <2>4. Len(recent') = Len(recent) /\ sequence' = sequence + 1
    BY <1>2 DEF NextLogId
  <2> QED
    BY <1>0, <2>3, <2>4 DEF Counted
<1>3. ASSUME NEW s \in Session, Remember(s) PROVE Counted'
  <2>1. s \in Writing /\ session[s].log \in Log
    BY <1>3, SessionFields DEF Remember, Serving, Writing, SessionOK
  <2>2. Writing' \subseteq Writing \ {s}
    BY <1>0, <1>3 DEF Remember, Go, Writing
  <2>3. /\ IsFiniteSet(Writing \ {s})
        /\ Cardinality(Writing \ {s}) = Cardinality(Writing) - 1
    BY <1>0, <2>1, FS_RemoveElement
  <2>4. Cardinality(Writing') \in Nat /\ Cardinality(Writing') <= Cardinality(Writing) - 1
    BY <2>2, <2>3, FS_Subset, FS_CardinalityType
  <2>5. recent' = Remembered(session[s].log) /\ sequence' = sequence
    BY <1>3 DEF Remember
  <2>6. recent' \in Seq(Log) /\ Len(recent') <= Len(recent) + 1
    BY <2>1, <2>5, RememberedKeeps DEF IInv, TypeOK
  <2>7. Len(recent') \in Nat
    BY <2>6, LenProperties
  <2> QED
    BY <1>0, <2>4, <2>5, <2>6, <2>7 DEF Counted
<1>4. ASSUME Writing' \subseteq Writing, UNCHANGED <<recent, sequence>> PROVE Counted'
  <2>1. Cardinality(Writing') \in Nat /\ Cardinality(Writing') <= Cardinality(Writing)
    BY <1>0, <1>4, FS_Subset, FS_CardinalityType
  <2> QED
    BY <1>0, <1>4, <2>1 DEF Counted
<1>5. ASSUME NEW s \in Session, InsertToElastic(s)
      PROVE  Writing' \subseteq Writing /\ UNCHANGED <<recent, sequence>>
  BY <1>0, <1>5 DEF InsertToElastic, Go, Writing, Serving
<1>6. ASSUME NEW s \in Session,
             RejectWrite(s) \/ RejectContext(s) \/ InsertFails(s) \/ Publish(s) \/ Page(s)
      PROVE  Writing' \subseteq Writing /\ UNCHANGED <<recent, sequence>>
  BY <1>0, <1>6 DEF RejectWrite, RejectContext, InsertFails, Publish, Page, Reply, Writing,
                    IdleSession
<1>7. ASSUME NEW s \in Session, SearchElastic(s) \/ RecentSnapshot(s)
      PROVE  Writing' \subseteq Writing /\ UNCHANGED <<recent, sequence>>
  BY <1>0, <1>7 DEF SearchElastic, RecentSnapshot, Go, Writing
<1>8. ASSUME NEW s \in Session, NEW req \in Request, Begin(s, req)
      PROVE  Writing' \subseteq Writing /\ UNCHANGED <<recent, sequence>>
  BY <1>0, <1>8 DEF Begin, Writing
<1>9. UNCHANGED vars \/ Refresh => Writing' \subseteq Writing /\ UNCHANGED <<recent, sequence>>
  BY DEF vars, Refresh, Writing
<1> QED
  BY <1>1, <1>2, <1>3, <1>4, <1>5, <1>6, <1>7, <1>8, <1>9 DEF Next, Step, SessionStep

LEMMA StepRecentHoldsAcknowledged ==
    ASSUME IInv, [Next]_vars PROVE RecentHoldsAcknowledged'
<1>1. CASE Crash
  BY <1>1 DEF Crash, RecentHoldsAcknowledged
<1>2. CASE ~Crash
  <2>1. NonePushedOut(sequence') => NonePushedOut(sequence)
    <3>1. sequence \in Nat /\ sequence' \in Nat /\ sequence <= sequence'
      BY <1>2, StepSequence DEF IInv, TypeOK
    <3> QED
      BY <3>1, NumbersGrow
  <2>2. NonePushedOut(sequence') => \A log \in acknowledged : Holds(recent', log)
    BY <1>2, <2>1, StepRecent DEF IInv, RecentHoldsAcknowledged
  <2>3. ASSUME NEW s \in Session, Publish(s), NonePushedOut(sequence')
        PROVE  \A log \in acknowledged' : Holds(recent', log)
    <3>1. acknowledged' = acknowledged \cup {session[s].log} /\ UNCHANGED recent
      BY <2>3 DEF Publish
    <3>2. Holds(recent, session[s].log)
      BY <2>1, <2>3, SessionFields DEF Publish, Serving, SessionOK
    <3> QED
      BY <2>2, <2>3, <3>1, <3>2
  <2>4. (\A s \in Session : ~Publish(s)) => acknowledged' = acknowledged
    BY <1>2, TableSteps DEF Refresh, NextLogId, InsertToElastic, InsertFails, Remember
  <2> QED
    BY <2>2, <2>3, <2>4 DEF RecentHoldsAcknowledged
<1> QED
  BY <1>1, <1>2

-----------------------------------------------------------------------------
(* Answers and messages *)

AnswerType == [req : Request, code : {0, 400, 503}, log : Log \cup {NoLog}, logs : Seq(Log)]

\* What may be in an answer, given what is indexed.
AnswerOK(idx, a) ==
    /\ a \in AnswerType
    /\ a.req.op = "WriteLog" /\ a.code = 0 => HasDocument(idx, a.log)
    /\ DistinctIds(a.logs)

LEMMA StepAnswers ==
    ASSUME IInv, [Next]_vars, NEW a \in answers' \ answers PROVE AnswerOK(indexed', a)
<1> DEFINE ans(s, code, log, logs) == [req |-> session[s].req, code |-> code, log |-> log,
                                       logs |-> logs]
<1>1. <<>> \in Seq(Log) /\ DistinctIds(<<>>)
  BY EmptySeq DEF DistinctIds
<1>2. ASSUME NEW s \in Session PROVE session[s].pc # "idle" => session[s].req \in Request
  BY SessionFields DEF SessionOK
<1>3. ASSUME NEW s \in Session, NEW code \in {400, 503}, session[s].pc # "idle",
             a = ans(s, code, NoLog, <<>>)
      PROVE  AnswerOK(indexed', a)
  BY <1>1, <1>2, <1>3 DEF AnswerOK, AnswerType
<1>4. ASSUME NEW s \in Session, RejectWrite(s) \/ RejectContext(s) \/ InsertFails(s)
      PROVE  AnswerOK(indexed', a)
  BY <1>3, <1>4 DEF RejectWrite, RejectContext, InsertFails, Reply, Serving
<1>5. ASSUME NEW s \in Session, Publish(s) PROVE AnswerOK(indexed', a)
  <2>1. a = ans(s, 0, session[s].log, <<>>) /\ indexed' = indexed
    BY <1>5 DEF Publish, Reply
  <2>2. session[s].req \in Request /\ session[s].log \in Log /\ HasDocument(indexed, session[s].log)
    BY <1>5, SessionFields DEF Publish, Serving, SessionOK
  <2> QED
    BY <1>1, <2>1, <2>2 DEF AnswerOK, AnswerType
<1>6. ASSUME NEW s \in Session, Page(s) PROVE AnswerOK(indexed', a)
  <2>1. PICK logs \in Sorted(session[s].matched) :
           a = ans(s, 0, NoLog, InOrder(PageOf(logs, Filter(session[s].req)), session[s].req.op))
    BY <1>6 DEF Page, Reply
  <2>2. /\ session[s].req \in Request /\ session[s].req.op # "WriteLog"
        /\ session[s].matched \in Seq(Log) /\ DistinctIds(session[s].matched)
    BY <1>6, SessionFields DEF Page, SessionOK
  <2> DEFINE page == InOrder(PageOf(logs, Filter(session[s].req)), session[s].req.op)
  <2>3. page \in Seq(Log) /\ DistinctIds(page)
    BY <2>2, PageIsDistinct
  <2>4. a = ans(s, 0, NoLog, page)
    BY <2>1
  <2> HIDE DEF page
  <2> QED
    BY <2>2, <2>3, <2>4 DEF AnswerOK, AnswerType
<1>7. ASSUME NEW s \in Session, SessionStep(s) PROVE AnswerOK(indexed', a)
  BY <1>4, <1>5, <1>6, <1>7 DEF SessionStep, NextLogId, InsertToElastic, Remember, SearchElastic,
                                RecentSnapshot, Go
<1> QED
  BY <1>7 DEF Next, Step, Begin, Refresh, Crash, vars

LEMMA StepPublished ==
    ASSUME IInv, [Next]_vars, NEW m \in published' \ published
    PROVE  m \in [req : Request, log : Log] /\ HasDocument(indexed', m.log)
<1>1. ASSUME NEW s \in Session, Publish(s)
      PROVE  m \in [req : Request, log : Log] /\ HasDocument(indexed', m.log)
  <2>1. m = [req |-> session[s].req, log |-> session[s].log] /\ indexed' = indexed
    BY <1>1 DEF Publish
  <2>2. session[s].req \in Request /\ session[s].log \in Log /\ HasDocument(indexed, session[s].log)
    BY <1>1, SessionFields DEF Publish, Serving, SessionOK
  <2> QED
    BY <2>1, <2>2
<1>2. (\A s \in Session : ~Publish(s)) => published' = published
  BY TableSteps DEF Crash, Refresh, NextLogId, InsertToElastic, InsertFails, Remember
<1> QED
  BY <1>1, <1>2

LEMMA StepAcceptedIsIndexed ==
    ASSUME IInv, [Next]_vars PROVE AcceptedIsIndexed'
<1>1. /\ \A a \in answers : a.req.op = "WriteLog" /\ a.code = 0 => HasDocument(indexed, a.log)
      /\ \A m \in published : HasDocument(indexed, m.log)
  BY DEF IInv, AcceptedIsIndexed, HasDocument
<1>2. /\ \A a \in answers' : a.req.op = "WriteLog" /\ a.code = 0 => HasDocument(indexed', a.log)
      /\ \A m \in published' : HasDocument(indexed', m.log)
  BY <1>1, StepDocuments, StepAnswers, StepPublished DEF AnswerOK
<1> QED
  BY <1>2 DEF AcceptedIsIndexed, HasDocument

LEMMA StepNoLogTwice ==
    ASSUME IInv, [Next]_vars PROVE NoLogTwice'
<1>1. \A a \in answers' : DistinctIds(a.logs)
  BY StepAnswers DEF IInv, NoLogTwice, DistinctIds, AnswerOK
<1> QED
  BY <1>1 DEF NoLogTwice, DistinctIds

-----------------------------------------------------------------------------
(* The inductive invariant *)

LEMMA StepProcess ==
    ASSUME IInv, [Next]_vars PROVE publisherUp' \in BOOLEAN /\ requested' \subseteq Request
<1>1. publisherUp \in BOOLEAN /\ requested \subseteq Request
  BY DEF IInv, TypeOK
<1>2. UNCHANGED publisherUp \/ publisherUp' \in Publisher
  BY ZenonT(30) DEF Next, Step, SessionStep, vars, Begin, RejectWrite, NextLogId, InsertToElastic, InsertFails,
     Remember, Publish, RejectContext, SearchElastic, RecentSnapshot, Page, Reply, Go, Refresh, Crash
<1>3. Publisher \subseteq BOOLEAN
  BY Zenon DEF Publisher
<1>4. UNCHANGED requested \/ \E req \in Request : requested' = requested \cup {req}
  BY ZenonT(30) DEF Next, Step, SessionStep, vars, Begin, RejectWrite, NextLogId, InsertToElastic, InsertFails,
     Remember, Publish, RejectContext, SearchElastic, RecentSnapshot, Page, Reply, Go, Refresh, Crash
<1>5. publisherUp' \in BOOLEAN
  BY <1>1, <1>2, <1>3, Zenon
<1> QED
  BY <1>1, <1>4, <1>5

LEMMA StepTypeOK ==
    ASSUME IInv, [Next]_vars PROVE TypeOK'
<1>1. answers \subseteq AnswerType /\ published \subseteq [req : Request, log : Log]
  BY DEF IInv, TypeOK, AnswerType
<1>2. answers' \subseteq AnswerType
  BY <1>1, StepAnswers DEF AnswerOK
<1>3. published' \subseteq [req : Request, log : Log]
  BY <1>1, StepPublished
<1> QED
  BY <1>2, <1>3, StepDocuments, StepRecent, StepSequence, StepProcess, StepSessions
  DEF TypeOK, AnswerType, SessionType

LEMMA StepIInv == IInv /\ [Next]_vars => IInv'
BY StepTypeOK, StepDocuments, StepSessions, StepCounted, StepRecentHoldsAcknowledged,
   StepAcceptedIsIndexed, StepNoLogTwice DEF IInv

LEMMA InitIInv == Init => IInv
<1> SUFFICES ASSUME Init PROVE IInv
  OBVIOUS
<1>1. recent \in Seq(Log) /\ Len(recent) = 0 /\ MaxQuerySize \in Nat
  BY EmptySeq, ConfigAssumption DEF Init
<1>2. publisherUp \in BOOLEAN
  BY Zenon DEF Init, Publisher
<1>3. session \in [Session -> SessionType] /\ SessionsOK
  BY IdleOK DEF Init, SessionsOK
<1>4. TypeOK
  BY <1>1, <1>2, <1>3 DEF Init, TypeOK, SessionType
<1>5. Writing = {}
  BY DEF Init, Writing, IdleSession
<1>6. Counted
  BY <1>1, <1>5, FS_EmptySet DEF Init, Counted
<1>7. IsFiniteSet(indexed) /\ IsFiniteSet(searchable)
  BY FS_EmptySet DEF Init
<1> QED
  BY <1>3, <1>4, <1>6, <1>7 DEF Init, IInv, OneDocument, RecentHoldsAcknowledged, AcceptedIsIndexed,
                              NoLogTwice

LEMMA Invariance == Spec => []IInv
<1>1. Init => IInv
  BY InitIInv
<1>2. IInv /\ [Next]_vars => IInv'
  BY StepIInv
<1> QED
  BY <1>1, <1>2, PTL DEF Spec

-----------------------------------------------------------------------------
(* Theorems *)

\* Every variable keeps its type: what is stored has an id and a time, _recent is never
\* longer than max_query_size.
THEOREM TypeCorrect == Spec => []TypeOK
<1>1. IInv => TypeOK
  BY DEF IInv
<1> QED
  BY <1>1, Invariance, PTL

\* Nothing that was answered 0 or published about is missing in Elasticsearch, although a
\* write may take the id of another and failing writes may be indexed.
THEOREM AcceptedIsIndexedHolds == Spec => []AcceptedIsIndexed
<1>1. IInv => AcceptedIsIndexed
  BY DEF IInv
<1> QED
  BY <1>1, Invariance, PTL

\* A query shows what was written before it as long as _recent had room for every write
\* this process began, whatever Elasticsearch finds.
THEOREM WrittenIsFoundHolds == Spec => []WrittenIsFound
<1>1. IInv => WrittenIsFound
  BY DEF IInv, SessionsOK, SessionOK, WrittenIsFound, NonePushedOut
<1> QED
  BY <1>1, Invariance, PTL

\* No page and no context lists an id twice.
THEOREM NoLogTwiceHolds == Spec => []NoLogTwice
<1>1. IInv => NoLogTwice
  BY DEF IInv
<1> QED
  BY <1>1, Invariance, PTL
=============================================================================
