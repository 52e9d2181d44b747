--------------------------- MODULE QtClientProofs ---------------------------
(***************************************************************************)
(* Proofs about QtClient, for any views, filters, rows and bounds.         *)
(*                                                                         *)
(* IInv is the inductive invariant: what a button will send is the row     *)
(* that was picked as long as its table was not filled again; every fault  *)
(* the window shows, asks about or has just created is in the service with *)
(* its event; and two lists of a view that are waited for have crossed     *)
(* each other, so that a list that has crossed none is no older than what  *)
(* the view shows.                                                         *)
(***************************************************************************)
EXTENDS QtClient, FiniteSetTheorems, SequenceTheorems, WellFoundedInduction, TLAPS

-----------------------------------------------------------------------------
(* The inductive invariant *)

Ops == DOMAIN Buttons \cup {Chained, "List"}
CallType ==
    [op : Ops, view : View \cup {NoView}, row : Row, picked : Row, stale : BOOLEAN,
     filter : SUBSET Nat, answered : BOOLEAN, waiting : BOOLEAN, body : Seq(Row), at : Nat,
     crossed : BOOLEAN]
ViewType == [rows : Seq(Row), current : Nat, at : Nat]
PickType == [row : Row, stale : BOOLEAN]
DialogType == [op : DOMAIN Buttons \cup {"none"}, row : Row, picked : Row, stale : BOOLEAN]

Typed ==
    /\ page \in Pages /\ auto \in BOOLEAN /\ filter \in [View -> Filter]
    /\ view \in [View -> ViewType] /\ picked \in [View -> PickType]
    /\ dialog \in DialogType /\ (dialog.op = "none" => dialog = NoDialog)
    /\ store \in [Sources -> Seq(Row)]
    /\ writes \in 0..MaxWrites /\ presses \in 0..MaxPresses

\* The fault that row is about is among the rows of the service, with the same event.
Known(faults, row) == \E i \in DOMAIN faults : faults[i].id = row.id /\ faults[i].event = row.event
AllKnown(faults, rows) == \A i \in DOMAIN rows : Known(faults, rows[i])

\* What view v shows, and what was picked there.
ShownOK(v, sh, p, faults, w) ==
    /\ sh.current <= Len(sh.rows) /\ sh.at <= w
    /\ ~p.stale => sh.current # 0 /\ sh.rows[sh.current] = p.row
    /\ v = "faultTable" => AllKnown(faults, sh.rows)

DialogOK(d, faults) ==
    /\ ~d.stale => d.row = d.picked
    /\ d.op = "StartDiagnosis" => Known(faults, d.row)

CallOK(c, faults, w) ==
    /\ c.op = "List" <=> c.view # NoView
    /\ c.op = "List" => c.waiting
    /\ c.op # "List" /\ ~c.stale => c.row = c.picked
    /\ c.op \in {"StartDiagnosis", Chained} => Known(faults, c.row)
    /\ c.view = "faultTable" => AllKnown(faults, c.body)
    /\ c.op = "CreateFaultOfEvent" /\ c.answered =>
          c.body # <<>> /\ Known(faults, c.body[1]) /\ c.body[1].event = c.row.id
    /\ c.at <= w

\* Of two lists of a view each has crossed the other.
Overlap(cs) ==
    \A m, n \in DOMAIN cs : cs[m].view # NoView /\ cs[m].view = cs[n].view /\ m # n => cs[m].crossed

\* A list that has crossed none is no older than what its view shows.
NotOlder(cs, shown) ==
    \A n \in DOMAIN cs :
        cs[n].view # NoView /\ cs[n].answered /\ ~cs[n].crossed => shown[cs[n].view].at <= cs[n].at

CallsInv(cs, shown, faults, w) ==
    /\ cs \in Seq(CallType) /\ Len(cs) <= MaxCalls
    /\ \A n \in DOMAIN cs : CallOK(cs[n], faults, w)
    /\ Overlap(cs) /\ NotOlder(cs, shown)

IInv ==
    /\ Typed
    /\ \A v \in View : ShownOK(v, view[v], picked[v], store["fault"], writes)
    /\ DialogOK(dialog, store["fault"])
    /\ CallsInv(calls, view, store["fault"], writes)

-----------------------------------------------------------------------------
(* The operators *)

LEMMA ViewsFinite == IsFiniteSet(View)
<1> DEFINE f == <<"deviceCountLabel", "dashboardTelemetryTable", "dashboardEventsTable",
                  "reportCountLabel", "deviceTable", "telemetryTable", "eventTable", "logTable",
                  "knowledgeTable", "knowledgeSearchTable", "faultTable", "reportTable",
                  "gatewayStatusLabel", "gatewayDeviceTable", "gatewayStatsTable">>
<1>1. f \in [1..15 -> AnyView] /\ \A v \in AnyView : \E i \in 1..15 : f[i] = v
  BY DEF AnyView, Source
<1>2. ExistsSurjection(1..15, AnyView)
  BY <1>1, Zenon DEF ExistsSurjection, Surjection
<1>3. IsFiniteSet(AnyView)
  BY <1>2, FS_NatSurjection
<1> QED
  BY <1>3, ViewAssumption, FS_Subset

LEMMA ViewFacts ==
    /\ NoView \notin View
    /\ \A v \in View : Source[v] \in Sources
    /\ "fault" \in Sources /\ Source["faultTable"] = "fault"
<1>1. NoView \notin View
  BY ViewAssumption DEF NoView, AnyView, Source
<1>2. \A v \in View : Source[v] \in Sources
  BY ViewAssumption DEF Sources
<1>3. "faultTable" \in AnyView /\ Source["faultTable"] = "fault"
  BY DEF AnyView, Source
<1> QED
  BY <1>1, <1>2, <1>3 DEF Sources

LEMMA SetToSeqFacts ==
    ASSUME NEW S, IsFiniteSet(S)
    PROVE  /\ Cardinality(S) \in Nat
           /\ SetToSeq(S) \in [1..Cardinality(S) -> S]
           /\ \A i, j \in 1..Cardinality(S) : SetToSeq(S)[i] = SetToSeq(S)[j] => i = j
<1>1. Cardinality(S) \in Nat /\ ExistsBijection(1..Cardinality(S), S)
  BY FS_CardinalityType
<1>2. \E f \in [1..Cardinality(S) -> S] : IsInjective(f)
  BY <1>1, Zenon DEF ExistsBijection, Bijection, Injection
<1>3. SetToSeq(S) \in [1..Cardinality(S) -> S] /\ IsInjective(SetToSeq(S))
  BY <1>2, Zenon DEF SetToSeq
<1> QED
  BY <1>1, <1>3 DEF IsInjective

LEMMA ListIsSeq ==
    ASSUME NEW S, NEW n \in Nat, NEW f \in [1..n -> S] PROVE f \in Seq(S) /\ Len(f) = n
BY SeqDef, LenProperties

LEMMA RemoveAtFacts ==
    ASSUME NEW S, NEW cs \in Seq(S), NEW n \in DOMAIN cs
    PROVE  /\ RemoveAt(cs, n) \in Seq(S) /\ Len(RemoveAt(cs, n)) = Len(cs) - 1
           /\ DOMAIN RemoveAt(cs, n) = 1..(Len(cs) - 1)
           /\ \A i \in 1..(Len(cs) - 1) :
                 /\ i < n => RemoveAt(cs, n)[i] = cs[i]
                 /\ i >= n => RemoveAt(cs, n)[i] = cs[i + 1]
<1> DEFINE a == SubSeq(cs, 1, n - 1)
           b == SubSeq(cs, n + 1, Len(cs))
           len == Len(cs) - 1
<1>1. Len(cs) \in Nat /\ n \in 1..Len(cs) /\ \A i \in 1..Len(cs) : cs[i] \in S
  BY LenProperties
<1>2. a \in Seq(S) /\ Len(a) = n - 1 /\ \A i \in 1..(n - 1) : a[i] = cs[i]
  BY <1>1, SubSeqProperties
<1>3. b \in Seq(S) /\ Len(b) = Len(cs) - n /\ \A i \in 1..(Len(cs) - n) : b[i] = cs[n + i]
  BY <1>1, SubSeqProperties
<1>4. RemoveAt(cs, n) = a \o b
  BY DEF RemoveAt
<1> HIDE DEF a, b
<1>5. /\ a \o b \in Seq(S) /\ Len(a \o b) = Len(a) + Len(b)
      /\ \A i \in 1..(Len(a) + Len(b)) : (a \o b)[i] = IF i <= Len(a) THEN a[i] ELSE b[i - Len(a)]
  BY <1>2, <1>3, ConcatProperties
<1>6. Len(a) + Len(b) = len /\ len \in Nat
  BY <1>1, <1>2, <1>3
<1>7. DOMAIN (a \o b) = 1..len
  BY <1>5, <1>6, LenProperties
<1>8. ASSUME NEW i \in 1..len, i < n PROVE (a \o b)[i] = cs[i]
  <2>1. i <= Len(a) /\ i \in 1..(n - 1)
    BY <1>1, <1>2, <1>8
  <2> QED
    BY <1>2, <1>5, <1>6, <2>1
<1>9. ASSUME NEW i \in 1..len, i >= n PROVE (a \o b)[i] = cs[i + 1]
  <2> DEFINE j == i - (n - 1)
  <2>1. ~(i <= Len(a)) /\ i - Len(a) = j /\ j \in 1..(Len(cs) - n) /\ n + j = i + 1
    BY <1>1, <1>2, <1>9
  <2>2. b[j] = cs[n + j]
    BY <1>3, <2>1
  <2> HIDE DEF j
  <2>3. (a \o b)[i] = b[j]
    BY <1>5, <1>6, <2>1
  <2> QED
    BY <2>1, <2>2, <2>3
<1> QED
  BY <1>4, <1>5, <1>6, <1>7, <1>8, <1>9

\* Function f finds the rows with one of the ids among the first n of list.
Finds(f, list, ids, n) ==
    f = [i \in 0..n |-> IF i = 0 THEN <<>>
                        ELSE IF list[i].id \in ids THEN Append(f[i - 1], list[i])
                        ELSE f[i - 1]]

LEMMA Smallest ==
    ASSUME NEW S \in SUBSET Nat, S # {} PROVE \E x \in S : \A y \in S : x <= y
<1>1. PICK x \in S : \A y \in S : <<y, x>> \notin OpToRel(<, Nat)
  BY NatLessThanWellFounded, WFMin
<1>2. ASSUME NEW y \in S PROVE ~(y < x)
  BY <1>1, Zenon DEF OpToRel
<1>3. x \in Nat /\ \A y \in S : y \in Nat
  OBVIOUS
<1> QED
  BY <1>2, <1>3

LEMMA FindsExists ==
    ASSUME NEW list, NEW ids, NEW n \in Nat
    PROVE  \E f : Finds(f, list, ids, n)
<1> DEFINE Bad == {k \in Nat : ~ \E f : Finds(f, list, ids, k)}
<1> SUFFICES ASSUME Bad # {} PROVE FALSE
  OBVIOUS
<1>1. PICK k \in Bad : \A j \in Bad : k <= j
  BY Smallest
<1>2. k # 0
  <2>1. Finds([i \in 0..0 |-> <<>>], list, ids, 0)
    BY DEF Finds
  <2> QED
    BY <1>1, <2>1
<1>3. PICK f : Finds(f, list, ids, k - 1)
  BY <1>1, <1>2
<1> DEFINE last == IF list[k].id \in ids THEN Append(f[k - 1], list[k]) ELSE f[k - 1]
           g == [i \in 0..k |-> IF i = k THEN last ELSE f[i]]
<1>4. \A i \in 0..(k - 1) : g[i] = f[i]
  BY <1>1, <1>2
<1>5. g[k] = last
  BY <1>1
<1>6. g = [i \in 0..k |-> g[i]]
  OBVIOUS
<1>7. \A i \in 0..(k - 1) : f[i] = IF i = 0 THEN <<>>
                                  ELSE IF list[i].id \in ids THEN Append(f[i - 1], list[i])
                                  ELSE f[i - 1]
  BY <1>3 DEF Finds
<1> HIDE DEF g
<1>8. ASSUME NEW i \in 0..k
      PROVE  g[i] = IF i = 0 THEN <<>>
                    ELSE IF list[i].id \in ids THEN Append(g[i - 1], list[i])
                    ELSE g[i - 1]
  <2>1. CASE i = k
    <3>1. g[k - 1] = f[k - 1]
      BY <1>1, <1>2, <1>4
    <3> QED
      BY <1>2, <1>5, <2>1, <3>1
  <2>2. CASE i # k
    <3>1. i \in 0..(k - 1) /\ g[i] = f[i]
      BY <1>1, <1>4, <2>2
    <3>2. i # 0 => i - 1 \in 0..(k - 1) /\ g[i - 1] = f[i - 1]
      BY <1>1, <1>4, <3>1
    <3>3. f[i] = IF i = 0 THEN <<>>
                 ELSE IF list[i].id \in ids THEN Append(f[i - 1], list[i])
                 ELSE f[i - 1]
      BY <1>7, <3>1
    <3> QED
      BY <3>1, <3>2, <3>3, ZenonT(30)
  <2> QED
    BY <2>1, <2>2
<1>9. Finds(g, list, ids, k)
  BY <1>6, <1>8 DEF Finds
<1> QED
  BY <1>1, <1>9

\* What a list call is answered with are rows of the service.
LEMMA RowsInFacts ==
    ASSUME NEW list \in Seq(Row), NEW ids
    PROVE  /\ RowsIn(list, ids) \in Seq(Row)
           /\ \A i \in DOMAIN RowsIn(list, ids) : \E j \in DOMAIN list : RowsIn(list, ids)[i] = list[j]
<1> DEFINE n == Len(list)
           S == {list[j] : j \in 1..n}
           F == CHOOSE f : Finds(f, list, ids, n)
<1>1. n \in Nat /\ DOMAIN list = 1..n /\ S \in SUBSET Row
  BY LenProperties
<1>2. Finds(F, list, ids, n)
  BY <1>1, FindsExists
<1>3. RowsIn(list, ids) = F[n]
  BY DEF RowsIn, Finds
<1>4. \A i \in 0..n : F[i] = IF i = 0 THEN <<>>
                             ELSE IF list[i].id \in ids THEN Append(F[i - 1], list[i])
                             ELSE F[i - 1]
  BY <1>2 DEF Finds
<1>5. <<>> \in Seq(S) /\ \A i \in 1..n : list[i] \in S
  OBVIOUS
<1> HIDE DEF F, S
<1>6. F[n] \in Seq(S)
  <2> DEFINE Bad == {i \in 0..n : F[i] \notin Seq(S)}
  <2> SUFFICES ASSUME Bad # {} PROVE FALSE
    BY <1>1
  <2>1. Bad \in SUBSET Nat
    BY <1>1
  <2> HIDE DEF Bad
  <2>2. PICK i \in Bad : \A j \in Bad : i <= j
    BY <2>1, Smallest
  <2>3. i \in 0..n /\ F[i] \notin Seq(S)
    BY <2>2 DEF Bad
  <2>4. i # 0
    BY <1>4, <1>5, <2>3, Zenon
  <2>5. i \in 1..n /\ i - 1 \in 0..n /\ i - 1 \notin Bad
    BY <1>1, <2>1, <2>2, <2>3, <2>4
  <2>6. F[i - 1] \in Seq(S) /\ list[i] \in S
    BY <1>5, <2>5 DEF Bad
  <2>7. Append(F[i - 1], list[i]) \in Seq(S)
    BY <2>6
  <2> QED
    BY <1>4, <2>3, <2>4, <2>6, <2>7
<1> DEFINE r == F[n]
<1> HIDE DEF r
<1>7. r \in Seq(S) /\ r = F[n]
  BY <1>6 DEF r
<1>8. Len(r) \in Nat /\ DOMAIN r = 1..Len(r) /\ r \in [1..Len(r) -> Row]
      /\ \A i \in DOMAIN r : r[i] \in S
  BY <1>1, <1>7, LenProperties
<1>9. r \in Seq(Row)
  BY <1>8, ListIsSeq
<1>10. \A i \in DOMAIN r : \E j \in DOMAIN list : r[i] = list[j]
  BY <1>1, <1>8 DEF S
<1> QED
  BY <1>3, <1>7, <1>9, <1>10

-----------------------------------------------------------------------------
(* The requests that are outstanding *)

LEMMA CallFacts == ASSUME NEW cs \in Seq(CallType), NEW n \in DOMAIN cs
                   PROVE  n \in 1..Len(cs) /\ Len(cs) \in Nat /\ cs[n] \in CallType
BY LenProperties

LEMMA RemoveKeeps ==
    ASSUME NEW cs, NEW shown, NEW faults, NEW w, CallsInv(cs, shown, faults, w),
           NEW n \in DOMAIN cs
    PROVE  CallsInv(RemoveAt(cs, n), shown, faults, w) /\ Len(RemoveAt(cs, n)) = Len(cs) - 1
<1> DEFINE rest == RemoveAt(cs, n)
<1>1. cs \in Seq(CallType) /\ Len(cs) \in Nat /\ DOMAIN cs = 1..Len(cs) /\ n \in 1..Len(cs)
      /\ Len(cs) <= MaxCalls
  BY LenProperties DEF CallsInv
<1>2. /\ rest \in Seq(CallType) /\ Len(rest) = Len(cs) - 1 /\ DOMAIN rest = 1..(Len(cs) - 1)
      /\ \A i \in 1..(Len(cs) - 1) : (i < n => rest[i] = cs[i]) /\ (i >= n => rest[i] = cs[i + 1])
  BY <1>1, RemoveAtFacts
<1> DEFINE From(i) == IF i < n THEN i ELSE i + 1
<1> HIDE DEF rest
<1>3. \A i \in DOMAIN rest : From(i) \in DOMAIN cs /\ rest[i] = cs[From(i)]
  BY <1>1, <1>2
<1>4. \A i, j \in DOMAIN rest : i # j => From(i) # From(j)
  BY <1>1, <1>2
<1> HIDE DEF From
<1>5. \A i \in DOMAIN rest : CallOK(rest[i], faults, w)
  BY <1>3 DEF CallsInv
<1>6. Overlap(rest)
  BY <1>3, <1>4 DEF CallsInv, Overlap
<1>7. NotOlder(rest, shown)
  BY <1>3 DEF CallsInv, NotOlder
<1>8. Len(rest) <= MaxCalls
  BY <1>1, <1>2, BoundsAssumption
<1>9. CallsInv(rest, shown, faults, w)
  BY <1>2, <1>5, <1>6, <1>7, <1>8 DEF CallsInv
<1> QED
  BY <1>2, <1>9 DEF rest

LEMMA AppendKeeps ==
    ASSUME NEW cs, NEW shown, NEW faults, NEW w, CallsInv(cs, shown, faults, w),
           Len(cs) < MaxCalls,
           NEW c \in CallType, c.view = NoView, CallOK(c, faults, w)
    PROVE  CallsInv(Append(cs, c), shown, faults, w)
<1> DEFINE longer == Append(cs, c)
<1>1. cs \in Seq(CallType) /\ Len(cs) \in Nat /\ DOMAIN cs = 1..Len(cs)
  BY LenProperties DEF CallsInv
<1>2. /\ longer \in Seq(CallType) /\ Len(longer) = Len(cs) + 1 /\ DOMAIN longer = 1..(Len(cs) + 1)
      /\ longer[Len(cs) + 1] = c /\ \A i \in DOMAIN cs : longer[i] = cs[i]
  BY <1>1, AppendProperties, LenProperties
<1> HIDE DEF longer
<1>3. \A i \in DOMAIN longer : (i \in DOMAIN cs /\ longer[i] = cs[i]) \/ longer[i] = c
  BY <1>1, <1>2
<1>4. \A i \in DOMAIN longer : CallOK(longer[i], faults, w)
  BY <1>3, Zenon DEF CallsInv
<1>5. Overlap(longer)
  <2> SUFFICES ASSUME NEW m \in DOMAIN longer, NEW i \in DOMAIN longer, longer[m].view # NoView,
                      longer[m].view = longer[i].view, m # i
               PROVE  longer[m].crossed
    BY DEF Overlap
  <2>1. m \in DOMAIN cs /\ i \in DOMAIN cs /\ longer[m] = cs[m] /\ longer[i] = cs[i]
    BY <1>3
  <2> QED
    BY <2>1 DEF CallsInv, Overlap
<1>6. NotOlder(longer, shown)
  <2> SUFFICES ASSUME NEW m \in DOMAIN longer, longer[m].view # NoView, longer[m].answered,
                      ~longer[m].crossed
               PROVE  shown[longer[m].view].at <= longer[m].at
    BY DEF NotOlder
  <2>1. m \in DOMAIN cs /\ longer[m] = cs[m]
    BY <1>3
  <2> QED
    BY <2>1 DEF CallsInv, NotOlder
<1>7. Len(longer) <= MaxCalls
  BY <1>1, <1>2, BoundsAssumption
<1>8. CallsInv(longer, shown, faults, w)
  BY <1>2, <1>4, <1>5, <1>6, <1>7 DEF CallsInv
<1> QED
  BY <1>8 DEF longer

\* A call that is given another answer, or for which nobody waits any more.
LEMMA ReplaceKeeps ==
    ASSUME NEW cs, NEW shown, NEW faults, NEW w, CallsInv(cs, shown, faults, w),
           NEW n \in DOMAIN cs, NEW new,
           DOMAIN new = DOMAIN cs, new \in Seq(CallType), Len(new) = Len(cs),
           \A i \in DOMAIN cs : i # n => new[i] = cs[i],
           new[n].view = cs[n].view, new[n].crossed = cs[n].crossed,
           CallOK(new[n], faults, w),
           new[n].view # NoView => shown[new[n].view].at <= new[n].at
    PROVE  CallsInv(new, shown, faults, w)
<1>1. \A i \in DOMAIN new : CallOK(new[i], faults, w)
  BY Zenon DEF CallsInv
<1>2. Overlap(new)
  <2> SUFFICES ASSUME NEW m \in DOMAIN new, NEW i \in DOMAIN new, new[m].view # NoView,
                      new[m].view = new[i].view, m # i
               PROVE  new[m].crossed
    BY DEF Overlap
  <2>1. new[m].view = cs[m].view /\ new[m].crossed = cs[m].crossed /\ new[i].view = cs[i].view
    OBVIOUS
  <2> QED
    BY <2>1 DEF CallsInv, Overlap
<1>3. NotOlder(new, shown)
  <2> SUFFICES ASSUME NEW m \in DOMAIN new, new[m].view # NoView, new[m].answered, ~new[m].crossed
               PROVE  shown[new[m].view].at <= new[m].at
    BY DEF NotOlder
  <2>1. CASE m = n
    BY <2>1
  <2>2. CASE m # n
    BY <2>2 DEF CallsInv, NotOlder
  <2> QED
    BY <2>1, <2>2
<1> QED
  BY <1>1, <1>2, <1>3 DEF CallsInv

LEMMA ListFacts ==
    ASSUME NEW cs, NEW v \in View, filter \in [View -> Filter]
    PROVE  /\ List(v, cs) \in CallType
           /\ List(v, cs).view = v /\ List(v, cs).op = "List" /\ List(v, cs).waiting
           /\ ~List(v, cs).answered /\ List(v, cs).body = <<>> /\ List(v, cs).at = 0
           /\ ListsOf(v, cs) # {} => List(v, cs).crossed
<1> DEFINE met == ListsOf(v, cs) # {}
           c == [op |-> "List", view |-> v, row |-> NoRow, picked |-> NoRow, stale |-> FALSE,
                 filter |-> filter[v], answered |-> FALSE, waiting |-> TRUE, body |-> <<>>,
                 at |-> 0, crossed |-> met]
<1>1. List(v, cs) = [Call EXCEPT !.view = v, !.filter = filter[v], !.crossed = met]
  BY Zenon DEF List
<1>2. met \in BOOLEAN /\ FALSE \in BOOLEAN /\ TRUE \in BOOLEAN
  BY Zenon
<1>3. filter[v] \in SUBSET Nat /\ NoRow \in Row /\ "List" \in Ops /\ v \in View \cup {NoView}
  BY FilterAssumption DEF NoRow, Row, Ops
<1>4. <<>> \in Seq(Row) /\ 0 \in Nat
  OBVIOUS
<1> HIDE DEF met
<1>5. List(v, cs) = c
  BY <1>1 DEF Call
<1>6. c \in CallType
  BY <1>2, <1>3, <1>4, Zenon DEF CallType
<1>7. c.crossed = met
  OBVIOUS
<1>8. ListsOf(v, cs) # {} => c.crossed
  BY <1>7 DEF met
<1> QED
  BY <1>5, <1>6, <1>8

LEMMA ListsKeep ==
    ASSUME NEW cs, NEW shown, NEW faults, NEW w \in Nat, CallsInv(cs, shown, faults, w),
           filter \in [View -> Filter], NEW views \in SUBSET View, Room(cs, Cardinality(views))
    PROVE  CallsInv(WithLists(cs, views), shown, faults, w)
<1> DEFINE len == Len(cs)
           card == Cardinality(views)
           each == SetToSeq(views)
           met(n) == \E v \in views : n \in ListsOf(v, cs)
           a == [n \in DOMAIN cs |-> IF met(n) THEN [cs[n] EXCEPT !.crossed = TRUE] ELSE cs[n]]
           b == [n \in 1..card |-> List(each[n], cs)]
           new == a \o b
<1>1. cs \in Seq(CallType) /\ len \in Nat /\ DOMAIN cs = 1..len /\ \A n \in 1..len : cs[n] \in CallType
  BY LenProperties DEF CallsInv
<1>2. /\ card \in Nat /\ each \in [1..card -> views]
      /\ \A i, j \in 1..card : each[i] = each[j] => i = j
  BY ViewsFinite, FS_Subset, SetToSeqFacts
<1>3. WithLists(cs, views) = new
  BY DEF WithLists
<1> HIDE DEF each
<1>4. a \in Seq(CallType) /\ Len(a) = len
  <2>1. \A n \in 1..len : [cs[n] EXCEPT !.crossed = TRUE] \in CallType
    BY <1>1 DEF CallType
  <2>2. a \in [1..len -> CallType]
    BY <1>1, <2>1
  <2> HIDE DEF a
  <2> QED
    BY <1>1, <2>2, ListIsSeq
<1>5. \A n \in 1..len : /\ a[n].view = cs[n].view /\ a[n].op = cs[n].op /\ a[n].waiting = cs[n].waiting
                        /\ a[n].stale = cs[n].stale /\ a[n].row = cs[n].row
                        /\ a[n].picked = cs[n].picked /\ a[n].body = cs[n].body
                        /\ a[n].answered = cs[n].answered /\ a[n].at = cs[n].at
  <2> SUFFICES ASSUME NEW n \in 1..len
               PROVE  /\ a[n].view = cs[n].view /\ a[n].op = cs[n].op
                      /\ a[n].waiting = cs[n].waiting
                      /\ a[n].stale = cs[n].stale /\ a[n].row = cs[n].row
                      /\ a[n].picked = cs[n].picked /\ a[n].body = cs[n].body
                      /\ a[n].answered = cs[n].answered /\ a[n].at = cs[n].at
    BY Zenon
  <2>1. a[n] = cs[n] \/ a[n] = [cs[n] EXCEPT !.crossed = TRUE]
    BY <1>1
  <2> HIDE DEF a
  <2> QED
    BY <1>1, <2>1 DEF CallType
<1>6. \A n \in 1..len : cs[n].crossed \/ met(n) => a[n].crossed
  BY <1>1 DEF CallType
<1>7. b \in Seq(CallType) /\ Len(b) = card
  <2>1. b \in [1..card -> CallType]
    BY <1>2, ListFacts
  <2> HIDE DEF b
  <2> QED
    BY <1>2, <2>1, ListIsSeq
<1>8. \A n \in 1..card : b[n] = List(each[n], cs) /\ each[n] \in View /\ each[n] \in views
  BY <1>2
<1> HIDE DEF a, b, len, card
<1>9. /\ new \in Seq(CallType) /\ Len(new) = len + card /\ DOMAIN new = 1..(len + card)
      /\ \A i \in 1..(len + card) : new[i] = IF i <= len THEN a[i] ELSE b[i - len]
  <2>1. /\ new \in Seq(CallType) /\ Len(new) = Len(a) + Len(b)
        /\ \A i \in 1..(Len(a) + Len(b)) : new[i] = IF i <= Len(a) THEN a[i] ELSE b[i - Len(a)]
    BY <1>4, <1>7, ConcatProperties
  <2> HIDE DEF new
  <2> QED
    BY <1>4, <1>7, <2>1, LenProperties
<1> HIDE DEF new
<1>10. ASSUME NEW i \in DOMAIN new
       PROVE  \/ i \in 1..len /\ new[i] = a[i]
              \/ i - len \in 1..card /\ new[i] = List(each[i - len], cs)
  <2>1. CASE i <= len
    BY <1>1, <1>2, <1>9, <2>1 DEF len
  <2>2. CASE ~(i <= len)
    <3>1. i - len \in 1..card
      BY <1>1, <1>2, <1>9, <2>2 DEF len
    <3> QED
      BY <1>8, <1>9, <2>2, <3>1
  <2> QED
    BY <2>1, <2>2
<1>11. ASSUME NEW i \in DOMAIN new PROVE CallOK(new[i], faults, w)
  <2>1. CASE i \in 1..len /\ new[i] = a[i]
    <3>1. CallOK(cs[i], faults, w)
      BY <1>1, <2>1 DEF CallsInv, len
    <3> QED
      BY <1>5, <2>1, <3>1 DEF CallOK
  <2>2. CASE i - len \in 1..card /\ new[i] = List(each[i - len], cs)
    <3> DEFINE v == each[i - len]
    <3>1. v \in View /\ new[i] = List(v, cs)
      BY <1>8, <2>2
    <3> HIDE DEF v
    <3>2. /\ new[i].view = v /\ new[i].op = "List" /\ new[i].waiting
          /\ new[i].body = <<>> /\ new[i].at = 0
      BY <3>1, ListFacts
    <3>3. new[i].view # NoView /\ AllKnown(faults, new[i].body) /\ new[i].at <= w
      BY <3>1, <3>2, ViewFacts DEF AllKnown
    <3> QED
      BY <3>2, <3>3 DEF CallOK, Chained
  <2> QED
    BY <1>10, <2>1, <2>2
<1>12. ASSUME NEW v \in views, NEW i \in 1..len, cs[i].view = v PROVE i \in ListsOf(v, cs) /\ met(i)
  <2>1. cs[i].waiting
    <3>1. CallOK(cs[i], faults, w) /\ v # NoView
      BY <1>1, ViewFacts DEF CallsInv, len
    <3> QED
      BY <1>12, <3>1 DEF CallOK
  <2> QED
    BY <1>1, <1>12, <2>1 DEF ListsOf, len
<1> HIDE DEF met
<1>13. Overlap(new)
  <2> SUFFICES ASSUME NEW m \in DOMAIN new, NEW i \in DOMAIN new, new[m].view # NoView,
                      new[m].view = new[i].view, m # i
               PROVE  new[m].crossed
    BY DEF Overlap
  <2>1. CASE m \in 1..len /\ new[m] = a[m] /\ i \in 1..len /\ new[i] = a[i]
    <3>1. cs[m].view # NoView /\ cs[m].view = cs[i].view
      BY <1>5, <2>1
    <3>2. cs[m].crossed
      BY <1>1, <2>1, <3>1 DEF CallsInv, Overlap, len
    <3> QED
      BY <1>6, <2>1, <3>2
  <2>2. CASE m \in 1..len /\ new[m] = a[m] /\ i - len \in 1..card /\ new[i] = List(each[i - len], cs)
    <3>1. each[i - len] \in views /\ new[i].view = each[i - len]
      BY <1>8, <2>2, ListFacts
    <3>2. cs[m].view = each[i - len]
      BY <1>5, <2>2, <3>1
    <3>3. met(m)
      BY <1>12, <2>2, <3>1, <3>2
    <3> QED
      BY <1>6, <2>2, <3>3
  <2>3. CASE m - len \in 1..card /\ new[m] = List(each[m - len], cs) /\ i \in 1..len /\ new[i] = a[i]
    <3> DEFINE v == each[m - len]
    <3>1. v \in views /\ v \in View /\ new[m] = List(v, cs)
      BY <1>8, <2>3
    <3> HIDE DEF v
    <3>2. new[m].view = v /\ (ListsOf(v, cs) # {} => new[m].crossed)
      BY <3>1, ListFacts
    <3>3. cs[i].view = v
      BY <1>5, <2>3, <3>2
    <3>4. i \in ListsOf(v, cs)
      BY <1>12, <2>3, <3>1, <3>3
    <3> QED
      BY <3>2, <3>4
  <2>4. CASE /\ m - len \in 1..card /\ new[m] = List(each[m - len], cs)
             /\ i - len \in 1..card /\ new[i] = List(each[i - len], cs)
    <3>1. new[m].view = each[m - len] /\ new[i].view = each[i - len]
      BY <1>8, <2>4, ListFacts
    <3>2. m - len = i - len
      BY <1>2, <2>4, <3>1
    <3>3. m \in Int /\ i \in Int
      BY <1>1, <1>2, <1>9
    <3> QED
      BY <1>1, <3>2, <3>3
  <2> QED
    BY <1>10, <2>1, <2>2, <2>3, <2>4
<1>14. NotOlder(new, shown)
  <2> SUFFICES ASSUME NEW m \in DOMAIN new, new[m].view # NoView, new[m].answered, ~new[m].crossed
               PROVE  shown[new[m].view].at <= new[m].at
    BY DEF NotOlder
  <2>1. CASE m \in 1..len /\ new[m] = a[m]
    <3>1. cs[m].view # NoView /\ cs[m].answered /\ ~cs[m].crossed
          /\ new[m].view = cs[m].view /\ new[m].at = cs[m].at
      BY <1>5, <1>6, <2>1
    <3> QED
      BY <1>1, <2>1, <3>1 DEF CallsInv, NotOlder, len
  <2>2. CASE m - len \in 1..card /\ new[m] = List(each[m - len], cs)
    BY <1>8, <2>2, ListFacts
  <2> QED
    BY <1>10, <2>1, <2>2
<1>15. Len(new) <= MaxCalls
  BY <1>9 DEF Room, len, card
<1>16. CallsInv(new, shown, faults, w)
  BY <1>9, <1>11, <1>13, <1>14, <1>15 DEF CallsInv
<1> QED
  BY <1>3, <1>16

\* The table of the faults only grows, and no row loses its event.
Grows(faults, grown) == \A row : Known(faults, row) => Known(grown, row)

LEMMA GrownKeeps ==
    ASSUME NEW cs, NEW shown, NEW faults, NEW w \in Nat, CallsInv(cs, shown, faults, w),
           NEW grown, Grows(faults, grown), NEW later \in Nat, w <= later
    PROVE  CallsInv(cs, shown, grown, later)
<1>1. ASSUME NEW n \in DOMAIN cs PROVE CallOK(cs[n], grown, later)
  <2> DEFINE c == cs[n]
  <2>1. c \in CallType /\ CallOK(c, faults, w)
    BY CallFacts DEF CallsInv
  <2> HIDE DEF c
  <2>2. c.at <= later
    BY <2>1 DEF CallOK, CallType
  <2>3. c.op \in {"StartDiagnosis", Chained} => Known(grown, c.row)
    BY <2>1 DEF CallOK, Grows
  <2>4. c.view = "faultTable" => AllKnown(grown, c.body)
    BY <2>1 DEF CallOK, Grows, AllKnown
  <2>5. c.op = "CreateFaultOfEvent" /\ c.answered => Known(grown, c.body[1])
    BY <2>1 DEF CallOK, Grows
  <2>6. CallOK(c, grown, later)
    BY <2>1, <2>2, <2>3, <2>4, <2>5, Zenon DEF CallOK
  <2> QED
    BY <2>6 DEF c
<1> QED
  BY <1>1 DEF CallsInv

LEMMA RoomKept ==
    ASSUME NEW cs, NEW shown, NEW faults, NEW w, CallsInv(cs, shown, faults, w), Room(cs, 1)
    PROVE  Len(cs) < MaxCalls
<1>1. Len(cs) \in Nat
  BY LenProperties DEF CallsInv
<1> QED
  BY <1>1, BoundsAssumption DEF Room

LEMMA ButtonFacts ==
    /\ DOMAIN Buttons = {"CreateDevice", "UpdateDevice", "UpdateEventStatus", "CreateFaultOfEvent",
                         "CreateKnowledgeDocument", "RequestKnowledgeIndex", "CreateFaultRecord",
                         "StartDiagnosis", "ConfirmDiagnosisReport"}
    /\ Buttons["StartDiagnosis"].table = "faultTable"
    /\ "List" \notin DOMAIN Buttons /\ "none" \notin DOMAIN Buttons /\ Chained \notin DOMAIN Buttons
    /\ Chained # "List" /\ "List" # "none"
BY DEF Buttons, Button, Chained

LEMMA ActFacts ==
    ASSUME NEW op \in DOMAIN Buttons \cup {Chained}, NEW row \in Row, NEW p \in PickType
    PROVE  /\ Act(op, row, p) \in CallType
           /\ Act(op, row, p).op = op /\ Act(op, row, p).view = NoView
           /\ Act(op, row, p).row = row /\ Act(op, row, p).picked = p.row
           /\ Act(op, row, p).stale = p.stale /\ ~Act(op, row, p).answered
           /\ Act(op, row, p).at = 0
<1> DEFINE stale == p.stale
           c == [op |-> op, view |-> NoView, row |-> row, picked |-> p.row, stale |-> stale,
                 filter |-> {}, answered |-> FALSE, waiting |-> TRUE, body |-> <<>>,
                 at |-> 0, crossed |-> FALSE]
<1>1. Act(op, row, p) = [Call EXCEPT !.op = op, !.row = row, !.picked = p.row, !.stale = stale]
  BY Zenon DEF Act
<1>2. p.row \in Row /\ stale \in BOOLEAN
  BY DEF PickType
<1>3. stale = p.stale
  OBVIOUS
<1> HIDE DEF stale
<1>4. Act(op, row, p) = c
  BY <1>1 DEF Call
<1>5. op \in Ops /\ {} \in SUBSET Nat /\ <<>> \in Seq(Row) /\ 0 \in Nat
      /\ NoView \in View \cup {NoView}
  BY DEF Ops
<1>6. TRUE \in BOOLEAN /\ FALSE \in BOOLEAN
  OBVIOUS
<1>7. c \in CallType
  BY <1>2, <1>5, <1>6, Zenon DEF CallType
<1> QED
  BY <1>3, <1>4, <1>7

\* The first of the faults is about the event, and is known.
BeginsWith(faults, event) ==
    Len(faults) # 0 /\ faults[1].event = event /\ Known(faults, faults[1])

LEMMA CreatedRow ==
    ASSUME store \in [Sources -> Seq(Row)], NEW src \in Sources, NEW event \in Nat, NEW fault \in Nat
    PROVE  /\ Created(src, event, fault) \in [Sources -> Seq(Row)]
           /\ Grows(store["fault"], Created(src, event, fault)["fault"])
           /\ BeginsWith(Created(src, event, fault)[src], event)
<1> DEFINE new == Created(src, event, fault)
           list == store[src]
           row == [id |-> Len(list) + 1, ver |-> 0, event |-> event, fault |-> fault]
           longer == <<row>> \o list
<1>1. list \in Seq(Row) /\ Len(list) \in Nat /\ DOMAIN list = 1..Len(list)
  BY LenProperties
<1>2. row \in Row /\ row.event = event /\ row.id \in Nat
  BY <1>1 DEF Row
<1>3. new = [store EXCEPT ![src] = longer]
  BY DEF Created
<1> HIDE DEF row, new, list
<1>4. /\ longer \in Seq(Row) /\ Len(longer) = Len(list) + 1 /\ DOMAIN longer = 1..(Len(list) + 1)
      /\ longer[1] = row /\ \A i \in DOMAIN list : i + 1 \in DOMAIN longer /\ longer[i + 1] = list[i]
  <2>1. <<row>> \in Seq(Row) /\ Len(<<row>>) = 1 /\ <<row>>[1] = row
    BY <1>2
  <2>2. /\ longer \in Seq(Row) /\ Len(longer) = 1 + Len(list)
        /\ \A i \in 1..(1 + Len(list)) : longer[i] = IF i <= 1 THEN <<row>>[i] ELSE list[i - 1]
    BY <1>1, <2>1, ConcatProperties
  <2> HIDE DEF longer
  <2>3. DOMAIN longer = 1..(Len(list) + 1)
    BY <1>1, <2>2, LenProperties
  <2>4. longer[1] = row
    BY <1>1, <2>1, <2>2
  <2>5. ASSUME NEW i \in DOMAIN list PROVE i + 1 \in DOMAIN longer /\ longer[i + 1] = list[i]
    <3>1. i + 1 \in 1..(1 + Len(list)) /\ ~(i + 1 <= 1) /\ (i + 1) - 1 = i
      BY <1>1
    <3> QED
      BY <2>2, <2>3, <3>1
  <2> QED
    BY <1>1, <2>2, <2>3, <2>4, <2>5
<1> HIDE DEF longer
<1>5. new \in [Sources -> Seq(Row)] /\ new[src] = longer /\ \A s \in Sources : s # src => new[s] = store[s]
  BY <1>3, <1>4
<1>6. Grows(list, longer)
  BY <1>4 DEF Grows, Known
<1>7. "fault" \in Sources
  BY ViewFacts
<1>8. Grows(store["fault"], new["fault"])
  <2>1. CASE src = "fault"
    BY <1>5, <1>6, <2>1 DEF list
  <2>2. CASE src # "fault"
    BY <1>5, <1>7, <2>2 DEF Grows
  <2> QED
    BY <2>1, <2>2
<1>9. BeginsWith(longer, event)
  <2>1. 1 \in DOMAIN longer
    BY <1>1, <1>4
  <2> QED
    BY <1>1, <1>2, <1>4, <2>1 DEF Known, BeginsWith
<1> QED
  BY <1>5, <1>8, <1>9 DEF new

LEMMA CreatedFacts ==
    ASSUME store \in [Sources -> Seq(Row)], NEW src \in Sources, NEW event \in Nat, NEW fault \in Nat
    PROVE  /\ Created(src, event, fault) \in [Sources -> Seq(Row)]
           /\ Grows(store["fault"], Created(src, event, fault)["fault"])
BY CreatedRow

LEMMA ChangedFacts ==
    ASSUME store \in [Sources -> Seq(Row)], NEW src \in Sources, NEW id
    PROVE  /\ Changed(src, id) \in [Sources -> Seq(Row)]
           /\ Grows(store["fault"], Changed(src, id)["fault"])
<1> DEFINE new == Changed(src, id)
           list == store[src]
           changed == [i \in DOMAIN list |-> IF list[i].id = id THEN [list[i] EXCEPT !.ver = @ + 1]
                                             ELSE list[i]]
<1>1. list \in Seq(Row) /\ Len(list) \in Nat /\ DOMAIN list = 1..Len(list)
      /\ \A i \in 1..Len(list) : list[i] \in Row
  BY LenProperties
<1>2. new = [store EXCEPT ![src] = changed]
  BY Zenon DEF Changed
<1>3. ASSUME NEW i \in 1..Len(list) PROVE [list[i] EXCEPT !.ver = @ + 1] \in Row
  <2> DEFINE r == list[i]
  <2>1. r \in Row
    BY <1>1
  <2> HIDE DEF r
  <2> DEFINE ver == r.ver
             next == ver + 1
  <2>2. ver \in Nat
    BY <2>1 DEF Row
  <2> HIDE DEF ver
  <2>3. next \in Nat
    BY <2>2
  <2> HIDE DEF next
  <2>4. [r EXCEPT !.ver = next] \in Row
    BY <2>1, <2>3 DEF Row
  <2> QED
    BY <2>4 DEF r, next, ver
<1>4. \A i \in 1..Len(list) : changed[i] \in Row /\ changed[i].id = list[i].id
                              /\ changed[i].event = list[i].event
  BY <1>1, <1>3 DEF Row
<1>5. changed \in [1..Len(list) -> Row]
  BY <1>1, <1>3
<1> HIDE DEF changed, new
<1>6. changed \in Seq(Row) /\ DOMAIN changed = DOMAIN list
  BY <1>1, <1>5, ListIsSeq
<1>7. Grows(list, changed)
  BY <1>1, <1>4, <1>6 DEF Grows, Known
<1>8. new \in [Sources -> Seq(Row)] /\ new[src] = changed /\ \A s \in Sources : s # src => new[s] = store[s]
  BY <1>2, <1>6
<1>9. Grows(store["fault"], new["fault"])
  <2>1. CASE src = "fault"
    BY <1>7, <1>8, <2>1
  <2>2. CASE src # "fault"
    BY <1>8, <2>2, ViewFacts DEF Grows
  <2> QED
    BY <2>1, <2>2
<1> QED
  BY <1>8, <1>9 DEF new

LEMMA DoneFacts ==
    ASSUME store \in [Sources -> Seq(Row)], NEW op \in DOMAIN Buttons \cup {Chained}, NEW row \in Row
    PROVE  /\ Done(op, row) \in [Sources -> Seq(Row)]
           /\ Grows(store["fault"], Done(op, row)["fault"])
           /\ op = "CreateFaultOfEvent" => BeginsWith(Done(op, row)["fault"], row.id)
<1>1. row.id \in Nat /\ row.event \in Nat /\ 0 \in Nat
  BY DEF Row
<1>2. /\ "device" \in Sources /\ "event" \in Sources /\ "fault" \in Sources
      /\ "document" \in Sources /\ "report" \in Sources
  BY DEF Sources, AnyView, Source
<1>3. CASE op = "CreateDevice"
  <2>1. Done(op, row) = Created("device", 0, 0)
    BY <1>3 DEF Done, Chained
  <2> DEFINE new == Created("device", 0, 0)
  <2>2. new \in [Sources -> Seq(Row)] /\ Grows(store["fault"], new["fault"])
    BY <1>1, <1>2, CreatedFacts
  <2>3. Done(op, row) = new /\ op # "CreateFaultOfEvent"
    BY <1>3, <2>1
  <2> HIDE DEF new
  <2> QED
    BY <2>2, <2>3
<1>4. CASE op = "UpdateDevice"
  <2>1. Done(op, row) = Changed("device", row.id)
    BY <1>4 DEF Done, Chained
  <2> QED
    BY <1>2, <1>4, <2>1, ChangedFacts
<1>5. CASE op = "UpdateEventStatus"
  <2>1. Done(op, row) = Changed("event", row.id)
    BY <1>5 DEF Done, Chained
  <2> QED
    BY <1>2, <1>5, <2>1, ChangedFacts
<1>6. CASE op = "CreateFaultOfEvent"
  <2>1. Done(op, row) = Created("fault", row.id, 0)
    BY <1>6 DEF Done, Chained
  <2> DEFINE event == row.id
             src == "fault"
             none == 0
             new == Created(src, event, none)
  <2>2. src \in Sources /\ event \in Nat /\ none \in Nat /\ src = "fault"
    BY <1>1, <1>2
  <2>3. Done(op, row) = new
    BY <2>1
  <2> HIDE DEF event, src, none
  <2>4. new \in [Sources -> Seq(Row)] /\ Grows(store["fault"], new["fault"])
    BY <2>2, CreatedFacts
  <2>5. BeginsWith(new[src], event)
    BY <2>2, CreatedRow
  <2> HIDE DEF new
  <2>6. event = row.id
    BY DEF event
  <2> QED
    BY <2>2, <2>3, <2>4, <2>5, <2>6
<1>7. CASE op = "CreateKnowledgeDocument"
  <2>1. Done(op, row) = Created("document", 0, 0)
    BY <1>7 DEF Done, Chained
  <2> DEFINE new == Created("document", 0, 0)
  <2>2. new \in [Sources -> Seq(Row)] /\ Grows(store["fault"], new["fault"])
    BY <1>1, <1>2, CreatedFacts
  <2>3. Done(op, row) = new /\ op # "CreateFaultOfEvent"
    BY <1>7, <2>1
  <2> HIDE DEF new
  <2> QED
    BY <2>2, <2>3
<1>8. CASE op = "RequestKnowledgeIndex"
  <2>1. Done(op, row) = store
    BY <1>8 DEF Done, Chained
  <2> QED
    BY <1>8, <2>1 DEF Grows
<1>9. CASE op = "CreateFaultRecord"
  <2>1. Done(op, row) = Created("fault", 0, 0)
    BY <1>9 DEF Done, Chained
  <2> DEFINE new == Created("fault", 0, 0)
  <2>2. new \in [Sources -> Seq(Row)] /\ Grows(store["fault"], new["fault"])
    BY <1>1, <1>2, CreatedFacts
  <2>3. Done(op, row) = new /\ op # "CreateFaultOfEvent"
    BY <1>9, <2>1
  <2> HIDE DEF new
  <2> QED
    BY <2>2, <2>3
<1>10. CASE op \in {"StartDiagnosis", Chained}
  <2>1. Done(op, row) = Created("report", row.event, row.id) /\ op # "CreateFaultOfEvent"
    BY <1>10 DEF Done, Chained
  <2> DEFINE new == Created("report", row.event, row.id)
  <2>2. new \in [Sources -> Seq(Row)] /\ Grows(store["fault"], new["fault"])
    BY <1>1, <1>2, CreatedFacts
  <2>3. Done(op, row) = new /\ op # "CreateFaultOfEvent"
    BY <1>10, <2>1
  <2> HIDE DEF new
  <2> QED
    BY <2>2, <2>3
<1>11. CASE op = "ConfirmDiagnosisReport"
  <2>1. Done(op, row) = Changed("report", row.id)
    BY <1>11 DEF Done, Chained
  <2> QED
    BY <1>2, <1>11, <2>1, ChangedFacts
<1> QED
  BY ButtonFacts, <1>3, <1>4, <1>5, <1>6, <1>7, <1>8, <1>9, <1>10, <1>11

-----------------------------------------------------------------------------
(* The inductive invariant holds: the initial states, and the actions one by one *)

LEMMA InitInv == Init => IInv
<1> SUFFICES ASSUME Init PROVE IInv
  OBVIOUS
<1> USE DEF Init, EmptyWindow
<1>1. NoRow \in Row /\ <<>> \in Seq(Row) /\ 0 \in 0..MaxWrites /\ 0 \in 0..MaxPresses /\ 0 \in Nat
  BY BoundsAssumption DEF NoRow, Row
<1>2. dialog \in DialogType /\ dialog = NoDialog
  BY <1>1 DEF NoDialog, DialogType
<1>3. view \in [View -> ViewType]
  BY <1>1 DEF ViewType
<1>4. picked \in [View -> PickType]
  BY <1>1 DEF PickType
<1>5. Typed
  <2>1. page \in Pages /\ auto \in BOOLEAN /\ store \in [Sources -> Seq(Row)]
    BY StoredAssumption DEF Pages
  <2> QED
    BY <1>1, <1>2, <1>3, <1>4, <2>1 DEF Typed
<1>6. ASSUME NEW v \in View PROVE ShownOK(v, view[v], picked[v], store["fault"], writes)
  <2>1. view[v].rows = <<>> /\ view[v].current = 0 /\ view[v].at = 0 /\ picked[v].stale
    OBVIOUS
  <2> QED
    BY <2>1 DEF ShownOK, AllKnown
<1>7. DialogOK(dialog, store["fault"])
  BY DEF NoDialog, DialogOK
<1>8. CallsInv(calls, view, store["fault"], writes)
  <2> DEFINE none == <<>>
  <2>1. none \in Seq(CallType) /\ Len(none) = 0 /\ DOMAIN none = {}
    OBVIOUS
  <2>2. calls = WithLists(none, RefreshedFirst)
    OBVIOUS
  <2> HIDE DEF none, Init, EmptyWindow
  <2>3. CallsInv(none, view, store["fault"], writes)
    BY <2>1, BoundsAssumption DEF CallsInv, Overlap, NotOlder
  <2>4. Cardinality(RefreshedFirst) \in Nat /\ RefreshedFirst \in SUBSET View
    BY ViewsFinite, FS_Subset, FS_CardinalityType DEF RefreshedFirst
  <2>5. Room(none, Cardinality(RefreshedFirst))
    BY <2>1, <2>4, RefreshedFirstAssumption DEF Room
  <2>6. filter \in [View -> Filter] /\ writes \in Nat
    BY <1>1 DEF Init
  <2> QED
    BY <2>2, <2>3, <2>4, <2>5, <2>6, ListsKeep
<1> QED
  BY <1>5, <1>6, <1>7, <1>8 DEF IInv

\* What the actions below begin with.
LEMMA Begin ==
    ASSUME IInv
    PROVE  /\ calls \in Seq(CallType) /\ Len(calls) \in Nat /\ DOMAIN calls = 1..Len(calls)
           /\ \A n \in DOMAIN calls : calls[n] \in CallType /\ CallOK(calls[n], store["fault"], writes)
           /\ writes \in Nat /\ MaxWrites \in Nat /\ writes <= MaxWrites
           /\ store \in [Sources -> Seq(Row)] /\ "fault" \in Sources
<1>1. calls \in Seq(CallType) /\ Typed
      /\ \A n \in DOMAIN calls : CallOK(calls[n], store["fault"], writes)
  BY DEF IInv, CallsInv
<1>2. Len(calls) \in Nat /\ DOMAIN calls = 1..Len(calls) /\ \A n \in DOMAIN calls : calls[n] \in CallType
  BY <1>1, LenProperties
<1> QED
  BY <1>1, <1>2, BoundsAssumption, ViewFacts DEF Typed

\* A step that changes the requests only.
LEMMA CallsStep ==
    ASSUME IInv, UNCHANGED <<gui, store, writes>>, CallsInv(calls', view, store["fault"], writes)
    PROVE  IInv'
<1> USE DEF gui
<1>1. Typed'
  BY DEF IInv, Typed
<1>2. \A v \in View : ShownOK(v, view'[v], picked'[v], store'["fault"], writes')
  BY DEF IInv
<1>3. DialogOK(dialog', store'["fault"])
  BY DEF IInv
<1>4. CallsInv(calls', view', store'["fault"], writes')
  OBVIOUS
<1> QED
  BY <1>1, <1>2, <1>3, <1>4 DEF IInv

LEMMA RefreshStep ==
    ASSUME IInv, NEW views \in SUBSET View, Refresh(views)
    PROVE  CallsInv(calls', view, store["fault"], writes)
<1>1. filter \in [View -> Filter] /\ writes \in Nat /\ CallsInv(calls, view, store["fault"], writes)
  BY Begin DEF IInv, Typed
<1> QED
  BY <1>1, ListsKeep DEF Refresh

LEMMA TickInv == IInv /\ Tick => IInv'
<1> SUFFICES ASSUME IInv, Tick PROVE IInv'
  OBVIOUS
<1>1. Refreshed(page) \in SUBSET View
  BY DEF Refreshed
<1> QED
  BY <1>1, RefreshStep, CallsStep DEF Tick

LEMMA ClickRefreshInv ==
    ASSUME IInv, NEW views \in RefreshButtons(page), ClickRefresh(views) PROVE IInv'
<1>1. views \in SUBSET View
  BY DEF RefreshButtons, Refreshed
<1> QED
  BY <1>1, RefreshStep, CallsStep DEF ClickRefresh

LEMMA SwitchPageInv == ASSUME IInv, NEW p \in Pages, SwitchPage(p) PROVE IInv'
<1>1. Refreshed(p) \in SUBSET View
  BY DEF Refreshed
<1>2. CallsInv(calls', view, store["fault"], writes)
  BY <1>1, RefreshStep DEF SwitchPage
<1>3. Typed'
  BY DEF SwitchPage, IInv, Typed
<1>4. \A v \in View : ShownOK(v, view'[v], picked'[v], store'["fault"], writes')
  BY DEF SwitchPage, IInv
<1>5. DialogOK(dialog', store'["fault"])
  BY DEF SwitchPage, IInv
<1>6. CallsInv(calls', view', store'["fault"], writes')
  BY <1>2 DEF SwitchPage
<1> QED
  BY <1>3, <1>4, <1>5, <1>6 DEF IInv

LEMMA ToggleAutoInv == ASSUME IInv, ToggleAuto PROVE IInv'
<1>1. auto' \in BOOLEAN
  BY Zenon DEF ToggleAuto
<1>2. Typed'
  BY <1>1 DEF ToggleAuto, IInv, Typed
<1> QED
  BY <1>2 DEF ToggleAuto, IInv

LEMMA SetFilterInv == ASSUME IInv, NEW asked \in [View -> Filter], SetFilter(asked) PROVE IInv'
<1>1. Typed'
  BY DEF SetFilter, IInv, Typed
<1> QED
  BY <1>1 DEF SetFilter, IInv

LEMMA PickInv ==
    ASSUME IInv, NEW v \in View, NEW i \in DOMAIN view[v].rows, Pick(v, i) PROVE IInv'
<1> DEFINE rows == view[v].rows
<1>1. view[v] \in ViewType /\ view \in [View -> ViewType] /\ picked \in [View -> PickType]
  BY DEF IInv, Typed
<1>2. rows \in Seq(Row) /\ Len(rows) \in Nat /\ i \in 1..Len(rows) /\ rows[i] \in Row /\ i \in Nat
  BY <1>1, LenProperties DEF ViewType
<1>3. /\ view' = [view EXCEPT ![v].current = i]
      /\ picked' = [picked EXCEPT ![v] = [row |-> rows[i], stale |-> FALSE]]
  BY DEF Pick
<1>4. view' \in [View -> ViewType] /\ picked' \in [View -> PickType]
  BY <1>1, <1>2, <1>3 DEF ViewType, PickType
<1>5. Typed'
  BY <1>4 DEF Pick, IInv, Typed
<1>6. ASSUME NEW u \in View PROVE ShownOK(u, view'[u], picked'[u], store'["fault"], writes')
  <2>1. ShownOK(u, view[u], picked[u], store["fault"], writes)
    BY DEF IInv
  <2>2. CASE u = v
    <3>1. /\ view'[v].rows = rows /\ view'[v].current = i /\ view'[v].at = view[v].at
          /\ picked'[v].row = rows[i]
      BY <1>1, <1>3 DEF ViewType
    <3> QED
      BY <1>2, <2>1, <2>2, <3>1 DEF ShownOK, Pick
  <2>3. CASE u # v
    BY <1>1, <1>3, <2>1, <2>3 DEF Pick
  <2> QED
    BY <2>2, <2>3
<1>7. \A u \in View : view'[u].at = view[u].at
  BY <1>1, <1>3 DEF ViewType
<1>8. CallsInv(calls', view', store'["fault"], writes')
  <2>1. CallsInv(calls, view, store["fault"], writes)
    BY DEF IInv
  <2>2. NotOlder(calls, view')
    <3>1. \A n \in DOMAIN calls : calls[n].view # NoView => calls[n].view \in View
      BY Begin DEF CallType
    <3> QED
      BY <1>7, <2>1, <3>1 DEF CallsInv, NotOlder
  <2>3. CallsInv(calls, view', store["fault"], writes)
    BY <2>1, <2>2 DEF CallsInv
  <2> QED
    BY <2>3 DEF Pick
<1>9. DialogOK(dialog', store'["fault"])
  BY DEF Pick, IInv
<1> QED
  BY <1>5, <1>6, <1>8, <1>9 DEF IInv

\* What a button acts on.
LEMMA SelectedFacts ==
    ASSUME IInv, NEW v \in View, view[v].current # 0
    PROVE  /\ Selected(v) \in Row
           /\ ~picked[v].stale => Selected(v) = picked[v].row
           /\ v = "faultTable" => Known(store["fault"], Selected(v))
<1>1. view[v] \in ViewType /\ ShownOK(v, view[v], picked[v], store["fault"], writes)
  BY DEF IInv, Typed
<1>2. view[v].rows \in Seq(Row) /\ Len(view[v].rows) \in Nat
      /\ DOMAIN view[v].rows = 1..Len(view[v].rows) /\ view[v].current \in Nat
  BY <1>1, LenProperties DEF ViewType
<1>3. view[v].current \in DOMAIN view[v].rows /\ Selected(v) = view[v].rows[view[v].current]
  BY <1>1, <1>2 DEF Selected, ShownOK
<1>4. Selected(v) \in Row
  BY <1>2, <1>3, LenProperties
<1> QED
  BY <1>1, <1>3, <1>4 DEF ShownOK, AllKnown

LEMMA PressInv == ASSUME IInv, NEW op \in DOMAIN Buttons, Press(op) PROVE IInv'
<1> DEFINE b == Buttons[op]
           row == IF b.table = NoView THEN NoRow ELSE Selected(b.table)
           p == IF b.table = NoView THEN [row |-> NoRow, stale |-> FALSE] ELSE picked[b.table]
<1>1. row \in Row /\ p \in PickType /\ (~p.stale => row = p.row)
      /\ (op = "StartDiagnosis" => Known(store["fault"], row))
  <2>1. NoRow \in Row
    BY DEF NoRow, Row
  <2>2. b.table # NoView => b.table \in View /\ view[b.table].current # 0
    BY DEF Press
  <2>3. op = "StartDiagnosis" => b.table = "faultTable" /\ b.table # NoView
    BY ButtonFacts DEF NoView
  <2> HIDE DEF b
  <2>4. CASE b.table = NoView
    <3>1. row = NoRow /\ p = [row |-> NoRow, stale |-> FALSE]
      BY <2>4
    <3> DEFINE none == [row |-> NoRow, stale |-> FALSE]
    <3>2. none \in PickType /\ none.row = NoRow
      BY <2>1 DEF PickType
    <3> HIDE DEF none, p, row
    <3>3. p = none /\ row = NoRow
      BY <3>1 DEF none
    <3> QED
      BY <2>1, <2>3, <2>4, <3>2, <3>3
  <2>5. CASE b.table # NoView
    <3>1. row = Selected(b.table) /\ p = picked[b.table]
      BY <2>5
    <3>2. picked[b.table] \in PickType
      BY <2>2, <2>5 DEF IInv, Typed
    <3> QED
      BY <2>2, <2>3, <2>5, <3>1, <3>2, SelectedFacts
  <2> QED
    BY <2>4, <2>5
<1>2. /\ presses < MaxPresses /\ presses' = presses + 1
      /\ UNCHANGED <<page, auto, filter, view, picked, store, writes>>
      /\ \/ Room(calls, 1) /\ calls' = Append(calls, Act(op, row, p)) /\ UNCHANGED dialog
         \/ /\ dialog' = [op |-> op, row |-> row, picked |-> p.row, stale |-> p.stale]
            /\ UNCHANGED calls
  BY DEF Press
<1> HIDE DEF row, p, b
<1>3. presses' \in 0..MaxPresses
  BY <1>2, BoundsAssumption DEF IInv, Typed
<1>4. CASE Room(calls, 1) /\ calls' = Append(calls, Act(op, row, p)) /\ UNCHANGED dialog
  <2> DEFINE c == Act(op, row, p)
  <2>1. /\ c \in CallType /\ c.op = op /\ c.view = NoView /\ c.row = row /\ c.picked = p.row
        /\ c.stale = p.stale /\ ~c.answered /\ c.at = 0
    BY <1>1, ActFacts
  <2> HIDE DEF c
  <2>2. op # "List" /\ op # Chained
    BY ButtonFacts
  <2>3. c.view # "faultTable" /\ c.at <= writes
    BY <2>1, Begin DEF NoView
  <2>4. CallOK(c, store["fault"], writes)
    BY <1>1, <2>1, <2>2, <2>3 DEF CallOK
  <2>5. CallsInv(calls, view, store["fault"], writes)
    BY DEF IInv
  <2>6. CallsInv(Append(calls, c), view, store["fault"], writes)
    BY <1>4, <2>1, <2>4, <2>5, AppendKeeps, RoomKept
  <2>7. CallsInv(calls', view', store'["fault"], writes')
    BY <1>2, <1>4, <2>6 DEF c
  <2>8. Typed'
    BY <1>2, <1>3, <1>4 DEF IInv, Typed
  <2> QED
    BY <1>2, <1>4, <2>7, <2>8 DEF IInv
<1>5. CASE /\ dialog' = [op |-> op, row |-> row, picked |-> p.row, stale |-> p.stale]
           /\ UNCHANGED calls
  <2>1. p.row \in Row /\ p.stale \in BOOLEAN
    BY <1>1 DEF PickType
  <2>2. dialog' \in DialogType
    BY <1>1, <1>5, <2>1, Zenon DEF DialogType
  <2>3. dialog'.op = op /\ dialog'.row = row /\ dialog'.picked = p.row
    BY <1>5
  <2>4. dialog'.stale = p.stale
    BY <1>5
  <2>5. dialog'.op # "none"
    BY <2>3, ButtonFacts
  <2>6. Typed'
    BY <1>2, <1>3, <2>2, <2>5, <1>5 DEF IInv, Typed
  <2>7. DialogOK(dialog', store'["fault"])
    BY <1>1, <1>2, <2>3, <2>4 DEF DialogOK
  <2> QED
    BY <1>2, <1>5, <2>6, <2>7 DEF IInv
<1> QED
  BY <1>2, <1>4, <1>5

LEMMA CloseDialogInv == ASSUME IInv, CloseDialog PROVE IInv'
<1> DEFINE p == [row |-> dialog.picked, stale |-> dialog.stale]
           c == Act(dialog.op, dialog.row, p)
<1>1. dialog \in DialogType /\ dialog.op # "none" /\ DialogOK(dialog, store["fault"])
  BY DEF CloseDialog, IInv, Typed
<1>2. dialog.op \in DOMAIN Buttons /\ dialog.row \in Row /\ dialog.picked \in Row
      /\ dialog.stale \in BOOLEAN
  BY <1>1 DEF DialogType
<1>3. p \in PickType /\ p.row = dialog.picked /\ p.stale = dialog.stale
  <2>1. p \in PickType
    BY <1>2, Zenon DEF PickType
  <2> QED
    BY <2>1
<1>4. \/ Room(calls, 1) /\ calls' = Append(calls, c)
      \/ UNCHANGED calls
  BY DEF CloseDialog, RowOfDialog
<1> HIDE DEF p
<1>5. /\ c \in CallType /\ c.op = dialog.op /\ c.view = NoView /\ c.row = dialog.row
      /\ c.picked = dialog.picked /\ c.stale = dialog.stale /\ ~c.answered /\ c.at = 0
  BY <1>2, <1>3, ActFacts
<1> HIDE DEF c
<1>6. CallOK(c, store["fault"], writes)
  <2>1. c.op # "List" /\ c.op # Chained
    BY <1>2, <1>5, ButtonFacts
  <2>2. c.view # "faultTable" /\ c.at <= writes
    BY <1>5, Begin DEF NoView
  <2> QED
    BY <1>1, <1>5, <2>1, <2>2 DEF CallOK, DialogOK
<1>7. CallsInv(calls', view, store["fault"], writes)
  <2>1. CallsInv(calls, view, store["fault"], writes)
    BY DEF IInv
  <2>2. CASE Room(calls, 1) /\ calls' = Append(calls, c)
    BY <1>5, <1>6, <2>1, <2>2, AppendKeeps, RoomKept
  <2>3. CASE UNCHANGED calls
    BY <2>1, <2>3
  <2> QED
    BY <1>4, <2>2, <2>3
<1>8. dialog' \in DialogType /\ DialogOK(dialog', store["fault"]) /\ dialog' = NoDialog
  <2>1. NoRow \in Row
    BY DEF NoRow, Row
  <2> QED
    BY <2>1 DEF CloseDialog, NoDialog, DialogType, DialogOK
<1>9. Typed'
  BY <1>8 DEF CloseDialog, IInv, Typed
<1>10. \A v \in View : ShownOK(v, view'[v], picked'[v], store'["fault"], writes')
  BY DEF CloseDialog, IInv
<1>11. DialogOK(dialog', store'["fault"]) /\ CallsInv(calls', view', store'["fault"], writes')
  BY <1>7, <1>8 DEF CloseDialog
<1> QED
  BY <1>9, <1>10, <1>11 DEF IInv

\* Call n is c from now on, the others are as they were.
LEMMA ReplacedFacts ==
    ASSUME NEW cs \in Seq(CallType), NEW n \in DOMAIN cs, NEW c \in CallType
    PROVE  LET new == [cs EXCEPT ![n] = c]
           IN  /\ new \in Seq(CallType) /\ Len(new) = Len(cs) /\ DOMAIN new = DOMAIN cs
               /\ new[n] = c /\ \A i \in DOMAIN cs : i # n => new[i] = cs[i]
<1> DEFINE new == [cs EXCEPT ![n] = c]
<1>1. Len(cs) \in Nat /\ cs \in [1..Len(cs) -> CallType] /\ n \in 1..Len(cs)
  BY LenProperties
<1>2. new \in [1..Len(cs) -> CallType] /\ new[n] = c
      /\ \A i \in DOMAIN cs : i # n => new[i] = cs[i]
  BY <1>1
<1> HIDE DEF new
<1>3. new \in Seq(CallType) /\ Len(new) = Len(cs) /\ DOMAIN new = DOMAIN cs
  BY <1>1, <1>2, ListIsSeq
<1> QED
  BY <1>2, <1>3 DEF new

LEMMA ListingFacts ==
    ASSUME IInv, NEW v \in View, NEW ids
    PROVE  /\ Listing(v, ids) \in Seq(Row)
           /\ v = "faultTable" => AllKnown(store["fault"], Listing(v, ids))
<1> DEFINE list == store[Source[v]]
           rows == RowsIn(list, ids)
<1>1. list \in Seq(Row)
  BY Begin, ViewFacts
<1>2. rows \in Seq(Row) /\ \A i \in DOMAIN rows : \E j \in DOMAIN list : rows[i] = list[j]
  BY <1>1, RowsInFacts
<1>3. Listing(v, ids) = rows
  BY DEF Listing
<1> HIDE DEF rows
<1>4. v = "faultTable" => list = store["fault"]
  BY ViewFacts
<1> HIDE DEF list
<1>5. v = "faultTable" => AllKnown(store["fault"], rows)
  BY <1>2, <1>4 DEF AllKnown, Known
<1> QED
  BY <1>2, <1>3, <1>5

LEMMA AnswerListInv == ASSUME IInv, NEW n \in DOMAIN calls, AnswerList(n) PROVE IInv'
<1> DEFINE body == Listing(calls[n].view, calls[n].filter)
           c == [calls[n] EXCEPT !.answered = TRUE, !.at = writes, !.body = body]
           new == [calls EXCEPT ![n] = c]
<1>1. /\ calls \in Seq(CallType) /\ calls[n] \in CallType /\ CallOK(calls[n], store["fault"], writes)
      /\ writes \in Nat
  BY Begin
<1>2. calls[n].view \in View /\ calls[n].op = "List"
  BY <1>1 DEF AnswerList, CallOK, CallType
<1>3. body \in Seq(Row) /\ (calls[n].view = "faultTable" => AllKnown(store["fault"], body))
  BY <1>2, ListingFacts
<1>4. calls' = new
  BY <1>1 DEF AnswerList
<1> HIDE DEF body
<1>5. c \in CallType
  BY <1>1, <1>3 DEF CallType
<1>6. /\ c.view = calls[n].view /\ c.op = calls[n].op /\ c.waiting = calls[n].waiting
      /\ c.crossed = calls[n].crossed /\ c.at = writes /\ c.body = body
  BY <1>1 DEF CallType
<1> HIDE DEF c
<1>7. CallOK(c, store["fault"], writes)
  BY <1>1, <1>2, <1>3, <1>6 DEF CallOK, Chained
<1>8. view[c.view].at <= c.at
  BY <1>2, <1>6 DEF IInv, ShownOK
<1>9. CallsInv(new, view, store["fault"], writes)
  <2>1. /\ new \in Seq(CallType) /\ Len(new) = Len(calls) /\ DOMAIN new = DOMAIN calls
        /\ new[n] = c /\ \A i \in DOMAIN calls : i # n => new[i] = calls[i]
    BY <1>1, <1>5, ReplacedFacts
  <2>2. CallsInv(calls, view, store["fault"], writes)
    BY DEF IInv
  <2> HIDE DEF new
  <2> QED
    BY <1>6, <1>7, <1>8, <2>1, <2>2, ReplaceKeeps
<1> QED
  BY <1>4, <1>9, CallsStep DEF AnswerList

\* A step that changes the rows, and the requests or not.
LEMMA StoreStep ==
    ASSUME IInv, writes < MaxWrites, writes' = writes + 1, UNCHANGED gui,
           store' \in [Sources -> Seq(Row)], Grows(store["fault"], store'["fault"])
    PROVE  /\ CallsInv(calls, view, store'["fault"], writes')
           /\ CallsInv(calls', view, store'["fault"], writes') => IInv'
<1> USE DEF gui
<1>1. writes \in Nat /\ writes' \in Nat /\ writes <= writes' /\ writes' \in 0..MaxWrites
  BY Begin
<1>2. CallsInv(calls, view, store'["fault"], writes')
  BY <1>1, GrownKeeps DEF IInv
<1>3. Typed'
  BY <1>1 DEF IInv, Typed
<1>4. ASSUME NEW v \in View PROVE ShownOK(v, view'[v], picked'[v], store'["fault"], writes')
  <2>1. ShownOK(v, view[v], picked[v], store["fault"], writes) /\ view[v].at \in Nat
    BY DEF IInv, Typed, ViewType
  <2>2. view[v].at <= writes'
    BY <1>1, <2>1 DEF ShownOK
  <2>3. v = "faultTable" => AllKnown(store'["fault"], view[v].rows)
    BY <2>1 DEF ShownOK, AllKnown, Grows
  <2>4. view'[v] = view[v] /\ picked'[v] = picked[v]
    OBVIOUS
  <2> QED
    BY <2>1, <2>2, <2>3, <2>4 DEF ShownOK
<1>5. DialogOK(dialog', store'["fault"])
  BY DEF IInv, DialogOK, Grows
<1>6. ASSUME CallsInv(calls', view, store'["fault"], writes') PROVE IInv'
  <2>1. CallsInv(calls', view', store'["fault"], writes')
    BY <1>6
  <2> QED
    BY <1>3, <1>4, <1>5, <2>1 DEF IInv
<1> QED
  BY <1>2, <1>6

LEMMA OthersWriteInv == ASSUME IInv, OthersWrite PROVE IInv'
<1>1. PICK v \in View : \/ store' = Created(Source[v], 0, 0)
                        \/ \E i \in DOMAIN store[Source[v]] :
                              store' = Changed(Source[v], store[Source[v]][i].id)
  BY DEF OthersWrite
<1>2. Source[v] \in Sources /\ store \in [Sources -> Seq(Row)] /\ 0 \in Nat
  BY Begin, ViewFacts
<1>3. CASE store' = Created(Source[v], 0, 0)
  <2>1. /\ Created(Source[v], 0, 0) \in [Sources -> Seq(Row)]
        /\ Grows(store["fault"], Created(Source[v], 0, 0)["fault"])
    BY <1>2, CreatedFacts
  <2> QED
    BY <1>3, <2>1, StoreStep DEF OthersWrite
<1>4. CASE \E i \in DOMAIN store[Source[v]] : store' = Changed(Source[v], store[Source[v]][i].id)
  <2>1. PICK id : store' = Changed(Source[v], id)
    BY <1>4
  <2>2. /\ Changed(Source[v], id) \in [Sources -> Seq(Row)]
        /\ Grows(store["fault"], Changed(Source[v], id)["fault"])
    BY <1>2, ChangedFacts
  <2> QED
    BY <2>1, <2>2, StoreStep DEF OthersWrite
<1> QED
  BY <1>1, <1>3, <1>4

LEMMA ExecuteInv == ASSUME IInv, NEW n \in DOMAIN calls, Execute(n) PROVE IInv'
<1> DEFINE op == calls[n].op
           row == calls[n].row
           faults == Done(op, row)["fault"]
           body == IF op = "CreateFaultOfEvent" THEN <<Head(faults)>> ELSE <<>>
           c == [calls[n] EXCEPT !.answered = TRUE, !.body = body]
           new == [calls EXCEPT ![n] = c]
<1>1. /\ calls \in Seq(CallType) /\ calls[n] \in CallType /\ CallOK(calls[n], store["fault"], writes)
      /\ writes \in Nat /\ store \in [Sources -> Seq(Row)] /\ "fault" \in Sources
  BY Begin
<1>2. op \in DOMAIN Buttons \cup {Chained} /\ row \in Row /\ op # "List" /\ calls[n].view = NoView
  BY <1>1 DEF Execute, CallType, CallOK, Ops
<1>3. /\ Done(op, row) \in [Sources -> Seq(Row)]
      /\ Grows(store["fault"], faults)
      /\ op = "CreateFaultOfEvent" =>
            Len(faults) # 0 /\ faults[1].event = row.id /\ Known(faults, faults[1])
  BY <1>1, <1>2, DoneFacts DEF BeginsWith
<1>4. store' = Done(op, row) /\ store'["fault"] = faults
  BY DEF Execute
<1>5. /\ CallsInv(calls, view, faults, writes')
      /\ CallsInv(calls', view, faults, writes') => IInv'
  BY <1>3, <1>4, StoreStep DEF Execute
<1>6. body \in Seq(Row) /\ (op = "CreateFaultOfEvent" => body # <<>> /\ body[1] = faults[1])
  <2>1. faults \in Seq(Row)
    BY <1>1, <1>3
  <2> HIDE DEF faults, op
  <2>2. ASSUME op = "CreateFaultOfEvent" PROVE faults # <<>> /\ Head(faults) = faults[1] /\ faults[1] \in Row
    BY <1>3, <2>1, <2>2, LenProperties
  <2> QED
    BY <2>1, <2>2
<1>7. calls' = IF calls[n].waiting THEN new ELSE RemoveAt(calls, n)
  BY <1>1, <1>4 DEF Execute
<1> HIDE DEF body, faults
<1>8. CASE calls[n].waiting
  <2>1. c \in CallType
    BY <1>1, <1>6 DEF CallType
  <2>2. /\ c.op = op /\ c.view = NoView /\ c.row = row /\ c.picked = calls[n].picked
        /\ c.stale = calls[n].stale /\ c.body = body /\ c.at = calls[n].at
        /\ c.crossed = calls[n].crossed /\ c.view = calls[n].view
    BY <1>1, <1>2 DEF CallType
  <2>3. CallOK(calls[n], faults, writes')
    BY <1>5 DEF CallsInv
  <2> HIDE DEF c, op, row
  <2>4. c.op = "CreateFaultOfEvent" => c.body # <<>> /\ Known(faults, c.body[1]) /\ c.body[1].event = c.row.id
    BY <1>3, <1>6, <2>2
  <2>5. c.view # "faultTable"
    BY <2>2 DEF NoView
  <2>6. CallOK(c, faults, writes')
    BY <1>2, <2>2, <2>3, <2>4, <2>5 DEF CallOK, op, row
  <2>7. /\ new \in Seq(CallType) /\ Len(new) = Len(calls) /\ DOMAIN new = DOMAIN calls
        /\ new[n] = c /\ \A i \in DOMAIN calls : i # n => new[i] = calls[i]
    BY <1>1, <2>1, ReplacedFacts
  <2>8. calls' = new
    BY <1>7, <1>8
  <2> HIDE DEF new
  <2>9. CallsInv(new, view, faults, writes')
    BY <1>5, <2>2, <2>6, <2>7, ReplaceKeeps
  <2> QED
    BY <1>5, <2>8, <2>9
<1>9. CASE ~calls[n].waiting
  BY <1>5, <1>7, <1>9, RemoveKeeps
<1> QED
  BY <1>8, <1>9

LEMMA RemoveStep ==
    ASSUME IInv, NEW n \in DOMAIN calls, calls' = RemoveAt(calls, n), UNCHANGED <<gui, store, writes>>
    PROVE  IInv'
<1>1. CallsInv(RemoveAt(calls, n), view, store["fault"], writes)
  BY RemoveKeeps DEF IInv
<1> QED
  BY <1>1, CallsStep

LEMMA LostInv == ASSUME IInv, NEW n \in DOMAIN calls, Lost(n) PROVE IInv'
BY RemoveStep DEF Lost

LEMMA FinishErrorInv == ASSUME IInv, NEW n \in DOMAIN calls, FinishError(n) PROVE IInv'
BY RemoveStep DEF FinishError

LEMMA TimeOutInv == ASSUME IInv, NEW n \in DOMAIN calls, TimeOut(n) PROVE IInv'
<1>1. CASE calls[n].op = "List" \/ calls[n].answered
  BY <1>1, RemoveStep DEF TimeOut
<1>2. CASE ~(calls[n].op = "List" \/ calls[n].answered)
  <2> DEFINE c == [calls[n] EXCEPT !.waiting = FALSE]
             new == [calls EXCEPT ![n] = c]
  <2>1. /\ calls \in Seq(CallType) /\ calls[n] \in CallType
        /\ CallOK(calls[n], store["fault"], writes)
    BY Begin
  <2>2. calls' = new
    BY <1>2, <2>1 DEF TimeOut
  <2>3. c \in CallType
    BY <2>1 DEF CallType
  <2>4. /\ c.op = calls[n].op /\ c.view = calls[n].view /\ c.row = calls[n].row
        /\ c.picked = calls[n].picked /\ c.stale = calls[n].stale /\ c.body = calls[n].body
        /\ c.at = calls[n].at /\ c.crossed = calls[n].crossed /\ c.answered = calls[n].answered
    BY <2>1 DEF CallType
  <2> HIDE DEF c
  <2>5. CallOK(c, store["fault"], writes) /\ c.view = NoView
    BY <1>2, <2>1, <2>4 DEF CallOK
  <2>6. CallsInv(new, view, store["fault"], writes)
    <3>1. /\ new \in Seq(CallType) /\ Len(new) = Len(calls) /\ DOMAIN new = DOMAIN calls
          /\ new[n] = c /\ \A i \in DOMAIN calls : i # n => new[i] = calls[i]
      BY <2>1, <2>3, ReplacedFacts
    <3>2. CallsInv(calls, view, store["fault"], writes)
      BY DEF IInv
    <3> HIDE DEF new
    <3> QED
      BY <2>4, <2>5, <3>1, <3>2, ReplaceKeeps
  <2> QED
    BY <2>2, <2>6, CallsStep DEF TimeOut
<1> QED
  BY <1>1, <1>2

LEMMA FinishListInv == ASSUME IInv, NEW n \in DOMAIN calls, FinishList(n) PROVE IInv'
<1> DEFINE c == calls[n]
           v == calls[n].view
           shown == [rows |-> c.body, current |-> SelectFirstRow(c.body), at |-> c.at]
           rest == RemoveAt(calls, n)
<1>1. /\ calls \in Seq(CallType) /\ c \in CallType /\ CallOK(c, store["fault"], writes)
      /\ Len(calls) \in Nat /\ DOMAIN calls = 1..Len(calls)
      /\ \A i \in DOMAIN calls : calls[i] \in CallType
  BY Begin
<1>2. v \in View /\ v # NoView /\ c.op = "List" /\ c.body \in Seq(Row) /\ c.at \in Nat
  BY <1>1 DEF FinishList, CallOK, CallType
<1>3. SelectFirstRow(c.body) \in Nat /\ SelectFirstRow(c.body) <= Len(c.body)
  BY <1>2, LenProperties DEF SelectFirstRow
<1>4. /\ view \in [View -> ViewType] /\ picked \in [View -> PickType]
      /\ view' = [view EXCEPT ![v] = shown] /\ picked' = [picked EXCEPT ![v].stale = TRUE]
      /\ calls' = rest /\ UNCHANGED <<page, auto, filter, dialog, presses, store, writes>>
  BY DEF FinishList, IInv, Typed
<1>5. shown \in ViewType
  BY <1>2, <1>3 DEF ViewType
<1>6. shown.rows = c.body /\ shown.current <= Len(c.body) /\ shown.at = c.at
  BY <1>3
<1> HIDE DEF shown
<1>7. view' \in [View -> ViewType] /\ view'[v] = shown /\ \A u \in View : u # v => view'[u] = view[u]
  BY <1>2, <1>4, <1>5
<1>8. picked' \in [View -> PickType] /\ picked'[v].stale
      /\ \A u \in View : u # v => picked'[u] = picked[u]
  BY <1>2, <1>4 DEF PickType
<1>9. Typed'
  BY <1>4, <1>7, <1>8 DEF IInv, Typed
<1>10. ASSUME NEW u \in View PROVE ShownOK(u, view'[u], picked'[u], store'["fault"], writes')
  <2>1. CASE u = v
    BY <1>1, <1>4, <1>6, <1>7, <1>8, <2>1 DEF ShownOK, CallOK
  <2>2. CASE u # v
    BY <1>4, <1>7, <1>8, <2>2 DEF IInv
  <2> QED
    BY <2>1, <2>2
<1>11. DialogOK(dialog', store'["fault"])
  BY <1>4 DEF IInv
<1>12. CallsInv(rest, view, store["fault"], writes)
  BY RemoveKeeps DEF IInv
<1>13. NotOlder(rest, view')
  <2> SUFFICES ASSUME NEW m \in DOMAIN rest, rest[m].view # NoView, rest[m].answered, ~rest[m].crossed
               PROVE  view'[rest[m].view].at <= rest[m].at
    BY DEF NotOlder
  <2>1. rest[m].view # v
    <3>1. /\ DOMAIN rest = 1..(Len(calls) - 1)
          /\ (m < n => rest[m] = calls[m]) /\ (m >= n => rest[m] = calls[m + 1])
      BY <1>1, RemoveAtFacts
    <3>2. \E i \in DOMAIN calls : i # n /\ rest[m] = calls[i]
      BY <1>1, <3>1
    <3>3. Overlap(calls)
      BY DEF IInv, CallsInv
    <3> HIDE DEF rest
    <3> QED
      BY <1>2, <3>2, <3>3 DEF Overlap
  <2>2. view[rest[m].view].at <= rest[m].at
    BY <1>12 DEF CallsInv, NotOlder
  <2>3. rest[m].view \in View
    <3>1. rest \in Seq(CallType)
      BY <1>12 DEF CallsInv
    <3> HIDE DEF rest
    <3>2. rest[m] \in CallType
      BY <3>1, CallFacts
    <3> QED
      BY <3>2 DEF CallType
  <2> QED
    BY <1>7, <2>1, <2>2, <2>3
<1>14. CallsInv(rest, view', store["fault"], writes)
  BY <1>12, <1>13 DEF CallsInv
<1>15. CallsInv(calls', view', store'["fault"], writes')
  BY <1>4, <1>14
<1> QED
  BY <1>9, <1>10, <1>11, <1>15 DEF IInv

LEMMA FinishActInv == ASSUME IInv, NEW n \in DOMAIN calls, FinishAct(n) PROVE IInv'
<1> DEFINE rest == RemoveAt(calls, n)
           faults == store["fault"]
<1>1. /\ calls \in Seq(CallType) /\ calls[n] \in CallType /\ CallOK(calls[n], faults, writes)
      /\ writes \in Nat /\ Len(calls) \in Nat
  BY Begin
<1>2. CallsInv(rest, view, faults, writes) /\ Len(rest) = Len(calls) - 1 /\ Len(calls) <= MaxCalls
  BY RemoveKeeps DEF IInv, CallsInv
<1>3. CASE calls[n].op = "CreateFaultOfEvent"
  <2> DEFINE body == calls[n].body
             row == [Head(body) EXCEPT !.event = calls[n].row.id]
             p == [row |-> NoRow, stale |-> TRUE]
             c == Act(Chained, row, p)
  <2>1. body \in Seq(Row) /\ body # <<>> /\ Known(faults, body[1]) /\ body[1].event = calls[n].row.id
        /\ calls[n].row.id \in Nat
    BY <1>1, <1>3 DEF FinishAct, CallOK, CallType, Row
  <2>2. calls' = Append(rest, c)
    BY <1>3 DEF FinishAct
  <2> HIDE DEF body, rest
  <2>3. Head(body) = body[1] /\ body[1] \in Row
    BY <2>1, LenProperties
  <2>4. row \in Row /\ row.id = body[1].id /\ row.event = body[1].event
    BY <2>1, <2>3 DEF Row
  <2> HIDE DEF row
  <2>5. Known(faults, row)
    BY <2>1, <2>4 DEF Known
  <2>6. p \in PickType /\ p.stale
    BY DEF PickType, NoRow, Row
  <2> HIDE DEF p
  <2>7. /\ c \in CallType /\ c.op = Chained /\ c.view = NoView /\ c.row = row
        /\ c.stale = p.stale /\ ~c.answered /\ c.at = 0
    <3> DEFINE op == Chained
    <3>1. op \in DOMAIN Buttons \cup {Chained} /\ row \in Row /\ p \in PickType
      BY <2>4, <2>6
    <3> HIDE DEF op
    <3>2. /\ Act(op, row, p) \in CallType
          /\ Act(op, row, p).op = op /\ Act(op, row, p).view = NoView
          /\ Act(op, row, p).row = row /\ Act(op, row, p).stale = p.stale
          /\ ~Act(op, row, p).answered /\ Act(op, row, p).at = 0
      BY <3>1, ActFacts
    <3> QED
      BY <3>2 DEF op
  <2> HIDE DEF c
  <2>8. CallOK(c, faults, writes)
    BY <1>1, <2>5, <2>6, <2>7 DEF CallOK, Chained, NoView
  <2>9. Len(rest) < MaxCalls
    BY <1>1, <1>2, BoundsAssumption
  <2>10. CallsInv(Append(rest, c), view, faults, writes)
    BY <1>2, <2>7, <2>8, <2>9, AppendKeeps
  <2> QED
    BY <2>2, <2>10, CallsStep DEF FinishAct
<1>4. CASE calls[n].op # "CreateFaultOfEvent"
  <2> DEFINE views == Then(calls[n].op)
  <2>1. views \in SUBSET View
    BY DEF Then
  <2>2. Room(rest, Cardinality(views)) /\ calls' = WithLists(rest, views)
    BY <1>4 DEF FinishAct
  <2>3. filter \in [View -> Filter]
    BY DEF IInv, Typed
  <2> HIDE DEF views, rest
  <2>4. CallsInv(WithLists(rest, views), view, faults, writes)
    BY <1>1, <1>2, <2>1, <2>2, <2>3, ListsKeep
  <2> QED
    BY <2>2, <2>4, CallsStep DEF FinishAct
<1> QED
  BY <1>3, <1>4

LEMMA NextInv == IInv /\ [Next]_vars => IInv'
<1> SUFFICES ASSUME IInv, [Next]_vars PROVE IInv'
  OBVIOUS
<1>1. CASE Step
  <2>1. CASE Tick
    BY <2>1, TickInv
  <2>2. CASE CloseDialog
    BY <2>2, CloseDialogInv
  <2>3. CASE \E views \in RefreshButtons(page) : ClickRefresh(views)
    BY <2>3, ClickRefreshInv
  <2>4. CASE \E v \in View : \E i \in DOMAIN view[v].rows : Pick(v, i)
    BY <2>4, PickInv
  <2>5. CASE \E op \in DOMAIN Buttons : Press(op)
    BY <2>5, PressInv
  <2>6. ASSUME NEW n \in DOMAIN calls, Turn(n) PROVE IInv'
    BY <2>6, AnswerListInv, ExecuteInv, LostInv, FinishListInv, FinishActInv, FinishErrorInv,
       TimeOutInv DEF Turn, Reply
  <2> QED
    BY <1>1, <2>1, <2>2, <2>3, <2>4, <2>5, <2>6 DEF Step
<1>2. CASE ToggleAuto
  BY <1>2, ToggleAutoInv
<1>3. CASE OthersWrite
  BY <1>3, OthersWriteInv
<1>4. CASE \E p \in Pages : SwitchPage(p)
  BY <1>4, SwitchPageInv
<1>5. CASE \E asked \in [View -> Filter] : SetFilter(asked)
  BY <1>5, SetFilterInv
<1>6. CASE UNCHANGED vars
  BY <1>6 DEF vars, IInv, Typed
<1> QED
  BY <1>1, <1>2, <1>3, <1>4, <1>5, <1>6 DEF Next

LEMMA Inductive == Spec => []IInv
BY InitInv, NextInv, PTL DEF Spec

-----------------------------------------------------------------------------
(* Theorems *)

\* TypeOK: every row, call and dialog of the window is one of the program's, there are
\* never more calls than there is room for, and a created fault comes with its row.
THEOREM TypeCorrect == Spec => []TypeOK
<1>1. IInv => TypeOK
  <2> SUFFICES ASSUME IInv PROVE TypeOK
    OBVIOUS
  <2>1. \A v \in View : /\ view[v].rows \in Seq(Row) /\ view[v].current \in 0..Len(view[v].rows)
                        /\ view[v].at \in 0..MaxWrites
                        /\ picked[v].row \in Row /\ picked[v].stale \in BOOLEAN
    <3> SUFFICES ASSUME NEW v \in View
                 PROVE  /\ view[v].rows \in Seq(Row) /\ view[v].current \in 0..Len(view[v].rows)
                        /\ view[v].at \in 0..MaxWrites
                        /\ picked[v].row \in Row /\ picked[v].stale \in BOOLEAN
      OBVIOUS
    <3>1. view[v] \in ViewType /\ picked[v] \in PickType
          /\ ShownOK(v, view[v], picked[v], store["fault"], writes)
      BY DEF IInv, Typed
    <3>2. view[v].rows \in Seq(Row) /\ Len(view[v].rows) \in Nat /\ view[v].current \in Nat
          /\ view[v].at \in Nat /\ picked[v].row \in Row
      BY <3>1, LenProperties DEF ViewType, PickType
    <3>3. picked[v].stale \in BOOLEAN
      BY <3>1, Zenon DEF PickType
    <3> QED
      BY <3>1, <3>2, <3>3, Begin DEF ShownOK
  <2>2. ASSUME NEW n \in DOMAIN calls
        PROVE  /\ calls[n].op \in DOMAIN Buttons \cup {Chained, "List"}
               /\ calls[n].view \in View \cup {NoView}
               /\ calls[n].op = "List" <=> calls[n].view # NoView
               /\ calls[n].row \in Row /\ calls[n].picked \in Row
               /\ calls[n].body \in Seq(Row) /\ calls[n].at \in 0..MaxWrites
               /\ calls[n].answered /\ calls[n].op = "CreateFaultOfEvent" => calls[n].body # <<>>
    <3>1. calls[n] \in CallType /\ CallOK(calls[n], store["fault"], writes)
      BY Begin
    <3>2. calls[n].at \in 0..MaxWrites
      BY <3>1, Begin DEF CallType, CallOK
    <3> QED
      BY <3>1, <3>2 DEF CallType, CallOK, Ops
  <2>3. dialog.op \in DOMAIN Buttons \cup {"none"} /\ dialog.row \in Row /\ dialog.picked \in Row
    BY DEF IInv, Typed, DialogType
  <2> QED
    BY <2>1, <2>2, <2>3 DEF TypeOK, IInv, Typed, CallsInv
<1> QED
  BY <1>1, Inductive, PTL

\* ActsAsShown: a button acts on the row that was picked, unless its table was filled
\* again before it was pressed; a diagnosis names a fault of the service with its event.
THEOREM ActsAsShownHolds == Spec => []ActsAsShown
<1>1. IInv => ActsAsShown
  <2> SUFFICES ASSUME IInv, NEW n \in DOMAIN calls
               PROVE  /\ calls[n].op \in DOMAIN Buttons /\ ~calls[n].stale =>
                             calls[n].row = calls[n].picked
                      /\ calls[n].op \in {"StartDiagnosis", Chained} =>
                             \E f \in Range(store.fault) :
                                 f.id = calls[n].row.id /\ f.event = calls[n].row.event
    BY DEF ActsAsShown
  <2>1. CallOK(calls[n], store["fault"], writes)
    BY Begin
  <2>2. calls[n].op \in DOMAIN Buttons /\ ~calls[n].stale => calls[n].row = calls[n].picked
    BY <2>1, ButtonFacts DEF CallOK
  <2>3. ASSUME calls[n].op \in {"StartDiagnosis", Chained}
        PROVE  \E f \in Range(store.fault) :
                   f.id = calls[n].row.id /\ f.event = calls[n].row.event
    <3>1. Known(store["fault"], calls[n].row)
      BY <2>1, <2>3 DEF CallOK
    <3>2. store.fault = store["fault"]
      OBVIOUS
    <3> QED
      BY <3>1, <3>2 DEF Known, Range
  <2> QED
    BY <2>2, <2>3
<1> QED
  BY <1>1, Inductive, PTL

\* NewerStays: only the reply of a list that has crossed another of its view takes the
\* view back to an older state of the services.
THEOREM NewerStaysHolds == Spec => NewerStays
<1>1. ASSUME IInv, [Next]_vars, NEW v \in View, view'[v].at < view[v].at
      PROVE  \E n \in Waiting(v) : calls[n].crossed /\ calls' = RemoveAt(calls, n)
  <2>1. view \in [View -> ViewType] /\ view[v].at \in Nat /\ v # NoView
    BY <1>1, ViewFacts DEF IInv, Typed, ViewType
  <2>2. view'[v].at # view[v].at /\ ~UNCHANGED view
    BY <1>1, <2>1
  <2>3. PICK n \in DOMAIN calls : FinishList(n)
    <3>1. ASSUME NEW u \in View, NEW i \in DOMAIN view[u].rows PROVE ~Pick(u, i)
      <4> SUFFICES ASSUME Pick(u, i) PROVE FALSE
        OBVIOUS
      <4>1. view' = [view EXCEPT ![u].current = i] /\ view[u] \in ViewType
        BY <2>1 DEF Pick
      <4>2. view'[v].at = view[v].at
        BY <2>1, <4>1 DEF ViewType
      <4> QED
        BY <2>2, <4>2
    <3>2. \A n \in DOMAIN calls : Turn(n) => FinishList(n)
      BY <2>2 DEF Turn, Reply, AnswerList, Execute, Lost, FinishAct, FinishError, TimeOut, gui
    <3>3. ~Tick /\ ~CloseDialog /\ ~ToggleAuto /\ ~OthersWrite
      BY <2>2 DEF Tick, CloseDialog, ToggleAuto, OthersWrite, gui
    <3>4. /\ \A views \in RefreshButtons(page) : ~ClickRefresh(views)
          /\ \A op \in DOMAIN Buttons : ~Press(op)
      BY <2>2 DEF ClickRefresh, Press, gui
    <3>5. /\ \A p \in Pages : ~SwitchPage(p)
          /\ \A asked \in [View -> Filter] : ~SetFilter(asked)
      BY <2>2 DEF SwitchPage, SetFilter
    <3>6. ~UNCHANGED vars
      BY <2>2 DEF vars
    <3>7. Next
      BY <1>1, <3>6
    <3> QED
      BY <3>1, <3>2, <3>3, <3>4, <3>5, <3>7 DEF Next, Step
  <2>4. calls[n] \in CallType /\ CallOK(calls[n], store["fault"], writes)
        /\ calls[n].op = "List" /\ calls[n].answered /\ calls' = RemoveAt(calls, n)
    BY <1>1, <2>3, Begin DEF FinishList
  <2>5. calls[n].view = v /\ view'[v].at = calls[n].at
    <3>1. view' = [view EXCEPT ![calls[n].view] =
                      [rows |-> calls[n].body, current |-> SelectFirstRow(calls[n].body),
                       at |-> calls[n].at]]
      BY <2>3 DEF FinishList
    <3> QED
      BY <2>1, <2>2, <3>1
  <2>6. n \in Waiting(v)
    BY <2>4, <2>5 DEF Waiting, ListsOf, CallOK
  <2>7. calls[n].crossed
    <3>1. NotOlder(calls, view) /\ calls[n].at \in Nat
      BY <1>1, <2>4 DEF IInv, CallsInv, CallType
    <3>2. ~(view[v].at <= calls[n].at)
      BY <1>1, <2>1, <2>5, <3>1
    <3> QED
      BY <2>1, <2>4, <2>5, <3>1, <3>2 DEF NotOlder
  <2> QED
    BY <2>4, <2>6, <2>7
<1>2. IInv /\ [Next]_vars =>
          [\A v \in View :
              view'[v].at < view[v].at =>
                  \E n \in Waiting(v) : calls[n].crossed /\ calls' = RemoveAt(calls, n)]_vars
  BY <1>1
<1> QED
  BY <1>2, Inductive, PTL DEF Spec, NewerStays
=============================================================================
