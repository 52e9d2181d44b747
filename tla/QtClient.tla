------------------------------ MODULE QtClient ------------------------------
(***************************************************************************)
(* The desktop client (qt_client): the pages of MainWindow, the tables     *)
(* they show, the timer that refreshes the current page, the buttons, and  *)
(* HttpClient, whose replies come back to the one GUI thread.              *)
(*                                                                         *)
(* There are no threads to race, but a callback runs whenever its reply    *)
(* happens to arrive: requests overlap, a request is given up after        *)
(* requestTimeoutMs, and QDialog::exec runs the event loop, so the timer   *)
(* and the callbacks of older requests run while a dialog is open.         *)
(* fillTable replaces a table and selects its first row.                   *)
(*                                                                         *)
(* Outside qt_client, modelled from its use: a service holds rows, newest  *)
(* first; a list call answers with them, the other calls change them, and  *)
(* any call may be refused. What else changes the rows is the other users  *)
(* and the devices.                                                        *)
(***************************************************************************)
EXTENDS Integers, Sequences, FiniteSets, SequencesExt

CONSTANTS
    View,       \* the views that are modelled: members of AnyView
    Filter,     \* what the filter fields of a page may ask for: sets of row ids
    Stored,     \* the rows of the services when the window is opened
    MaxCalls,   \* requests outstanding at a time
    MaxWrites,  \* changes of the services' rows
    MaxPresses  \* buttons pressed, the refresh buttons left out

ASSUME BoundsAssumption == MaxCalls \in Nat /\ MaxWrites \in Nat /\ MaxPresses \in Nat
ASSUME FilterAssumption == Filter \subseteq SUBSET Nat

-----------------------------------------------------------------------------
(* The pages *)

\* What each view lists; the labels of the overview are views as well.
Source ==
    [deviceCountLabel |-> "device", dashboardTelemetryTable |-> "telemetry",
     dashboardEventsTable |-> "event", reportCountLabel |-> "report",
     deviceTable |-> "device", telemetryTable |-> "telemetry", eventTable |-> "event",
     logTable |-> "log", knowledgeTable |-> "document", knowledgeSearchTable |-> "document",
     faultTable |-> "fault", reportTable |-> "report",
     gatewayStatusLabel |-> "gateway", gatewayDeviceTable |-> "gateway",
     gatewayStatsTable |-> "gateway"]
AnyView == DOMAIN Source
Sources == {Source[v] : v \in AnyView}
ASSUME ViewAssumption == View \subseteq AnyView

Pages == {"dashboard", "devices", "telemetry", "events", "logs", "knowledge", "diagnosis", "gateway"}

\* Mutant: the diagnosis page refreshes its faults only.
RefreshedWithoutReports(page) ==
    View \cap CASE page = "events"    -> {"eventTable"}
                [] page = "diagnosis" -> {"faultTable"}
                [] OTHER              -> {}

\* refreshCurrentPage.
Refreshed(page) ==
    View \cap
        CASE page = "dashboard" -> {"deviceCountLabel", "dashboardTelemetryTable",
                                    "dashboardEventsTable", "reportCountLabel"}
          [] page = "devices"   -> {"deviceTable"}
          [] page = "telemetry" -> {"telemetryTable"}
          [] page = "events"    -> {"eventTable"}
          [] page = "logs"      -> {"logTable"}
          [] page = "knowledge" -> {"knowledgeTable", "knowledgeSearchTable"}
          [] page = "diagnosis" -> {"faultTable", "reportTable"}
          [] page = "gateway"   -> {"gatewayStatusLabel", "gatewayDeviceTable", "gatewayStatsTable"}

\* The buttons: the page, the table whose selected row the handler reads (or NoView),
\* what it asks in a dialog, and what is refreshed when the call has succeeded.
NoView == "none"
Button(page, table, asks, then) == [page |-> page, table |-> table, asks |-> asks, then |-> then]
Buttons ==
    [CreateDevice            |-> Button("devices", NoView, "form", {"deviceTable"}),
     UpdateDevice            |-> Button("devices", "deviceTable", "form", {"deviceTable"}),
     UpdateEventStatus       |-> Button("events", "eventTable", "nothing", {"eventTable"}),
     CreateFaultOfEvent      |-> Button("events", "eventTable", "note", {}),
     CreateKnowledgeDocument |-> Button("knowledge", NoView, "form", {"knowledgeTable"}),
     RequestKnowledgeIndex   |-> Button("knowledge", "knowledgeTable", "nothing", {"knowledgeTable"}),
     CreateFaultRecord       |-> Button("diagnosis", NoView, "form", {"faultTable"}),
     StartDiagnosis          |-> Button("diagnosis", "faultTable", "note", {"reportTable"}),
     ConfirmDiagnosisReport  |-> Button("diagnosis", "reportTable", "nothing", {"reportTable"})]

\* The call the callback of CreateFaultOfEvent makes; it refreshes both tables.
Chained == "StartDiagnosisOfEvent"
Then(op) == View \cap (IF op = Chained THEN {"faultTable", "reportTable"} ELSE Buttons[op].then)

-----------------------------------------------------------------------------
(* Rows, calls and dialogs *)

\* ver counts the changes of a row; event and fault are the ids of the event and the
\* fault it is about (0: none).
Row == [id : Nat, ver : Nat, event : Nat, fault : Nat]
NoRow == [id |-> 0, ver |-> 0, event |-> 0, fault |-> 0]
ASSUME StoredAssumption == Stored \in [Sources -> Seq(Row)]

\* A call of the services: "List" for a view and with its filter, or a button's op with
\* the row its request was made from. picked and stale are history: the row the engineer
\* picked before he pressed the button, and whether its table has been filled again in
\* between. body, at: the rows of the reply, and the number of changes there had been
\* when the service made it; crossed: another list of this view was waited for meanwhile.
Call == [op |-> "List", view |-> NoView, row |-> NoRow, picked |-> NoRow, stale |-> FALSE,
         filter |-> {}, answered |-> FALSE, waiting |-> TRUE, body |-> <<>>, at |-> 0,
         crossed |-> FALSE]
NoDialog == [op |-> "none", row |-> NoRow, picked |-> NoRow, stale |-> FALSE]

VARIABLES
    page,     \* stack_->currentIndex()
    auto,     \* autoRefreshCheck_
    filter,   \* the filter fields
    view,     \* the rows of each view, the current row (0: none), at: as in a call
    picked,   \* history: the row last picked in a view, and whether it was filled since
    dialog,   \* the dialog that is open
    calls,    \* the requests that are outstanding, in the order they were sent
    store,    \* the rows of the services
    writes, presses

vars == <<page, auto, filter, view, picked, dialog, calls, store, writes, presses>>
gui == <<page, auto, filter, view, picked, dialog, presses>>

TypeOK ==
    /\ page \in Pages /\ auto \in BOOLEAN
    /\ filter \in [View -> Filter]
    /\ \A v \in View : /\ view[v].rows \in Seq(Row)
                       /\ view[v].current \in 0..Len(view[v].rows)
                       /\ view[v].at \in 0..MaxWrites
                       /\ picked[v].row \in Row /\ picked[v].stale \in BOOLEAN
    /\ dialog.op \in DOMAIN Buttons \cup {"none"} /\ dialog.row \in Row /\ dialog.picked \in Row
    /\ Len(calls) <= MaxCalls
    /\ \A n \in DOMAIN calls :
          /\ calls[n].op \in DOMAIN Buttons \cup {Chained, "List"}
          /\ calls[n].view \in View \cup {NoView}
          /\ calls[n].op = "List" <=> calls[n].view # NoView
          /\ calls[n].row \in Row /\ calls[n].picked \in Row
          /\ calls[n].body \in Seq(Row) /\ calls[n].at \in 0..MaxWrites
          /\ calls[n].answered /\ calls[n].op = "CreateFaultOfEvent" => calls[n].body # <<>>
    /\ store \in [Sources -> Seq(Row)]
    /\ writes \in 0..MaxWrites /\ presses \in 0..MaxPresses

-----------------------------------------------------------------------------
(* HttpClient::postJson *)

\* The lists that are waited for, of a view.
ListsOf(v, cs) == {n \in DOMAIN cs : cs[n].view = v /\ cs[n].waiting}
Waiting(v) == ListsOf(v, calls)

List(v, cs) == [Call EXCEPT !.view = v, !.filter = filter[v], !.crossed = ListsOf(v, cs) # {}]
Act(op, row, p) == [Call EXCEPT !.op = op, !.row = row, !.picked = p.row, !.stale = p.stale]

\* cs, and a list call of each of the views.
WithLists(cs, views) ==
    [n \in DOMAIN cs |-> IF \E v \in views : n \in ListsOf(v, cs)
                         THEN [cs[n] EXCEPT !.crossed = TRUE] ELSE cs[n]]
    \o [n \in 1..Cardinality(views) |-> List(SetToSeq(views)[n], cs)]
Room(cs, n) == Len(cs) + n <= MaxCalls

-----------------------------------------------------------------------------
(* The window *)

EmptyWindow ==
    /\ auto = TRUE /\ dialog = NoDialog
    /\ view = [v \in View |-> [rows |-> <<>>, current |-> 0, at |-> 0]]
    /\ picked = [v \in View |-> [row |-> NoRow, stale |-> TRUE]]

\* refreshAll leaves out the logs and the search.
RefreshedFirst == View \ {"logTable", "knowledgeSearchTable"}
ASSUME RefreshedFirstAssumption == Cardinality(RefreshedFirst) <= MaxCalls

Init ==
    /\ page = "dashboard" /\ EmptyWindow
    /\ filter \in [View -> Filter]
    /\ store = Stored /\ writes = 0 /\ presses = 0
    /\ calls = WithLists(<<>>, RefreshedFirst)

Refresh(views) ==
    /\ Room(calls, Cardinality(views))
    /\ calls' = WithLists(calls, views)

\* The timer runs from the start and is never stopped; a dialog does not hold it up.
Tick ==
    /\ auto
    /\ Refresh(Refreshed(page))
    /\ UNCHANGED <<gui, store, writes>>

\* A dialog is modal: until it is closed the engineer reaches nothing else.
Idle == dialog = NoDialog

\* The button above the pages, and those of the pages: the knowledge page has two.
RefreshButtons(p) ==
    {Refreshed(p)} \cup
        IF p = "knowledge" THEN {View \cap {v} : v \in {"knowledgeTable", "knowledgeSearchTable"}}
        ELSE {}

ClickRefresh(views) ==
    /\ Idle
    /\ Refresh(views)
    /\ UNCHANGED <<gui, store, writes>>

SwitchPage(p) ==
    /\ Idle /\ p # page
    /\ page' = p
    /\ Refresh(Refreshed(p))
    /\ UNCHANGED <<auto, filter, view, picked, dialog, presses, store, writes>>

ToggleAuto ==
    /\ Idle
    /\ auto' = ~auto
    /\ UNCHANGED <<page, filter, view, picked, dialog, presses, calls, store, writes>>

\* Typing into the filter fields of the page sends nothing. (The faults and the reports
\* share one.)
SetFilter(asked) ==
    /\ Idle /\ asked # filter
    /\ \A v \in View \ Refreshed(page) : asked[v] = filter[v]
    /\ filter' = asked
    /\ UNCHANGED <<page, auto, view, picked, dialog, presses, calls, store, writes>>

Pick(v, i) ==
    /\ Idle /\ v \in Refreshed(page) /\ i \in DOMAIN view[v].rows
    /\ view' = [view EXCEPT ![v].current = i]
    /\ picked' = [picked EXCEPT ![v] = [row |-> view[v].rows[i], stale |-> FALSE]]
    /\ UNCHANGED <<page, auto, filter, dialog, presses, calls, store, writes>>

-----------------------------------------------------------------------------
(* The buttons *)

Selected(v) == IF view[v].current = 0 THEN NoRow ELSE view[v].rows[view[v].current]

\* selectedObject, and the early return when there is none. The row is copied before
\* the dialog is opened.
Press(op) ==
    LET b == Buttons[op]
        row == IF b.table = NoView THEN NoRow ELSE Selected(b.table)
        p == IF b.table = NoView THEN [row |-> NoRow, stale |-> FALSE] ELSE picked[b.table]
    IN  /\ Idle /\ page = b.page /\ b.table \in View \cup {NoView}
        /\ b.table # NoView => view[b.table].current # 0
        /\ presses < MaxPresses
        /\ presses' = presses + 1
        /\ IF b.asks = "nothing"
           THEN /\ Room(calls, 1)
                /\ calls' = Append(calls, Act(op, row, p))
                /\ UNCHANGED dialog
           ELSE /\ dialog' = [op |-> op, row |-> row, picked |-> p.row, stale |-> p.stale]
                /\ UNCHANGED calls
        /\ UNCHANGED <<page, auto, filter, view, picked, store, writes>>

\* Mutant: the row is read again when the dialog is closed.
RowWhenClosed == LET v == Buttons[dialog.op].table IN IF v = NoView THEN NoRow ELSE Selected(v)
RowOfDialog == dialog.row

\* The dialog is closed. A form that is cancelled sends nothing; QInputDialog::getText
\* is not asked how it was closed, so a note is sent either way.
CloseDialog ==
    /\ dialog # NoDialog
    /\ \/ /\ Room(calls, 1)
          /\ calls' = Append(calls, Act(dialog.op, RowOfDialog,
                                        [row |-> dialog.picked, stale |-> dialog.stale]))
       \/ Buttons[dialog.op].asks = "form" /\ UNCHANGED calls
    /\ dialog' = NoDialog
    /\ UNCHANGED <<page, auto, filter, view, picked, presses, store, writes>>

-----------------------------------------------------------------------------
(* The services *)

\* The rows, after op was done with a row as `row' shows it: a new one in front, a new
\* version of the one it names, or none.
Created(src, event, fault) ==
    [store EXCEPT ![src] = <<[id |-> Len(store[src]) + 1, ver |-> 0, event |-> event,
                              fault |-> fault]>> \o @]
Changed(src, id) ==
    LET list == store[src]
    IN  [store EXCEPT ![src] = [i \in DOMAIN list |->
            IF list[i].id = id THEN [list[i] EXCEPT !.ver = @ + 1] ELSE list[i]]]
Done(op, row) ==
    CASE op = "CreateDevice"                  -> Created("device", 0, 0)
      [] op = "UpdateDevice"                  -> Changed("device", row.id)
      [] op = "UpdateEventStatus"             -> Changed("event", row.id)
      [] op = "CreateFaultOfEvent"            -> Created("fault", row.id, 0)
      [] op = "CreateKnowledgeDocument"       -> Created("document", 0, 0)
      [] op = "RequestKnowledgeIndex"         -> store
      [] op = "CreateFaultRecord"             -> Created("fault", 0, 0)
      [] op \in {"StartDiagnosis", Chained}   -> Created("report", row.event, row.id)
      [] op = "ConfirmDiagnosisReport"        -> Changed("report", row.id)

\* The rows of the list whose ids are asked for, in their order.
RowsIn(list, ids) ==
    LET found[i \in 0..Len(list)] ==
            IF i = 0 THEN <<>>
            ELSE IF list[i].id \in ids THEN Append(found[i - 1], list[i]) ELSE found[i - 1]
    IN  found[Len(list)]

Listing(v, f) == RowsIn(store[Source[v]], f)

AnswerList(n) ==
    /\ calls[n].op = "List" /\ ~calls[n].answered
    /\ calls' = [calls EXCEPT ![n].answered = TRUE, ![n].at = writes,
                              ![n].body = Listing(calls[n].view, calls[n].filter)]
    /\ UNCHANGED <<gui, store, writes>>

\* A call nobody waits for any more is done all the same.
Execute(n) ==
    /\ calls[n].op # "List" /\ ~calls[n].answered
    /\ writes < MaxWrites
    /\ writes' = writes + 1
    /\ store' = Done(calls[n].op, calls[n].row)
    /\ calls' = IF calls[n].waiting
                THEN [calls EXCEPT ![n].answered = TRUE,
                                   ![n].body = IF calls[n].op = "CreateFaultOfEvent"
                                               THEN <<Head(store'.fault)>> ELSE <<>>]
                ELSE RemoveAt(calls, n)
    /\ UNCHANGED gui

\* A call nobody waits for any more never arrives, or is refused.
Lost(n) ==
    /\ ~calls[n].waiting
    /\ calls' = RemoveAt(calls, n)
    /\ UNCHANGED <<gui, store, writes>>

\* Others: a new event or report comes in, a row is changed.
OthersWrite ==
    /\ writes < MaxWrites
    /\ writes' = writes + 1
    /\ \E v \in View :
          \/ store' = Created(Source[v], 0, 0)
          \/ \E i \in DOMAIN store[Source[v]] : store' = Changed(Source[v], store[Source[v]][i].id)
    /\ UNCHANGED <<gui, calls>>

-----------------------------------------------------------------------------
(* QNetworkReply::finished, and the callbacks *)

\* Mutant: the first row is selected, if there is one or not.
SelectFirstRowUnchecked(rows) == 1
SelectFirstRow(rows) == IF rows = <<>> THEN 0 ELSE 1

\* onSuccess of a list: fillTable.
FinishList(n) ==
    /\ calls[n].op = "List" /\ calls[n].answered
    /\ view' = [view EXCEPT ![calls[n].view] =
                    [rows |-> calls[n].body, current |-> SelectFirstRow(calls[n].body),
                     at |-> calls[n].at]]
    /\ picked' = [picked EXCEPT ![calls[n].view].stale = TRUE]
    /\ calls' = RemoveAt(calls, n)
    /\ UNCHANGED <<page, auto, filter, dialog, presses, store, writes>>

FinishAct(n) ==
    LET rest == RemoveAt(calls, n) IN
    /\ calls[n].op # "List" /\ calls[n].answered
    /\ IF calls[n].op = "CreateFaultOfEvent"
       THEN calls' = Append(rest, Act(Chained, [Head(calls[n].body) EXCEPT !.event = calls[n].row.id],
                                      [row |-> NoRow, stale |-> TRUE]))
       ELSE /\ Room(rest, Cardinality(Then(calls[n].op)))
            /\ calls' = WithLists(rest, Then(calls[n].op))
    /\ UNCHANGED <<gui, store, writes>>

\* No connection, an error of the service, or no answer that is a JSON object: showError
\* sets the label, and nothing else.
FinishError(n) ==
    /\ calls[n].waiting /\ ~calls[n].answered
    /\ calls' = RemoveAt(calls, n)
    /\ UNCHANGED <<gui, store, writes>>

\* Mutant: the timer ends the waiting, and leaves the reply alone.
TimeOutWithoutAbort(n) ==
    /\ calls[n].waiting
    /\ calls' = [calls EXCEPT ![n].waiting = FALSE]
    /\ UNCHANGED <<gui, store, writes>>

\* The timer of the request aborts the reply: finished with an error. A reply on its
\* way is lost; a request that has been sent may be served later.
TimeOut(n) ==
    /\ calls[n].waiting
    /\ calls' = IF calls[n].op = "List" \/ calls[n].answered
                THEN RemoveAt(calls, n)
                ELSE [calls EXCEPT ![n].waiting = FALSE]
    /\ UNCHANGED <<gui, store, writes>>

-----------------------------------------------------------------------------
Reply(n) == FinishList(n) \/ FinishAct(n) \/ FinishError(n) \/ TimeOut(n)

Turn(n) == AnswerList(n) \/ Execute(n) \/ Lost(n) \/ Reply(n)

Step ==
    \/ Tick \/ CloseDialog
    \/ \E views \in RefreshButtons(page) : ClickRefresh(views)
    \/ \E v \in View : \E i \in DOMAIN view[v].rows : Pick(v, i)
    \/ \E op \in DOMAIN Buttons : Press(op)
    \/ \E n \in DOMAIN calls : Turn(n)

Next ==
    \/ Step \/ ToggleAuto \/ OthersWrite
    \/ \E p \in Pages : SwitchPage(p)
    \/ \E asked \in [View -> Filter] : SetFilter(asked)

\* The event loop runs: the timer fires, and the oldest request is over, by its own
\* timer at the latest. Then it is lost, if it is not served.
Oldest == calls # <<>> /\ (Reply(1) \/ Lost(1))
Fairness == WF_vars(Tick) /\ WF_vars(Oldest)

Spec == Init /\ [][Next]_vars
FairSpec == Spec /\ Fairness

-----------------------------------------------------------------------------
(* Properties *)

\* A button acts on the row the engineer picked, as it was shown to him: unless the
\* table was filled again before he pressed it (then it is the first row), whatever
\* refreshes fill the table while the dialog of the button is open. The diagnosis that
\* the callback of a created fault starts, or the engineer starts for a fault, names
\* that fault together with its own event.
ActsAsShown ==
    \A n \in DOMAIN calls :
        /\ calls[n].op \in DOMAIN Buttons /\ ~calls[n].stale => calls[n].row = calls[n].picked
        /\ calls[n].op \in {"StartDiagnosis", Chained} =>
              \E f \in Range(store.fault) : f.id = calls[n].row.id /\ f.event = calls[n].row.event

\* A view goes back to an older state of the services only by the reply of a list that
\* overlapped another of the same view: a request that was given up never fills it.
NewerStays ==
    [][\A v \in View :
          view'[v].at < view[v].at =>
              \E n \in Waiting(v) : calls[n].crossed /\ calls' = RemoveAt(calls, n)]_vars

\* docs/05_qt_frontend_development_guide.md:633: when a service is unavailable for
\* a short time the client recovers. A view whose page stays open with automatic refresh
\* and an unchanged filter comes to show the services' rows once these stand still, and
\* goes on showing them: overlapping, lost, refused and outdated replies notwithstanding,
\* provided the service goes on answering some of the lists it is asked for.
Answering(v) ==
    []<>(Waiting(v) # {}) => []<><<\E n \in Waiting(v) : FinishList(n)>>_vars
CatchesUp(v, p) ==
    /\ <>[](page = p /\ auto)
    /\ <>[][UNCHANGED filter]_vars
    /\ Answering(v)
    => <>[](view[v].rows = Listing(v, filter[v]))
=============================================================================
