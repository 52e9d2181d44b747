----------------------------- MODULE MCQtClient -----------------------------
(* An instance of QtClient for TLC: the pages of the events and the diagnoses. *)
EXTENDS QtClient

\* An event, a fault of it and a report of the fault.
Rows(event, fault) == <<[id |-> 1, ver |-> 0, event |-> event, fault |-> fault]>>
StoredRows ==
    [src \in Sources |-> CASE src = "event"  -> Rows(0, 0) [] src = "fault" -> Rows(1, 0)
                           [] src = "report" -> Rows(1, 1) [] OTHER -> <<>>]

\* What happens in one behaviour: the engineer opens the window, goes to a page, filters
\* the events and turns the refreshes off and on; or he has gone to a page before any
\* service was there, picks a row and presses a button, and others write a row that is
\* listed there.
Opened == [page |-> "dashboard", written |-> MaxWrites, pressed |-> MaxPresses]
On(p, written) == [page |-> p, written |-> written, pressed |-> 0]
Workload == {Opened, On("events", 0), On("events", 1), On("diagnosis", 1)}

MCInit ==
    /\ \E w \in Workload : page = w.page /\ writes = w.written /\ presses = w.pressed
    /\ EmptyWindow /\ filter = [v \in View |-> {1, 2}] /\ store = StoredRows
    /\ calls = IF page = "dashboard" THEN WithLists(<<>>, RefreshedFirst) ELSE <<>>

Browsing == page = "events" /\ store = StoredRows /\ writes = MaxWrites
Filters == {asked \in [View -> Filter] : \A v \in View \ {"eventTable"} : asked[v] = filter[v]}
Listed == [events |-> "event", diagnosis |-> "report"]

MCNext ==
    \/ Step
    \/ Browsing /\ ToggleAuto
    \/ Browsing /\ \E asked \in Filters : SetFilter(asked)
    \/ page = "dashboard" /\ \E p \in DOMAIN Listed : SwitchPage(p)
    \/ writes = MaxWrites - 1 /\ OthersWrite
        /\ \A src \in Sources : store'[src] # store[src] => src = Listed[page]
MCSpec == MCInit /\ [][MCNext]_vars /\ Fairness

\* CatchesUp, of both pages.
ViewCatchesUp == CatchesUp("reportTable", "diagnosis") /\ CatchesUp("eventTable", "events")
=============================================================================
