--------------------------- MODULE GatewayProofs ---------------------------
(* Theorems about Gateway, for every set of messages, threads and bound. *)
EXTENDS Gateway, FiniteSetTheorems, TLAPS

\* A subscribed topic names one of the five message types.
LEMMA TypeOfMessage ==
    ASSUME NEW m \in Message
    PROVE  TypeOf(m) \in MessageType
BY MessageAssumption DEF TypeOf, MessageTypeFromTopic, Subscribed

LEMMA DeviceOfMessage ==
    ASSUME NEW m \in Message
    PROVE  DeviceOf(m) \in Device /\ DeviceOf(m) \in DeviceId
<1>1. m.topic[2] \in DeviceId
  BY MessageAssumption DEF Subscribed
<1>2. QED
  BY <1>1 DEF Device, DeviceOf

\* Counting keeps the counters natural numbers, whichever field is counted.
LEMMA CountType ==
    ASSUME stats \in [MessageType -> Counter], NEW t \in MessageType,
           NEW field \in {"received", "forwarded", "dropped", "failed"},
           Count(t, field)
    PROVE  stats' \in [MessageType -> Counter]
BY DEF Count, Counter

LEMMA UpdatedRecordType ==
    ASSUME NEW m \in Message, NEW old \in Record, NEW now \in Now
    PROVE  UpdatedRecord(m, old, now) \in Record
<1> DEFINE known == IF old.device_id = Empty
                    THEN [old EXCEPT !.device_id = DeviceOf(m), !.connected_at = now]
                    ELSE old
<1>1. m.timestamp \in Int /\ now \in Nat /\ now \in Int /\ DeviceOf(m) \in DeviceId
  BY MessageAssumption, ConfigAssumption, DeviceOfMessage
<1>2. known \in Record
  BY <1>1 DEF Record
<1>3. ASSUME NEW time \in Nat PROVE [known EXCEPT !.last_heartbeat_at = time] \in Record
  BY <1>2 DEF Record
<1>4. QED
  BY <1>1, <1>2, <1>3 DEF UpdatedRecord

LEMMA InitTypeOK == Init => TypeOK
<1> SUFFICES ASSUME Init PROVE TypeOK
  OBVIOUS
<1>1. NoRecord \in Record /\ NoCounter \in Counter
  BY MessageAssumption DEF NoRecord, Record, NoCounter, Counter
<1>2. QED
  BY <1>1, ConfigAssumption DEF Init, TypeOK, IdleHandler, Pc

-----------------------------------------------------------------------------
(* Type correctness, one lemma for the step every callback ends with *)

LEMMA ReturnTypeOK ==
    ASSUME TypeOK, NEW h \in Handler, handler[h].pc # "idle", Return(h)
    PROVE  /\ published' \subseteq Message /\ unacked' \subseteq published'
           /\ inSession' \subseteq unacked' /\ sessions' \in 0..MaxSessions
           /\ proc' = proc
           /\ handler' \in [Handler -> [pc : Pc, msg : Message \cup {NoMessage},
                                        call : Call \cup {"none"}, code : Nat]]
           /\ \A g \in Handler : handler'[g].pc # "idle" =>
                 /\ handler'[g].msg \in Message /\ proc # "down"
                 /\ handler'[g].pc \in {"calling", "replied"} => handler'[g].call \in Call
           /\ handled' \subseteq Message
<1>1. IdleHandler \in [pc : Pc, msg : Message \cup {NoMessage}, call : Call \cup {"none"}, code : Nat]
  BY DEF IdleHandler, Pc
<1>2. handler[h].msg \in Message
  BY DEF TypeOK
<1>3. IdleHandler.pc = "idle"
  BY DEF IdleHandler
<1>4. QED
  BY <1>1, <1>2, <1>3 DEF TypeOK, Return

LEMMA SettleTypeOK ==
    ASSUME TypeOK, NEW h \in Handler, handler[h].pc # "idle",
           NEW field \in {"received", "forwarded", "dropped", "failed"},
           Settle(h, field),
           acknowledged' \in [Message -> Nat], late' \in [Message -> Nat]
    PROVE  TypeOK'
<1>1. stats' \in [MessageType -> Counter]
  <2>1. TypeOf(handler[h].msg) \in MessageType
    BY TypeOfMessage DEF TypeOK
  <2>2. QED
    BY <2>1, CountType DEF TypeOK, Settle
<1>2. QED
  BY <1>1, ReturnTypeOK DEF TypeOK, Settle

LEMMA OutstandingFinite ==
    ASSUME NEW m \in Message
    PROVE  Cardinality(Outstanding(m)) \in Nat
BY HandlerAssumption, FS_Subset, FS_CardinalityType DEF Outstanding

LEMMA LoseProcessTypeOK ==
    ASSUME TypeOK, LoseProcess
    PROVE  TypeOK'
<1>1. NoRecord \in Record /\ NoCounter \in Counter
  BY MessageAssumption DEF NoRecord, Record, NoCounter, Counter
<1>2. late' \in [Message -> Nat]
  BY OutstandingFinite DEF TypeOK, LoseProcess
<1>3. IdleHandler \in [pc : Pc, msg : Message \cup {NoMessage}, call : Call \cup {"none"}, code : Nat]
      /\ IdleHandler.pc = "idle"
  BY DEF IdleHandler, Pc
<1>4. QED
  BY <1>1, <1>2, <1>3 DEF TypeOK, LoseProcess, brokerVars

LEMMA SendCallTypeOK ==
    ASSUME TypeOK, NEW h \in Handler, handler[h].pc # "idle",
           NEW call \in Call, SendCall(h, call)
    PROVE  TypeOK'
<1> USE DEF brokerVars, memory, downstream
<1>1. handler' \in [Handler -> [pc : Pc, msg : Message \cup {NoMessage},
                               call : Call \cup {"none"}, code : Nat]]
  BY ZenonT(30) DEF TypeOK, SendCall, Pc
<1>2. \A g \in Handler : g # h => handler'[g] = handler[g]
  BY DEF TypeOK, SendCall
<1>3. handler'[h].msg = handler[h].msg /\ handler'[h].call = call
  BY DEF TypeOK, SendCall
<1>4. QED
  BY <1>1, <1>2, <1>3 DEF TypeOK, SendCall

\* Every step of the gateway keeps the variables in their types.
LEMMA NextTypeOK == TypeOK /\ [Next]_vars => TypeOK'
<1> SUFFICES ASSUME TypeOK, [Next]_vars PROVE TypeOK'
  OBVIOUS
<1> USE DEF brokerVars, memory, downstream
<1>1. ASSUME NEW m \in Message, Publish(m) PROVE TypeOK'
  BY <1>1 DEF TypeOK, Publish
<1>2. ASSUME NEW m \in Message, ExecuteLate(m) PROVE TypeOK'
  BY <1>2 DEF TypeOK, ExecuteLate
<1>3. CASE Reconnect
  BY <1>3, ConfigAssumption DEF TypeOK, Reconnect, OpenSession
<1>4. CASE Connect
  BY <1>4, ConfigAssumption DEF TypeOK, Connect, OpenSession
<1>5. CASE StartServing
  BY <1>5 DEF TypeOK, StartServing
<1>6. CASE StopServing
  BY <1>6 DEF TypeOK, StopServing
<1>7. CASE Disconnect \/ Crash
  BY <1>7, LoseProcessTypeOK DEF Disconnect, Crash
<1>8. ASSUME NEW h \in Handler, NEW m \in Message, Deliver(h, m) PROVE TypeOK'
  <2>1. stats' \in [MessageType -> Counter]
    BY <1>8, TypeOfMessage, CountType DEF TypeOK, Deliver
  <2>2. QED
    BY <1>8, <2>1 DEF TypeOK, Deliver, Pc
<1>9. ASSUME NEW h \in Handler, HandlerStep(h) PROVE TypeOK'
  <2>1. CASE Drop(h)
    BY <2>1, SettleTypeOK DEF Drop, TypeOK
  <2>2. CASE Abandon(h)
    BY <2>2, ReturnTypeOK, TypeOfMessage DEF Abandon, TypeOK
  <2>3. CASE UpdateDeviceView(h)
    <3>1. PICK now \in Now : devices' = [devices EXCEPT ![DeviceOf(handler[h].msg)] =
                                  UpdatedRecord(handler[h].msg, @, now)]
      BY <2>3 DEF UpdateDeviceView
    <3>2. devices' \in [Device -> Record]
      BY <2>3, <3>1, UpdatedRecordType, DeviceOfMessage DEF TypeOK, UpdateDeviceView
    <3>3. QED
      BY <2>3, <3>2 DEF TypeOK, UpdateDeviceView, Pc
  <2>4. CASE ForwardWithoutCall(h)
    BY <2>4, SettleTypeOK DEF ForwardWithoutCall, TypeOK
  <2>5. CASE NoStub(h)
    BY <2>5, SettleTypeOK DEF NoStub, TypeOK
  <2>6. CASE CallService(h)
    <3>1. FirstCall(TypeOf(handler[h].msg)) \in Call
      BY <2>6, TypeOfMessage DEF CallService, NeedsCall, FirstCall, Call, MessageType, TypeOK
    <3>2. QED
      BY <2>6, <3>1, SendCallTypeOK DEF CallService
  <2>7. CASE CallFails(h)
    <3>1. acknowledged' \in [Message -> Nat] /\ late' \in [Message -> Nat]
      BY <2>7 DEF CallFails, TypeOK
    <3>2. QED
      BY <2>7, <3>1, SettleTypeOK DEF CallFails
  <2>8. CASE ReplyOk(h)
    BY <2>8, SettleTypeOK DEF ReplyOk, TypeOK
  <2>9. CASE VerifyRegistered(h)
    BY <2>9, SendCallTypeOK DEF VerifyRegistered, Call
  <2>10. CASE ReplyError(h)
    BY <2>10, SettleTypeOK DEF ReplyError, TypeOK
  <2>11. QED
    BY <1>9, <2>1, <2>2, <2>3, <2>4, <2>5, <2>6, <2>7, <2>8, <2>9, <2>10 DEF HandlerStep
<1>10. ASSUME NEW h \in Handler, Execute(h) PROVE TypeOK'
  <2>1. PICK code \in ReplyCode(handler[h].call) :
          /\ handler' = [handler EXCEPT ![h].pc = "replied", ![h].code = code]
          /\ acknowledged' = IF code = 0
                             THEN [acknowledged EXCEPT ![handler[h].msg] = @ + 1]
                             ELSE acknowledged
    BY <1>10 DEF Execute
  <2>2. handler[h].call \in Call /\ handler[h].msg \in Message
    BY <1>10 DEF Execute, TypeOK
  <2>3. \A call \in Call : ReplyCode(call) \subseteq Nat
    BY DEF ReplyCode, Call, CallCreate, CallVerify
  <2>4. code \in Nat
    BY <2>1, <2>2, <2>3
  <2>5. handler' \in [Handler -> [pc : Pc, msg : Message \cup {NoMessage},
                                 call : Call \cup {"none"}, code : Nat]]
    BY <2>1, <2>4, ZenonT(30) DEF TypeOK, Pc
  <2>6. \A g \in Handler : g # h => handler'[g] = handler[g]
    BY <2>1 DEF TypeOK
  <2>7. handler'[h].msg = handler[h].msg /\ handler'[h].call = handler[h].call
    BY <2>1 DEF TypeOK
  <2>8. acknowledged' \in [Message -> Nat]
    BY <2>1, <2>2 DEF TypeOK
  <2>9. QED
    BY <1>10, <2>2, <2>5, <2>6, <2>7, <2>8 DEF Execute, TypeOK
<1>11. CASE UNCHANGED vars
  BY <1>11 DEF TypeOK, vars
<1>12. QED
  BY <1>1, <1>2, <1>3, <1>4, <1>5, <1>6, <1>7, <1>8, <1>9, <1>10, <1>11 DEF Next, Step

\* The variables of the gateway keep their types; in particular no callback runs
\* while the process is down, and a running callback holds a message.
THEOREM TypeCorrect == Spec => []TypeOK
BY InitTypeOK, NextTypeOK, PTL DEF Spec

-----------------------------------------------------------------------------
(* Accounting: how a step changes the set of running callbacks of each type *)

LEMMA InFlightFinite ==
    ASSUME NEW t \in MessageType
    PROVE  IsFiniteSet(InFlight(t)) /\ Cardinality(InFlight(t)) \in Nat
BY HandlerAssumption, FS_Subset, FS_CardinalityType DEF InFlight

\* A step that neither starts nor ends a callback.
LEMMA InFlightSame ==
    ASSUME \A h \in Handler : /\ (handler'[h].pc # "idle") <=> (handler[h].pc # "idle")
                             /\ handler'[h].msg = handler[h].msg,
           NEW t \in MessageType
    PROVE  InFlight(t)' = InFlight(t)
BY DEF InFlight

LEMMA InFlightEnter ==
    ASSUME TypeOK, NEW h \in Handler, NEW m \in Message, Deliver(h, m),
           NEW t \in MessageType
    PROVE  Cardinality(InFlight(t)') =
               Cardinality(InFlight(t)) + IF t = TypeOf(m) THEN 1 ELSE 0
<1>1. h \notin InFlight(t)
  BY DEF InFlight, Deliver
<1>2. InFlight(t)' = IF t = TypeOf(m) THEN InFlight(t) \cup {h} ELSE InFlight(t)
  BY DEF InFlight, Deliver, TypeOK
<1>3. Cardinality(InFlight(t) \cup {h}) = Cardinality(InFlight(t)) + 1
  BY <1>1, InFlightFinite, FS_AddElement
<1>4. QED
  BY <1>2, <1>3, InFlightFinite

LEMMA InFlightLeave ==
    ASSUME TypeOK, NEW h \in Handler, handler[h].pc # "idle", Return(h),
           NEW t \in MessageType
    PROVE  Cardinality(InFlight(t)') =
               Cardinality(InFlight(t)) - IF t = TypeOf(handler[h].msg) THEN 1 ELSE 0
<1>1. IdleHandler.pc = "idle"
  BY DEF IdleHandler
<1>2. InFlight(t)' = IF t = TypeOf(handler[h].msg) THEN InFlight(t) \ {h} ELSE InFlight(t)
  BY <1>1 DEF InFlight, Return, TypeOK
<1>3. t = TypeOf(handler[h].msg) =>
        Cardinality(InFlight(t) \ {h}) = Cardinality(InFlight(t)) - 1
  BY InFlightFinite, FS_RemoveElement DEF InFlight
<1>4. QED
  BY <1>2, <1>3, InFlightFinite

\* A callback that settles moves from "running" to one of the three counters.
LEMMA SettleAccounting ==
    ASSUME TypeOK, Accounting, NEW h \in Handler, handler[h].pc # "idle",
           NEW field \in {"forwarded", "dropped", "failed"}, Settle(h, field)
    PROVE  Accounting'
<1> SUFFICES ASSUME NEW t \in MessageType
             PROVE  stats'[t].received = stats'[t].forwarded + stats'[t].dropped
                       + stats'[t].failed + abandoned'[t] + Cardinality(InFlight(t)')
  BY DEF Accounting
<1>1. abandoned'[t] = abandoned[t] /\ abandoned[t] \in Nat
  BY DEF Settle, TypeOK
<1>2. stats[t] \in Counter
  BY DEF TypeOK
<1>3. stats[t].received = stats[t].forwarded + stats[t].dropped + stats[t].failed
                            + abandoned[t] + Cardinality(InFlight(t))
  BY DEF Accounting
<1>4. Cardinality(InFlight(t)') =
        Cardinality(InFlight(t)) - IF t = TypeOf(handler[h].msg) THEN 1 ELSE 0
  BY InFlightLeave DEF Settle
<1>5. Cardinality(InFlight(t)) \in Nat
  BY InFlightFinite
<1>6. CASE t # TypeOf(handler[h].msg)
  <2>1. stats'[t] = stats[t]
    BY <1>6 DEF Settle, Count, TypeOK
  <2>2. Cardinality(InFlight(t)') = Cardinality(InFlight(t))
    BY <1>4, <1>5, <1>6
  <2>3. QED
    BY <1>1, <1>3, <2>1, <2>2
<1>7. CASE t = TypeOf(handler[h].msg)
  <2>1. stats'[t] = [stats[t] EXCEPT ![field] = @ + 1]
    BY <1>7 DEF Settle, Count, TypeOK
  <2>2. stats'[t].received = stats[t].received
    BY <1>2, <2>1 DEF Counter
  <2>3. stats'[t].forwarded + stats'[t].dropped + stats'[t].failed
          = stats[t].forwarded + stats[t].dropped + stats[t].failed + 1
    BY <1>2, <2>1 DEF Counter
  <2>4. /\ stats'[t].forwarded \in Nat /\ stats'[t].dropped \in Nat /\ stats'[t].failed \in Nat
        /\ stats[t].forwarded \in Nat /\ stats[t].dropped \in Nat /\ stats[t].failed \in Nat
    BY <1>2, <2>1 DEF Counter
  <2>5. Cardinality(InFlight(t)') = Cardinality(InFlight(t)) - 1
    BY <1>4, <1>7
  <2>6. QED
    BY <1>1, <1>3, <1>5, <2>2, <2>3, <2>4, <2>5
<1>8. QED
  BY <1>6, <1>7

\* A step that leaves the counters alone and neither starts nor ends a callback.
LEMMA QuietAccounting ==
    ASSUME Accounting, UNCHANGED <<stats, abandoned>>,
           \A h \in Handler : /\ (handler'[h].pc # "idle") <=> (handler[h].pc # "idle")
                             /\ handler'[h].msg = handler[h].msg
    PROVE  Accounting'
BY InFlightSame DEF Accounting

LEMMA LoseProcessAccounting ==
    ASSUME LoseProcess
    PROVE  Accounting'
<1> SUFFICES ASSUME NEW t \in MessageType
             PROVE  stats'[t].received = stats'[t].forwarded + stats'[t].dropped
                       + stats'[t].failed + abandoned'[t] + Cardinality(InFlight(t)')
  BY DEF Accounting
<1>1. InFlight(t)' = {}
  BY DEF InFlight, LoseProcess, IdleHandler
<1>2. QED
  BY <1>1, FS_EmptySet DEF LoseProcess, NoCounter

LEMMA DeliverAccounting ==
    ASSUME TypeOK, Accounting, NEW h \in Handler, NEW m \in Message, Deliver(h, m)
    PROVE  Accounting'
<1> SUFFICES ASSUME NEW t \in MessageType
             PROVE  stats'[t].received = stats'[t].forwarded + stats'[t].dropped
                       + stats'[t].failed + abandoned'[t] + Cardinality(InFlight(t)')
  BY DEF Accounting
<1>1. stats[t] \in Counter /\ abandoned[t] \in Nat /\ abandoned' = abandoned
  BY DEF TypeOK, Deliver
<1>2. stats'[t] = IF t = TypeOf(m) THEN [stats[t] EXCEPT !.received = @ + 1] ELSE stats[t]
  BY DEF Deliver, Count, TypeOK
<1>3. Cardinality(InFlight(t)) \in Nat
  BY InFlightFinite
<1>4. stats[t].received = stats[t].forwarded + stats[t].dropped + stats[t].failed
                            + abandoned[t] + Cardinality(InFlight(t))
  BY DEF Accounting
<1>5. Cardinality(InFlight(t)') =
        Cardinality(InFlight(t)) + IF t = TypeOf(m) THEN 1 ELSE 0
  BY InFlightEnter
<1>6. QED
  BY <1>1, <1>2, <1>3, <1>4, <1>5 DEF Counter

\* The exception moves a callback from "running" to the abandoned ones.
LEMMA AbandonAccounting ==
    ASSUME TypeOK, Accounting, NEW h \in Handler, Abandon(h)
    PROVE  Accounting'
<1> SUFFICES ASSUME NEW t \in MessageType
             PROVE  stats'[t].received = stats'[t].forwarded + stats'[t].dropped
                       + stats'[t].failed + abandoned'[t] + Cardinality(InFlight(t)')
  BY DEF Accounting
<1>1. stats'[t] = stats[t] /\ stats[t] \in Counter /\ abandoned[t] \in Nat
  BY DEF TypeOK, Abandon
<1>2. abandoned'[t] = abandoned[t] + IF t = TypeOf(handler[h].msg) THEN 1 ELSE 0
  BY DEF Abandon, TypeOK
<1>3. Cardinality(InFlight(t)) \in Nat
  BY InFlightFinite
<1>4. stats[t].received = stats[t].forwarded + stats[t].dropped + stats[t].failed
                            + abandoned[t] + Cardinality(InFlight(t))
  BY DEF Accounting
<1>5. Cardinality(InFlight(t)') =
        Cardinality(InFlight(t)) - IF t = TypeOf(handler[h].msg) THEN 1 ELSE 0
  BY InFlightLeave DEF Abandon
<1>6. QED
  BY <1>1, <1>2, <1>3, <1>4, <1>5 DEF Counter

LEMMA HandlerStepAccounting ==
    ASSUME TypeOK, Accounting, NEW h \in Handler, HandlerStep(h)
    PROVE  Accounting'
<1>1. CASE Drop(h)
  BY <1>1, SettleAccounting DEF Drop
<1>2. CASE Abandon(h)
  BY <1>2, AbandonAccounting
<1>3. CASE UpdateDeviceView(h)
  BY <1>3, QuietAccounting DEF UpdateDeviceView, TypeOK
<1>4. CASE ForwardWithoutCall(h)
  BY <1>4, SettleAccounting DEF ForwardWithoutCall
<1>5. CASE NoStub(h)
  BY <1>5, SettleAccounting DEF NoStub
<1>6. CASE CallService(h)
  BY <1>6, QuietAccounting DEF CallService, SendCall, memory, TypeOK
<1>7. CASE CallFails(h)
  BY <1>7, SettleAccounting DEF CallFails
<1>8. CASE ReplyOk(h)
  BY <1>8, SettleAccounting DEF ReplyOk
<1>9. CASE VerifyRegistered(h)
  BY <1>9, QuietAccounting DEF VerifyRegistered, SendCall, memory, TypeOK
<1>10. CASE ReplyError(h)
  BY <1>10, SettleAccounting DEF ReplyError
<1>11. QED
  BY <1>1, <1>2, <1>3, <1>4, <1>5, <1>6, <1>7, <1>8, <1>9, <1>10 DEF HandlerStep

LEMMA NextAccounting == TypeOK /\ Accounting /\ [Next]_vars => Accounting'
<1> SUFFICES ASSUME TypeOK, Accounting, [Next]_vars PROVE Accounting'
  OBVIOUS
<1>1. ASSUME NEW m \in Message, Publish(m) \/ ExecuteLate(m) PROVE Accounting'
  BY <1>1, QuietAccounting DEF Publish, ExecuteLate, memory
<1>2. CASE Reconnect \/ Connect \/ StartServing \/ StopServing
  BY <1>2, QuietAccounting DEF Reconnect, Connect, StartServing, StopServing, memory
<1>3. CASE Disconnect \/ Crash
  BY <1>3, LoseProcessAccounting DEF Disconnect, Crash
<1>4. ASSUME NEW h \in Handler, NEW m \in Message, Deliver(h, m) PROVE Accounting'
  BY <1>4, DeliverAccounting
<1>5. ASSUME NEW h \in Handler, HandlerStep(h) PROVE Accounting'
  BY <1>5, HandlerStepAccounting
<1>6. ASSUME NEW h \in Handler, Execute(h) PROVE Accounting'
  BY <1>6, QuietAccounting DEF Execute, memory, TypeOK
<1>7. CASE UNCHANGED vars
  BY <1>7, QuietAccounting DEF vars, memory
<1>8. QED
  BY <1>1, <1>2, <1>3, <1>4, <1>5, <1>6, <1>7 DEF Next, Step

\* The report of GetForwardingStats accounts for every callback exactly once, for
\* any number of callback threads, messages and sessions.
THEOREM AccountingHolds == Spec => []Accounting
<1>1. Init => Accounting
  <2> SUFFICES ASSUME Init, NEW t \in MessageType
               PROVE  stats[t].received = stats[t].forwarded + stats[t].dropped
                         + stats[t].failed + abandoned[t] + Cardinality(InFlight(t))
    BY DEF Accounting
  <2>1. InFlight(t) = {}
    BY DEF Init, InFlight, IdleHandler
  <2>2. QED
    BY <2>1, FS_EmptySet DEF Init, NoCounter
<1>2. QED
  BY <1>1, NextAccounting, TypeCorrect, PTL DEF Spec

-----------------------------------------------------------------------------
(* What may reach a service *)

\* Inductive form of OnlyValidReachServices: a callback past parsePayload holds
\* a valid message, and one that made a call holds a message that needs it.
ValidInv ==
    /\ OnlyValidReachServices
    /\ \A h \in Handler :
          /\ handler[h].pc \in {"viewed", "calling", "replied"} => ParsePayload(handler[h].msg)
          /\ handler[h].pc \in {"calling", "replied"} => NeedsCall(handler[h].msg)

LEMMA ReturnValid ==
    ASSUME TypeOK, ValidInv, NEW h \in Handler, Return(h),
           \A m \in Message : (acknowledged'[m] + late'[m] > 0)
               => ((acknowledged[m] + late[m] > 0) \/ (ParsePayload(m) /\ NeedsCall(m)))
    PROVE  ValidInv'
<1>1. OnlyValidReachServices'
  BY DEF ValidInv, OnlyValidReachServices
<1>2. \A g \in Handler : handler'[g] = handler[g] \/ handler'[g].pc = "idle"
  BY DEF Return, TypeOK, IdleHandler
<1>3. QED
  BY <1>1, <1>2 DEF ValidInv

LEMMA NextValid == TypeOK /\ ValidInv /\ [Next]_vars => ValidInv'
<1> SUFFICES ASSUME TypeOK, ValidInv, [Next]_vars PROVE ValidInv'
  OBVIOUS
<1> USE DEF brokerVars, memory, downstream
<1>1. CASE \/ \E m \in Message : Publish(m)
           \/ Reconnect \/ Connect \/ StartServing \/ StopServing \/ UNCHANGED vars
  BY <1>1 DEF ValidInv, OnlyValidReachServices, Publish, Reconnect, Connect,
              StartServing, StopServing, vars
<1>2. ASSUME NEW m \in Message, ExecuteLate(m) PROVE ValidInv'
  <2>1. \A n \in Message : acknowledged'[n] + late'[n] > 0 => acknowledged[n] + late[n] > 0
    BY <1>2 DEF ExecuteLate, TypeOK
  <2>2. QED
    BY <1>2, <2>1 DEF ExecuteLate, ValidInv, OnlyValidReachServices
<1>3. CASE Disconnect \/ Crash
  <2>1. LoseProcess
    BY <1>3 DEF Disconnect, Crash
  <2>2. ASSUME NEW m \in Message, acknowledged'[m] + late'[m] > 0
        PROVE  ParsePayload(m) /\ NeedsCall(m)
    <3>1. CASE Outstanding(m) = {}
      <4>1. Cardinality(Outstanding(m)) = 0
        BY <3>1, FS_EmptySet
      <4>2. late'[m] = late[m] /\ acknowledged'[m] = acknowledged[m]
        BY <2>1, <4>1 DEF LoseProcess, TypeOK
      <4>3. QED
        BY <2>2, <4>2 DEF ValidInv, OnlyValidReachServices
    <3>2. CASE Outstanding(m) # {}
      BY <3>2 DEF Outstanding, ValidInv
    <3>3. QED
      BY <3>1, <3>2
  <2>3. \A g \in Handler : handler'[g].pc = "idle"
    BY <2>1 DEF LoseProcess, IdleHandler
  <2>4. QED
    BY <2>2, <2>3 DEF ValidInv, OnlyValidReachServices
<1>4. ASSUME NEW h \in Handler, NEW m \in Message, Deliver(h, m) PROVE ValidInv'
  <2>1. handler'[h].pc = "parsing" /\ (\A g \in Handler : g # h => handler'[g] = handler[g])
    BY <1>4 DEF Deliver, TypeOK
  <2>2. QED
    BY <1>4, <2>1 DEF Deliver, ValidInv, OnlyValidReachServices
<1>5. ASSUME NEW h \in Handler, HandlerStep(h) PROVE ValidInv'
  <2>1. CASE Drop(h) \/ Abandon(h) \/ ForwardWithoutCall(h) \/ NoStub(h) \/ ReplyOk(h) \/ ReplyError(h)
    <3>1. Return(h) /\ UNCHANGED <<acknowledged, late>>
      BY <2>1 DEF Drop, Abandon, ForwardWithoutCall, NoStub, ReplyOk, ReplyError, Settle
    <3>2. QED
      BY <3>1, ReturnValid
  <2>2. CASE UpdateDeviceView(h)
    BY <2>2 DEF UpdateDeviceView, ValidInv, OnlyValidReachServices, TypeOK
  <2>3. CASE CallService(h)
    BY <2>3 DEF CallService, SendCall, ValidInv, OnlyValidReachServices, TypeOK
  <2>4. CASE VerifyRegistered(h)
    BY <2>4 DEF VerifyRegistered, SendCall, ValidInv, OnlyValidReachServices, TypeOK
  <2>5. CASE CallFails(h)
    <3>1. \A m \in Message : (acknowledged'[m] + late'[m] > 0)
             => ((acknowledged[m] + late[m] > 0) \/ (ParsePayload(m) /\ NeedsCall(m)))
      <4> TAKE m \in Message
      <4> HAVE acknowledged'[m] + late'[m] > 0
      <4>1. CASE late'[m] = late[m]
        BY <2>5, <4>1 DEF CallFails
      <4>2. CASE late'[m] # late[m]
        BY <2>5, <4>2 DEF CallFails, ValidInv, TypeOK
      <4>3. QED
        BY <4>1, <4>2
    <3>2. QED
      BY <2>5, <3>1, ReturnValid DEF CallFails, Settle
  <2>6. QED
    BY <1>5, <2>1, <2>2, <2>3, <2>4, <2>5 DEF HandlerStep
<1>6. ASSUME NEW h \in Handler, Execute(h) PROVE ValidInv'
  <2>1. ParsePayload(handler[h].msg) /\ NeedsCall(handler[h].msg)
    BY <1>6 DEF Execute, ValidInv
  <2>2. \A m \in Message : m # handler[h].msg => acknowledged'[m] = acknowledged[m]
    BY <1>6 DEF Execute, TypeOK
  <2>3. OnlyValidReachServices'
    BY <1>6, <2>1, <2>2 DEF Execute, ValidInv, OnlyValidReachServices
  <2>4. \A g \in Handler : handler'[g].msg = handler[g].msg
                           /\ (g # h => handler'[g] = handler[g])
    BY <1>6 DEF Execute, TypeOK
  <2>5. QED
    BY <2>1, <2>3, <2>4 DEF ValidInv
<1>7. QED
  BY <1>1, <1>2, <1>3, <1>4, <1>5, <1>6 DEF Next, Step

\* No payload that parsePayload rejects, no heartbeat, and nothing at all while
\* forwarding is disabled, is ever accepted by a service or left for one to run.
THEOREM OnlyValidReachServicesHolds == Spec => []OnlyValidReachServices
<1>1. Init => ValidInv
  BY DEF Init, ValidInv, OnlyValidReachServices, IdleHandler
<1>2. ValidInv => OnlyValidReachServices
  BY DEF ValidInv
<1>3. QED
  BY <1>1, <1>2, NextValid, TypeCorrect, PTL DEF Spec

-----------------------------------------------------------------------------
(* The view of the devices against the counters *)

\* A step that leaves the view alone and lowers no counter of received messages.
LEMMA KeepListed ==
    ASSUME TypeOK, ListedWasReceived, devices' = devices,
           stats' \in [MessageType -> Counter],
           \A t \in MessageType : stats'[t].received >= stats[t].received
    PROVE  ListedWasReceived'
<1> SUFFICES ASSUME NEW d \in Device, Listed(d)'
             PROVE  ForwardingStats("")' # {} /\ devices'[d].last_heartbeat_at > 0
  BY DEF ListedWasReceived
<1>1. Listed(d)
  BY DEF Listed
<1>2. PICK t \in MessageType : stats[t].received > 0
  BY <1>1 DEF ListedWasReceived, ForwardingStats
<1>3. stats[t].received \in Nat /\ stats'[t].received \in Nat
  BY DEF TypeOK, Counter
<1>4. stats'[t].received > 0
  BY <1>2, <1>3
<1>5. QED
  BY <1>1, <1>4 DEF ListedWasReceived, ForwardingStats

LEMMA CountReceived ==
    ASSUME TypeOK, NEW t \in MessageType,
           NEW field \in {"received", "forwarded", "dropped", "failed"}, Count(t, field)
    PROVE  \A u \in MessageType : stats'[u].received >= stats[u].received
<1> TAKE u \in MessageType
<1>1. stats[u] \in Counter
  BY DEF TypeOK
<1>2. stats'[u] = stats[u] \/ stats'[u] = [stats[u] EXCEPT ![field] = @ + 1]
  BY DEF Count, TypeOK
<1>3. QED
  BY <1>1, <1>2 DEF Counter

LEMMA SettleListed ==
    ASSUME TypeOK, ListedWasReceived, NEW h \in Handler, handler[h].pc # "idle",
           NEW field \in {"forwarded", "dropped", "failed"}, Settle(h, field)
    PROVE  ListedWasReceived'
<1>1. TypeOf(handler[h].msg) \in MessageType
  BY TypeOfMessage DEF TypeOK
<1>2. stats' \in [MessageType -> Counter]
  BY <1>1, CountType DEF Settle, TypeOK
<1>3. \A t \in MessageType : stats'[t].received >= stats[t].received
  BY <1>1, CountReceived DEF Settle
<1>4. QED
  BY <1>2, <1>3, KeepListed DEF Settle

\* A callback that adds a device to the view is itself among the received.
LEMMA UpdateDeviceViewListed ==
    ASSUME TypeOK, Accounting, ListedWasReceived, NEW h \in Handler, UpdateDeviceView(h)
    PROVE  ListedWasReceived'
<1> DEFINE m == handler[h].msg
<1>1. m \in Message /\ TypeOf(m) \in MessageType
  BY TypeOfMessage DEF UpdateDeviceView, TypeOK
<1>2. InFlight(TypeOf(m)) # {}
  BY DEF InFlight, UpdateDeviceView
<1>3. Cardinality(InFlight(TypeOf(m))) > 0
  BY <1>1, <1>2, InFlightFinite, FS_EmptySet
<1>4. stats[TypeOf(m)] \in Counter /\ abandoned[TypeOf(m)] \in Nat
  BY <1>1 DEF TypeOK
<1>5. Cardinality(InFlight(TypeOf(m))) \in Nat
  BY <1>1, InFlightFinite
<1>6. stats[TypeOf(m)].received > 0
  BY <1>1, <1>3, <1>4, <1>5 DEF Accounting, Counter
<1>7. PICK now \in Now : devices' = [devices EXCEPT ![DeviceOf(m)] = UpdatedRecord(m, @, now)]
  BY DEF UpdateDeviceView
<1>8. ASSUME NEW d \in Device, Listed(d)' PROVE devices'[d].last_heartbeat_at > 0
  <2>1. CASE d # DeviceOf(m)
    BY <1>7, <1>8, <2>1 DEF ListedWasReceived, Listed, TypeOK
  <2>2. CASE d = DeviceOf(m)
    <3>1. devices[d] \in Record /\ now \in Nat /\ now > 0 /\ m.timestamp \in Int
      BY <1>1, MessageAssumption, ConfigAssumption DEF TypeOK
    <3>2. devices'[d] = UpdatedRecord(m, devices[d], now)
      BY <1>7, <2>2 DEF TypeOK
    <3>3. UpdatedRecord(m, devices[d], now).last_heartbeat_at > 0
      BY <3>1 DEF UpdatedRecord, Record
    <3>4. QED
      BY <3>2, <3>3
  <2>3. QED
    BY <2>1, <2>2
<1>9. ForwardingStats("")' # {}
  BY <1>1, <1>6 DEF ForwardingStats, UpdateDeviceView
<1>10. QED
  BY <1>8, <1>9 DEF ListedWasReceived

LEMMA NextListed ==
    TypeOK /\ TypeOK' /\ Accounting /\ ListedWasReceived /\ [Next]_vars => ListedWasReceived'
<1> SUFFICES ASSUME TypeOK, TypeOK', Accounting, ListedWasReceived, [Next]_vars
             PROVE  ListedWasReceived'
  OBVIOUS
<1> USE DEF memory
<1>1. ASSUME stats' = stats, devices' = devices PROVE ListedWasReceived'
  BY <1>1 DEF ListedWasReceived, Listed, ForwardingStats
<1>2. CASE \/ \E m \in Message : Publish(m) \/ ExecuteLate(m)
           \/ Reconnect \/ Connect \/ StartServing \/ StopServing
           \/ \E h \in Handler : Execute(h) \/ CallService(h) \/ VerifyRegistered(h) \/ Abandon(h)
           \/ UNCHANGED vars
  BY <1>1, <1>2 DEF Publish, ExecuteLate, Reconnect, Connect, StartServing, StopServing,
                    Execute, CallService, VerifyRegistered, SendCall, Abandon, vars
<1>3. CASE Disconnect \/ Crash
  <2>1. \A d \in Device : devices'[d].connected_at = 0
    BY <1>3 DEF Disconnect, Crash, LoseProcess, NoRecord
  <2>2. QED
    BY <2>1 DEF ListedWasReceived, Listed
<1>4. ASSUME NEW h \in Handler, NEW m \in Message, Deliver(h, m) PROVE ListedWasReceived'
  <2>1. \A t \in MessageType : stats'[t].received >= stats[t].received
    BY <1>4, TypeOfMessage, CountReceived DEF Deliver
  <2>2. stats' \in [MessageType -> Counter] /\ devices' = devices
    BY <1>4 DEF TypeOK, Deliver
  <2>3. QED
    BY <2>1, <2>2, KeepListed
<1>5. ASSUME NEW h \in Handler, \/ Drop(h) \/ ForwardWithoutCall(h) \/ NoStub(h)
                               \/ CallFails(h) \/ ReplyOk(h) \/ ReplyError(h)
      PROVE  ListedWasReceived'
  <2>1. handler[h].pc # "idle" /\ \E field \in {"forwarded", "dropped", "failed"} : Settle(h, field)
    BY <1>5 DEF Drop, ForwardWithoutCall, NoStub, CallFails, ReplyOk, ReplyError
  <2>2. QED
    BY <2>1, SettleListed
<1>6. ASSUME NEW h \in Handler, UpdateDeviceView(h) PROVE ListedWasReceived'
  BY <1>6, UpdateDeviceViewListed
<1>7. QED
  BY <1>2, <1>3, <1>4, <1>5, <1>6 DEF Next, Step, HandlerStep

\* A client that lists the connected devices and then reads the forwarding report
\* never sees a device without a received message, or without a heartbeat time.
THEOREM ListedWasReceivedHolds == Spec => []ListedWasReceived
<1>1. Init => ListedWasReceived
  <2>1. Init => \A d \in Device : devices[d].connected_at = 0
    BY DEF Init, NoRecord
  <2>2. QED
    BY <2>1 DEF ListedWasReceived, Listed
<1>2. QED
  BY <1>1, NextListed, TypeCorrect, AccountingHolds, PTL DEF Spec

-----------------------------------------------------------------------------
(* ForwardedWasAccepted: a code 0 is a call some service accepted. Callbacks that have
   received it and are about to count it are what the invariant adds. *)

Owed(t) == {h \in Handler : /\ handler[h].pc = "replied" /\ handler[h].code = 0
                            /\ TypeOf(handler[h].msg) = t}

ForwardedInv ==
    Enabled => \A t \in MessageType \ {"heartbeat"} :
        /\ IsFiniteSet(Accepted(t))
        /\ stats[t].forwarded + Cardinality(Owed(t)) <= Cardinality(Accepted(t))

LEMMA OwedFinite ==
    ASSUME NEW t
    PROVE  IsFiniteSet(Owed(t)) /\ Cardinality(Owed(t)) \in Nat
BY HandlerAssumption, FS_Subset, FS_CardinalityType DEF Owed

LEMMA OwedShrinks ==
    ASSUME NEW t, Owed(t)' \subseteq Owed(t)
    PROVE  Cardinality(Owed(t)') \in Nat /\ Cardinality(Owed(t)') <= Cardinality(Owed(t))
BY OwedFinite, FS_Subset, FS_CardinalityType

\* One more code-0 answer to message m is one more accepted call of its type.
LEMMA OneMoreAccepted ==
    ASSUME TypeOK, NEW m \in Message, acknowledged' = [acknowledged EXCEPT ![m] = @ + 1],
           NEW t \in MessageType \ {"heartbeat"}, Enabled, IsFiniteSet(Accepted(t))
    PROVE  /\ IsFiniteSet(Accepted(t)')
           /\ Cardinality(Accepted(t)') = Cardinality(Accepted(t)) + IF TypeOf(m) = t THEN 1 ELSE 0
<1> DEFINE call == <<m, acknowledged[m] + 1>>
           Sent == {x \in Message : TypeOf(x) = t /\ NeedsCall(x)}
<1>1. /\ acknowledged \in [Message -> Nat] /\ acknowledged[m] \in Nat
      /\ \A x \in Message : acknowledged'[x] = IF x = m THEN acknowledged[x] + 1 ELSE acknowledged[x]
  BY DEF TypeOK
<1>2. \A x, k : <<x, k>> \in Accepted(t) <=> x \in Sent /\ k \in 1..acknowledged[x]
  BY DEF Accepted
<1>3. Accepted(t)' = UNION {{x} \X (1..acknowledged'[x]) : x \in Sent}
  BY DEF Accepted
<1>4. m \in Sent <=> TypeOf(m) = t
  BY DEF NeedsCall
<1>5. CASE TypeOf(m) # t
  <2>1. Accepted(t)' = Accepted(t)
    BY <1>1, <1>3, <1>4, <1>5 DEF Accepted
  <2> QED
    BY <1>5, <2>1, FS_CardinalityType
<1>6. CASE TypeOf(m) = t
  <2>1. call \notin Accepted(t)
    BY <1>1, <1>2
  <2>2. \A x \in Sent : {x} \X (1..acknowledged'[x])
                          = IF x = m THEN ({x} \X (1..acknowledged[x])) \cup {call}
                            ELSE {x} \X (1..acknowledged[x])
    BY <1>1
  <2>3. Accepted(t)' = Accepted(t) \cup {call}
    BY <1>3, <1>4, <1>6, <2>2 DEF Accepted
  <2> HIDE DEF call
  <2> QED
    BY <1>6, <2>1, <2>3, FS_AddElement
<1> QED
  BY <1>5, <1>6

\* A step that forwards nothing and after which no other callback owes a count.
LEMMA NoMoreForwarded ==
    ASSUME ForwardedInv, acknowledged' = acknowledged,
           \A t \in MessageType : /\ stats[t].forwarded \in Nat /\ stats'[t].forwarded \in Nat
                                  /\ Enabled /\ t # "heartbeat" =>
                                        stats'[t].forwarded <= stats[t].forwarded,
           \A h \in Handler : handler'[h].pc = "replied" /\ handler'[h].code = 0 =>
                                handler'[h] = handler[h]
    PROVE  ForwardedInv'
<1> SUFFICES ASSUME Enabled, NEW t \in MessageType \ {"heartbeat"}
             PROVE  /\ IsFiniteSet(Accepted(t)')
                    /\ stats'[t].forwarded + Cardinality(Owed(t)') <= Cardinality(Accepted(t)')
  BY DEF ForwardedInv
<1>1. Accepted(t)' = Accepted(t)
  BY DEF Accepted
<1>2. Owed(t)' \subseteq Owed(t)
  BY DEF Owed
<1>3. /\ IsFiniteSet(Accepted(t))
      /\ stats[t].forwarded + Cardinality(Owed(t)) <= Cardinality(Accepted(t))
  BY DEF ForwardedInv
<1>4. /\ Cardinality(Owed(t)') \in Nat /\ Cardinality(Owed(t)') <= Cardinality(Owed(t))
      /\ Cardinality(Owed(t)) \in Nat /\ Cardinality(Accepted(t)) \in Nat
  BY <1>2, <1>3, OwedShrinks, OwedFinite, FS_CardinalityType
<1>5. /\ stats[t].forwarded \in Nat /\ stats'[t].forwarded \in Nat
      /\ stats'[t].forwarded <= stats[t].forwarded
  OBVIOUS
<1>6. stats'[t].forwarded + Cardinality(Owed(t)') <= Cardinality(Accepted(t))
  BY <1>3, <1>4, <1>5
<1> QED
  BY <1>1, <1>3, <1>6

LEMMA StatsNat ==
    ASSUME TypeOK, NEW t \in MessageType
    PROVE  /\ stats[t] \in Counter /\ stats[t].forwarded \in Nat
           /\ \A field \in {"received", "dropped", "failed"}, u \in MessageType :
                 Count(u, field) => stats'[t].forwarded = stats[t].forwarded
           /\ \A u \in MessageType :
                 Count(u, "forwarded") =>
                    stats'[t].forwarded = stats[t].forwarded + IF u = t THEN 1 ELSE 0
BY DEF TypeOK, Counter, Count

LEMMA SettleForwarded ==
    ASSUME TypeOK, ForwardedInv, NEW h \in Handler, handler[h].pc # "idle",
           NEW field \in {"forwarded", "dropped", "failed"}, Settle(h, field),
           acknowledged' = acknowledged,
           field = "forwarded" => ~NeedsCall(handler[h].msg)
    PROVE  ForwardedInv'
<1>1. TypeOf(handler[h].msg) \in MessageType /\ Count(TypeOf(handler[h].msg), field)
  BY TypeOfMessage DEF TypeOK, Settle
<1>2. \A g \in Handler : handler'[g] = IF g = h THEN IdleHandler ELSE handler[g]
  BY DEF Settle, Return, TypeOK
<1>3. \A g \in Handler : handler'[g].pc = "replied" => handler'[g] = handler[g]
  BY <1>2 DEF IdleHandler
<1>4. ASSUME NEW t \in MessageType
      PROVE  /\ stats[t].forwarded \in Nat /\ stats'[t].forwarded \in Nat
             /\ Enabled /\ t # "heartbeat" => stats'[t].forwarded <= stats[t].forwarded
  <2>1. stats[t].forwarded \in Nat
    BY StatsNat
  <2>2. CASE field # "forwarded"
    BY <1>1, <2>1, <2>2, StatsNat
  <2>3. CASE field = "forwarded"
    BY <1>1, <2>1, <2>3, StatsNat DEF NeedsCall
  <2> QED
    BY <2>2, <2>3
<1> QED
  BY <1>3, <1>4, NoMoreForwarded

\* A callback counts the code 0 it was answered.
LEMMA ReplyOkForwarded ==
    ASSUME TypeOK, ForwardedInv, NEW h \in Handler, ReplyOk(h)
    PROVE  ForwardedInv'
<1> SUFFICES ASSUME Enabled, NEW t \in MessageType \ {"heartbeat"}
             PROVE  /\ IsFiniteSet(Accepted(t)')
                    /\ stats'[t].forwarded + Cardinality(Owed(t)') <= Cardinality(Accepted(t)')
  BY DEF ForwardedInv
<1>1. /\ TypeOf(handler[h].msg) \in MessageType /\ Count(TypeOf(handler[h].msg), "forwarded")
      /\ handler[h].pc = "replied" /\ handler[h].code = 0
  BY TypeOfMessage DEF TypeOK, ReplyOk, Settle
<1>2. Accepted(t)' = Accepted(t)
  BY DEF ReplyOk, downstream, Accepted
<1>3. Owed(t)' = IF TypeOf(handler[h].msg) = t THEN Owed(t) \ {h} ELSE Owed(t)
  <2>1. \A g \in Handler : handler'[g] = IF g = h THEN IdleHandler ELSE handler[g]
    BY DEF ReplyOk, Settle, Return, TypeOK
  <2> QED
    BY <2>1 DEF Owed, IdleHandler
<1>4. TypeOf(handler[h].msg) = t => Cardinality(Owed(t) \ {h}) = Cardinality(Owed(t)) - 1
  <2>1. TypeOf(handler[h].msg) = t => h \in Owed(t)
    BY <1>1 DEF Owed
  <2> QED
    BY <2>1, OwedFinite, FS_RemoveElement
<1>5. stats'[t].forwarded = stats[t].forwarded + IF TypeOf(handler[h].msg) = t THEN 1 ELSE 0
  BY <1>1, StatsNat
<1>6. /\ IsFiniteSet(Accepted(t))
      /\ stats[t].forwarded + Cardinality(Owed(t)) <= Cardinality(Accepted(t))
      /\ stats[t].forwarded \in Nat /\ Cardinality(Owed(t)) \in Nat
  BY StatsNat, OwedFinite DEF ForwardedInv
<1>7. stats'[t].forwarded + Cardinality(Owed(t)') = stats[t].forwarded + Cardinality(Owed(t))
  BY <1>3, <1>4, <1>5, <1>6
<1> QED
  BY <1>2, <1>6, <1>7

\* A service answers: with code 0 it accepts a call and owes a count for it.
LEMMA ExecuteForwarded ==
    ASSUME TypeOK, ForwardedInv, NEW h \in Handler, Execute(h)
    PROVE  ForwardedInv'
<1>1. PICK code \in ReplyCode(handler[h].call) :
          /\ handler' = [handler EXCEPT ![h].pc = "replied", ![h].code = code]
          /\ acknowledged' = IF code = 0 THEN [acknowledged EXCEPT ![handler[h].msg] = @ + 1]
                             ELSE acknowledged
  BY DEF Execute
<1>2. /\ \A g \in Handler : g # h => handler'[g] = handler[g]
      /\ handler'[h].code = code /\ handler'[h].msg = handler[h].msg
      /\ handler[h].pc = "calling" /\ handler[h].msg \in Message /\ stats' = stats
  BY <1>1 DEF TypeOK, Execute, memory
<1>3. CASE code # 0
  <2>1. acknowledged' = acknowledged
    BY <1>1, <1>3
  <2>2. \A g \in Handler : handler'[g].pc = "replied" /\ handler'[g].code = 0 =>
                             handler'[g] = handler[g]
    BY <1>2, <1>3
  <2> QED
    BY <1>2, <2>1, <2>2, StatsNat, NoMoreForwarded
<1>4. CASE code = 0
  <2> SUFFICES ASSUME Enabled, NEW t \in MessageType \ {"heartbeat"}
               PROVE  /\ IsFiniteSet(Accepted(t)')
                      /\ stats'[t].forwarded + Cardinality(Owed(t)') <= Cardinality(Accepted(t)')
    BY DEF ForwardedInv
  <2>1. /\ IsFiniteSet(Accepted(t))
        /\ stats[t].forwarded + Cardinality(Owed(t)) <= Cardinality(Accepted(t))
        /\ stats[t].forwarded \in Nat /\ Cardinality(Owed(t)) \in Nat
    BY StatsNat, OwedFinite DEF ForwardedInv
  <2>2. /\ IsFiniteSet(Accepted(t)')
        /\ Cardinality(Accepted(t)') = Cardinality(Accepted(t))
                                       + IF TypeOf(handler[h].msg) = t THEN 1 ELSE 0
    BY <1>1, <1>2, <1>4, <2>1, OneMoreAccepted
  <2>3. CASE TypeOf(handler[h].msg) = t
    <3>1. Owed(t)' \subseteq Owed(t) \cup {h} /\ h \notin Owed(t)
      BY <1>2 DEF Owed
    <3>2. /\ IsFiniteSet(Owed(t) \cup {h})
          /\ Cardinality(Owed(t) \cup {h}) = Cardinality(Owed(t)) + 1
      BY <3>1, OwedFinite, FS_AddElement
    <3>3. /\ Cardinality(Owed(t)') \in Nat
          /\ Cardinality(Owed(t)') <= Cardinality(Owed(t)) + 1
      BY <3>1, <3>2, FS_Subset, FS_CardinalityType
    <3>4. Cardinality(Accepted(t)') = Cardinality(Accepted(t)) + 1 /\ Cardinality(Accepted(t)) \in Nat
      BY <2>1, <2>2, <2>3, FS_CardinalityType
    <3> QED
      BY <1>2, <2>1, <2>2, <3>3, <3>4
  <2>4. CASE TypeOf(handler[h].msg) # t
    <3>1. Owed(t)' \subseteq Owed(t)
      BY <1>2, <2>4 DEF Owed
    <3>2. Cardinality(Owed(t)') \in Nat /\ Cardinality(Owed(t)') <= Cardinality(Owed(t))
      BY <3>1, OwedShrinks
    <3>3. Cardinality(Accepted(t)') = Cardinality(Accepted(t)) /\ Cardinality(Accepted(t)) \in Nat
      BY <2>1, <2>2, <2>4, FS_CardinalityType
    <3> QED
      BY <1>2, <2>1, <2>2, <3>2, <3>3
  <2> QED
    BY <2>3, <2>4
<1> QED
  BY <1>3, <1>4

LEMMA ExecuteLateForwarded ==
    ASSUME TypeOK, ForwardedInv, NEW m \in Message, ExecuteLate(m)
    PROVE  ForwardedInv'
<1>1. stats' = stats /\ handler' = handler
  BY DEF ExecuteLate, memory
<1>2. CASE acknowledged' = acknowledged
  BY <1>1, <1>2, StatsNat, NoMoreForwarded
<1>3. CASE acknowledged' = [acknowledged EXCEPT ![m] = @ + 1]
  <2> SUFFICES ASSUME Enabled, NEW t \in MessageType \ {"heartbeat"}
               PROVE  /\ IsFiniteSet(Accepted(t)')
                      /\ stats'[t].forwarded + Cardinality(Owed(t)') <= Cardinality(Accepted(t)')
    BY DEF ForwardedInv
  <2>1. /\ IsFiniteSet(Accepted(t))
        /\ stats[t].forwarded + Cardinality(Owed(t)) <= Cardinality(Accepted(t))
        /\ stats[t].forwarded \in Nat /\ Cardinality(Owed(t)) \in Nat
        /\ Cardinality(Accepted(t)) \in Nat
    BY StatsNat, OwedFinite, FS_CardinalityType DEF ForwardedInv
  <2>2. /\ IsFiniteSet(Accepted(t)')
        /\ Cardinality(Accepted(t)') = Cardinality(Accepted(t)) + IF TypeOf(m) = t THEN 1 ELSE 0
    BY <1>3, <2>1, OneMoreAccepted
  <2>3. Owed(t)' = Owed(t)
    BY <1>1 DEF Owed
  <2> QED
    BY <1>1, <2>1, <2>2, <2>3
<1> QED
  BY <1>2, <1>3 DEF ExecuteLate

LEMMA HandlerStepForwarded ==
    ASSUME TypeOK, ForwardedInv, NEW h \in Handler, HandlerStep(h)
    PROVE  ForwardedInv'
<1> USE DEF downstream, memory
<1>1. CASE Drop(h)
  BY <1>1, SettleForwarded DEF Drop
<1>2. CASE Abandon(h)
  <2>1. \A g \in Handler : handler'[g] = IF g = h THEN IdleHandler ELSE handler[g]
    BY <1>2 DEF Abandon, Return, TypeOK
  <2>2. stats' = stats /\ acknowledged' = acknowledged
    BY <1>2 DEF Abandon
  <2> QED
    BY <2>1, <2>2, StatsNat, NoMoreForwarded DEF IdleHandler
<1>3. CASE UpdateDeviceView(h)
  BY <1>3, StatsNat, NoMoreForwarded DEF UpdateDeviceView, TypeOK
<1>4. CASE ForwardWithoutCall(h)
  BY <1>4, SettleForwarded DEF ForwardWithoutCall
<1>5. CASE NoStub(h)
  BY <1>5, SettleForwarded DEF NoStub
<1>6. CASE CallService(h)
  BY <1>6, StatsNat, NoMoreForwarded DEF CallService, SendCall, TypeOK
<1>7. CASE CallFails(h)
  BY <1>7, SettleForwarded DEF CallFails
<1>8. CASE ReplyOk(h)
  BY <1>8, ReplyOkForwarded
<1>9. CASE VerifyRegistered(h)
  BY <1>9, StatsNat, NoMoreForwarded DEF VerifyRegistered, SendCall, TypeOK
<1>10. CASE ReplyError(h)
  BY <1>10, SettleForwarded DEF ReplyError
<1> QED
  BY <1>1, <1>2, <1>3, <1>4, <1>5, <1>6, <1>7, <1>8, <1>9, <1>10 DEF HandlerStep

LEMMA NextForwarded == TypeOK /\ ForwardedInv /\ [Next]_vars => ForwardedInv'
<1> SUFFICES ASSUME TypeOK, ForwardedInv, [Next]_vars PROVE ForwardedInv'
  OBVIOUS
<1> USE DEF downstream, memory
<1>1. ASSUME NEW m \in Message, Publish(m) PROVE ForwardedInv'
  BY <1>1, StatsNat, NoMoreForwarded DEF Publish
<1>2. ASSUME NEW m \in Message, ExecuteLate(m) PROVE ForwardedInv'
  BY <1>2, ExecuteLateForwarded
<1>3. CASE Reconnect \/ Connect \/ StartServing \/ StopServing
  BY <1>3, StatsNat, NoMoreForwarded DEF Reconnect, Connect, StartServing, StopServing
<1>4. CASE Disconnect \/ Crash
  <2>1. /\ acknowledged' = acknowledged
        /\ \A t \in MessageType : stats'[t].forwarded = 0
        /\ \A h \in Handler : handler'[h].pc = "idle"
    BY <1>4 DEF Disconnect, Crash, LoseProcess, NoCounter, IdleHandler
  <2>2. \A t \in MessageType : stats[t].forwarded \in Nat
    BY StatsNat
  <2> QED
    BY <2>1, <2>2, NoMoreForwarded
<1>5. ASSUME NEW h \in Handler, NEW m \in Message, Deliver(h, m) PROVE ForwardedInv'
  <2>1. /\ acknowledged' = acknowledged
        /\ \A g \in Handler : handler'[g].pc = "replied" => handler'[g] = handler[g]
    BY <1>5 DEF Deliver, TypeOK
  <2>2. \A t \in MessageType : stats[t].forwarded \in Nat /\ stats'[t].forwarded = stats[t].forwarded
    BY <1>5, StatsNat, TypeOfMessage DEF Deliver
  <2> QED
    BY <2>1, <2>2, NoMoreForwarded
<1>6. ASSUME NEW h \in Handler, HandlerStep(h) PROVE ForwardedInv'
  BY <1>6, HandlerStepForwarded
<1>7. ASSUME NEW h \in Handler, Execute(h) PROVE ForwardedInv'
  BY <1>7, ExecuteForwarded
<1>8. CASE UNCHANGED vars
  BY <1>8, StatsNat, NoMoreForwarded DEF vars
<1> QED
  BY <1>1, <1>2, <1>3, <1>4, <1>5, <1>6, <1>7, <1>8 DEF Next, Step

\* Nothing counts as forwarded that no service accepted: of each type, the counter is at
\* most the calls accepted, for any number of callbacks, redeliveries, late executions,
\* crashes and messages.
THEOREM ForwardedWasAcceptedHolds == Spec => []ForwardedWasAccepted
<1>1. Init => ForwardedInv
  <2> SUFFICES ASSUME Init, NEW t \in MessageType
               PROVE  /\ IsFiniteSet(Accepted(t))
                      /\ stats[t].forwarded + Cardinality(Owed(t)) <= Cardinality(Accepted(t))
    BY DEF ForwardedInv
  <2>1. Accepted(t) = {}
    BY DEF Init, Accepted
  <2>2. Owed(t) = {} /\ stats[t].forwarded = 0
    BY DEF Init, Owed, IdleHandler, NoCounter
  <2> QED
    BY <2>1, <2>2, FS_EmptySet
<1>2. TypeOK /\ ForwardedInv => ForwardedWasAccepted
  <2> SUFFICES ASSUME TypeOK, ForwardedInv, Enabled, NEW t \in MessageType \ {"heartbeat"}
               PROVE  stats[t].forwarded <= Cardinality(Accepted(t))
    BY DEF ForwardedWasAccepted
  <2>1. /\ stats[t].forwarded \in Nat /\ Cardinality(Owed(t)) \in Nat
        /\ Cardinality(Accepted(t)) \in Nat
        /\ stats[t].forwarded + Cardinality(Owed(t)) <= Cardinality(Accepted(t))
    BY StatsNat, OwedFinite, FS_CardinalityType DEF ForwardedInv
  <2> QED
    BY <2>1
<1> QED
  BY <1>1, <1>2, NextForwarded, TypeCorrect, PTL DEF Spec
=============================================================================
