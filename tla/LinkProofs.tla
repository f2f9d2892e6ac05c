----------------------------- MODULE LinkProofs -----------------------------
(* Theorems about Link, for any numbers of sockets, tasks and attempts: the *)
(* first hold in every environment, those about the reconnections where     *)
(* logins succeed and connections break after them, with or without close   *)
(* handshakes of the server and messages that end the listener, up to the   *)
(* user's first disconnect() or for good.                                   *)
EXTENDS Link, TLAPS

-----------------------------------------------------------------------------
(* Type correctness. *)

LEMMA LeaveType ==
  ASSUME TypeOK, NEW t \in Tasks, NEW next \in {"off", "start"}, Leave(t, next)
  PROVE  /\ step' \in [Tasks -> {"off", "start", "sleep", "ticket", "dial", "register", "login"}]
         /\ on' \in [Tasks -> Sockets \cup {None}]
         /\ fut' \in [Tasks -> {"none", "waiting", "answered", "refused", "error", "lost"}]
BY DEF TypeOK, Leave

LEMMA FailPendingType ==
  ASSUME TypeOK
  PROVE  FailPending(fut) \in [Tasks -> {"none", "waiting", "answered", "refused", "error", "lost"}]
BY DEF TypeOK, FailPending

LEMMA FailType ==
  ASSUME TypeOK, NEW t \in Tasks, Fail(t)
  PROVE  /\ step' \in [Tasks -> {"off", "start", "sleep", "ticket", "dial", "register", "login"}]
         /\ on' \in [Tasks -> Sockets \cup {None}]
         /\ fut' \in [Tasks -> {"none", "waiting", "answered", "refused", "error", "lost"}]
         /\ attempts' \in Nat
         /\ reconnecting' \in BOOLEAN
         /\ wanted' \in BOOLEAN
         /\ gaveUp' \in BOOLEAN
         /\ failures' \in 0 .. MaxAttempts + 1
<1>1. CASE t = Caller
  <2>1. /\ Leave(t, "off")
        /\ wanted' = FALSE
        /\ UNCHANGED <<attempts, reconnecting, gaveUp, failures>>
    BY <1>1 DEF Fail, loopVars, history
  <2> QED BY <2>1, LeaveType DEF TypeOK
<1>2. CASE t # Caller
  <2>1. /\ reconnecting' = FALSE
        /\ failures' = More(failures)
        /\ Leave(t, IF MayRetry THEN "start" ELSE "off")
        /\ gaveUp' = (gaveUp \/ attempts >= MaxAttempts)
        /\ UNCHANGED <<attempts, wanted>>
    BY <1>2 DEF Fail
  <2>2. /\ step' \in [Tasks -> {"off", "start", "sleep", "ticket", "dial", "register", "login"}]
        /\ on' \in [Tasks -> Sockets \cup {None}]
        /\ fut' \in [Tasks -> {"none", "waiting", "answered", "refused", "error", "lost"}]
    <3>1. CASE MayRetry
      BY <2>1, <3>1, LeaveType
    <3>2. CASE ~MayRetry
      BY <2>1, <3>2, LeaveType
    <3> QED BY <3>1, <3>2
  <2>3. failures' \in 0 .. MaxAttempts + 1
    BY <2>1, LinkAssumption DEF More, TypeOK
  <2>4. gaveUp' \in BOOLEAN
    BY <2>1
  <2> QED BY <2>1, <2>2, <2>3, <2>4 DEF TypeOK
<1> QED BY <1>1, <1>2

(* What the steps of connect() and _schedule_reconnect do to the types. *)
LEMMA TaskStepType ==
  ASSUME TypeOK, NEW t \in Tasks, TaskStep(t)
  PROVE  TypeOK'
<1> USE DEF linkVars, loopVars, taskVars, callVars, userVars, history
<1>1. CASE LoopStarts(t)
  <2>1. attempts' \in Nat
    BY <1>1 DEF LoopStarts, NextAttempt, TypeOK
  <2>2. CASE Exhausted(NextAttempt(attempts))
    <3>1. reconnecting' = FALSE /\ gaveUp' = TRUE /\ Leave(t, "off")
      BY <1>1, <2>2 DEF LoopStarts
    <3> QED BY <1>1, <2>1, <3>1, LeaveType, ZenonT(30) DEF LoopStarts, TypeOK
  <2>3. CASE ~Exhausted(NextAttempt(attempts))
    <3>1. reconnecting' = TRUE /\ Leave(t, "sleep") /\ UNCHANGED gaveUp
      BY <1>1, <2>3 DEF LoopStarts
    <3> QED BY <1>1, <2>1, <3>1 DEF LoopStarts, Leave, TypeOK
  <2> QED BY <2>2, <2>3
<1>2. CASE LoopWakes(t)
  BY <1>2 DEF LoopWakes, TypeOK
<1>3. CASE TicketObtained(t)
  BY <1>3 DEF TicketObtained, TypeOK
<1>4. CASE TicketFails(t)
  BY <1>4, FailType DEF TicketFails, TypeOK
<1>5. CASE DialSucceeds(t)
  <2>1. PICK s \in Sockets :
          /\ sock' = [sock EXCEPT ![s] = "open"]
          /\ ws' = s
          /\ listener' = s
          /\ on' = [on EXCEPT ![t] = s]
    BY <1>5 DEF DialSucceeds, Adopt
  <2> QED BY <1>5, <2>1 DEF DialSucceeds, StartPing, Adopt, TypeOK
<1>6. CASE DialFails(t)
  BY <1>6, FailType DEF DialFails, TypeOK
<1>7. CASE Registered(t)
  <2>1. CASE CanSend
    BY <1>7, <2>1 DEF Registered, TypeOK
  <2>2. CASE ~CanSend
    BY <1>7, <2>2, FailType DEF Registered, TypeOK
  <2> QED BY <2>1, <2>2
<1>8. CASE LoggedIn(t)
  <2>1. failures' \in 0 .. MaxAttempts + 1
    BY <1>8, LinkAssumption DEF LoggedIn
  <2> QED BY <1>8, <2>1, LeaveType DEF LoggedIn, TypeOK
<1>9. CASE RequestFails(t)
  BY <1>9, FailType DEF RequestFails, TypeOK
<1>10. CASE RequestTimesOut(t)
  BY <1>10, FailType DEF RequestTimesOut, TypeOK
<1> QED BY <1>1, <1>2, <1>3, <1>4, <1>5, <1>6, <1>7, <1>8, <1>9, <1>10 DEF TaskStep

LEMMA ListenerStepType ==
  ASSUME TypeOK, ListenerStep
  PROVE  TypeOK'
<1> USE DEF linkVars, loopVars, taskVars, callVars, userVars, history
<1>1. CASE ListenerLoses
  <2>1. Cleanup /\ UNCHANGED <<sock, logged, loopVars, on, userVars, history>> /\ status' = "CLOSED"
    BY <1>1 DEF ListenerLoses
  <2>2. step' \in [Tasks -> {"off", "start", "sleep", "ticket", "dial", "register", "login"}]
    <3>1. CASE MayReconnect
      <4>1. PICK t \in Loops : step' = [step EXCEPT ![t] = "start"]
        BY <1>1, <3>1 DEF ListenerLoses
      <4> QED BY <4>1 DEF TypeOK
    <3>2. CASE ~MayReconnect
      BY <1>1, <3>2 DEF ListenerLoses, TypeOK
    <3> QED BY <3>1, <3>2
  <2> QED BY <2>1, <2>2, FailPendingType DEF Cleanup, TypeOK
<1>2. CASE ListenerEnds
  BY <1>2 DEF ListenerEnds, TypeOK
<1>3. CASE \E t \in Tasks : AnswerRead(t) \/ RefusalRead(t)
  <2>1. PICK t \in Tasks : AnswerRead(t) \/ RefusalRead(t)
    BY <1>3
  <2>2. fut' \in [Tasks -> {"none", "waiting", "answered", "refused", "error", "lost"}]
    BY <2>1 DEF AnswerRead, RefusalRead, TypeOK
  <2> QED BY <2>1, <2>2 DEF AnswerRead, RefusalRead, TypeOK
<1>4. CASE ListenerRaises
  <2>1. fut' \in [Tasks -> {"none", "waiting", "answered", "refused", "error", "lost"}]
    BY <1>4 DEF ListenerRaises, TypeOK
  <2> QED BY <1>4, <2>1 DEF ListenerRaises, TypeOK
<1> QED BY <1>1, <1>2, <1>3, <1>4 DEF ListenerStep

-----------------------------------------------------------------------------
(* The inductive invariant.  A future belongs to a task that is in one of   *)
(* the two requests of the handshake, and was sent on a socket: a task that *)
(* is off, sleeping or dialling can neither be answered nor time out.       *)

AwaitingTask(t) ==
  fut[t] # "none" => step[t] \in {"register", "login"} /\ on[t] \in Sockets

Awaiting == \A t \in Tasks : AwaitingTask(t)

LEMMA FailAwaits ==
  ASSUME TypeOK, Awaiting, NEW t \in Tasks, Fail(t)
  PROVE  Awaiting'
<1>1. \E next : Leave(t, next)
  <2>1. CASE t = Caller
    BY <2>1 DEF Fail
  <2>2. CASE t # Caller
    BY <2>2 DEF Fail
  <2> QED BY <2>1, <2>2
<1> QED BY <1>1 DEF Leave, Awaiting, AwaitingTask, TypeOK

LEMMA TaskStepAwaits ==
  ASSUME TypeOK, Awaiting, NEW t \in Tasks, TaskStep(t)
  PROVE  Awaiting'
<1> USE DEF linkVars, taskVars, callVars, userVars, history, Awaiting, AwaitingTask
<1>1. CASE LoopStarts(t)
  <2>1. \E next : Leave(t, next)
    BY <1>1 DEF LoopStarts
  <2> QED BY <2>1 DEF Leave, TypeOK
<1>2. CASE LoopWakes(t)
  BY <1>2 DEF LoopWakes, TypeOK
<1>3. CASE TicketObtained(t)
  BY <1>3 DEF TicketObtained, TypeOK
<1>4. CASE TicketFails(t)
  BY <1>4, FailAwaits DEF TicketFails
<1>5. CASE DialSucceeds(t)
  <2>1. PICK s \in Sockets : on' = [on EXCEPT ![t] = s]
    BY <1>5 DEF DialSucceeds, Adopt
  <2> QED BY <1>5, <2>1 DEF DialSucceeds, Adopt, TypeOK
<1>6. CASE DialFails(t)
  BY <1>6, FailAwaits DEF DialFails
<1>7. CASE Registered(t)
  <2>1. CASE CanSend
    BY <1>7, <2>1 DEF Registered, CanSend, TypeOK
  <2>2. CASE ~CanSend
    BY <1>7, <2>2, FailAwaits DEF Registered
  <2> QED BY <2>1, <2>2
<1>8. CASE LoggedIn(t)
  BY <1>8 DEF LoggedIn, Leave, TypeOK
<1>9. CASE RequestFails(t)
  BY <1>9, FailAwaits DEF RequestFails
<1>10. CASE RequestTimesOut(t)
  BY <1>10, FailAwaits DEF RequestTimesOut
<1> QED BY <1>1, <1>2, <1>3, <1>4, <1>5, <1>6, <1>7, <1>8, <1>9, <1>10 DEF TaskStep

(* Cleanup fails what waits and resolves nothing else. *)
LEMMA CleanupAwaits ==
  ASSUME TypeOK, Awaiting, Cleanup, UNCHANGED <<step, on>>
  PROVE  Awaiting'
BY DEF Cleanup, FailPending, Awaiting, AwaitingTask, TypeOK

LEMMA ListenerStepAwaits ==
  ASSUME TypeOK, Awaiting, ListenerStep
  PROVE  Awaiting'
<1> USE DEF taskVars
<1>1. CASE ListenerLoses
  <2>1. Cleanup /\ UNCHANGED on
    BY <1>1 DEF ListenerLoses
  <2>2. CASE MayReconnect
    <3>1. PICK t \in Loops : step[t] = "off" /\ step' = [step EXCEPT ![t] = "start"]
      BY <1>1, <2>2 DEF ListenerLoses
    <3>2. t \in Tasks /\ fut[t] = "none"
      BY <3>1 DEF Awaiting, AwaitingTask, Tasks
    <3> QED BY <2>1, <3>1, <3>2 DEF Cleanup, FailPending, Awaiting, AwaitingTask, TypeOK
  <2>3. CASE ~MayReconnect
    BY <1>1, <2>1, <2>3, CleanupAwaits DEF ListenerLoses
  <2> QED BY <2>2, <2>3
<1>2. CASE ListenerEnds
  BY <1>2 DEF ListenerEnds, Awaiting, AwaitingTask
<1>3. CASE \E t \in Tasks : AnswerRead(t) \/ RefusalRead(t)
  <2>1. PICK t \in Tasks : AnswerRead(t) \/ RefusalRead(t)
    BY <1>3
  <2> QED BY <2>1 DEF AnswerRead, RefusalRead, Awaiting, AwaitingTask, TypeOK
<1>4. CASE ListenerRaises
  <2>1. UNCHANGED <<step, on>> /\ \A t \in Tasks : fut'[t] # "none" => fut[t] # "none"
    BY <1>4 DEF ListenerRaises, TypeOK
  <2> QED BY <2>1 DEF Awaiting, AwaitingTask
<1> QED BY <1>1, <1>2, <1>3, <1>4 DEF ListenerStep

LinkInv == TypeOK /\ Awaiting

LEMMA TypeStep ==
  ASSUME LinkInv, [Next]_vars
  PROVE  TypeOK'
<1> USE DEF linkVars, loopVars, taskVars, callVars, userVars, history
<1>a. TypeOK /\ Awaiting
  BY DEF LinkInv
<1>1. CASE Connect
  <2>1. connects' \in 0 .. MaxConnects
    BY <1>a, <1>1, LinkAssumption DEF Connect, TypeOK
  <2>2. step' \in [Tasks -> {"off", "start", "sleep", "ticket", "dial", "register", "login"}]
    BY <1>a, <1>1 DEF Connect, TypeOK
  <2> QED BY <1>a, <1>1, <2>1, <2>2 DEF Connect, TypeOK
<1>2. CASE Disconnect
  <2>1. disconnects' \in 0 .. MaxDisconnects
    BY <1>a, <1>2, LinkAssumption DEF Disconnect, TypeOK
  <2>2. CASE ws # None
    BY <1>a, <1>2, <2>1, <2>2 DEF Disconnect, TypeOK
  <2>3. CASE ws = None
    BY <1>a, <1>2, <2>1, <2>3, FailPendingType DEF Disconnect, Cleanup, TypeOK
  <2> QED BY <2>2, <2>3
<1>3. CASE DisconnectNow
  <2>1. disconnects' \in 0 .. MaxDisconnects
    BY <1>a, <1>3, LinkAssumption DEF DisconnectNow, TypeOK
  <2>2. sock' \in [Sockets -> {"open"} \cup Dead] /\ logged' \subseteq Sockets
    BY <1>a, <1>3 DEF DisconnectNow, Dead, TypeOK
  <2>3. status' \in {"CONNECTING", "CONNECTED", "DISCONNECTING", "CLOSED", "ERROR"}
    BY <1>a, <1>3 DEF DisconnectNow, TypeOK
  <2> QED BY <1>a, <1>3, <2>1, <2>2, <2>3, FailPendingType DEF DisconnectNow, Cleanup, TypeOK
<1>4. CASE CloseDone
  BY <1>a, <1>4, FailPendingType DEF CloseDone, Cleanup, TypeOK
<1>5. CASE \E t \in Tasks : TaskStep(t)
  BY <1>a, <1>5, TaskStepType
<1>6. CASE \E t \in Tasks : ServerLogsIn(t)
  <2>1. PICK t \in Tasks : ServerLogsIn(t)
    BY <1>6
  <2>2. on[t] \in Sockets
    BY <1>a, <2>1 DEF ServerLogsIn, Awaiting, AwaitingTask
  <2> QED BY <1>a, <2>1, <2>2 DEF ServerLogsIn, TypeOK
<1>7. CASE ListenerStep
  BY <1>a, <1>7, ListenerStepType
<1>8. CASE PingEnds
  BY <1>a, <1>8 DEF PingEnds, TypeOK
<1>9. CASE CloseHandshake
  BY <1>a, <1>9 DEF CloseHandshake, Dead, TypeOK
<1>10. CASE \E s \in Sockets : Drop(s)
  BY <1>a, <1>10 DEF Drop, Dead, TypeOK
<1>11. CASE UNCHANGED vars
  BY <1>a, <1>11 DEF vars, TypeOK
<1> QED BY <1>1, <1>2, <1>3, <1>4, <1>5, <1>6, <1>7, <1>8, <1>9, <1>10, <1>11 DEF Next

LEMMA AwaitingStep ==
  ASSUME LinkInv, [Next]_vars
  PROVE  Awaiting'
<1> USE DEF linkVars, loopVars, taskVars, callVars, userVars, history
<1>a. TypeOK /\ Awaiting
  BY DEF LinkInv
<1>1. CASE Connect
  BY <1>a, <1>1 DEF Connect, Awaiting, AwaitingTask, TypeOK, Tasks
<1>2. CASE Disconnect
  <2>1. CASE ws # None
    BY <1>a, <1>2, <2>1 DEF Disconnect, Awaiting, AwaitingTask
  <2>2. CASE ws = None
    BY <1>a, <1>2, <2>2, CleanupAwaits DEF Disconnect
  <2> QED BY <2>1, <2>2
<1>3. CASE DisconnectNow
  BY <1>a, <1>3, CleanupAwaits DEF DisconnectNow
<1>4. CASE CloseDone
  BY <1>a, <1>4, CleanupAwaits DEF CloseDone
<1>5. CASE \E t \in Tasks : TaskStep(t)
  BY <1>a, <1>5, TaskStepAwaits
<1>6. CASE ListenerStep
  BY <1>a, <1>6, ListenerStepAwaits
<1>7. CASE UNCHANGED <<step, on, fut>>
  BY <1>a, <1>7 DEF Awaiting, AwaitingTask
<1> QED
  BY <1>1, <1>2, <1>3, <1>4, <1>5, <1>6, <1>7
  DEF Next, ServerLogsIn, PingEnds, CloseHandshake, Drop, vars

(* Whatever the interleaving of tasks, losses and disconnects, a request is *)
(* pending only in the handshake that made it (the futures of send() in     *)
(* ws_client.py): the invariant the other results rest on.                  *)
THEOREM RequestsBelongToHandshakes == Spec => []LinkInv
<1>1. Init => LinkInv
  <2> SUFFICES ASSUME Init PROVE LinkInv
    OBVIOUS
  <2>1. /\ connects \in 0 .. MaxConnects
        /\ disconnects \in 0 .. MaxDisconnects
        /\ failures \in 0 .. MaxAttempts + 1
    BY LinkAssumption DEF Init
  <2>2. TypeOK
    BY <2>1 DEF Init, TypeOK, Dead
  <2>3. Awaiting
    BY DEF Init, Awaiting, AwaitingTask
  <2> QED BY <2>2, <2>3 DEF LinkInv
<1>2. LinkInv /\ [Next]_vars => LinkInv'
  BY TypeStep, AwaitingStep DEF LinkInv
<1> QED BY <1>1, <1>2, PTL DEF Spec

(* The fields of the client, its tasks and the network keep their types.    *)
THEOREM LinkTypes == Spec => []TypeOK
BY RequestsBelongToHandshakes, PTL DEF LinkInv

-----------------------------------------------------------------------------
(* The listener and the keep-alive. *)

(* The two invariants survive every step that keeps these four variables.   *)
Wired == ListenerIsCurrent /\ KeepaliveRuns

LEMMA WiredInit == Init => Wired
BY DEF Init, Wired, ListenerIsCurrent, KeepaliveRuns, Connected

LEMMA WiredTaskStep ==
  ASSUME Wired, NEW t \in Tasks, TaskStep(t)
  PROVE  Wired'
<1> USE DEF linkVars, Wired, ListenerIsCurrent, KeepaliveRuns, Connected
<1>1. CASE TicketObtained(t)
  BY <1>1 DEF TicketObtained
<1>2. CASE DialSucceeds(t)
  BY <1>2 DEF DialSucceeds, StartPing, Adopt
<1>3. CASE DialFails(t)
  BY <1>3 DEF DialFails
<1>4. CASE UNCHANGED <<ws, status, listener, pinging>>
  BY <1>4
<1> QED
  BY <1>1, <1>2, <1>3, <1>4
  DEF TaskStep, LoopStarts, LoopWakes, TicketFails, Registered, LoggedIn,
      RequestFails, RequestTimesOut

LEMMA WiredStep ==
  ASSUME Wired, [Next]_vars
  PROVE  Wired'
<1> USE DEF linkVars, Wired, ListenerIsCurrent, KeepaliveRuns, Connected
<1>1. CASE Cleanup
  BY <1>1 DEF Cleanup
<1>2. CASE Disconnect
  BY <1>1, <1>2 DEF Disconnect
<1>3. CASE \E t \in Tasks : TaskStep(t)
  BY <1>3, WiredTaskStep
<1>4. CASE ListenerEnds \/ ListenerRaises
  BY <1>4 DEF ListenerEnds, ListenerRaises
<1>5. CASE PingEnds
  BY <1>5 DEF PingEnds
<1>6. CASE UNCHANGED <<ws, status, listener, pinging>>
  BY <1>6
<1> QED
  BY <1>1, <1>2, <1>3, <1>4, <1>5, <1>6
  DEF Next, Connect, DisconnectNow, CloseDone, ListenerStep, ListenerLoses, AnswerRead,
      RefusalRead, ServerLogsIn, CloseHandshake, Drop, vars

(* However connections are dialled, replaced, lost and cleaned up, by any   *)
(* number of tasks, the listener reads the current one.                     *)
THEOREM OneConnectionIsRead == Spec => []ListenerIsCurrent
<1>1. Spec => []Wired
  BY WiredInit, WiredStep, PTL DEF Spec
<1> QED BY <1>1, PTL DEF Wired

(* No connection that reports CONNECTED is without its ping task.           *)
THEOREM ConnectionsAreKeptAlive == Spec => []KeepaliveRuns
<1>1. Spec => []Wired
  BY WiredInit, WiredStep, PTL DEF Spec
<1> QED BY <1>1, PTL DEF Wired

-----------------------------------------------------------------------------
(* Disconnecting. *)

LEMMA OffTasksRest ==
  ASSUME LinkInv, Idle, NEW t \in Tasks
  PROVE  ~TaskStep(t)
<1>1. step[t] = "off"
  BY DEF Idle
<1>2. fut[t] = "none"
  BY <1>1 DEF LinkInv, Awaiting, AwaitingTask
<1> QED
  BY <1>1, <1>2
  DEF TaskStep, LoopStarts, LoopWakes, TicketObtained, TicketFails, DialSucceeds, Adopt, DialFails,
      Registered, LoggedIn, RequestFails, RequestTimesOut

(* Once the user has disconnected and nothing is being connected, nothing   *)
(* but the user starts a task that connects: no answer, time-out or loss of *)
(* any connection, however late.                                            *)
THEOREM DisconnectedStaysQuiet == Spec => QuietDisconnect
<1>1. LinkInv /\ [Next]_vars => (intentional /\ ~wanted /\ Idle => Idle' \/ wanted')
  <2> SUFFICES ASSUME LinkInv, [Next]_vars, intentional, ~wanted, Idle
               PROVE  Idle' \/ wanted'
    OBVIOUS
  <2> USE DEF taskVars
  <2>1. CASE Connect
    BY <2>1 DEF Connect
  <2>2. CASE \E t \in Tasks : TaskStep(t)
    BY <2>2, OffTasksRest
  <2>3. CASE ListenerLoses
    <3>1. UNCHANGED step
      BY <2>3 DEF ListenerLoses, MayReconnect
    <3> QED BY <3>1 DEF Idle
  <2>4. CASE UNCHANGED step
    BY <2>4 DEF Idle
  <2> QED
    BY <2>1, <2>2, <2>3, <2>4
    DEF Next, Disconnect, DisconnectNow, CloseDone, ListenerStep, ListenerEnds, ListenerRaises,
        AnswerRead, RefusalRead, ServerLogsIn, PingEnds, CloseHandshake, Drop, vars
<1>2. LinkInv /\ [Next]_vars => [intentional /\ ~wanted /\ Idle => Idle' \/ wanted']_vars
  BY <1>1
<1> QED BY <1>2, RequestsBelongToHandshakes, PTL DEF Spec, QuietDisconnect

-----------------------------------------------------------------------------
(* The reconnections.                                                       *)

(* The environment in which the code's bookkeeping holds: a connection that *)
(* is lost was in use, and a login that is sent is accepted.  Without       *)
(* either, a second reconnection task may start, and with it a leak.  A     *)
(* loss then finds nobody reconnecting: it is not the _reconnecting flag    *)
(* that keeps the tasks apart, but that the code starts each in its turn.   *)
Calm == ~DropsInHandshake /\ ~LoginFails

-----------------------------------------------------------------------------
(* The inductive invariant: until the user disconnects, one task at most    *)
(* connects, and what the client holds depends on the await it is at.       *)

Early == {"start", "sleep", "ticket", "dial"}
Handshake == {"register", "login"}

(* There is no connection, not even a forgotten one. *)
Detached ==
  /\ ws = None /\ listener = None /\ ~authenticated
  /\ \A s \in Sockets : sock[s] # "open"

OneActive == \A t, u \in Tasks : step[t] # "off" /\ step[u] # "off" => t = u

(* The connection of a handshake is the current one, and in order. *)
HandshakeInv(t) ==
  /\ ws \in Sockets /\ on[t] = ws /\ listener = ws
  /\ sock[ws] = "open" /\ Connected /\ ~authenticated
  /\ fut[t] \in {"waiting", "answered"}
  /\ step[t] = "login" /\ fut[t] = "answered" => ws \in logged

(* _reconnect_attempts counts the failures in a row, and the attempt that   *)
(* is being made.                                                           *)
CountInv(t) ==
  /\ step[t] = "start" => attempts = failures /\ attempts < MaxAttempts
  /\ step[t] \in {"sleep", "ticket", "dial"} /\ t # Caller =>
       attempts = failures + 1 /\ attempts <= MaxAttempts
  /\ step[t] \in {"ticket", "dial"} /\ t = Caller => attempts = failures

ConnectingInv(t) ==
  /\ step[t] # "off" => wanted /\ ~gaveUp /\ (t \in Loops => AutoReconnect)
  /\ step[t] \in Early => Detached /\ CountInv(t)
  /\ step[t] \in Handshake => HandshakeInv(t) /\ attempts = 0

(* Nobody connects: there is no link to be had, or there is or was one.     *)
RestingInv ==
  /\ ~wanted \/ gaveUp => Detached /\ attempts = failures
  /\ Idle /\ wanted /\ ~gaveUp => attempts = 0 /\ failures = 0

Safe == NoLeak /\ AuthenticatedIsReal /\ FailuresBounded /\ GiveUpIsEarned

Orderly ==
  /\ closer = None
  /\ step[Caller] \notin {"start", "sleep"}
  /\ OneActive
  /\ \A t \in Tasks : ConnectingInv(t)
  /\ RestingInv
  /\ Safe

RInv == LinkInv /\ Wired /\ (intentional \/ Orderly)

-----------------------------------------------------------------------------
(* A calm environment, until the user disconnects. *)

LEMMA Places ==
  ASSUME TypeOK, NEW t \in Tasks
  PROVE  step[t] = "off" \/ step[t] \in Early \/ step[t] \in Handshake
BY DEF TypeOK, Early, Handshake

(* A task step is one of a task that is alive, and moves no other.          *)
LEMMA FailMoves ==
  ASSUME NEW t \in Tasks, Fail(t)
  PROVE  \E next : Leave(t, next)
BY DEF Fail

LEMMA OneTaskMoves ==
  ASSUME LinkInv, NEW t \in Tasks, TaskStep(t)
  PROVE  step[t] # "off" /\ \E next : step' = [step EXCEPT ![t] = next]
<1>1. step[t] # "off"
  <2> SUFFICES ASSUME step[t] = "off" PROVE FALSE
    OBVIOUS
  <2>1. fut[t] = "none"
    BY DEF LinkInv, Awaiting, AwaitingTask
  <2> QED
    BY <2>1
    DEF TaskStep, LoopStarts, LoopWakes, TicketObtained, TicketFails, DialSucceeds, Adopt,
        DialFails, Registered, LoggedIn, RequestFails, RequestTimesOut
<1>2. \E next : step' = [step EXCEPT ![t] = next]
  <2>1. CASE Fail(t)
    BY <2>1, FailMoves DEF Leave
  <2>2. CASE LoopStarts(t)
    BY <2>2 DEF LoopStarts, Leave
  <2>3. CASE LoopWakes(t) \/ TicketObtained(t) \/ DialSucceeds(t)
    BY <2>3 DEF LoopWakes, TicketObtained, DialSucceeds, Adopt
  <2>4. CASE Registered(t)
    <3>1. CASE CanSend
      BY <2>4, <3>1 DEF Registered
    <3> QED BY <2>1, <2>4, <3>1 DEF Registered
  <2>5. CASE LoggedIn(t)
    BY <2>5 DEF LoggedIn, Leave
  <2> QED
    BY <2>1, <2>2, <2>3, <2>4, <2>5
    DEF TaskStep, TicketFails, DialFails, RequestFails, RequestTimesOut
<1> QED BY <1>1, <1>2

(* Where someone is connecting, everybody else is off. *)
LEMMA OthersAreOff ==
  ASSUME Orderly, NEW t \in Tasks, step[t] # "off", NEW u \in Tasks, u # t
  PROVE  step[u] = "off"
BY DEF Orderly, OneActive

(* A connection that is lost, or whose listener a message ends, was not in  *)
(* a handshake: nobody connects.                                            *)
LEMMA LossFindsIdle ==
  ASSUME LinkInv, Orderly, listener # None, sock[listener] # "open" \/ ~InHandshake(listener)
  PROVE  Idle /\ wanted /\ ~gaveUp /\ attempts = 0 /\ failures = 0
<1>1. Idle
  <2> SUFFICES ASSUME NEW t \in Tasks, step[t] # "off" PROVE FALSE
    BY DEF Idle
  <2>1. ConnectingInv(t)
    BY DEF Orderly
  <2> QED BY <2>1, Places DEF LinkInv, ConnectingInv, Detached, HandshakeInv, InHandshake
<1>2. wanted /\ ~gaveUp
  BY DEF Orderly, RestingInv, Detached
<1> QED BY <1>1, <1>2 DEF Orderly, RestingInv

(* In a handshake nothing fails: it is answered, and in time.               *)
LEMMA RequestsAreAnswered ==
  ASSUME Calm, LinkInv, Orderly, NEW t \in Tasks
  PROVE  /\ ~RequestFails(t)
         /\ ~RequestTimesOut(t)
         /\ ~RefusalRead(t)
         /\ step[t] = "register" => CanSend
<1>1. fut[t] # "none" => HandshakeInv(t)
  BY DEF LinkInv, Awaiting, AwaitingTask, Orderly, ConnectingInv, Handshake
<1>2. step[t] = "register" => HandshakeInv(t)
  BY DEF Orderly, ConnectingInv, Handshake
<1> QED
  BY <1>1, <1>2, LinkAssumption
  DEF Calm, HandshakeInv, RequestFails, RequestTimesOut, RefusalRead, Answerable, CanSend

(* What is left to show when a step leaves everybody off.                   *)
LEMMA IdleIsOrderly ==
  ASSUME closer' = None, Idle', RestingInv', Safe'
  PROVE  Orderly'
<1>1. \A t \in Tasks : step'[t] = "off"
  BY DEF Idle
<1>2. Caller \in Tasks
  BY DEF Tasks
<1> QED
  BY <1>1, <1>2 DEF Orderly, OneActive, ConnectingInv, Early, Handshake

(* What is left to show when a step leaves one task connecting.             *)
LEMMA OneIsOrderly ==
  ASSUME closer' = None, NEW t \in Tasks, step'[t] # "off",
         \A u \in Tasks : u # t => step'[u] = "off",
         t = Caller => step'[t] \notin {"start", "sleep"},
         ConnectingInv(t)', Safe'
  PROVE  Orderly'
<1>1. Caller \in Tasks /\ ~Idle'
  BY DEF Tasks, Idle
<1>2. RestingInv'
  BY <1>1 DEF ConnectingInv, RestingInv
<1>3. step'[Caller] \notin {"start", "sleep"}
  BY <1>1
<1>4. \A u \in Tasks : ConnectingInv(u)'
  BY DEF ConnectingInv, Early, Handshake
<1> QED
  BY <1>2, <1>3, <1>4 DEF Orderly, OneActive

(* An attempt of a reconnection, or a connect(), fails before the dial.     *)
LEMMA FailIsOrderly ==
  ASSUME LinkInv, Orderly, NEW t \in Tasks, step[t] \in {"ticket", "dial"}, Fail(t),
         UNCHANGED <<linkVars, closer>>
  PROVE  Orderly'
<1> USE LinkAssumption DEF linkVars
<1>1. ConnectingInv(t) /\ Safe /\ closer = None
  BY DEF Orderly
<1>2. wanted /\ ~gaveUp /\ Detached /\ CountInv(t) /\ (t \in Loops => AutoReconnect)
  BY <1>1 DEF ConnectingInv, Early
<1>3. \A u \in Tasks : u # t => step[u] = "off"
  BY OthersAreOff
<1>4. attempts \in Nat /\ failures \in Nat /\ step \in [Tasks -> {"off", "start", "sleep", "ticket", "dial", "register", "login"}]
  BY DEF LinkInv, TypeOK
<1>5. Detached'
  BY <1>2 DEF Detached
<1>6. NoLeak' /\ AuthenticatedIsReal'
  BY <1>5 DEF Detached, NoLeak, AuthenticatedIsReal
<1>7. CASE t = Caller
  <2>1. /\ step' = [step EXCEPT ![t] = "off"] /\ wanted' = FALSE
        /\ UNCHANGED <<attempts, reconnecting, gaveUp, failures>>
    BY <1>7 DEF Fail, Leave, loopVars, history
  <2>2. Idle'
    BY <1>3, <1>4, <2>1 DEF Idle
  <2>3. attempts' = failures'
    BY <1>2, <1>7, <2>1 DEF CountInv
  <2>4. RestingInv' /\ Safe'
    BY <1>1, <1>5, <1>6, <2>1, <2>3 DEF RestingInv, Safe, FailuresBounded, GiveUpIsEarned
  <2> QED BY <1>1, <2>2, <2>4, IdleIsOrderly
<1>8. CASE t # Caller
  <2>1. /\ step' = [step EXCEPT ![t] = IF MayRetry THEN "start" ELSE "off"]
        /\ failures' = More(failures)
        /\ gaveUp' = (gaveUp \/ attempts >= MaxAttempts)
        /\ UNCHANGED <<attempts, wanted>>
    BY <1>8 DEF Fail, Leave
  <2>2. attempts = failures + 1 /\ attempts <= MaxAttempts
    BY <1>2, <1>8 DEF CountInv
  <2>3. failures' = attempts
    BY <1>4, <2>1, <2>2 DEF More
  <2>4. t \in Loops
    BY <1>8 DEF Tasks
  <2>5. Safe'
    BY <1>2, <1>4, <1>6, <2>1, <2>2, <2>3 DEF Safe, FailuresBounded, GiveUpIsEarned
  <2>6. CASE MayRetry
    <3>1. step' = [step EXCEPT ![t] = "start"] /\ attempts < MaxAttempts
      BY <2>1, <2>6 DEF MayRetry
    <3>2. ~gaveUp'
      <4>1. ~(attempts >= MaxAttempts)
        BY <1>4, <3>1
      <4> QED BY <1>2, <2>1, <4>1, Zenon
    <3>3. step'[t] = "start" /\ \A u \in Tasks : u # t => step'[u] = "off"
      BY <1>3, <1>4, <3>1
    <3>4. ConnectingInv(t)'
      BY <1>2, <1>5, <2>1, <2>3, <3>1, <3>2, <3>3, <1>8 DEF ConnectingInv, CountInv, Early, Handshake
    <3> QED BY <1>1, <1>8, <2>5, <3>3, <3>4, OneIsOrderly
  <2>7. CASE ~MayRetry
    <3>1. step' = [step EXCEPT ![t] = "off"] /\ attempts >= MaxAttempts
      BY <1>2, <1>4, <2>1, <2>4, <2>7 DEF MayRetry
    <3>2. gaveUp'
      BY <2>1, <3>1
    <3>3. Idle'
      BY <1>3, <1>4, <3>1 DEF Idle
    <3>4. RestingInv'
      BY <1>5, <2>1, <2>3, <3>2 DEF RestingInv
    <3> QED BY <1>1, <2>5, <3>3, <3>4, IdleIsOrderly
  <2> QED BY <2>6, <2>7
<1> QED BY <1>7, <1>8

LEMMA TaskStepIsOrderly ==
  ASSUME Calm, LinkInv, Orderly, NEW t \in Tasks, TaskStep(t)
  PROVE  Orderly'
<1> USE LinkAssumption DEF linkVars, loopVars, userVars, callVars, history
<1>1. ConnectingInv(t) /\ Safe /\ closer = None /\ step[t] # "off"
  BY OneTaskMoves DEF Orderly
<1>2. \A u \in Tasks : u # t => step[u] = "off"
  BY <1>1, OthersAreOff
<1>3. /\ attempts \in Nat /\ failures \in Nat
      /\ step \in [Tasks -> {"off", "start", "sleep", "ticket", "dial", "register", "login"}]
      /\ on \in [Tasks -> Sockets \cup {None}]
      /\ fut \in [Tasks -> {"none", "waiting", "answered", "refused", "error", "lost"}]
      /\ sock \in [Sockets -> {"open"} \cup Dead]
  BY DEF LinkInv, TypeOK
<1>4. t = Caller => step[t] \notin {"start", "sleep"}
  BY DEF Orderly
<1>5. CASE LoopStarts(t)
  <2>1. step[t] = "start" /\ t # Caller
    BY <1>4, <1>5 DEF LoopStarts
  <2>2. wanted /\ ~gaveUp /\ (t \in Loops => AutoReconnect) /\ Detached
        /\ attempts = failures /\ attempts < MaxAttempts
    BY <1>1, <2>1 DEF ConnectingInv, CountInv, Early
  <2>3. ~Exhausted(NextAttempt(attempts))
    BY <1>3, <2>2 DEF Exhausted, NextAttempt
  <2>4. attempts' = attempts + 1 /\ step' = [step EXCEPT ![t] = "sleep"] /\ UNCHANGED gaveUp
    BY <1>5, <2>3 DEF LoopStarts, Leave, NextAttempt
  <2>5. UNCHANGED <<linkVars, status, userVars, failures>>
    BY <1>5 DEF LoopStarts
  <2>6. Safe'
    BY <1>1, <2>4, <2>5 DEF Safe, NoLeak, AuthenticatedIsReal, FailuresBounded, GiveUpIsEarned
  <2>7. step'[t] = "sleep" /\ \A u \in Tasks : u # t => step'[u] = "off"
    BY <1>2, <1>3, <2>4
  <2>8. attempts' = failures' + 1 /\ attempts' <= MaxAttempts
    BY <1>3, <2>2, <2>4, <2>5
  <2>9. Detached'
    BY <2>2, <2>5 DEF Detached
  <2>10. ConnectingInv(t)'
    BY <2>1, <2>2, <2>4, <2>5, <2>7, <2>8, <2>9 DEF ConnectingInv, CountInv, Early, Handshake
  <2> QED BY <1>1, <2>1, <2>5, <2>6, <2>7, <2>10, OneIsOrderly
<1>6. CASE LoopWakes(t)
  <2>1. step[t] = "sleep" /\ step' = [step EXCEPT ![t] = "ticket"]
        /\ UNCHANGED <<linkVars, status, loopVars, on, fut, userVars, history>>
    BY <1>6 DEF LoopWakes
  <2>2. t # Caller
    BY <1>4, <2>1
  <2>3. step'[t] = "ticket" /\ \A u \in Tasks : u # t => step'[u] = "off"
    BY <1>2, <1>3, <2>1
  <2>4. Safe'
    BY <1>1, <2>1 DEF Safe, NoLeak, AuthenticatedIsReal, FailuresBounded, GiveUpIsEarned
  <2>5. ConnectingInv(t)'
    BY <1>1, <2>1, <2>2, <2>3 DEF ConnectingInv, Detached, CountInv, Early, Handshake
  <2> QED BY <1>1, <2>1, <2>3, <2>4, <2>5, OneIsOrderly
<1>7. CASE TicketObtained(t)
  <2>1. step[t] = "ticket" /\ step' = [step EXCEPT ![t] = "dial"]
        /\ UNCHANGED <<linkVars, loopVars, on, fut, userVars, history>>
    BY <1>7 DEF TicketObtained
  <2>2. step'[t] = "dial" /\ \A u \in Tasks : u # t => step'[u] = "off"
    BY <1>2, <1>3, <2>1
  <2>3. Safe'
    BY <1>1, <2>1 DEF Safe, NoLeak, AuthenticatedIsReal, FailuresBounded, GiveUpIsEarned
  <2>4. ConnectingInv(t)'
    BY <1>1, <2>1, <2>2 DEF ConnectingInv, Detached, CountInv, Early, Handshake
  <2> QED BY <1>1, <2>1, <2>2, <2>3, <2>4, OneIsOrderly
<1>8. CASE TicketFails(t) \/ DialFails(t)
  BY <1>8, FailIsOrderly DEF TicketFails, DialFails
<1>9. CASE DialSucceeds(t)
  <2>1. step[t] = "dial"
    BY <1>9 DEF DialSucceeds, Adopt
  <2>2. PICK s \in Sockets :
          /\ sock' = [sock EXCEPT ![s] = "open"]
          /\ ws' = s /\ listener' = s
          /\ on' = [on EXCEPT ![t] = s]
    BY <1>9 DEF DialSucceeds, Adopt
  <2>3. /\ step' = [step EXCEPT ![t] = "register"]
        /\ fut' = [fut EXCEPT ![t] = "waiting"]
        /\ attempts' = 0 /\ status' = "CONNECTED"
        /\ UNCHANGED <<logged, authenticated, userVars, history>>
    BY <1>9 DEF DialSucceeds, Adopt
  <2>4. wanted /\ ~gaveUp /\ (t \in Loops => AutoReconnect) /\ Detached
    BY <1>1, <2>1 DEF ConnectingInv, Early
  <2>5. step'[t] = "register" /\ \A u \in Tasks : u # t => step'[u] = "off"
    BY <1>2, <1>3, <2>3
  <2>6. HandshakeInv(t)'
    BY <1>3, <2>2, <2>3, <2>4, <2>5 DEF HandshakeInv, Detached, Connected
  <2>7. Safe'
    BY <1>1, <1>3, <2>2, <2>3, <2>4
    DEF Safe, NoLeak, AuthenticatedIsReal, FailuresBounded, GiveUpIsEarned, Detached
  <2>8. ConnectingInv(t)'
    BY <2>3, <2>4, <2>5, <2>6 DEF ConnectingInv, Early, Handshake
  <2> QED BY <1>1, <2>3, <2>5, <2>7, <2>8, OneIsOrderly
<1>10. CASE Registered(t)
  <2>1. step[t] = "register" /\ CanSend
    BY <1>10, RequestsAreAnswered DEF Registered
  <2>2. /\ step' = [step EXCEPT ![t] = "login"]
        /\ on' = [on EXCEPT ![t] = ws]
        /\ fut' = [fut EXCEPT ![t] = "waiting"]
        /\ UNCHANGED <<loopVars, history, wanted, linkVars, status, callVars>>
    BY <1>10, <2>1 DEF Registered
  <2>3. wanted /\ ~gaveUp /\ (t \in Loops => AutoReconnect) /\ HandshakeInv(t) /\ attempts = 0
    BY <1>1, <2>1 DEF ConnectingInv, Handshake
  <2>4. step'[t] = "login" /\ \A u \in Tasks : u # t => step'[u] = "off"
    BY <1>2, <1>3, <2>2
  <2>5. HandshakeInv(t)'
    BY <1>3, <2>2, <2>3, <2>4 DEF HandshakeInv, Connected
  <2>6. Safe'
    BY <1>1, <2>2 DEF Safe, NoLeak, AuthenticatedIsReal, FailuresBounded, GiveUpIsEarned
  <2>7. ConnectingInv(t)'
    BY <2>2, <2>3, <2>4, <2>5 DEF ConnectingInv, Early, Handshake
  <2> QED BY <1>1, <2>2, <2>4, <2>6, <2>7, OneIsOrderly
<1>11. CASE LoggedIn(t)
  <2>1. step[t] = "login" /\ fut[t] = "answered" /\ authenticated' = TRUE /\ failures' = 0
        /\ step' = [step EXCEPT ![t] = "off"]
        /\ UNCHANGED <<sock, logged, ws, listener, pinging, status, loopVars, userVars, gaveUp>>
    BY <1>11 DEF LoggedIn, Leave
  <2>2. wanted /\ ~gaveUp /\ HandshakeInv(t) /\ attempts = 0
    BY <1>1, <2>1 DEF ConnectingInv, Handshake
  <2>3. Idle'
    BY <1>2, <1>3, <2>1 DEF Idle
  <2>4. RestingInv'
    BY <2>1, <2>2 DEF RestingInv
  <2>5. ws # None /\ ws \in logged
    BY <2>1, <2>2 DEF HandshakeInv
  <2>6. Safe'
    BY <1>1, <2>1, <2>2, <2>5 DEF Safe, NoLeak, AuthenticatedIsReal, FailuresBounded, GiveUpIsEarned
  <2> QED BY <1>1, <2>1, <2>3, <2>4, <2>6, IdleIsOrderly
<1>12. CASE RequestFails(t) \/ RequestTimesOut(t)
  BY <1>12, RequestsAreAnswered
<1> QED
  BY <1>5, <1>6, <1>7, <1>8, <1>9, <1>10, <1>11, <1>12 DEF TaskStep

(* The user connects: he has no link and nobody is getting him one.         *)
LEMMA ConnectIsOrderly ==
  ASSUME LinkInv, Orderly, Connect
  PROVE  Orderly'
<1> USE DEF linkVars, loopVars
<1>1. /\ connects < MaxConnects /\ closer = None /\ (wanted => gaveUp)
      /\ wanted' = TRUE /\ gaveUp' = FALSE
      /\ step' = [step EXCEPT ![Caller] = "ticket"]
      /\ UNCHANGED <<linkVars, status, loopVars, on, fut, closer, failures>>
  BY DEF Connect
<1>2. Detached /\ attempts = failures /\ Safe
  BY <1>1 DEF Orderly, RestingInv
<1>3. \A t \in Tasks : step[t] = "off"
  BY <1>1 DEF Orderly, ConnectingInv
<1>4. Caller \in Tasks /\ Caller \notin Loops
  BY LinkAssumption DEF Tasks
<1>5. step'[Caller] = "ticket" /\ \A u \in Tasks : u # Caller => step'[u] = "off"
  BY <1>1, <1>3, <1>4 DEF LinkInv, TypeOK
<1>6. Safe'
  BY <1>1, <1>2 DEF Safe, NoLeak, AuthenticatedIsReal, FailuresBounded, GiveUpIsEarned
<1>7. ConnectingInv(Caller)'
  BY <1>1, <1>2, <1>4, <1>5 DEF ConnectingInv, CountInv, Detached, Early, Handshake
<1> QED BY <1>1, <1>4, <1>5, <1>6, <1>7, OneIsOrderly

(* The listener notices the loss of a connection that was in use.           *)
LEMMA LossIsOrderly ==
  ASSUME LinkInv, Wired, Orderly, ListenerLoses
  PROVE  Orderly'
<1> USE LinkAssumption DEF userVars, callVars, history, loopVars
<1>1. listener # None /\ sock[listener] = "broken" /\ Cleanup
      /\ UNCHANGED <<sock, logged, loopVars, on, userVars, history>>
  BY DEF ListenerLoses
<1>2. Idle /\ wanted /\ ~gaveUp /\ attempts = 0 /\ failures = 0
  BY <1>1, LossFindsIdle
<1>3. ws = listener /\ closer = None /\ Safe
  BY <1>1 DEF Wired, ListenerIsCurrent, Orderly
<1>4. \A s \in Sockets : sock[s] # "open"
  BY <1>1, <1>3 DEF Safe, NoLeak, LinkInv, TypeOK
<1>5. Detached'
  BY <1>1, <1>4 DEF Detached, Cleanup
<1>6. Safe'
  BY <1>1, <1>2, <1>3, <1>5
  DEF Safe, NoLeak, AuthenticatedIsReal, FailuresBounded, GiveUpIsEarned, Detached
<1>7. CASE MayReconnect
  <2>1. PICK t \in Loops : step[t] = "off" /\ step' = [step EXCEPT ![t] = "start"]
    BY <1>7 DEF ListenerLoses
  <2>2. t \in Tasks /\ t # Caller
    BY <2>1 DEF Tasks
  <2>3. step'[t] = "start" /\ \A u \in Tasks : u # t => step'[u] = "off"
    BY <1>2, <2>1, <2>2 DEF Idle, LinkInv, TypeOK
  <2>4. ConnectingInv(t)'
    BY <1>1, <1>2, <1>5, <1>7, <2>1, <2>2, <2>3
    DEF ConnectingInv, CountInv, Early, Handshake, MayReconnect
  <2> QED BY <1>1, <1>3, <1>6, <2>2, <2>3, <2>4, OneIsOrderly
<1>8. CASE ~MayReconnect
  <2>1. Idle'
    BY <1>2, <1>8 DEF ListenerLoses, Idle
  <2>2. RestingInv'
    BY <1>1, <1>2 DEF RestingInv
  <2> QED BY <1>1, <1>3, <1>6, <2>1, <2>2, IdleIsOrderly
<1> QED BY <1>7, <1>8

(* The other steps move no task: what is left to show of them.              *)
LEMMA StillIsOrderly ==
  ASSUME Orderly, UNCHANGED <<step, closer, loopVars, wanted, gaveUp, failures>>,
         Detached => Detached',
         \A t \in Tasks : step[t] \in Handshake /\ HandshakeInv(t) => HandshakeInv(t)',
         Safe'
  PROVE  Orderly'
<1> USE DEF loopVars
<1>1. ASSUME NEW t \in Tasks PROVE ConnectingInv(t)'
  <2>1. ConnectingInv(t)
    BY DEF Orderly
  <2> QED BY <2>1 DEF ConnectingInv, CountInv
<1>2. RestingInv'
  BY DEF Orderly, RestingInv, Idle
<1> QED BY <1>1, <1>2 DEF Orderly, OneActive

LEMMA ListenerStepIsOrderly ==
  ASSUME Calm, LinkInv, Wired, Orderly, ListenerStep
  PROVE  Orderly'
<1> USE DEF linkVars, userVars, callVars, history, loopVars, taskVars
<1>1. Safe
  BY DEF Orderly
<1>2. CASE ListenerLoses
  BY <1>2, LossIsOrderly
<1>3. CASE ListenerEnds
  <2>1. /\ listener # None /\ sock[listener] = "clean" /\ listener' = None
        /\ UNCHANGED <<sock, logged, ws, pinging, authenticated, status, loopVars,
                       taskVars, userVars, history>>
    BY <1>3 DEF ListenerEnds
  <2>2. Idle /\ wanted /\ ~gaveUp /\ attempts = 0 /\ failures = 0
    BY <2>1, LossFindsIdle
  <2>3. Idle'
    BY <2>1, <2>2 DEF Idle
  <2>4. RestingInv'
    BY <2>1, <2>2 DEF RestingInv
  <2>5. Safe'
    BY <1>1, <2>1 DEF Safe, NoLeak, AuthenticatedIsReal, FailuresBounded, GiveUpIsEarned
  <2>6. closer' = None
    BY <2>1 DEF Orderly
  <2> QED BY <2>3, <2>4, <2>5, <2>6, IdleIsOrderly
<1>5. CASE ListenerRaises
  <2>1. /\ listener # None /\ ~InHandshake(listener) /\ listener' = None
        /\ UNCHANGED <<sock, logged, ws, authenticated, step, closer, loopVars, wanted, history>>
    BY <1>5 DEF ListenerRaises, Calm
  <2>2. Idle /\ wanted /\ ~gaveUp /\ attempts = 0 /\ failures = 0
    BY <2>1, LossFindsIdle
  <2>3. Idle'
    BY <2>1, <2>2 DEF Idle
  <2>4. RestingInv'
    BY <2>1, <2>2 DEF RestingInv
  <2>5. Safe'
    BY <1>1, <2>1 DEF Safe, NoLeak, AuthenticatedIsReal, FailuresBounded, GiveUpIsEarned
  <2>6. closer' = None
    BY <2>1 DEF Orderly
  <2> QED BY <2>3, <2>4, <2>5, <2>6, IdleIsOrderly
<1>4. CASE \E t \in Tasks : AnswerRead(t) \/ RefusalRead(t)
  <2>1. PICK t \in Tasks : AnswerRead(t)
    BY <1>4, RequestsAreAnswered
  <2>2. /\ fut[t] = "waiting" /\ (step[t] = "login" => on[t] \in logged)
        /\ fut' = [fut EXCEPT ![t] = "answered"]
        /\ UNCHANGED <<linkVars, status, loopVars, step, on, userVars, history>>
    BY <2>1 DEF AnswerRead
  <2>3. Detached => Detached'
    BY <2>2 DEF Detached
  <2>4. ASSUME NEW u \in Tasks, step[u] \in Handshake, HandshakeInv(u) PROVE HandshakeInv(u)'
    <3>1. CASE u = t
      BY <2>2, <2>4, <3>1 DEF HandshakeInv, Connected, LinkInv, TypeOK
    <3>2. CASE u # t
      BY <2>2, <2>4, <3>2 DEF HandshakeInv, Connected, LinkInv, TypeOK
    <3> QED BY <3>1, <3>2
  <2>5. Safe'
    BY <1>1, <2>2 DEF Safe, NoLeak, AuthenticatedIsReal, FailuresBounded, GiveUpIsEarned
  <2> QED BY <2>2, <2>3, <2>4, <2>5, StillIsOrderly
<1> QED BY <1>2, <1>3, <1>4, <1>5 DEF ListenerStep

(* The network and the server: a drop hits no handshake.                    *)
LEMMA NetworkStepIsOrderly ==
  ASSUME Calm, LinkInv, Orderly,
         \/ PingEnds
         \/ \E s \in Sockets : Drop(s)
         \/ \E t \in Tasks : ServerLogsIn(t)
  PROVE  Orderly'
<1> USE DEF linkVars, userVars, callVars, history, loopVars, taskVars
<1>1. Safe /\ sock \in [Sockets -> {"open"} \cup Dead]
  BY DEF Orderly, LinkInv, TypeOK
<1>2. CASE PingEnds
  <2>1. UNCHANGED <<sock, logged, ws, listener, authenticated, status, loopVars, taskVars,
                    userVars, history>>
    BY <1>2 DEF PingEnds
  <2>2. Safe' /\ (Detached => Detached')
    BY <1>1, <2>1
    DEF Safe, NoLeak, AuthenticatedIsReal, FailuresBounded, GiveUpIsEarned, Detached
  <2>3. \A t \in Tasks : HandshakeInv(t) => HandshakeInv(t)'
    BY <2>1 DEF HandshakeInv, Connected
  <2> QED BY <2>1, <2>2, <2>3, StillIsOrderly
<1>3. CASE \E s \in Sockets : Drop(s)
  <2>1. PICK s \in Sockets : Drop(s)
    BY <1>3
  <2>2. PICK end \in Dead : sock' = [sock EXCEPT ![s] = end]
    BY <2>1 DEF Drop, Dead
  <2>3. /\ sock[s] = "open" /\ \A t \in Tasks : on[t] # s
        /\ logged' = logged \ {s}
        /\ UNCHANGED <<ws, listener, pinging, authenticated, status, loopVars, taskVars,
                       userVars, history>>
    BY <2>1 DEF Drop, Calm, InHandshake
  <2>4. end # "open"
    BY <2>2 DEF Dead
  <2>5. \A r \in Sockets : sock'[r] = "open" => r # s /\ sock[r] = "open"
    BY <1>1, <2>2, <2>4
  <2>6. Detached => Detached'
    BY <2>3, <2>5 DEF Detached
  <2>7. \A t \in Tasks : HandshakeInv(t) => HandshakeInv(t)'
    BY <1>1, <2>2, <2>3 DEF HandshakeInv, Connected
  <2>8. NoLeak' /\ FailuresBounded' /\ GiveUpIsEarned'
    BY <1>1, <2>3, <2>5 DEF Safe, NoLeak, FailuresBounded, GiveUpIsEarned
  <2>9. AuthenticatedIsReal'
    <3> ws \in Sockets \cup {None}
      BY DEF LinkInv, TypeOK
    <3> QED BY <1>1, <2>3, <2>5 DEF Safe, AuthenticatedIsReal
  <2> QED BY <2>3, <2>6, <2>7, <2>8, <2>9, StillIsOrderly DEF Safe
<1>4. CASE \E t \in Tasks : ServerLogsIn(t)
  <2>1. PICK t \in Tasks : ServerLogsIn(t)
    BY <1>4
  <2>2. /\ logged' = logged \cup {on[t]}
        /\ UNCHANGED <<sock, ws, listener, pinging, authenticated, status, loopVars, taskVars,
                       userVars, history>>
    BY <2>1 DEF ServerLogsIn
  <2>3. Safe' /\ (Detached => Detached')
    BY <1>1, <2>2
    DEF Safe, NoLeak, AuthenticatedIsReal, FailuresBounded, GiveUpIsEarned, Detached
  <2>4. \A u \in Tasks : HandshakeInv(u) => HandshakeInv(u)'
    BY <2>2 DEF HandshakeInv, Connected
  <2> QED BY <2>2, <2>3, <2>4, StillIsOrderly
<1> QED BY <1>2, <1>3, <1>4

-----------------------------------------------------------------------------
(* The theorems. *)

LEMMA RInvInit == Init => RInv
<1> SUFFICES ASSUME Init PROVE RInv
  OBVIOUS
<1>1. LinkInv
  <2>1. /\ connects \in 0 .. MaxConnects
        /\ disconnects \in 0 .. MaxDisconnects
        /\ failures \in 0 .. MaxAttempts + 1
    BY LinkAssumption DEF Init
  <2> QED BY <2>1 DEF Init, LinkInv, TypeOK, Dead, Awaiting, AwaitingTask
<1>2. Detached
  BY DEF Init, Detached
<1>3. Safe
  BY <1>2, LinkAssumption
  DEF Init, Safe, NoLeak, AuthenticatedIsReal, FailuresBounded, GiveUpIsEarned, Detached
<1>4. RestingInv /\ closer = None /\ Caller \in Tasks
  BY <1>2 DEF Init, RestingInv, Tasks
<1>5. \A t \in Tasks : step[t] = "off"
  BY DEF Init
<1>6. Orderly
  BY <1>3, <1>4, <1>5 DEF Orderly, OneActive, ConnectingInv, Early, Handshake
<1> QED BY <1>1, <1>6, WiredInit DEF RInv

LEMMA OrderlyStep ==
  ASSUME Calm, LinkInv, Wired, Orderly, [Next]_vars, ~intentional'
  PROVE  Orderly'
<1> USE DEF linkVars, userVars, callVars, history, loopVars, taskVars
<1>1. CASE Connect
  BY <1>1, ConnectIsOrderly
<1>2. CASE Disconnect \/ DisconnectNow
  BY <1>2 DEF Disconnect, DisconnectNow
<1>3. CASE CloseDone \/ CloseHandshake
  BY <1>3 DEF CloseDone, CloseHandshake, Orderly
<1>4. CASE \E t \in Tasks : TaskStep(t)
  BY <1>4, TaskStepIsOrderly
<1>5. CASE ListenerStep
  BY <1>5, ListenerStepIsOrderly
<1>6. CASE PingEnds \/ (\E s \in Sockets : Drop(s)) \/ \E t \in Tasks : ServerLogsIn(t)
  BY <1>6, NetworkStepIsOrderly
<1>7. CASE UNCHANGED vars
  BY <1>7
  DEF vars, Orderly, OneActive, ConnectingInv, CountInv, Detached, HandshakeInv, Connected,
      RestingInv, Idle, Safe, NoLeak, AuthenticatedIsReal, FailuresBounded, GiveUpIsEarned
<1> QED BY <1>1, <1>2, <1>3, <1>4, <1>5, <1>6, <1>7 DEF Next

(* The flag of a disconnect() is for good. *)
LEMMA IntentIsKept ==
  ASSUME LinkInv, [Next]_vars, intentional
  PROVE  intentional'
<1> USE DEF userVars, callVars
<1>1. CASE \E t \in Tasks : TaskStep(t)
  BY <1>1
  DEF TaskStep, LoopStarts, LoopWakes, TicketObtained, TicketFails, DialSucceeds, Adopt,
      DialFails, Registered, LoggedIn, RequestFails, RequestTimesOut
<1> QED
  BY <1>1
  DEF Next, Connect, Disconnect, DisconnectNow, CloseDone, ListenerStep, ListenerLoses,
      ListenerEnds, ListenerRaises, AnswerRead, RefusalRead, ServerLogsIn, PingEnds, CloseHandshake, Drop, vars

LEMMA RInvStep ==
  ASSUME Calm, RInv, [Next]_vars
  PROVE  RInv'
<1>1. LinkInv' /\ Wired'
  BY TypeStep, AwaitingStep, WiredStep DEF RInv, LinkInv
<1>2. CASE intentional'
  BY <1>1, <1>2 DEF RInv
<1>3. CASE ~intentional'
  <2>1. Orderly
    BY <1>3, IntentIsKept DEF RInv
  <2>2. Orderly'
    BY <1>3, <2>1, OrderlyStep DEF RInv
  <2> QED BY <1>1, <2>2 DEF RInv
<1> QED BY <1>2, <1>3

(* Where connections are lost only in use and logins succeed: of connect()  *)
(* and the reconnections one at most is under way until disconnect(), and   *)
(* what it holds fits the await it is at.                                   *)
THEOREM RestoreInvariance ==
  ASSUME Calm
  PROVE  Spec => []RInv
<1>1. RInv /\ [Next]_vars => RInv'
  BY RInvStep
<1> QED BY <1>1, RInvInit, PTL DEF Spec

(* Before the first disconnect() no connection is left open unattended, the *)
(* client claims no login the server has not accepted, and reconnecting     *)
(* stops after the configured attempts have failed, and not before.         *)
THEOREM SafeUntilDisconnect ==
  ASSUME Calm
  PROVE  Spec => [](~intentional => NoLeak /\ AuthenticatedIsReal /\ FailuresBounded /\ GiveUpIsEarned)
<1>1. RInv => (~intentional => NoLeak /\ AuthenticatedIsReal /\ FailuresBounded /\ GiveUpIsEarned)
  BY DEF RInv, Orderly, Safe
<1> QED BY <1>1, RestoreInvariance, PTL

(* The same for a user who never disconnects. *)
LEMMA IntentStaysOff ==
  ASSUME MaxDisconnects = 0, LinkInv, ~intentional, [Next]_vars
  PROVE  ~intentional'
<1> USE DEF userVars, callVars
<1>1. ~(disconnects < MaxDisconnects)
  BY DEF LinkInv, TypeOK
<1>2. CASE \E t \in Tasks : TaskStep(t)
  BY <1>2
  DEF TaskStep, LoopStarts, LoopWakes, TicketObtained, TicketFails, DialSucceeds, Adopt,
      DialFails, Registered, LoggedIn, RequestFails, RequestTimesOut
<1> QED
  BY <1>1, <1>2
  DEF Next, Connect, Disconnect, DisconnectNow, CloseDone, ListenerStep, ListenerLoses,
      ListenerEnds, ListenerRaises, AnswerRead, RefusalRead, ServerLogsIn, PingEnds, CloseHandshake, Drop, vars

LEMMA NobodyDisconnects ==
  ASSUME MaxDisconnects = 0
  PROVE  Spec => []~intentional
<1>1. Init => ~intentional
  BY DEF Init
<1>2. LinkInv /\ ~intentional /\ [Next]_vars => ~intentional'
  BY IntentStaysOff
<1> QED BY <1>1, <1>2, RequestsBelongToHandshakes, PTL DEF Spec

(* No connection is left open behind the client's back. *)
THEOREM NoConnectionLeaks ==
  ASSUME Calm, MaxDisconnects = 0
  PROVE  Spec => []NoLeak
BY SafeUntilDisconnect, NobodyDisconnects, PTL

(* is_authenticated means a login the server accepted on this connection.   *)
THEOREM LoginsAreReal ==
  ASSUME Calm, MaxDisconnects = 0
  PROVE  Spec => []AuthenticatedIsReal
BY SafeUntilDisconnect, NobodyDisconnects, PTL

(* Reconnection stops after _max_reconnect_attempts failures in a row.      *)
THEOREM ReconnectionStops ==
  ASSUME Calm, MaxDisconnects = 0
  PROVE  Spec => []FailuresBounded
BY SafeUntilDisconnect, NobodyDisconnects, PTL

(* ReconnectionError is raised after that many failures, not before.        *)
THEOREM GiveUpsAreEarned ==
  ASSUME Calm, MaxDisconnects = 0
  PROVE  Spec => []GiveUpIsEarned
BY SafeUntilDisconnect, NobodyDisconnects, PTL

-----------------------------------------------------------------------------
(* The refinement of LinkPromise.  Besides RInv: whoever wants a link has   *)
(* somebody getting it, or one that was accepted; a break of a link that is *)
(* read will start the reconnection, because _reconnecting is cleared by    *)
(* every dial.  Close frames and messages that raise are allowed: they are  *)
(* what makes a link deaf.                                                  *)

Promised == Calm /\ AutoReconnect /\ MaxDisconnects = 0

LoggedAreOpen == \A s \in logged : sock[s] = "open"
TendedInv ==
  /\ Idle /\ wanted /\ ~gaveUp => authenticated /\ ~reconnecting
  /\ \A t \in Tasks : step[t] \in Handshake => ~reconnecting

UInv == RInv /\ ~intentional /\ LoggedAreOpen /\ TendedInv

LEMMA LoggedAreOpenStep ==
  ASSUME LinkInv, LoggedAreOpen, [Next]_vars
  PROVE  LoggedAreOpen'
<1> USE DEF linkVars, LoggedAreOpen
<1>1. sock \in [Sockets -> {"open"} \cup Dead] /\ logged \subseteq Sockets
  BY DEF LinkInv, TypeOK
<1>2. CASE DisconnectNow
  BY <1>1, <1>2 DEF DisconnectNow
<1>3. CASE CloseHandshake
  BY <1>1, <1>3 DEF CloseHandshake
<1>4. CASE \E s \in Sockets : Drop(s)
  BY <1>1, <1>4 DEF Drop
<1>5. CASE \E t \in Tasks : ServerLogsIn(t)
  BY <1>1, <1>5 DEF ServerLogsIn
<1>6. CASE \E t \in Tasks : DialSucceeds(t)
  BY <1>1, <1>6 DEF DialSucceeds, Adopt
<1>7. CASE UNCHANGED <<sock, logged>>
  BY <1>7
<1> QED
  BY <1>2, <1>3, <1>4, <1>5, <1>6, <1>7
  DEF Next, Connect, Disconnect, CloseDone, TaskStep, LoopStarts, LoopWakes, TicketObtained,
      TicketFails, DialFails, Registered, LoggedIn, RequestFails, RequestTimesOut, ListenerStep,
      ListenerLoses, ListenerEnds, ListenerRaises, AnswerRead, RefusalRead, PingEnds, vars

(* A failed attempt is followed by the next one or by the give-up.          *)
LEMMA FailIsTended ==
  ASSUME Promised, LinkInv, Orderly, NEW t \in Tasks, step[t] \in {"ticket", "dial"}, Fail(t)
  PROVE  /\ \A u \in Tasks : u # t => step'[u] = "off"
         /\ t = Caller => /\ step'[t] = "off" /\ ~wanted' /\ UNCHANGED <<gaveUp, failures>>
         /\ t # Caller => /\ failures' = failures + 1 /\ UNCHANGED wanted
                          /\ \/ step'[t] = "start" /\ ~gaveUp' /\ failures' < MaxAttempts
                             \/ step'[t] = "off" /\ gaveUp' /\ failures' >= MaxAttempts
<1> USE LinkAssumption DEF history
<1>1. /\ attempts \in Nat /\ failures \in Nat
      /\ step \in [Tasks -> {"off", "start", "sleep", "ticket", "dial", "register", "login"}]
  BY DEF LinkInv, TypeOK
<1>2. \A u \in Tasks : u # t => step[u] = "off"
  BY OthersAreOff
<1>3. ~gaveUp /\ CountInv(t)
  BY DEF Orderly, ConnectingInv, Early
<1>4. CASE t = Caller
  <2>1. step' = [step EXCEPT ![t] = "off"] /\ wanted' = FALSE /\ UNCHANGED <<gaveUp, failures>>
    BY <1>4 DEF Fail, Leave
  <2> QED BY <1>1, <1>2, <1>4, <2>1
<1>5. CASE t # Caller
  <2>1. /\ step' = [step EXCEPT ![t] = IF MayRetry THEN "start" ELSE "off"]
        /\ failures' = More(failures)
        /\ gaveUp' = (gaveUp \/ attempts >= MaxAttempts)
        /\ UNCHANGED wanted
    BY <1>5 DEF Fail, Leave
  <2>2. attempts = failures + 1 /\ attempts <= MaxAttempts
    BY <1>3, <1>5 DEF CountInv
  <2>3. failures' = failures + 1
    BY <1>1, <2>1, <2>2 DEF More
  <2>4. CASE attempts < MaxAttempts
    <3>1. MayRetry /\ ~(attempts >= MaxAttempts) /\ failures' < MaxAttempts
      BY <1>1, <2>2, <2>3, <2>4 DEF MayRetry, Promised
    <3>2. ~gaveUp'
      BY <1>3, <2>1, <3>1, Zenon
    <3>3. step'[t] = "start" /\ \A u \in Tasks : u # t => step'[u] = "off"
      BY <1>1, <1>2, <2>1, <3>1
    <3> QED BY <1>5, <2>1, <2>3, <3>1, <3>2, <3>3
  <2>5. CASE ~(attempts < MaxAttempts)
    <3>1. ~MayRetry /\ attempts >= MaxAttempts /\ failures' >= MaxAttempts
      BY <1>1, <2>2, <2>3, <2>5 DEF MayRetry
    <3>2. gaveUp'
      BY <2>1, <3>1, Zenon
    <3>3. step'[t] = "off" /\ \A u \in Tasks : u # t => step'[u] = "off"
      BY <1>1, <1>2, <2>1, <3>1
    <3> QED BY <1>5, <2>1, <2>3, <3>1, <3>2, <3>3
  <2> QED BY <2>4, <2>5
<1> QED BY <1>4, <1>5

LEMMA TendedTaskStep ==
  ASSUME Promised, LinkInv, Orderly, TendedInv, NEW t \in Tasks, TaskStep(t)
  PROVE  TendedInv'
<1> USE DEF loopVars
<1>1. step \in [Tasks -> {"off", "start", "sleep", "ticket", "dial", "register", "login"}]
  BY DEF LinkInv, TypeOK
<1>2. step[t] # "off" /\ Calm
  BY OneTaskMoves DEF Promised
<1>3. \A u \in Tasks : u # t => step[u] = "off"
  BY <1>2, OthersAreOff
<1>4. CASE \E next \in {"sleep", "ticket", "dial"} : step' = [step EXCEPT ![t] = next]
  BY <1>1, <1>3, <1>4 DEF TendedInv, Idle, Handshake
<1>5. CASE LoopStarts(t)
  <2>1. step[t] = "start"
    BY <1>5 DEF LoopStarts
  <2>2. attempts < MaxAttempts /\ attempts \in Nat
    BY <2>1 DEF Orderly, ConnectingInv, CountInv, Early, LinkInv, TypeOK
  <2>3. ~Exhausted(NextAttempt(attempts))
    BY <2>2, LinkAssumption DEF Exhausted, NextAttempt
  <2> QED BY <1>4, <1>5, <2>3 DEF LoopStarts, Leave
<1>6. CASE LoopWakes(t) \/ TicketObtained(t)
  BY <1>4, <1>6 DEF LoopWakes, TicketObtained
<1>7. CASE TicketFails(t) \/ DialFails(t)
  <2>1. step[t] \in {"ticket", "dial"} /\ Fail(t)
    BY <1>7 DEF TicketFails, DialFails
  <2> QED BY <2>1, FailIsTended DEF TendedInv, Idle, Handshake
<1>8. CASE DialSucceeds(t)
  <2>1. step' = [step EXCEPT ![t] = "register"] /\ reconnecting' = FALSE
    BY <1>8 DEF DialSucceeds, Adopt
  <2> QED BY <1>1, <2>1 DEF TendedInv, Idle
<1>9. CASE Registered(t)
  <2>1. step[t] = "register" /\ CanSend
    BY <1>2, <1>9, RequestsAreAnswered DEF Registered
  <2>2. step' = [step EXCEPT ![t] = "login"] /\ UNCHANGED reconnecting
    BY <1>9, <2>1 DEF Registered
  <2>3. ~reconnecting
    BY <2>1 DEF TendedInv, Handshake
  <2> QED BY <1>1, <2>2, <2>3 DEF TendedInv, Idle
<1>10. CASE LoggedIn(t)
  <2>1. step[t] = "login" /\ authenticated' = TRUE /\ step' = [step EXCEPT ![t] = "off"]
        /\ UNCHANGED reconnecting
    BY <1>10 DEF LoggedIn, Leave
  <2>2. ~reconnecting
    BY <2>1 DEF TendedInv, Handshake
  <2> QED BY <1>1, <1>3, <2>1, <2>2 DEF TendedInv, Handshake
<1>11. CASE RequestFails(t) \/ RequestTimesOut(t)
  BY <1>2, <1>11, RequestsAreAnswered
<1> QED BY <1>5, <1>6, <1>7, <1>8, <1>9, <1>10, <1>11 DEF TaskStep

LEMMA TendedStep ==
  ASSUME Promised, LinkInv, Orderly, ~intentional, TendedInv, [Next]_vars
  PROVE  TendedInv'
<1> USE DEF linkVars, loopVars, taskVars, callVars, userVars, history
<1>1. /\ step \in [Tasks -> {"off", "start", "sleep", "ticket", "dial", "register", "login"}]
      /\ closer = None /\ ~(disconnects < MaxDisconnects) /\ Calm /\ AutoReconnect
  BY DEF LinkInv, TypeOK, Orderly, Promised
<1>2. CASE Connect
  <2>1. step' = [step EXCEPT ![Caller] = "ticket"] /\ UNCHANGED reconnecting /\ Caller \in Tasks
    BY <1>2 DEF Connect, Tasks
  <2> QED BY <1>1, <2>1 DEF TendedInv, Idle, Handshake
<1>3. CASE Disconnect \/ DisconnectNow \/ CloseDone \/ CloseHandshake
  BY <1>1, <1>3 DEF Disconnect, DisconnectNow, CloseDone, CloseHandshake
<1>4. CASE \E t \in Tasks : TaskStep(t)
  BY <1>4, TendedTaskStep
<1>5. CASE ListenerLoses
  <2>1. Idle /\ wanted /\ ~gaveUp
    BY <1>5, LossFindsIdle DEF ListenerLoses
  <2>2. MayReconnect
    BY <1>1, <1>5, <2>1 DEF MayReconnect, TendedInv, ListenerLoses
  <2>3. PICK t \in Loops : step' = [step EXCEPT ![t] = "start"]
    BY <1>5, <2>2 DEF ListenerLoses
  <2> QED BY <1>1, <2>1, <2>3 DEF TendedInv, Idle, Handshake, Tasks
<1>6. CASE UNCHANGED <<step, wanted, gaveUp, authenticated, reconnecting>>
  BY <1>6 DEF TendedInv, Idle
<1> QED
  BY <1>2, <1>3, <1>4, <1>5, <1>6
  DEF Next, ListenerStep, ListenerEnds, ListenerRaises, AnswerRead, RefusalRead, ServerLogsIn, PingEnds, Drop, vars

(* A step that moves no task to or from rest is a stutter of the promise.   *)
LEMMA SamePhase ==
  ASSUME UNCHANGED <<ws, sock, logged, wanted, gaveUp, failures>>, ~Idle, ~Idle',
         step[Caller] = "off" <=> step'[Caller] = "off"
  PROVE  UNCHANGED Promise!vars
<1>1. Phase' = Phase
  BY DEF Phase
<1>2. Alive' = Alive
  BY DEF Alive
<1> QED BY <1>1, <1>2 DEF Promise!vars

LEMMA TaskStepKeepsLink ==
  ASSUME Promised, UInv, NEW t \in Tasks, TaskStep(t)
  PROVE  [Promise!Next]_Promise!vars
<1> USE LinkAssumption DEF linkVars, loopVars, userVars, callVars, history
<1>1. /\ step \in [Tasks -> {"off", "start", "sleep", "ticket", "dial", "register", "login"}]
      /\ sock \in [Sockets -> {"open"} \cup Dead] /\ ws \in Sockets \cup {None}
      /\ LinkInv /\ Orderly /\ Calm /\ Caller \in Tasks
  BY DEF UInv, RInv, LinkInv, TypeOK, Promised, Tasks
<1>2. ConnectingInv(t) /\ step[t] # "off"
  BY <1>1, OneTaskMoves DEF Orderly
<1>3. \A u \in Tasks : u # t => step[u] = "off"
  BY <1>1, <1>2, OthersAreOff
<1>4. ~Idle
  BY <1>2 DEF Idle
<1>5. t = Caller <=> step[Caller] # "off"
  BY <1>1, <1>2, <1>3
<1>6. Phase = IF t = Caller THEN "connecting" ELSE "reconnecting"
  BY <1>4, <1>5 DEF Phase
<1>7. ASSUME NEW next \in {"sleep", "ticket", "dial", "register", "login"},
             step' = [step EXCEPT ![t] = next]
      PROVE  ~Idle' /\ (step[Caller] = "off" <=> step'[Caller] = "off")
  <2>1. step'[t] = next /\ \A u \in Tasks : u # t => step'[u] = "off"
    BY <1>1, <1>3, <1>7
  <2> QED BY <1>1, <1>5, <2>1 DEF Idle
<1>8. CASE LoopStarts(t)
  <2>1. step[t] = "start"
    BY <1>8 DEF LoopStarts
  <2>2. attempts < MaxAttempts /\ attempts \in Nat
    BY <1>1, <2>1 DEF Orderly, ConnectingInv, CountInv, Early, LinkInv, TypeOK
  <2>3. ~Exhausted(NextAttempt(attempts))
    BY <2>2 DEF Exhausted, NextAttempt
  <2>4. step' = [step EXCEPT ![t] = "sleep"] /\ UNCHANGED <<ws, sock, logged, wanted, gaveUp, failures>>
    BY <1>8, <2>3 DEF LoopStarts, Leave
  <2> QED BY <1>4, <1>7, <2>4, SamePhase
<1>9. CASE LoopWakes(t) \/ TicketObtained(t)
  <2>1. \E next \in {"ticket", "dial"} : step' = [step EXCEPT ![t] = next]
    BY <1>9 DEF LoopWakes, TicketObtained
  <2>2. UNCHANGED <<ws, sock, logged, wanted, gaveUp, failures>>
    BY <1>9 DEF LoopWakes, TicketObtained
  <2> QED BY <1>4, <1>7, <2>1, <2>2, SamePhase
<1>10. CASE TicketFails(t) \/ DialFails(t)
  <2>1. step[t] \in {"ticket", "dial"} /\ Fail(t) /\ UNCHANGED <<ws, sock, logged>>
    BY <1>10 DEF TicketFails, DialFails
  <2>2. ~Alive /\ ~gaveUp
    BY <1>2, <2>1 DEF ConnectingInv, Detached, Early, Alive
  <2>3. Alive' = Alive
    BY <2>1 DEF Alive
  <2>4. /\ \A u \in Tasks : u # t => step'[u] = "off"
        /\ t = Caller => /\ step'[t] = "off" /\ ~wanted' /\ UNCHANGED <<gaveUp, failures>>
        /\ t # Caller => /\ failures' = failures + 1 /\ UNCHANGED wanted
                         /\ \/ step'[t] = "start" /\ ~gaveUp' /\ failures' < MaxAttempts
                            \/ step'[t] = "off" /\ gaveUp' /\ failures' >= MaxAttempts
    BY <1>1, <2>1, FailIsTended
  <2>5. CASE t = Caller
    <3>1. Idle' /\ ~gaveUp' /\ ~wanted' /\ failures' = failures
      BY <2>2, <2>4, <2>5 DEF Idle
    <3>2. Phase' = "none"
      BY <3>1 DEF Phase
    <3>3. Promise!ConnectFails
      BY <1>6, <2>2, <2>3, <2>5, <3>1, <3>2 DEF Promise!ConnectFails
    <3> QED BY <3>3 DEF Promise!Next
  <2>6. CASE t # Caller
    <3>1. step'[Caller] = "off"
      BY <1>1, <2>4, <2>6
    <3>2. failures' \in Int
      BY <1>1, <2>4, <2>6 DEF LinkInv, TypeOK
    <3>3. Phase' = IF failures' < MaxAttempts THEN "reconnecting" ELSE "gaveUp"
      <4>1. CASE step'[t] = "start" /\ ~gaveUp' /\ failures' < MaxAttempts
        BY <3>1, <4>1 DEF Phase, Idle
      <4>2. CASE step'[t] = "off" /\ gaveUp' /\ failures' >= MaxAttempts
        <5>1. Idle' /\ ~(failures' < MaxAttempts)
          BY <2>4, <3>2, <4>2 DEF Idle
        <5> QED BY <4>2, <5>1 DEF Phase
      <4> QED BY <2>4, <2>6, <4>1, <4>2
    <3>4. Promise!AttemptFails
      BY <1>6, <2>2, <2>3, <2>4, <2>6, <3>3 DEF Promise!AttemptFails
    <3> QED BY <3>4 DEF Promise!Next
  <2> QED BY <2>5, <2>6
<1>11. CASE DialSucceeds(t)
  <2>1. PICK s \in Sockets : Fresh(s) /\ ws' = s
    BY <1>11 DEF DialSucceeds, Adopt
  <2>2. step[t] = "dial" /\ step' = [step EXCEPT ![t] = "register"]
        /\ UNCHANGED <<logged, wanted, gaveUp, failures>>
    BY <1>11 DEF DialSucceeds, Adopt
  <2>3. s \notin logged
    BY <2>1 DEF Fresh, Dead, UInv, LoggedAreOpen
  <2>4. ~Alive /\ ~Alive'
    BY <1>2, <2>1, <2>2, <2>3 DEF Alive, ConnectingInv, Detached, Early
  <2>5. ~Idle' /\ (step[Caller] = "off" <=> step'[Caller] = "off")
    BY <1>7, <2>2
  <2>6. Phase' = Phase
    BY <1>4, <2>2, <2>5 DEF Phase
  <2>7. Alive' = Alive
    BY <2>4, Zenon DEF Alive
  <2> QED BY <2>2, <2>6, <2>7 DEF Promise!vars
<1>12. CASE Registered(t)
  <2>1. CanSend
    BY <1>1, <1>12, RequestsAreAnswered DEF Registered
  <2>2. step' = [step EXCEPT ![t] = "login"] /\ UNCHANGED <<ws, sock, logged, wanted, gaveUp, failures>>
    BY <1>12, <2>1 DEF Registered
  <2> QED BY <1>4, <1>7, <2>2, SamePhase
<1>13. CASE LoggedIn(t)
  <2>1. step[t] = "login" /\ fut[t] = "answered" /\ authenticated' = TRUE /\ failures' = 0
        /\ step' = [step EXCEPT ![t] = "off"]
        /\ UNCHANGED <<sock, logged, ws, listener, wanted, gaveUp>>
    BY <1>13 DEF LoggedIn, Leave
  <2>2. HandshakeInv(t) /\ wanted /\ ~gaveUp
    BY <1>2, <2>1 DEF ConnectingInv, Handshake
  <2>3. Alive
    BY <2>1, <2>2 DEF HandshakeInv, Alive
  <2>4. Alive' = Alive
    BY <2>1 DEF Alive
  <2>5. Idle'
    BY <1>1, <1>3, <2>1 DEF Idle
  <2>6. ~Deaf'
    BY <2>1, <2>2 DEF Deaf, HandshakeInv
  <2>7. Phase' = "up"
    BY <2>1, <2>2, <2>5, <2>6 DEF Phase
  <2>8. Promise!Succeed
    BY <1>6, <2>1, <2>3, <2>4, <2>7 DEF Promise!Succeed, Promise!Connecting
  <2> QED BY <2>8 DEF Promise!Next
<1>14. CASE RequestFails(t) \/ RequestTimesOut(t)
  BY <1>1, <1>14, RequestsAreAnswered
<1> QED
  BY <1>8, <1>9, <1>10, <1>11, <1>12, <1>13, <1>14 DEF TaskStep

LEMMA StepKeepsLink ==
  ASSUME Promised, UInv, [Next]_vars
  PROVE  [Promise!Next]_Promise!vars
<1> USE LinkAssumption DEF linkVars, loopVars, taskVars, userVars, callVars, history
<1>1. /\ step \in [Tasks -> {"off", "start", "sleep", "ticket", "dial", "register", "login"}]
      /\ sock \in [Sockets -> {"open"} \cup Dead] /\ ws \in Sockets \cup {None}
      /\ LinkInv /\ Wired /\ Orderly /\ Calm /\ AutoReconnect /\ Caller \in Tasks
      /\ closer = None /\ ~(disconnects < MaxDisconnects) /\ ~intentional
      /\ TendedInv
  BY DEF UInv, RInv, Orderly, LinkInv, TypeOK, Promised, Tasks
<1>2. CASE Connect
  <2>1. /\ step[Caller] = "off" /\ (wanted => gaveUp) /\ wanted' = TRUE /\ gaveUp' = FALSE
        /\ step' = [step EXCEPT ![Caller] = "ticket"]
        /\ UNCHANGED <<ws, sock, logged, failures>>
    BY <1>2 DEF Connect
  <2>2. Idle
    BY <1>1, <2>1 DEF Orderly, ConnectingInv, Idle
  <2>3. Phase \in {"none", "gaveUp"}
    BY <2>1, <2>2 DEF Phase
  <2>4. step'[Caller] = "ticket" /\ ~Idle'
    BY <1>1, <2>1 DEF Idle
  <2>5. Phase' = "connecting"
    BY <2>4 DEF Phase
  <2>6. Alive' = Alive
    BY <2>1 DEF Alive
  <2>7. Promise!Connect
    BY <2>1, <2>3, <2>5, <2>6 DEF Promise!Connect
  <2> QED BY <2>7 DEF Promise!Next
<1>3. CASE Disconnect \/ DisconnectNow \/ CloseDone \/ CloseHandshake
  BY <1>1, <1>3 DEF Disconnect, DisconnectNow, CloseDone, CloseHandshake
<1>9. CASE ListenerEnds
  <2>1. /\ listener # None /\ sock[listener] = "clean" /\ listener' = None
        /\ UNCHANGED <<ws, sock, logged, step, authenticated, wanted, gaveUp, failures>>
    BY <1>9 DEF ListenerEnds
  <2>2. Idle /\ wanted /\ ~gaveUp /\ authenticated
    BY <1>1, <2>1, LossFindsIdle DEF TendedInv
  <2>3. Idle' /\ Deaf /\ Deaf'
    BY <2>1, <2>2 DEF Idle, Deaf
  <2>4. Phase = "deaf" /\ Phase' = "deaf"
    BY <2>1, <2>2, <2>3 DEF Phase
  <2>5. Alive' = Alive
    BY <2>1 DEF Alive
  <2> QED BY <2>1, <2>4, <2>5 DEF Promise!vars
<1>10. CASE ListenerRaises
  <2>1. /\ Unreadables /\ listener # None /\ sock[listener] = "open" /\ listener' = None
        /\ ~InHandshake(listener)
        /\ UNCHANGED <<ws, sock, logged, step, authenticated, wanted, gaveUp, failures>>
    BY <1>1, <1>10 DEF ListenerRaises, Calm
  <2>2. Idle /\ wanted /\ ~gaveUp /\ authenticated
    BY <1>1, <2>1, LossFindsIdle DEF TendedInv
  <2>3. Idle' /\ ~Deaf /\ Deaf'
    BY <2>1, <2>2 DEF Idle, Deaf
  <2>4. Phase = "up" /\ Phase' = "deaf"
    BY <2>1, <2>2, <2>3 DEF Phase
  <2>5. Alive /\ Alive'
    BY <1>1, <2>1, <2>2 DEF Alive, Wired, ListenerIsCurrent, Orderly, Safe, AuthenticatedIsReal
  <2>6. Alive' = TRUE
    BY <2>5, Zenon DEF Alive
  <2>7. Promise!Deafen
    BY <2>1, <2>4, <2>5, <2>6 DEF Promise!Deafen
  <2> QED BY <2>7 DEF Promise!Next
<1>4. CASE \E t \in Tasks : TaskStep(t)
  BY <1>4, TaskStepKeepsLink
<1>5. CASE ListenerLoses
  <2>1. /\ listener # None /\ sock[listener] = "broken" /\ Cleanup
        /\ UNCHANGED <<sock, logged, wanted, gaveUp, failures>>
    BY <1>5 DEF ListenerLoses
  <2>2. Idle /\ wanted /\ ~gaveUp
    BY <1>1, <2>1, LossFindsIdle
  <2>3. Phase = "up"
    BY <1>1, <2>1, <2>2 DEF Phase, Deaf, TendedInv
  <2>4. ws = listener /\ ws' = None
    BY <1>1, <2>1 DEF Wired, ListenerIsCurrent, Cleanup
  <2>5. ~Alive /\ ~Alive'
    BY <2>1, <2>4 DEF Alive
  <2>6. Alive' = Alive
    BY <2>5, Zenon DEF Alive
  <2>7. MayReconnect
    BY <1>1, <2>2 DEF MayReconnect, TendedInv
  <2>8. PICK t \in Loops : step' = [step EXCEPT ![t] = "start"]
    BY <1>5, <2>7 DEF ListenerLoses
  <2>9. t \in Tasks /\ t # Caller
    BY <2>8 DEF Tasks
  <2>10. step'[t] = "start" /\ step'[Caller] = "off"
    BY <1>1, <2>2, <2>8, <2>9 DEF Idle
  <2>11. Phase' = "reconnecting"
    BY <2>9, <2>10 DEF Phase, Idle
  <2>12. Promise!Notice
    BY <2>1, <2>3, <2>5, <2>6, <2>11 DEF Promise!Notice
  <2> QED BY <2>12 DEF Promise!Next
<1>6. CASE \E s \in Sockets : Drop(s)
  <2>1. PICK s \in Sockets : Drop(s)
    BY <1>6
  <2>2. /\ sock[s] = "open" /\ \A t \in Tasks : on[t] # s
        /\ logged' = logged \ {s}
        /\ UNCHANGED <<ws, listener, authenticated, step, wanted, gaveUp, failures>>
    BY <1>1, <2>1 DEF Drop, Calm, InHandshake
  <2>3. ws = s /\ s # None
    BY <1>1, <2>2 DEF Orderly, Safe, NoLeak
  <2>4. Idle
    <3> SUFFICES ASSUME NEW t \in Tasks, step[t] # "off" PROVE FALSE
      BY DEF Idle
    <3>1. ConnectingInv(t)
      BY <1>1 DEF Orderly
    <3> QED BY <1>1, <2>2, <2>3, <3>1, Places DEF ConnectingInv, Detached, HandshakeInv, LinkInv
  <2>5. wanted /\ ~gaveUp
    BY <1>1, <2>2 DEF Orderly, RestingInv, Detached
  <2>6. authenticated
    BY <1>1, <2>4, <2>5 DEF TendedInv
  <2>7. Alive
    BY <1>1, <2>2, <2>3, <2>6 DEF Alive, Orderly, Safe, AuthenticatedIsReal
  <2>8. ~Alive'
    BY <2>2, <2>3 DEF Alive
  <2>9. Alive' = FALSE
    BY <2>8, Zenon DEF Alive
  <2>10. Idle' /\ wanted' /\ ~gaveUp' /\ authenticated'
    BY <2>2, <2>4, <2>5, <2>6 DEF Idle
  <2>11. PICK end \in Dead : sock' = [sock EXCEPT ![s] = end] /\ (end = "clean" => CleanCloses)
    BY <2>1 DEF Drop, Dead
  <2>12. CASE Deaf' <=> Deaf
    <3>1. Phase \in {"up", "deaf"} /\ Phase' = Phase
      BY <2>4, <2>5, <2>6, <2>10, <2>12 DEF Phase
    <3>2. Promise!Break
      BY <2>2, <2>7, <2>9, <3>1 DEF Promise!Break
    <3> QED BY <3>2 DEF Promise!Next
  <2>13. CASE ~(Deaf' <=> Deaf)
    <3>1. listener = s /\ ~Deaf /\ Deaf' /\ end = "clean"
      BY <1>1, <2>2, <2>3, <2>6, <2>11, <2>13 DEF Deaf, Dead, Wired, ListenerIsCurrent
    <3>2. Phase = "up" /\ Phase' = "deaf"
      BY <2>4, <2>5, <2>6, <2>10, <3>1 DEF Phase
    <3>3. Promise!Deafen
      BY <2>2, <2>7, <2>9, <2>11, <3>1, <3>2 DEF Promise!Deafen
    <3> QED BY <3>3 DEF Promise!Next
  <2> QED BY <2>12, <2>13
<1>7. CASE \E t \in Tasks : ServerLogsIn(t)
  <2>1. PICK t \in Tasks : ServerLogsIn(t)
    BY <1>7
  <2>2. /\ step[t] = "login" /\ on[t] \notin logged
        /\ logged' = logged \cup {on[t]}
        /\ UNCHANGED <<sock, ws, listener, authenticated, step, wanted, gaveUp, failures>>
    BY <2>1 DEF ServerLogsIn
  <2>3. HandshakeInv(t)
    BY <1>1, <2>2 DEF Orderly, ConnectingInv, Handshake
  <2>4. ~Alive /\ Alive'
    BY <1>1, <2>2, <2>3 DEF HandshakeInv, Alive
  <2>5. Phase \in {"connecting", "reconnecting"} /\ Phase' = Phase
    BY <2>2 DEF Phase, Idle
  <2>6. Promise!Accept
    BY <2>2, <2>4, <2>5, Zenon DEF Promise!Accept, Promise!Connecting
  <2> QED BY <2>6 DEF Promise!Next
<1>8. CASE UNCHANGED <<step, ws, sock, logged, listener, authenticated, wanted, gaveUp, failures>>
  <2>1. Phase' = Phase /\ Alive' = Alive
    BY <1>8 DEF Phase, Idle, Deaf, Alive
  <2> QED BY <1>8, <2>1 DEF Promise!vars
<1> QED
  BY <1>2, <1>3, <1>4, <1>5, <1>6, <1>7, <1>8, <1>9, <1>10
  DEF Next, ListenerStep, AnswerRead, RefusalRead, PingEnds, vars

(* XTBClient implements LinkPromise: where a user does not disconnect and   *)
(* connections break in use, every break of a link that is read is followed *)
(* by reconnecting, which ends with an accepted login or with the give-up   *)
(* after exactly max_reconnect_attempts failures, whatever the interleaving *)
(* of losses, tickets, dials, answers and connect() calls; only a close     *)
(* frame or a message that raises makes a link deaf.                        *)
THEOREM KeepsItsLink ==
  ASSUME Promised
  PROVE  Spec => KeepsLink
<1>1. Init => UInv /\ Promise!Init
  <2> SUFFICES ASSUME Init PROVE UInv /\ Promise!Init
    OBVIOUS
  <2>1. LoggedAreOpen /\ TendedInv /\ ~intentional
    BY DEF Init, LoggedAreOpen, TendedInv, Handshake
  <2>2. Idle /\ ~gaveUp /\ ~wanted /\ failures = 0 /\ ~Alive
    BY DEF Init, Idle, Alive
  <2>3. Phase = "none"
    BY <2>2 DEF Phase
  <2>4. Alive = FALSE
    BY <2>2, Zenon DEF Alive
  <2>5. Promise!Init
    BY <2>2, <2>3, <2>4 DEF Promise!Init
  <2> QED BY <2>1, <2>5, RInvInit DEF UInv
<1>2. UInv /\ [Next]_vars => UInv'
  <2> SUFFICES ASSUME UInv, [Next]_vars PROVE UInv'
    OBVIOUS
  <2>1. LinkInv /\ Orderly /\ LoggedAreOpen /\ TendedInv /\ ~intentional /\ Calm
    BY DEF UInv, RInv, Promised
  <2>2. ~intentional'
    BY <2>1, IntentStaysOff DEF Promised
  <2>3. RInv'
    BY <2>1, RInvStep DEF UInv
  <2>4. LoggedAreOpen' /\ TendedInv'
    BY <2>1, LoggedAreOpenStep, TendedStep
  <2> QED BY <2>2, <2>3, <2>4 DEF UInv
<1>3. UInv /\ [Next]_vars => [Promise!Next]_Promise!vars
  BY StepKeepsLink
<1> QED BY <1>1, <1>2, <1>3, PTL DEF Spec, KeepsLink, Promise!Spec

=============================================================================
