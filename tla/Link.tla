-------------------------------- MODULE Link --------------------------------
(***************************************************************************)
(* The WebSocket link: connecting, logging in, losing the connection,      *)
(* reconnecting and disconnecting.  XTBWebSocketClient                     *)
(* (src/xtb_api/ws/ws_client.py) as XTBClient.connect and disconnect       *)
(* (src/xtb_api/client.py) drive it, with an AuthManager configured.       *)
(*                                                                         *)
(* The asyncio tasks are the user's connect() (Caller), the user's         *)
(* disconnect() (closer), the listener, and the reconnection tasks         *)
(* (Loops), of which the code creates a new one for every attempt.  What   *)
(* runs between two awaits is one action.  A future that is resolved is    *)
(* separate from the resumption of the task that awaits it.                *)
(***************************************************************************)
EXTENDS Integers, FiniteSets

CONSTANTS
  Sockets,           \* connections; a dead one nobody refers to is reused
  Caller,            \* the task of the user's connect()
  Loops,             \* names for tasks running _schedule_reconnect
  None,              \* no socket
  MaxAttempts,       \* _max_reconnect_attempts
  MaxConnects,       \* bound on the user's connect() calls
  MaxDisconnects,    \* bound on the user's disconnect() calls
  AutoReconnect,     \* config.auto_reconnect
  CleanCloses,       \* may the server close with a close handshake?
  Unreadables,       \* may it send a message that the client cannot handle?
  DropsInHandshake,  \* may a connection break before the login on it is over?
  LoginFails         \* may a login be refused, a request not be answered, or unreadably?

Tasks == {Caller} \cup Loops

ASSUME LinkAssumption ==
  /\ Caller \notin Loops
  /\ None \notin Sockets
  /\ MaxAttempts \in Nat \ {0}
  /\ MaxConnects \in Nat
  /\ MaxDisconnects \in Nat
  /\ {AutoReconnect, CleanCloses, Unreadables, DropsInHandshake, LoginFails} \subseteq BOOLEAN

VARIABLES
  sock,          \* sock[s]: "open", or ended by a close frame or a break
  logged,        \* the sockets the server has accepted a login on
  ws,            \* _ws
  status,        \* _status
  listener,      \* the socket _listen_task reads, None if it has ended
  pinging,       \* is _ping_task alive?
  authenticated, \* _authenticated
  attempts,      \* _reconnect_attempts
  reconnecting,  \* _reconnecting
  intentional,   \* _intentional_disconnect
  step,          \* step[t]: the await task t is suspended at
  on,            \* on[t]: the socket the pending request of t was sent on
  fut,           \* fut[t]: the future of that request
  closer,        \* the socket disconnect_async waits to close, or None
  connects,      \* connect() calls made
  disconnects,   \* disconnect() calls made
  wanted,        \* history: does the user's last call leave him with a link?
  gaveUp,        \* history: has ReconnectionError been emitted?
  failures       \* history: reconnection attempts failed in a row, to MaxAttempts + 1

linkVars == <<sock, logged, ws, listener, pinging, authenticated>>
loopVars == <<attempts, reconnecting>>
taskVars == <<step, on, fut>>
callVars == <<intentional, closer, connects, disconnects>>
userVars == <<callVars, wanted>>
history == <<gaveUp, failures>>
vars == <<linkVars, status, loopVars, taskVars, userVars, history>>

Dead == {"clean", "broken"}
Connected == status = "CONNECTED"

-----------------------------------------------------------------------------
(* Shared pieces. *)

(* _cleanup: stops the pings and the listener, fails what is pending and    *)
(* forgets the socket, whichever it is by now, without closing it.          *)
FailPending(f) == [t \in Tasks |-> IF f[t] = "waiting" THEN "error" ELSE f[t]]

(* Mutant: the login is not forgotten with the connection. *)
CleanupKeepsLogin ==
  /\ pinging' = FALSE
  /\ listener' = None
  /\ ws' = None
  /\ UNCHANGED authenticated
  /\ fut' = FailPending(fut)
(* Mutant: the listener is not cancelled. *)
CleanupKeepsListener ==
  /\ pinging' = FALSE
  /\ UNCHANGED listener
  /\ ws' = None
  /\ authenticated' = FALSE
  /\ fut' = FailPending(fut)

Cleanup ==
  /\ pinging' = FALSE
  /\ listener' = None
  /\ ws' = None
  /\ authenticated' = FALSE
  /\ fut' = FailPending(fut)

(* The task leaves the coroutine. *)
Leave(t, next) ==
  /\ step' = [step EXCEPT ![t] = next]
  /\ on' = [on EXCEPT ![t] = None]
  /\ fut' = [fut EXCEPT ![t] = "none"]

(* failures is a history variable: it is counted to MaxAttempts + 1.        *)
More(n) == IF n > MaxAttempts THEN n ELSE n + 1

(* An exception leaves connect(), or reaches the handler at the end of      *)
(* _schedule_reconnect, which creates the task of the next attempt.         *)
(* Mutant: only the first attempt is retried. *)
MayRetryOnce == AutoReconnect /\ attempts = 0
MayRetry == AutoReconnect /\ attempts < MaxAttempts

Fail(t) ==
  IF t = Caller
  THEN /\ Leave(t, "off")
       /\ wanted' = FALSE
       /\ UNCHANGED <<loopVars, history>>
  ELSE /\ reconnecting' = FALSE
       /\ failures' = More(failures)
       /\ Leave(t, IF MayRetry THEN "start" ELSE "off")
       /\ gaveUp' = (gaveUp \/ attempts >= MaxAttempts)
       /\ UNCHANGED <<attempts, wanted>>

-----------------------------------------------------------------------------
(* connect() and _schedule_reconnect.                                       *)

(* A user connects who has no link, after disconnect(), an exception from   *)
(* connect() or the give-up: not while the client still reconnects for him. *)
Connect ==
  /\ connects < MaxConnects
  /\ step[Caller] = "off" /\ closer = None
  /\ wanted => gaveUp
  /\ connects' = connects + 1
  /\ wanted' = TRUE
  /\ gaveUp' = FALSE
  /\ step' = [step EXCEPT ![Caller] = "ticket"]
  /\ UNCHANGED <<linkVars, status, loopVars, on, fut, intentional, closer, disconnects, failures>>

(* Mutants: attempts are not counted; the ones that are left are counted;   *)
(* one attempt less is made.                                                *)
Uncounted(n) == n
CountsDown(n) == n - 1
ExhaustedEarly(n) == n >= MaxAttempts

NextAttempt(n) == n + 1
Exhausted(n) == n > MaxAttempts

(* The first piece of _schedule_reconnect, up to its sleep. *)
LoopStarts(t) ==
  /\ step[t] = "start"
  /\ attempts' = NextAttempt(attempts)
  /\ IF Exhausted(NextAttempt(attempts))
     THEN reconnecting' = FALSE /\ gaveUp' = TRUE /\ Leave(t, "off")
     ELSE reconnecting' = TRUE /\ Leave(t, "sleep") /\ UNCHANGED gaveUp
  /\ UNCHANGED <<linkVars, status, userVars, failures>>

LoopWakes(t) ==
  /\ step[t] = "sleep"
  /\ step' = [step EXCEPT ![t] = "ticket"]
  /\ UNCHANGED <<linkVars, status, loopVars, on, fut, userVars, history>>

TicketObtained(t) ==
  /\ step[t] = "ticket"
  /\ step' = [step EXCEPT ![t] = "dial"]
  /\ status' = "CONNECTING"
  /\ UNCHANGED <<linkVars, loopVars, on, fut, userVars, history>>

TicketFails(t) ==
  /\ step[t] = "ticket"
  /\ Fail(t)
  /\ UNCHANGED <<linkVars, status, callVars>>

Fresh(s) == sock[s] \in Dead /\ s \notin {ws, listener, closer} /\ \A t \in Tasks : on[t] # s

(* Mutant: the ping task of the old connection is taken for a running one.  *)
LeavePing == UNCHANGED pinging
StartPing == pinging' = TRUE

(* Mutant: the new connection becomes the current one only later. *)
ReadOnly(s) == listener' = s /\ UNCHANGED ws
Adopt(s) == listener' = s /\ ws' = s

(* _establish_connection succeeds, the previous _ws is forgotten and its    *)
(* listener cancelled; register_client_info goes out at once.               *)
DialSucceeds(t) ==
  /\ step[t] = "dial"
  /\ \E s \in Sockets :
       /\ Fresh(s)
       /\ sock' = [sock EXCEPT ![s] = "open"]
       /\ Adopt(s)
       /\ on' = [on EXCEPT ![t] = s]
  /\ status' = "CONNECTED"
  /\ StartPing
  /\ reconnecting' = FALSE
  /\ attempts' = 0
  /\ step' = [step EXCEPT ![t] = "register"]
  /\ fut' = [fut EXCEPT ![t] = "waiting"]
  /\ UNCHANGED <<logged, authenticated, userVars, history>>

DialFails(t) ==
  /\ step[t] = "dial"
  /\ status' = "ERROR"
  /\ Fail(t)
  /\ UNCHANGED <<linkVars, callVars>>

(* register_client_info has its answer; login_with_service_ticket sends on  *)
(* whatever _ws is by now.  send() raises without a connection, and so does *)
(* a socket that is no longer open.                                         *)
CanSend == Connected /\ ws # None /\ sock[ws] = "open"

Registered(t) ==
  /\ step[t] = "register"
  /\ fut[t] = "answered"
  /\ IF CanSend
     THEN /\ step' = [step EXCEPT ![t] = "login"]
          /\ on' = [on EXCEPT ![t] = ws]
          /\ fut' = [fut EXCEPT ![t] = "waiting"]
          /\ UNCHANGED <<loopVars, history, wanted>>
     ELSE Fail(t)
  /\ UNCHANGED <<linkVars, status, callVars>>

LoggedIn(t) ==
  /\ step[t] = "login"
  /\ fut[t] = "answered"
  /\ authenticated' = TRUE
  /\ failures' = 0
  /\ Leave(t, "off")
  /\ UNCHANGED <<sock, logged, ws, listener, pinging, status, loopVars, userVars, gaveUp>>

(* The future of the request failed, or the login was refused. *)
RequestFails(t) ==
  /\ fut[t] \in {"error", "refused"}
  /\ Fail(t)
  /\ UNCHANGED <<linkVars, status, callVars>>

(* wait_for times out.  Where the server answers everything in time, only a *)
(* request whose answer nobody reads any more does, or whose answer was     *)
(* lost on the listener.                                                    *)
Answerable(t) == sock[on[t]] = "open" /\ listener = on[t]

RequestTimesOut(t) ==
  /\ fut[t] \in {"waiting", "lost"}
  /\ LoginFails \/ ~Answerable(t)
  /\ Fail(t)
  /\ UNCHANGED <<linkVars, status, callVars>>

-----------------------------------------------------------------------------
(* The listener. *)

(* The event loop is first in, first out: a task whose request was answered *)
(* resumes before anybody learns that the connection is lost afterwards.    *)
Settled == \A t \in Tasks : fut[t] \notin {"answered", "refused"}

(* Mutant: the user's disconnect is ignored. *)
MayReconnectAlways == AutoReconnect /\ ~reconnecting
MayReconnect == AutoReconnect /\ ~reconnecting /\ ~intentional

(* Mutant: "except Exception" comes first, and takes the break as well. *)
BreakIsAnError ==
  /\ Settled
  /\ listener # None
  /\ sock[listener] = "broken"
  /\ listener' = None
  /\ UNCHANGED <<sock, logged, ws, pinging, authenticated, status, loopVars,
                 taskVars, userVars, history>>

(* The connection breaks: ConnectionClosed leaves the loop over the socket. *)
ListenerLoses ==
  /\ Settled
  /\ listener # None
  /\ sock[listener] = "broken"
  /\ Cleanup
  /\ status' = "CLOSED"
  /\ IF MayReconnect
     THEN \E t \in Loops : step[t] = "off" /\ step' = [step EXCEPT ![t] = "start"]
     ELSE UNCHANGED step
  /\ UNCHANGED <<sock, logged, loopVars, on, userVars, history>>

(* The server closes with a handshake: "async for" ends without an error.   *)
ListenerEnds ==
  /\ Settled
  /\ listener # None
  /\ sock[listener] = "clean"
  /\ listener' = None
  /\ UNCHANGED <<sock, logged, ws, pinging, authenticated, status, loopVars,
                 taskVars, userVars, history>>

InHandshake(s) == \E t \in Tasks : on[t] = s

(* A message raises in _handle_message: "except Exception" ends the listener *)
(* with an event and no more.  If the message is an answer, its request is   *)
(* pending no longer, and nothing resolves its future.  In a handshake it is *)
(* one of the ways a login fails (LoginFails).                               *)
ListenerRaises ==
  /\ Unreadables
  /\ listener # None
  /\ sock[listener] = "open"
  /\ InHandshake(listener) => LoginFails
  /\ listener' = None
  /\ \/ UNCHANGED fut
     \/ \E t \in Tasks :
          /\ fut[t] = "waiting" /\ on[t] = listener
          /\ fut' = [fut EXCEPT ![t] = "lost"]
  /\ UNCHANGED <<sock, logged, ws, pinging, authenticated, status, loopVars, step, on,
                 userVars, history>>

(* _handle_message resolves the future of the request it answers. *)
AnswerRead(t) ==
  /\ fut[t] = "waiting"
  /\ Answerable(t)
  /\ step[t] = "login" => on[t] \in logged
  /\ fut' = [fut EXCEPT ![t] = "answered"]
  /\ UNCHANGED <<linkVars, status, loopVars, step, on, userVars, history>>

RefusalRead(t) ==
  /\ fut[t] = "waiting"
  /\ Answerable(t)
  /\ LoginFails /\ step[t] = "login"
  /\ fut' = [fut EXCEPT ![t] = "refused"]
  /\ UNCHANGED <<linkVars, status, loopVars, step, on, userVars, history>>

(* The ping loop finds the status changed when it wakes. *)
PingEnds ==
  /\ pinging
  /\ ~Connected
  /\ pinging' = FALSE
  /\ UNCHANGED <<sock, logged, ws, listener, authenticated, status, loopVars,
                 taskVars, userVars, history>>

-----------------------------------------------------------------------------
(* disconnect_async (XTBClient.disconnect) and the synchronous disconnect.  *)

Disconnect ==
  /\ disconnects < MaxDisconnects
  /\ closer = None
  /\ disconnects' = disconnects + 1
  /\ intentional' = TRUE
  /\ wanted' = FALSE
  /\ IF ws # None
     THEN /\ status' = "DISCONNECTING"
          /\ closer' = ws
          /\ UNCHANGED <<linkVars, fut>>
     ELSE Cleanup /\ UNCHANGED <<sock, logged, status, closer>>
  /\ UNCHANGED <<loopVars, step, on, connects, history>>

(* The synchronous disconnect cleans up at once; a task of its own closes    *)
(* the socket, which nobody reads any more.                                 *)
DisconnectNow ==
  /\ disconnects < MaxDisconnects
  /\ closer = None
  /\ disconnects' = disconnects + 1
  /\ intentional' = TRUE
  /\ wanted' = FALSE
  /\ sock' = [s \in Sockets |-> IF s = ws THEN "clean" ELSE sock[s]]
  /\ logged' = logged \ {ws}
  /\ status' = IF ws # None THEN "DISCONNECTING" ELSE status
  /\ Cleanup
  /\ UNCHANGED <<loopVars, step, on, closer, connects, history>>

(* ws.close() is over: what _ws is by now is cleaned up. *)
CloseDone ==
  /\ Settled
  /\ closer # None
  /\ sock[closer] # "open"
  /\ closer' = None
  /\ Cleanup
  /\ UNCHANGED <<sock, logged, status, loopVars, step, on, intentional, connects, disconnects, wanted, history>>

-----------------------------------------------------------------------------
(* The network and the server. *)

(* The connection is lost, or the server ends it. *)
Drop(s) ==
  /\ sock[s] = "open"
  /\ InHandshake(s) => DropsInHandshake
  /\ \E end \in IF CleanCloses THEN Dead ELSE {"broken"} : sock' = [sock EXCEPT ![s] = end]
  /\ logged' = logged \ {s}
  /\ UNCHANGED <<ws, listener, pinging, authenticated, status, loopVars, taskVars,
                 userVars, history>>

(* The close handshake the client asked for ends, well or by a time-out. *)
CloseHandshake ==
  /\ closer # None
  /\ sock[closer] = "open"
  /\ \E end \in Dead : sock' = [sock EXCEPT ![closer] = end]
  /\ logged' = logged \ {closer}
  /\ UNCHANGED <<ws, listener, pinging, authenticated, status, loopVars, taskVars,
                 userVars, history>>

(* The server reads a login it accepts. *)
ServerLogsIn(t) ==
  /\ step[t] = "login"
  /\ fut[t] = "waiting"
  /\ sock[on[t]] = "open"
  /\ on[t] \notin logged
  /\ logged' = logged \cup {on[t]}
  /\ UNCHANGED <<sock, ws, listener, pinging, authenticated, status, loopVars, taskVars,
                 userVars, history>>

-----------------------------------------------------------------------------
Init ==
  /\ sock = [s \in Sockets |-> "clean"]
  /\ logged = {}
  /\ ws = None
  /\ status = "CLOSED"
  /\ listener = None
  /\ pinging = FALSE
  /\ authenticated = FALSE
  /\ attempts = 0
  /\ reconnecting = FALSE
  /\ intentional = FALSE
  /\ step = [t \in Tasks |-> "off"]
  /\ on = [t \in Tasks |-> None]
  /\ fut = [t \in Tasks |-> "none"]
  /\ closer = None
  /\ connects = 0
  /\ disconnects = 0
  /\ wanted = FALSE
  /\ gaveUp = FALSE
  /\ failures = 0

TaskStep(t) ==
  \/ LoopStarts(t) \/ LoopWakes(t)
  \/ TicketObtained(t) \/ TicketFails(t)
  \/ DialSucceeds(t) \/ DialFails(t)
  \/ Registered(t) \/ LoggedIn(t)
  \/ RequestFails(t) \/ RequestTimesOut(t)

ListenerStep ==
  \/ ListenerLoses \/ ListenerEnds \/ ListenerRaises
  \/ \E t \in Tasks : AnswerRead(t) \/ RefusalRead(t)

Next ==
  \/ Connect \/ Disconnect \/ DisconnectNow \/ CloseDone
  \/ \E t \in Tasks : TaskStep(t) \/ ServerLogsIn(t)
  \/ ListenerStep \/ PingEnds
  \/ CloseHandshake
  \/ \E s \in Sockets : Drop(s)

Spec == Init /\ [][Next]_vars

(* The event loop runs every task that can run; a server that does not fail *)
(* logins reads them, and its answers are read.                             *)
Fairness ==
  /\ \A t \in Tasks : WF_vars(TaskStep(t)) /\ WF_vars(ServerLogsIn(t)) /\ WF_vars(AnswerRead(t))
  /\ WF_vars(ListenerLoses \/ ListenerEnds)
  /\ WF_vars(CloseHandshake) /\ WF_vars(CloseDone) /\ WF_vars(PingEnds)

FairSpec == Spec /\ Fairness

-----------------------------------------------------------------------------
(* Properties. *)

(* Every variable has its type; _reconnect_attempts overshoots the maximum  *)
(* by at most the tasks that run at once.                                   *)
TypeOK ==
  /\ sock \in [Sockets -> {"open"} \cup Dead]
  /\ logged \subseteq Sockets
  /\ ws \in Sockets \cup {None}
  /\ status \in {"CONNECTING", "CONNECTED", "DISCONNECTING", "CLOSED", "ERROR"}
  /\ listener \in Sockets \cup {None}
  /\ pinging \in BOOLEAN
  /\ authenticated \in BOOLEAN
  /\ attempts \in Nat
  /\ reconnecting \in BOOLEAN
  /\ intentional \in BOOLEAN
  /\ step \in [Tasks -> {"off", "start", "sleep", "ticket", "dial", "register", "login"}]
  /\ on \in [Tasks -> Sockets \cup {None}]
  /\ fut \in [Tasks -> {"none", "waiting", "answered", "refused", "error", "lost"}]
  /\ closer \in Sockets \cup {None}
  /\ connects \in 0 .. MaxConnects
  /\ disconnects \in 0 .. MaxDisconnects
  /\ wanted \in BOOLEAN
  /\ gaveUp \in BOOLEAN
  /\ failures \in 0 .. MaxAttempts + 1

(* The one listener reads the current socket: however often connections are *)
(* replaced or cleaned up, no message of an old one is handled.             *)
ListenerIsCurrent == listener # None => listener = ws

(* A connection that is in use is kept alive: _start_ping and _stop_ping    *)
(* leave no link that reports CONNECTED without its ping task.              *)
KeepaliveRuns == Connected /\ ws # None => pinging

(* A user who disconnects while nothing is being connected stays            *)
(* disconnected: not even a close handshake that breaks starts a            *)
(* reconnection (the _intentional_disconnect flag).                         *)
Idle == \A t \in Tasks : step[t] = "off"
QuietDisconnect == [][intentional /\ ~wanted /\ Idle => Idle' \/ wanted']_vars

(* No connection is left open behind the client's back: an open socket is   *)
(* the current one or on its way to being closed.                           *)
NoLeak == \A s \in Sockets : sock[s] = "open" => s \in {ws, closer}

(* is_authenticated says that the server accepted a login on the current    *)
(* connection (or that its loss has not been noticed yet).                  *)
AuthenticatedIsReal ==
  authenticated => ws # None /\ (sock[ws] = "open" => ws \in logged)

(* Reconnection stops after _max_reconnect_attempts failures in a row.      *)
FailuresBounded == failures <= MaxAttempts

(* ReconnectionError is not raised before that many attempts have failed.   *)
GiveUpIsEarned == gaveUp => failures >= MaxAttempts

Usable ==
  /\ authenticated
  /\ ws # None /\ sock[ws] = "open" /\ ws \in logged
  /\ listener = ws

(* A user who wants a link gets it back after every loss, or is told that   *)
(* the client gave up.                                                      *)
LinkIsRestored == wanted ~> (Usable \/ gaveUp \/ ~wanted)

(* The link is reported up and nobody reads it: a message has ended the     *)
(* listener, or the server has closed the connection, which is about to.    *)
Deaf == authenticated /\ (listener = None \/ sock[listener] = "clean")

(* What the code keeps of that where listeners may end so: every break a    *)
(* listener sees is repaired, through all failures of tickets and dials, or *)
(* given up; only a link gone deaf is left as it is.                        *)
LossIsRepaired == wanted ~> (Usable \/ gaveUp \/ ~wanted \/ Deaf)

-----------------------------------------------------------------------------
(* The refinement of LinkPromise, for a user who does not disconnect, where *)
(* connections break only in use and logins succeed.                        *)

(* "stuck" is no phase of the promise: there is no link, and nobody gets    *)
(* one.  A link goes deaf by a close frame or a message that raises, and    *)
(* not by a break.                                                          *)
Phase ==
  CASE ~Idle /\ step[Caller] # "off"                                -> "connecting"
    [] ~Idle /\ step[Caller] = "off"                                -> "reconnecting"
    [] Idle /\ gaveUp                                               -> "gaveUp"
    [] Idle /\ ~gaveUp /\ ~wanted                                   -> "none"
    [] Idle /\ ~gaveUp /\ wanted /\ authenticated /\ ~Deaf           -> "up"
    [] Idle /\ ~gaveUp /\ wanted /\ Deaf                            -> "deaf"
    [] OTHER                                                        -> "stuck"

Alive == ws # None /\ sock[ws] = "open" /\ ws \in logged

Promise == INSTANCE LinkPromise WITH
  MayDeafen <- CleanCloses \/ Unreadables,
  phase <- Phase, alive <- Alive, failed <- failures

(* Every step of the tasks, of the listener and of the network is a step of *)
(* the promise, or none: no break of a link that is read is missed, none is *)
(* made up, and no order of failures gives up early, late, or on an         *)
(* accepted login.                                                          *)
KeepsLink == Promise!Spec
=============================================================================
