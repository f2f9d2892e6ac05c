------------------------------ MODULE Requests ------------------------------
(***************************************************************************)
(* Requests and answers of XTBWebSocketClient (src/xtb_api/ws/ws_client.py)*)
(* on one socket: send(), its entry in _pending_requests, its time-out,    *)
(* _handle_message and _cleanup.  Link says when the socket comes and goes;*)
(* here it may do so at any time.                                          *)
(*                                                                         *)
(* A call is an asyncio task; its future lives as long as the send() that  *)
(* made it.  A module that composes this one says what a call does when a  *)
(* send() of it ends, in the same step, through Begin and Pops.            *)
(***************************************************************************)
EXTENDS Integers, FiniteSets, SequencesExt

CONSTANTS
  Callers,   \* the tasks that send requests
  Commands,  \* what they ask for
  Kinds,     \* Kinds[m]: the answers to command m the code tells apart
  MaxIds,    \* bound: request ids that may be in use at once
  None       \* no command, no answer

ASSUME RequestsAssumption ==
  /\ DOMAIN Kinds = Commands
  /\ IsFiniteSet(Callers)
  /\ MaxIds \in Nat /\ MaxIds > Cardinality(Callers)
  /\ None \notin Commands \cup Callers

VARIABLES
  link,     \* "down", "up", or "deaf": CONNECTED, but nobody reads the socket
  call,     \* call[c]: where the task c is, and its request
  pending,  \* pending[i]: the caller whose future is registered under the id i
  wire      \* requests the server has not answered, on the current socket

rpcVars == <<link, call, pending, wire>>

Ids == 1 .. MaxIds
Futures == {"open", "failed", "cancelled", "lost", "answered"}

Answers == {"none"} \cup UNION {Kinds[m] : m \in Commands}

(* The id is 0, and the command None, while no send() of the call runs.     *)
(* from and kind: the command that the answer in the future answers.        *)
Calls == [pc : {"idle", "queued", "writing", "broken", "waiting", "expired"},
          cmd : Commands \cup {None}, id : Ids \cup {0},
          fut : Futures, from : Commands \cup {None}, kind : Answers]
Idle == [pc |-> "idle", cmd |-> None, id |-> 0, fut |-> "open", from |-> None, kind |-> "none"]

Wire == [id : Ids, of : Callers, cmd : Commands]

NoPending == [i \in Ids |-> None]
Registered(c) == call[c].id # 0 /\ pending[call[c].id] = c

-----------------------------------------------------------------------------
(* The sequence number makes an id new: nobody has it, no answer bears it.  *)
(* When the ids of the bound are used up, one that no call waits with any   *)
(* more is taken: its request is then never answered.                       *)
Live(i) == \E c \in Callers : call[c].id = i
Unused(p) == {i \in Ids : p[i] = None /\ ~Live(i) /\ \A r \in wire : r.id # i}
NewId(p) == IF Unused(p) # {} THEN CHOOSE i \in Unused(p) : TRUE
                              ELSE CHOOSE i \in Ids : ~Live(i)

CanSend == link # "down"

(* send() up to its first await.  A socket that is closed, or replaced, is  *)
(* written to in vain.                                                      *)
Begin(c, m, p) ==
  LET i == NewId(p)
  IN /\ call' = [call EXCEPT ![c] = [Idle EXCEPT !.pc = IF link = "up" THEN "writing" ELSE "broken",
                                                 !.cmd = m, !.id = i]]
     /\ pending' = [p EXCEPT ![i] = c]
     /\ wire' = {r \in wire : r.id # i}

(* The await of _ws.send returns. *)
Written(c) ==
  /\ call[c].pc \in {"writing", "broken"}
  /\ call' = [call EXCEPT ![c].pc = "waiting"]
  /\ wire' = IF call[c].pc = "writing"
             THEN wire \cup {[id |-> call[c].id, of |-> c, cmd |-> call[c].cmd]}
             ELSE wire
  /\ UNCHANGED <<link, pending>>

(* wait_for cancels the future, or finds it resolved and cancels the task.  *)
TimerFires(c) ==
  /\ call[c].pc = "waiting"
  /\ call' = [call EXCEPT ![c].pc = "expired",
                          ![c].fut = IF @ = "open" THEN "cancelled" ELSE @]
  /\ UNCHANGED <<link, pending, wire>>

(* How a send() ends, and the entries it leaves: only a time-out pops its   *)
(* own.                                                                     *)
Answered(c) == call[c].pc = "waiting" /\ call[c].fut = "answered"
Raises(c) ==
  \/ call[c].pc = "broken"
  \/ call[c].pc = "waiting" /\ call[c].fut = "failed"
  \/ call[c].pc = "expired"
Pops(c) ==
  IF call[c].pc = "expired" /\ Registered(c) THEN [pending EXCEPT ![call[c].id] = None] ELSE pending

-----------------------------------------------------------------------------
(* _handle_message pops the entry and resolves its future, if the call      *)
(* still waits for it; an answer without an entry is a 'message' event.     *)
Popped(r) == [pending EXCEPT ![r.id] = None]
(* Mutant: the oldest entry is answered, whatever the id. *)
AddresseesInOrder(r) ==
  {c \in Callers : call[c].fut = "open" /\ Registered(c)
                   /\ \A i \in 1 .. call[c].id - 1 : pending[i] = None}
Addressees(r) == {c \in Callers : call[c].id = r.id /\ Registered(c) /\ call[c].fut = "open"}

Resolve(r, answer) ==
  call' = [c \in Callers |-> IF c \in Addressees(r) THEN answer[c] ELSE call[c]]

Answer(r, kinds) ==
  /\ link = "up"
  /\ r \in wire
  /\ \E k \in kinds :
       Resolve(r, [c \in Callers |-> [call[c] EXCEPT !.fut = "answered", !.from = r.cmd, !.kind = k]])
  /\ wire' = wire \ {r}
  /\ pending' = Popped(r)
  /\ UNCHANGED link

(* The answer is not JSON: an 'error' event, and the listener goes on. *)
Garbled(r) ==
  /\ link = "up"
  /\ r \in wire
  /\ wire' = wire \ {r}
  /\ UNCHANGED <<link, call, pending>>

(* Every call that writes to the socket now writes to one nobody reads. *)
Severed(f) == [c \in Callers |-> IF f[c].pc = "writing" THEN [f[c] EXCEPT !.pc = "broken"] ELSE f[c]]

(* The answer is JSON, but no WSResponse: the entry is gone, its future is  *)
(* not resolved, and the exception ends the listener.                       *)
Unreadable(r) ==
  /\ link = "up"
  /\ r \in wire
  /\ Addressees(r) # {}
  /\ call' = Severed([c \in Callers |-> IF c \in Addressees(r)
                                         THEN [call[c] EXCEPT !.fut = "lost"] ELSE call[c]])
  /\ link' = "deaf"
  /\ wire' = {}
  /\ pending' = Popped(r)

(* The server closes with a close handshake, or a push is malformed: the    *)
(* listener ends and nothing else happens.                                  *)
ListenerEnds ==
  /\ link = "up"
  /\ link' = "deaf"
  /\ call' = Severed(call)
  /\ wire' = {}
  /\ UNCHANGED pending

-----------------------------------------------------------------------------
(* Mutant: _cleanup forgets the requests without failing them. *)
ForgetPending(c) == call[c]
FailPending(c) == IF Registered(c) /\ call[c].fut = "open"
                  THEN [call[c] EXCEPT !.fut = "failed"] ELSE call[c]

(* A loss that the listener sees, or a disconnect. *)
CleanUp ==
  /\ link # "down"
  /\ link' = "down"
  /\ call' = Severed([c \in Callers |-> FailPending(c)])
  /\ pending' = NoPending
  /\ wire' = {}

(* A new socket, in the place of the old one if there is one: only          *)
(* ws.connect() refuses that, XTBClient.connect() does not.                 *)
Connect ==
  /\ link' = "up"
  /\ call' = Severed(call)
  /\ wire' = {}
  /\ UNCHANGED pending

RpcInit ==
  /\ link = "down"
  /\ call = [c \in Callers |-> Idle]
  /\ pending = NoPending
  /\ wire = {}

RpcStep ==
  \/ \E c \in Callers : Written(c) \/ TimerFires(c)
  \/ \E r \in wire : Garbled(r) \/ Unreadable(r)
  \/ ListenerEnds
  \/ Connect

-----------------------------------------------------------------------------
(* Every variable has its type. *)
RpcTypeOK ==
  /\ link \in {"down", "up", "deaf"}
  /\ call \in [Callers -> Calls]
  /\ pending \in [Ids -> Callers \cup {None}]
  /\ wire \subseteq Wire

(* A send() that may still be answered, or must be told that the connection *)
(* is gone, can be: while its future is open, its id leads to it.  No order *)
(* of writes, answers, time-outs, cancellations and clean-ups loses one     *)
(* (ws_client.py:343 registers before the write).                           *)
WaitersAreRegistered ==
  \A c \in Callers : call[c].id # 0 /\ call[c].fut = "open" => Registered(c)

(* A send() returns an answer to a request of its own command, although ids *)
(* are forgotten and answered late (ws_client.py:793, 809): the answer to a *)
(* trade never ends a search, nor the other way round.                      *)
OwnAnswer ==
  \A c \in Callers : call[c].fut = "answered" => call[c].from = call[c].cmd
=============================================================================
