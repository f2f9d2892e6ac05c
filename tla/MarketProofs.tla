---------------------------- MODULE MarketProofs ----------------------------
(* Theorems about Requests, under the jobs of Market, for all callers,      *)
(* commands and answers.                                                    *)
EXTENDS Market, FiniteSetTheorems, SequenceTheorems, TLAPS

-----------------------------------------------------------------------------
(* The inductive invariant of the requests: ids lead from a request on the  *)
(* wire and from an entry of _pending_requests to the one call they are of. *)

CallInv(c) ==
  /\ IF call[c].pc \in {"idle", "queued"} THEN call[c].id = 0 /\ call[c].cmd = None
                                          ELSE call[c].id # 0 /\ call[c].cmd # None
  /\ call[c].id # 0 /\ call[c].fut = "open" => Registered(c)
  /\ call[c].fut = "answered" =>
       call[c].pc \in {"waiting", "expired"} /\ call[c].from = call[c].cmd
  /\ \A d \in Callers : call[c].id # 0 /\ call[c].id = call[d].id => c = d

WireInv(r) ==
  \A c \in Callers : call[c].id = r.id =>
    /\ r.of = c /\ r.cmd = call[c].cmd
    /\ call[c].pc \in {"waiting", "expired"} /\ call[c].fut # "answered"

RpcInv ==
  /\ call \in [Callers -> Calls]
  /\ pending \in [Ids -> Callers \cup {None}]
  /\ wire \subseteq Wire
  /\ \A c \in Callers : CallInv(c)
  /\ \A r \in wire : WireInv(r)

(* Of the jobs: only an order can have been executed, an answer that        *)
(* refuses it is true, and whoever downloads the symbols holds the lock.    *)
JobInv(c) ==
  /\ c \in placed => call[c].pc = "idle" \/ call[c].cmd = "order"
  /\ call[c].fut = "answered" /\ call[c].cmd = "order" /\ call[c].kind = "error" => c \notin placed
  /\ job[c] = "trade" /\ call[c].pc = "idle" /\ said[c] = "REJECTED" => c \notin placed
  /\ call[c].cmd = "symbols" => owner = c /\ cache = "none"

JobTypes ==
  /\ job \in [Callers -> {"resolve", "populate", "trade", "plain"}]
  /\ DOMAIN said = Callers
  /\ placed \subseteq Callers

IInv == RpcInv /\ JobTypes /\ \A c \in Callers : JobInv(c)

-----------------------------------------------------------------------------
(* send(). *)

LEMMA IdleType ==
  /\ Idle \in Calls
  /\ Idle.pc = "idle" /\ Idle.cmd = None /\ Idle.id = 0 /\ Idle.fut = "open"
<1>1. /\ "idle" \in {"idle", "queued", "writing", "broken", "waiting", "expired"}
      /\ None \in Commands \cup {None} /\ 0 \in Ids \cup {0} /\ "open" \in Futures
      /\ "none" \in Answers
  BY DEF Futures, Answers
<1>2. Idle \in Calls
  BY <1>1 DEF Idle, Calls
<1> QED BY <1>2 DEF Idle

(* There is an id that no call has: there are more ids than calls. *)
LEMMA SomeIdIsFree ==
  ASSUME RpcInv
  PROVE  \E i \in Ids : ~Live(i)
<1> DEFINE Used == {call[c].id : c \in Callers}
<1>1. IsFiniteSet(Callers) /\ Cardinality(Callers) \in Nat /\ MaxIds \in Nat
      /\ Cardinality(Callers) < MaxIds
  BY RequestsAssumption, FS_CardinalityType
<1>2. IsFiniteSet(Used) /\ Cardinality(Used) <= Cardinality(Callers)
  <2> DEFINE f == [c \in Callers |-> call[c].id]
  <2>1. f \in Surjection(Callers, Used)
    BY DEF Surjection
  <2> QED BY <1>1, <2>1, FS_Surjection
<1>3. IsFiniteSet(Ids) /\ Cardinality(Ids) = MaxIds
  BY <1>1, FS_Interval DEF Ids
<1>4. SUFFICES ASSUME \A i \in Ids : Live(i) PROVE FALSE
  OBVIOUS
<1>5. Ids \subseteq Used
  BY <1>4 DEF Live
<1>6. Cardinality(Ids) <= Cardinality(Used)
  BY <1>2, <1>5, FS_Subset
<1>7. Cardinality(Used) \in Nat
  BY <1>2, FS_CardinalityType
<1> QED BY <1>1, <1>2, <1>3, <1>6, <1>7

LEMMA NewIdIsNew ==
  ASSUME RpcInv, NEW p
  PROVE  NewId(p) \in Ids /\ ~Live(NewId(p)) /\ NewId(p) # 0
<1>1. NewId(p) \in Ids /\ ~Live(NewId(p))
  <2>1. CASE Unused(p) # {}
    BY <2>1 DEF NewId, Unused
  <2>2. CASE Unused(p) = {}
    BY <2>2, SomeIdIsFree DEF NewId
  <2> QED BY <2>1, <2>2
<1> QED BY <1>1 DEF Ids

LEMMA BeginKeeps ==
  ASSUME RpcInv, NEW c \in Callers, NEW m \in Commands, Begin(c, m, pending)
  PROVE  /\ RpcInv'
         /\ call'[c].cmd = m /\ call'[c].pc # "idle" /\ call'[c].fut = "open"
         /\ \A d \in Callers \ {c} : call'[d] = call[d]
<1> DEFINE i == NewId(pending)
           new == [Idle EXCEPT !.pc = IF link = "up" THEN "writing" ELSE "broken",
                               !.cmd = m, !.id = i]
<1>1. i \in Ids /\ ~Live(i) /\ i # 0
  BY NewIdIsNew
<1>2. /\ call' = [call EXCEPT ![c] = new]
      /\ pending' = [pending EXCEPT ![i] = c]
      /\ wire' = {r \in wire : r.id # i}
  BY DEF Begin
<1>3. /\ new \in Calls /\ new.id = i /\ new.cmd = m /\ new.fut = "open"
      /\ new.pc \in {"writing", "broken"}
  BY <1>1, IdleType DEF Idle, Calls, Futures
<1> HIDE DEF i, new
<1>4. /\ call'[c] = new
      /\ \A d \in Callers \ {c} : call'[d] = call[d] /\ call[d].id # i
  BY <1>1, <1>2 DEF RpcInv, Live
<1>5. /\ call' \in [Callers -> Calls]
      /\ pending' \in [Ids -> Callers \cup {None}]
      /\ wire' \subseteq Wire
  BY <1>1, <1>2, <1>3 DEF RpcInv
<1>6. ASSUME NEW d \in Callers PROVE CallInv(d)'
  <2>1. CASE d = c
    BY <1>1, <1>2, <1>3, <1>4, <1>5, <2>1, RequestsAssumption DEF CallInv, Registered, RpcInv
  <2>2. CASE d # c
    <3>1. CallInv(d) /\ call[d] \in Calls
      BY DEF RpcInv
    <3>2. call'[d] = call[d] /\ call[d].id # i
      BY <1>4, <2>2
    <3>3. call[d].id # 0 => pending'[call[d].id] = pending[call[d].id]
      BY <1>2, <3>1, <3>2 DEF RpcInv, Calls
    <3> QED BY <1>3, <1>4, <3>1, <3>2, <3>3 DEF CallInv, Registered
  <2> QED BY <2>1, <2>2
<1>7. ASSUME NEW r \in wire' PROVE WireInv(r)'
  BY <1>2, <1>3, <1>4, <1>7 DEF WireInv, RpcInv
<1> QED BY <1>3, <1>4, <1>5, <1>6, <1>7 DEF RpcInv

(* A call that has sent nothing, or whose send() is over. *)
LEMMA EndKeeps ==
  ASSUME RpcInv, NEW c \in Callers, NEW what, NEW p \in {pending, Pops(c)}, End(c, what, p)
  PROVE  /\ RpcInv'
         /\ call'[c] = Idle
         /\ \A d \in Callers \ {c} : call'[d] = call[d]
<1>1. call' = [call EXCEPT ![c] = Idle] /\ pending' = p /\ wire' = wire
  BY DEF End
<1>2. /\ call'[c] = Idle
      /\ \A d \in Callers \ {c} : call'[d] = call[d]
  BY <1>1 DEF RpcInv
<1>3. p \in [Ids -> Callers \cup {None}]
  BY DEF Pops, RpcInv
<1>4. /\ call' \in [Callers -> Calls]
      /\ pending' \in [Ids -> Callers \cup {None}]
      /\ wire' \subseteq Wire
  BY <1>1, <1>3, IdleType DEF RpcInv
<1>5. \A d \in Callers \ {c} : Registered(d) => call[d].id # 0 /\ p[call[d].id] = d
  BY DEF Registered, Pops, RpcInv, Calls
<1>6. ASSUME NEW d \in Callers PROVE CallInv(d)'
  <2>1. CASE d = c
    BY <1>2, <2>1, IdleType DEF CallInv
  <2>2. CASE d # c
    <3>1. CallInv(d) /\ call'[d] = call[d]
      BY <1>2, <2>2 DEF RpcInv
    <3>2. Registered(d) => Registered(d)'
      BY <1>1, <1>5, <2>2, <3>1 DEF Registered
    <3> QED BY <1>2, <3>1, <3>2, IdleType DEF CallInv
  <2> QED BY <2>1, <2>2
<1>7. ASSUME NEW r \in wire' PROVE WireInv(r)'
  <2>1. r \in Wire /\ WireInv(r) /\ r.id # 0
    BY <1>1, <1>7 DEF RpcInv, Wire, Ids
  <2> QED BY <1>2, <2>1, IdleType DEF WireInv
<1> QED BY <1>2, <1>4, <1>6, <1>7 DEF RpcInv

-----------------------------------------------------------------------------
(* The socket: writes, answers, time-outs, and the loss of it.              *)

LEMMA CallFields ==
  ASSUME RpcInv, NEW c \in Callers
  PROVE  /\ call[c] \in Calls /\ call[c].id \in Ids \cup {0}
         /\ call[c].cmd \in Commands \cup {None}
         /\ call[c].id # 0 => call[c].id \in Ids
BY DEF RpcInv, Calls

(* The requests of a socket that is replaced are on no wire any more; the   *)
(* calls themselves keep their ids and answers.                             *)
LEMMA SeverKeeps ==
  ASSUME RpcInv, NEW f \in [Callers -> Calls], call' = Severed(f),
         pending' \in [Ids -> Callers \cup {None}], wire' = {},
         \A c \in Callers :
           /\ f[c].id = call[c].id /\ f[c].cmd = call[c].cmd /\ f[c].pc = call[c].pc
           /\ f[c].fut = "answered" => call[c].fut = "answered" /\ f[c].from = call[c].from
           /\ f[c].id # 0 /\ f[c].fut = "open" => pending'[f[c].id] = c
  PROVE  /\ RpcInv'
         /\ \A c \in Callers : /\ call'[c].id = f[c].id /\ call'[c].cmd = f[c].cmd
                               /\ call'[c].fut = f[c].fut /\ call'[c].kind = f[c].kind
                               /\ call'[c].pc = "idle" <=> f[c].pc = "idle"
                               /\ call'[c].pc = "queued" <=> f[c].pc = "queued"
<1>1. ASSUME NEW c \in Callers
      PROVE  /\ call'[c] \in Calls
             /\ call'[c].id = f[c].id /\ call'[c].cmd = f[c].cmd
             /\ call'[c].fut = f[c].fut /\ call'[c].from = f[c].from /\ call'[c].kind = f[c].kind
             /\ call'[c].pc = IF f[c].pc = "writing" THEN "broken" ELSE f[c].pc
  <2>1. f[c] \in Calls
    OBVIOUS
  <2>2. CASE f[c].pc = "writing"
    <3>1. call'[c] = [f[c] EXCEPT !.pc = "broken"]
      BY <2>2 DEF Severed
    <3> QED BY <2>1, <2>2, <3>1 DEF Calls
  <2>3. CASE f[c].pc # "writing"
    <3>1. call'[c] = f[c]
      BY <2>3 DEF Severed
    <3> QED BY <2>1, <2>3, <3>1
  <2> QED BY <2>2, <2>3
<1>2. call' \in [Callers -> Calls]
  BY <1>1 DEF Severed
<1>3. ASSUME NEW c \in Callers PROVE CallInv(c)'
  <2>1. CallInv(c)
    BY DEF RpcInv
  <2> QED BY <1>1, <2>1 DEF CallInv, Registered
<1> QED BY <1>1, <1>2, <1>3 DEF RpcInv

(* What the jobs of Market rely on when only the socket moves. *)
Quiet ==
  \A c \in Callers :
    /\ call'[c].cmd = call[c].cmd
    /\ call'[c].pc = "idle" <=> call[c].pc = "idle"
    /\ call'[c].pc = "queued" <=> call[c].pc = "queued"
    /\ call'[c].fut = "answered" => call[c].fut = "answered" /\ call'[c].kind = call[c].kind

LEMMA WrittenKeeps ==
  ASSUME RpcInv, NEW c \in Callers, Written(c)
  PROVE  RpcInv' /\ Quiet
<1>1. /\ call[c].pc \in {"writing", "broken"} /\ pending' = pending
      /\ call' = [call EXCEPT ![c].pc = "waiting"]
      /\ wire' = IF call[c].pc = "writing"
                 THEN wire \cup {[id |-> call[c].id, of |-> c, cmd |-> call[c].cmd]}
                 ELSE wire
  BY DEF Written
<1>2. /\ call'[c] = [call[c] EXCEPT !.pc = "waiting"]
      /\ \A d \in Callers \ {c} : call'[d] = call[d]
      /\ call[c] \in Calls
  BY <1>1 DEF RpcInv
<1>3. /\ call'[c].pc = "waiting" /\ call'[c].id = call[c].id /\ call'[c].cmd = call[c].cmd
      /\ call'[c].fut = call[c].fut /\ call'[c].from = call[c].from /\ call'[c].kind = call[c].kind
      /\ call'[c] \in Calls
  BY <1>2 DEF Calls
<1>4. call' \in [Callers -> Calls]
  BY <1>1, <1>2, <1>3 DEF RpcInv
<1>5. /\ \A d \in Callers : /\ call'[d].id = call[d].id /\ call'[d].cmd = call[d].cmd
                            /\ call'[d].fut = call[d].fut /\ call'[d].from = call[d].from
                            /\ call'[d].kind = call[d].kind
                            /\ call'[d].pc = IF d = c THEN "waiting" ELSE call[d].pc
      /\ \A d \in Callers : CallInv(d)
  BY <1>2, <1>3 DEF RpcInv
<1>6. \A d \in Callers : CallInv(d)'
  BY <1>1, <1>5 DEF CallInv, Registered
<1>7. Quiet
  BY <1>1, <1>5 DEF Quiet
<1>8. call[c].fut # "answered" /\ call[c].id # 0 /\ call[c].cmd # None
  BY <1>1, <1>5 DEF CallInv
<1>9. \A r \in wire : WireInv(r)'
  BY <1>5 DEF RpcInv, WireInv
<1>10. wire' \subseteq Wire /\ \A r \in wire' : WireInv(r)'
  <2>1. CASE call[c].pc = "broken"
    BY <1>1, <1>9, <2>1 DEF RpcInv
  <2>2. CASE call[c].pc = "writing"
    <3>1. PICK new \in Wire : /\ wire' = wire \cup {new}
                             /\ new.id = call[c].id /\ new.of = c /\ new.cmd = call[c].cmd
      <4>1. [id |-> call[c].id, of |-> c, cmd |-> call[c].cmd] \in Wire
        BY <1>8, CallFields DEF Wire
      <4> QED BY <1>1, <2>2, <4>1
    <3>3. \A d \in Callers : call'[d].id = call[c].id => d = c
      BY <1>5, <1>8 DEF CallInv
    <3>4. WireInv(new)'
      BY <1>5, <1>8, <3>1, <3>3 DEF WireInv
    <3> QED BY <1>9, <3>1, <3>4 DEF RpcInv
  <2> QED BY <1>1, <2>1, <2>2
<1> QED BY <1>1, <1>4, <1>6, <1>7, <1>10 DEF RpcInv

(* A time-out, an answer that is garbled. *)
LEMMA TimerFiresKeeps ==
  ASSUME RpcInv, NEW c \in Callers, TimerFires(c)
  PROVE  RpcInv' /\ Quiet
<1> DEFINE new == [call[c] EXCEPT !.pc = "expired",
                                  !.fut = IF @ = "open" THEN "cancelled" ELSE @]
<1>1. /\ call[c].pc = "waiting" /\ UNCHANGED <<pending, wire>>
      /\ call' = [call EXCEPT ![c] = new]
  BY DEF TimerFires, RpcInv
<1>2. /\ new \in Calls /\ new.pc = "expired"
      /\ new.fut = IF call[c].fut = "open" THEN "cancelled" ELSE call[c].fut
      /\ new.id = call[c].id /\ new.cmd = call[c].cmd /\ new.from = call[c].from
      /\ new.kind = call[c].kind
  BY CallFields DEF Calls, Futures
<1> HIDE DEF new
<1>3. call' \in [Callers -> Calls]
  BY <1>1, <1>2 DEF RpcInv
<1>4. /\ \A d \in Callers : /\ call'[d].id = call[d].id /\ call'[d].cmd = call[d].cmd
                            /\ call'[d].from = call[d].from /\ call'[d].kind = call[d].kind
                            /\ call'[d].pc = IF d = c THEN "expired" ELSE call[d].pc
                            /\ call'[d].fut \in {call[d].fut, "cancelled"}
      /\ \A d \in Callers : CallInv(d)
  BY <1>1, <1>2 DEF RpcInv
<1>5. \A d \in Callers : CallInv(d)'
  BY <1>1, <1>4 DEF CallInv, Registered
<1>6. Quiet
  BY <1>1, <1>4 DEF Quiet
<1>7. \A r \in wire' : WireInv(r)'
  BY <1>1, <1>4 DEF RpcInv, WireInv
<1> QED BY <1>1, <1>3, <1>5, <1>6, <1>7 DEF RpcInv

LEMMA GarbledKeeps ==
  ASSUME RpcInv, NEW r \in wire, Garbled(r)
  PROVE  RpcInv' /\ Quiet
<1>1. call' = call /\ pending' = pending /\ wire' \subseteq wire
  BY DEF Garbled
<1> QED BY <1>1 DEF RpcInv, CallInv, WireInv, Registered, Quiet

(* The entry of an answer is popped: no other call loses its own. *)
LEMMA PoppedKeeps ==
  ASSUME RpcInv, NEW r \in wire, NEW c \in Callers, Registered(c), call[c].id # r.id
  PROVE  Popped(r) \in [Ids -> Callers \cup {None}] /\ Popped(r)[call[c].id] = c
BY CallFields DEF RpcInv, Registered, Popped

LEMMA UnreadableKeeps ==
  ASSUME RpcInv, NEW r \in wire, Unreadable(r)
  PROVE  RpcInv' /\ Quiet
<1> DEFINE f == [c \in Callers |-> IF c \in Addressees(r)
                                    THEN [call[c] EXCEPT !.fut = "lost"] ELSE call[c]]
<1>1. call' = Severed(f) /\ wire' = {} /\ pending' = Popped(r)
  BY DEF Unreadable
<1>2. Popped(r) \in [Ids -> Callers \cup {None}]
  BY DEF Popped, RpcInv
<1>3. ASSUME NEW c \in Callers
      PROVE  /\ f[c] \in Calls
             /\ f[c].id = call[c].id /\ f[c].cmd = call[c].cmd /\ f[c].pc = call[c].pc
             /\ f[c].from = call[c].from /\ f[c].kind = call[c].kind
             /\ f[c].fut = IF c \in Addressees(r) THEN "lost" ELSE call[c].fut
  BY CallFields DEF Calls, Futures
<1>4. f \in [Callers -> Calls]
  BY <1>3
<1> HIDE DEF f
<1>5. ASSUME NEW c \in Callers, f[c].id # 0, f[c].fut = "open" PROVE pending'[f[c].id] = c
  <2>1. Registered(c) /\ c \notin Addressees(r) /\ call[c].fut = "open"
    BY <1>3, <1>5 DEF RpcInv, CallInv
  <2>2. call[c].id # r.id
    BY <2>1 DEF Addressees
  <2> QED BY <1>1, <1>3, <2>1, <2>2, PoppedKeeps
<1>6. \A c \in Callers :
           /\ f[c].id = call[c].id /\ f[c].cmd = call[c].cmd /\ f[c].pc = call[c].pc
           /\ f[c].fut = "answered" => call[c].fut = "answered" /\ f[c].from = call[c].from
           /\ f[c].id # 0 /\ f[c].fut = "open" => pending'[f[c].id] = c
  BY <1>3, <1>5
<1>7. RpcInv' /\ \A c \in Callers : /\ call'[c].cmd = f[c].cmd
                                    /\ call'[c].fut = f[c].fut /\ call'[c].kind = f[c].kind
                                    /\ call'[c].pc = "idle" <=> f[c].pc = "idle"
                                    /\ call'[c].pc = "queued" <=> f[c].pc = "queued"
  BY <1>1, <1>2, <1>4, <1>6, SeverKeeps
<1>8. Quiet
  BY <1>3, <1>7 DEF Quiet
<1> QED BY <1>7, <1>8

(* The listener ends, or a new socket takes the place of the old one. *)
LEMMA ReplacedKeeps ==
  ASSUME RpcInv, call' = Severed(call), wire' = {}, pending' = pending
  PROVE  RpcInv' /\ Quiet
<1>1. call \in [Callers -> Calls] /\ \A c \in Callers : CallInv(c)
  BY DEF RpcInv
<1>2. \A c \in Callers : call[c].id # 0 /\ call[c].fut = "open" => pending'[call[c].id] = c
  BY <1>1 DEF CallInv, Registered
<1>3. RpcInv' /\ \A c \in Callers : /\ call'[c].cmd = call[c].cmd
                                    /\ call'[c].fut = call[c].fut /\ call'[c].kind = call[c].kind
                                    /\ call'[c].pc = "idle" <=> call[c].pc = "idle"
                                    /\ call'[c].pc = "queued" <=> call[c].pc = "queued"
  <2>1. pending' \in [Ids -> Callers \cup {None}]
    BY DEF RpcInv
  <2> QED BY <1>1, <1>2, <2>1, SeverKeeps
<1> QED BY <1>3 DEF Quiet

LEMMA RpcStepKeeps ==
  ASSUME RpcInv, RpcStep
  PROVE  RpcInv' /\ Quiet
<1>1. ASSUME ListenerEnds \/ Connect PROVE RpcInv' /\ Quiet
  BY <1>1, ReplacedKeeps DEF ListenerEnds, Connect
<1> QED BY <1>1, WrittenKeeps, TimerFiresKeeps, GarbledKeeps, UnreadableKeeps DEF RpcStep

(* The connection is cleaned up: whoever waits is told. *)
LEMMA CleanUpKeeps ==
  ASSUME RpcInv, CleanUp
  PROVE  RpcInv' /\ Quiet
<1> DEFINE f == [c \in Callers |-> FailPending(c)]
<1>1. call' = Severed(f) /\ wire' = {} /\ pending' = NoPending
  BY DEF CleanUp
<1>2. NoPending \in [Ids -> Callers \cup {None}]
  BY DEF NoPending
<1>3. ASSUME NEW c \in Callers
      PROVE  /\ f[c] \in Calls
             /\ f[c].id = call[c].id /\ f[c].cmd = call[c].cmd /\ f[c].pc = call[c].pc
             /\ f[c].from = call[c].from /\ f[c].kind = call[c].kind
             /\ f[c].fut = IF Registered(c) /\ call[c].fut = "open" THEN "failed" ELSE call[c].fut
  BY CallFields DEF Calls, Futures, FailPending
<1>4. f \in [Callers -> Calls]
  BY <1>3
<1> HIDE DEF f
<1>5. \A c \in Callers : f[c].id = 0 \/ f[c].fut # "open"
  BY <1>3 DEF RpcInv, CallInv
<1>6. \A c \in Callers :
           /\ f[c].id = call[c].id /\ f[c].cmd = call[c].cmd /\ f[c].pc = call[c].pc
           /\ f[c].fut = "answered" => call[c].fut = "answered" /\ f[c].from = call[c].from
           /\ f[c].id # 0 /\ f[c].fut = "open" => pending'[f[c].id] = c
  BY <1>3, <1>5
<1>7. RpcInv' /\ \A c \in Callers : /\ call'[c].cmd = f[c].cmd
                                    /\ call'[c].fut = f[c].fut /\ call'[c].kind = f[c].kind
                                    /\ call'[c].pc = "idle" <=> f[c].pc = "idle"
                                    /\ call'[c].pc = "queued" <=> f[c].pc = "queued"
  BY <1>1, <1>2, <1>4, <1>6, SeverKeeps
<1>8. Quiet
  BY <1>3, <1>7 DEF Quiet
<1> QED BY <1>7, <1>8

(* An answer: the call it is for has asked for it. *)
LEMMA AnswerKeeps ==
  ASSUME RpcInv, NEW r \in wire, NEW kinds \in SUBSET Answers, Answer(r, kinds)
  PROVE  /\ RpcInv'
         /\ \A c \in Callers :
              /\ call'[c].cmd = call[c].cmd /\ call'[c].pc = call[c].pc
              /\ call'[c].fut = "answered" =>
                   \/ call[c].fut = "answered" /\ call'[c].kind = call[c].kind
                   \/ c = r.of /\ call[c].cmd = r.cmd /\ call'[c].kind \in kinds
<1>1. PICK k \in kinds :
        Resolve(r, [c \in Callers |-> [call[c] EXCEPT !.fut = "answered", !.from = r.cmd, !.kind = k]])
  BY DEF Answer
<1>2. wire' = wire \ {r} /\ pending' = Popped(r) /\ r \in Wire /\ WireInv(r)
  BY DEF Answer, RpcInv
<1>3. ASSUME NEW c \in Callers
      PROVE  /\ call'[c] \in Calls
             /\ call'[c].id = call[c].id /\ call'[c].cmd = call[c].cmd /\ call'[c].pc = call[c].pc
             /\ IF c \in Addressees(r)
                THEN call'[c].fut = "answered" /\ call'[c].from = r.cmd /\ call'[c].kind = k
                ELSE call'[c] = call[c]
  <2>1. r.cmd \in Commands \cup {None} /\ k \in Answers /\ call[c] \in Calls
    BY <1>2, CallFields DEF Wire
  <2>2. CASE c \in Addressees(r)
    <3>1. call'[c] = [call[c] EXCEPT !.fut = "answered", !.from = r.cmd, !.kind = k]
      BY <1>1, <2>2 DEF Resolve
    <3> QED BY <2>1, <2>2, <3>1 DEF Calls, Futures
  <2>3. CASE c \notin Addressees(r)
    <3>1. call'[c] = call[c]
      BY <1>1, <2>3 DEF Resolve
    <3> QED BY <2>1, <2>3, <3>1
  <2> QED BY <2>2, <2>3
<1>4. call' \in [Callers -> Calls]
  BY <1>1, <1>3 DEF Resolve
<1>5. pending' \in [Ids -> Callers \cup {None}]
  BY <1>2 DEF Popped, RpcInv
<1>6. ASSUME NEW c \in Addressees(r)
      PROVE  c \in Callers /\ r.of = c /\ r.cmd = call[c].cmd /\ call[c].pc \in {"waiting", "expired"}
  BY <1>2 DEF Addressees, WireInv
<1>7. ASSUME NEW c \in Callers PROVE CallInv(c)'
  <2>1. CallInv(c)
    BY DEF RpcInv
  <2>2. \A d \in Callers : call'[c].id # 0 /\ call'[c].id = call'[d].id => c = d
    BY <1>3, <2>1 DEF CallInv
  <2>3. CASE c \in Addressees(r)
    BY <1>3, <1>6, <2>1, <2>2, <2>3 DEF CallInv
  <2>4. CASE c \notin Addressees(r)
    <3>1. call[c].id # 0 /\ call[c].fut = "open" => Registered(c) /\ call[c].id # r.id
      BY <2>1, <2>4 DEF CallInv, Addressees
    <3>2. call[c].id # 0 /\ call[c].fut = "open" => pending'[call[c].id] = c
      BY <1>2, <3>1, PoppedKeeps
    <3> QED BY <1>3, <2>1, <2>2, <2>4, <3>2 DEF CallInv, Registered
  <2> QED BY <2>3, <2>4
<1>8. ASSUME NEW q \in wire' PROVE WireInv(q)'
  <2>1. q \in wire /\ q # r /\ q \in Wire /\ WireInv(q)
    BY <1>2, <1>8 DEF RpcInv
  <2>2. ASSUME NEW c \in Callers, call[c].id = q.id PROVE c \notin Addressees(r)
    <3> SUFFICES ASSUME c \in Addressees(r) PROVE FALSE
      OBVIOUS
    <3>1. q.of = c /\ q.cmd = call[c].cmd /\ r.of = c /\ r.cmd = call[c].cmd /\ r.id = q.id
      BY <1>6, <2>1, <2>2 DEF WireInv, Addressees
    <3>2. q = r
      BY <1>2, <2>1, <3>1 DEF Wire
    <3> QED BY <2>1, <3>2
  <2> QED BY <1>3, <2>1, <2>2 DEF WireInv
<1>9. wire' \subseteq Wire
  BY <1>2 DEF RpcInv
<1> QED BY <1>3, <1>4, <1>5, <1>6, <1>7, <1>8, <1>9 DEF RpcInv

-----------------------------------------------------------------------------
(* The jobs. *)

Elsewhere(c) == \A d \in Callers \ {c} : call'[d] = call[d] /\ said'[d] = said[d]

(* One call moves: it sends a request, ends, or queues. *)
Moves(c) ==
  /\ RpcInv'
  /\ DOMAIN said' = Callers
  /\ call'[c].fut # "answered"
  /\ Elsewhere(c)

LEMMA NamesDiffer ==
  /\ {"symbols", "status", "order", "plain"} \subseteq Commands
  /\ None \notin {"symbols", "status", "order", "plain"}
  /\ None \notin Callers
BY RequestsAssumption, MarketAssumption

LEMMA SendsMove ==
  ASSUME RpcInv, JobTypes, NEW c \in Callers, NEW m \in Commands, Sends(c, m, pending)
  PROVE  Moves(c) /\ call'[c].cmd \in {None, m}
<1>1. CASE Begin(c, m, pending) /\ Unsaid(c)
  BY <1>1, BeginKeeps DEF Unsaid, Moves, Elsewhere, JobTypes
<1>2. CASE End(c, "raised", pending)
  BY <1>2, EndKeeps, IdleType DEF End, Moves, Elsewhere, JobTypes
<1> QED BY <1>1, <1>2 DEF Sends

LEMMA UseSymbolsMove ==
  ASSUME RpcInv, JobTypes, NEW c \in Callers, NEW j, NEW s, NEW content,
         UseSymbols(c, j, s, content, pending)
  PROVE  Moves(c) /\ call'[c].cmd \in {None, "status"}
<1>1. ASSUME NEW what, End(c, what, pending)
      PROVE  Moves(c) /\ call'[c].cmd \in {None, "status"}
  BY <1>1, EndKeeps, IdleType DEF End, Moves, Elsewhere, JobTypes
<1>2. CASE Resolves(c, j, s, content, pending) \/ Populates(c, j, content, pending)
  BY <1>1, <1>2 DEF Resolves, Populates
<1>3. CASE Trades(c, j, s, content, pending)
  BY <1>1, <1>3, SendsMove, NamesDiffer DEF Trades
<1> QED BY <1>2, <1>3 DEF UseSymbols

LEMMA DownloadMoves ==
  ASSUME RpcInv, JobTypes, NEW c \in Callers, Download(c)
  PROVE  Moves(c) /\ (call'[c].cmd = "symbols" => owner' = c)
<1>1. CASE Begin(c, "symbols", pending) /\ owner' = c /\ Unsaid(c)
  BY <1>1, BeginKeeps, NamesDiffer DEF Unsaid, Moves, Elsewhere, JobTypes
<1>2. CASE End(c, "raised", pending)
  BY <1>2, EndKeeps, IdleType, NamesDiffer DEF End, Moves, Elsewhere, JobTypes
<1> QED BY <1>1, <1>2 DEF Download

(* The invariant of the jobs after such a move of c. *)
LEMMA MovedJobs ==
  ASSUME IInv, NEW c \in Callers, Moves(c), JobTypes',
         \A d \in Callers \ {c} : /\ job'[d] = job[d]
                                  /\ d \in placed' => d \in placed
                                  /\ call[d].cmd = "symbols" => owner' = d /\ cache' = "none",
         c \in placed' => call'[c].pc = "idle" /\ (job'[c] = "trade" => said'[c] # "REJECTED"),
         call'[c].cmd = "symbols" => owner' = c /\ cache' = "none"
  PROVE  IInv'
<1>1. JobInv(c)'
  BY DEF Moves, JobInv
<1>2. ASSUME NEW d \in Callers \ {c} PROVE JobInv(d)'
  BY DEF Moves, Elsewhere, JobInv, IInv
<1> QED BY <1>1, <1>2 DEF IInv, Moves

LEMMA StartKeeps ==
  ASSUME IInv, NEW c \in Callers, Start(c)
  PROVE  IInv'
<1>0. /\ \A d \in Callers : call[d].cmd = "symbols" => owner = d /\ cache = "none"
      /\ RpcInv /\ JobTypes
  BY DEF IInv, JobInv
<1>1. ASSUME NEW j, NEW s, Starts(c, j, s)
      PROVE  /\ \A d \in Callers \ {c} : job'[d] = job[d] /\ (d \in placed' => d \in placed)
             /\ c \notin placed' /\ placed' \subseteq Callers
             /\ job' \in [Callers -> {"resolve", "populate", "trade", "plain"}]
  <2>1. j \in {"resolve", "populate", "trade", "plain"}
    BY <1>1, MarketAssumption DEF Starts
  <2> QED BY <1>0, <1>1, <2>1 DEF Starts, JobTypes
<1>2. CASE PlainStarts(c)
  <2>1. Moves(c) /\ call'[c].cmd \in {None, "plain"}
    BY <1>0, <1>2, SendsMove, NamesDiffer DEF PlainStarts
  <2>2. Starts(c, "plain", None) /\ owner' = owner /\ cache' = cache
    BY <1>2 DEF PlainStarts, searchVars
  <2> QED BY <1>0, <1>1, <2>1, <2>2, MovedJobs, NamesDiffer DEF JobTypes, Moves
<1>3. ASSUME NEW j, NEW s, SearchKnown(c, j, s) PROVE IInv'
  <2>1. Moves(c) /\ call'[c].cmd \in {None, "status"}
    BY <1>0, <1>3, UseSymbolsMove DEF SearchKnown
  <2>2. Starts(c, j, s) /\ owner' = owner /\ cache' = cache
    BY <1>3 DEF SearchKnown, searchVars
  <2> QED BY <1>0, <1>1, <2>1, <2>2, MovedJobs, NamesDiffer DEF JobTypes, Moves
<1>4. ASSUME NEW j, NEW s, SearchFirst(c, j, s) PROVE IInv'
  <2>1. Moves(c) /\ (call'[c].cmd = "symbols" => owner' = c)
    BY <1>0, <1>4, DownloadMoves DEF SearchFirst
  <2>2. Starts(c, j, s) /\ owner = None /\ cache = "none" /\ cache' = cache
    BY <1>4 DEF SearchFirst
  <2>3. \A d \in Callers : call[d].cmd # "symbols"
    BY <1>0, <2>2, NamesDiffer
  <2> QED BY <1>1, <2>1, <2>2, <2>3, MovedJobs DEF JobTypes, Moves
<1>5. ASSUME NEW j, NEW s, SearchQueues(c, j, s) PROVE IInv'
  <2>1. /\ Starts(c, j, s) /\ Unsaid(c) /\ call[c].pc = "idle"
        /\ call' = [call EXCEPT ![c].pc = "queued"]
        /\ owner' = owner /\ cache' = cache /\ pending' = pending /\ wire' = wire
    BY <1>5 DEF SearchQueues, Starts
  <2>2. /\ call'[c] \in Calls /\ call'[c].pc = "queued" /\ call'[c].cmd = call[c].cmd
        /\ call'[c].id = call[c].id /\ call'[c].fut = call[c].fut
        /\ \A d \in Callers \ {c} : call'[d] = call[d]
    BY <1>0, <2>1, CallFields DEF Calls, RpcInv
  <2>3. call[c].id = 0 /\ call[c].cmd = None /\ call[c].fut # "answered"
    BY <1>0, <2>1 DEF RpcInv, CallInv
  <2>4. call' \in [Callers -> Calls]
    BY <1>0, <2>1, <2>2 DEF RpcInv
  <2>5. \A d \in Callers : CallInv(d)'
    BY <1>0, <2>1, <2>2, <2>3 DEF RpcInv, CallInv, Registered
  <2>6. \A r \in wire' : WireInv(r)'
    BY <1>0, <2>1, <2>2, <2>3 DEF RpcInv, WireInv, Wire, Ids
  <2>7. Moves(c)
    BY <1>0, <2>1, <2>2, <2>3, <2>4, <2>5, <2>6 DEF RpcInv, Moves, Elsewhere, Unsaid, JobTypes
  <2> QED BY <1>0, <1>1, <2>1, <2>2, <2>3, <2>7, MovedJobs, NamesDiffer DEF JobTypes, Moves
<1> QED BY <1>2, <1>3, <1>4, <1>5 DEF Start

LEMMA CallStepKeeps ==
  ASSUME IInv, NEW c \in Callers, CallStep(c) \/ Cancel(c)
  PROVE  IInv'
<1>0. /\ \A d \in Callers : call[d].cmd = "symbols" => owner = d /\ cache = "none"
      /\ RpcInv /\ JobTypes /\ CallInv(c) /\ JobInv(c)
  BY DEF IInv, JobInv, RpcInv
<1>1. CASE LockGranted(c)
  <2>1. call[c].pc = "queued" /\ owner = None /\ UNCHANGED <<cache, job, placed>>
    BY <1>1 DEF LockGranted, Grantable
  <2>2. c \notin placed /\ \A d \in Callers : call[d].cmd # "symbols"
    BY <1>0, <2>1, NamesDiffer DEF JobInv, CallInv
  <2>3. CASE Missing /\ Download(c)
    <3>1. Moves(c) /\ (call'[c].cmd = "symbols" => owner' = c)
      BY <1>0, <2>3, DownloadMoves
    <3> QED BY <1>0, <2>1, <2>2, <2>3, <3>1, MovedJobs DEF JobTypes, Moves, Missing
  <2>4. CASE UseSymbols(c, job[c], asked[c], cache, pending)
    <3>1. Moves(c) /\ call'[c].cmd \in {None, "status"}
      BY <1>0, <2>4, UseSymbolsMove
    <3> QED BY <1>0, <2>1, <2>2, <3>1, MovedJobs, NamesDiffer DEF JobTypes, Moves
  <2> QED BY <1>1, <2>3, <2>4 DEF LockGranted
<1>2. CASE SymbolsReceived(c)
  <2>1. /\ call[c].fut = "answered" /\ call[c].cmd = "symbols" /\ call[c].pc = "waiting"
        /\ UseSymbols(c, job[c], asked[c], cache', pending)
        /\ UNCHANGED <<job, placed>>
    BY <1>2 DEF SymbolsReceived, Answered
  <2>2. Moves(c) /\ call'[c].cmd \in {None, "status"}
    BY <1>0, <2>1, UseSymbolsMove
  <2>3. c \notin placed
    BY <1>0, <2>1 DEF JobInv
  <2>4. \A d \in Callers \ {c} : call[d].cmd # "symbols"
    BY <1>0, <2>1
  <2> QED BY <1>0, <2>1, <2>2, <2>3, <2>4, MovedJobs, NamesDiffer DEF JobTypes, Moves
<1>3. CASE StatusSubscribed(c)
  <2>1. /\ call[c].cmd = "status" /\ call[c].pc = "waiting" /\ Sends(c, "order", pending)
        /\ UNCHANGED <<job, placed, owner, cache>>
    BY <1>3 DEF StatusSubscribed, Answered, searchVars
  <2>2. Moves(c) /\ call'[c].cmd \in {None, "order"}
    BY <1>0, <2>1, SendsMove, NamesDiffer
  <2>3. c \notin placed
    BY <1>0, <2>1 DEF JobInv
  <2> QED BY <1>0, <2>1, <2>2, <2>3, MovedJobs, NamesDiffer DEF JobTypes, Moves
<1>4. ASSUME NEW what, NEW p \in {pending, Pops(c)}, End(c, what, p),
             c \in placed => what # "REJECTED", UNCHANGED <<job, placed, cache>>,
             owner' = Unlock(c) \/ owner' = owner
      PROVE  IInv'
  <2>1. RpcInv' /\ call'[c] = Idle /\ \A d \in Callers \ {c} : call'[d] = call[d]
    BY <1>0, <1>4, EndKeeps
  <2>2. said' = [said EXCEPT ![c] = what]
    BY <1>4 DEF End
  <2>3. Moves(c)
    BY <1>0, <2>1, <2>2, IdleType DEF Moves, Elsewhere, JobTypes
  <2>4. call'[c].cmd = None /\ call'[c].pc = "idle" /\ said'[c] = what
    BY <1>0, <2>1, <2>2, IdleType DEF JobTypes
  <2>5. \A d \in Callers \ {c} : call[d].cmd = "symbols" => owner' = d /\ cache' = "none"
    BY <1>0, <1>4 DEF Unlock
  <2> QED BY <1>0, <1>4, <2>3, <2>4, <2>5, MovedJobs, NamesDiffer DEF JobTypes, Moves
<1>5. CASE LastAnswer(c)
  <2>1. /\ call[c].fut = "answered"
        /\ End(c, IF call[c].cmd = "order" THEN Confirmed(call[c].kind) ELSE "answered", pending)
        /\ UNCHANGED <<job, placed, owner, cache>>
    BY <1>5 DEF LastAnswer, Answered, searchVars
  <2>2. c \in placed =>
          (IF call[c].cmd = "order" THEN Confirmed(call[c].kind) ELSE "answered") # "REJECTED"
    BY <1>0, <2>1 DEF JobInv, Confirmed
  <2> QED BY <1>4, <2>1, <2>2
<1>6. CASE RequestFails(c)
  BY <1>4, <1>6 DEF RequestFails, Failure
<1>7. CASE Cancel(c)
  BY <1>4, <1>7 DEF Cancel
<1> QED BY <1>1, <1>2, <1>3, <1>5, <1>6, <1>7 DEF CallStep

(* The jobs, when only the socket moves. *)
LEMMA QuietJobs ==
  ASSUME IInv, RpcInv', Quiet, UNCHANGED <<job, said, placed, owner>>, cache' \in {cache, "none"}
  PROVE  IInv'
<1>1. ASSUME NEW c \in Callers PROVE JobInv(c)'
  BY DEF IInv, JobInv, Quiet
<1> QED BY <1>1 DEF IInv, JobTypes

LEMMA ServerKeeps ==
  ASSUME IInv, NEW r \in wire, Executes(r) \/ ServerAnswers(r)
  PROVE  IInv'
<1>0. RpcInv /\ r \in Wire /\ WireInv(r) /\ r.of \in Callers /\ r.cmd \in Commands
  BY DEF IInv, RpcInv, Wire
<1>1. CASE Executes(r)
  <2>1. /\ r.cmd = "order" /\ call[r.of].id = r.id /\ placed' = placed \cup {r.of}
        /\ UNCHANGED <<call, pending, wire, cache, owner, job, said>>
    BY <1>1 DEF Executes, rpcVars, searchVars, jobVars
  <2>2. RpcInv'
    BY <1>0, <2>1 DEF RpcInv, CallInv, WireInv, Registered
  <2>3. /\ call[r.of].cmd = "order" /\ call[r.of].pc \in {"waiting", "expired"}
        /\ call[r.of].fut # "answered"
    BY <1>0, <2>1 DEF WireInv
  <2>4. ASSUME NEW c \in Callers PROVE JobInv(c)'
    BY <2>1, <2>3 DEF IInv, JobInv
  <2> QED BY <1>0, <2>1, <2>2, <2>4 DEF IInv, JobTypes
<1>2. CASE ServerAnswers(r)
  <2>1. Answer(r, Truth(r)) /\ UNCHANGED <<cache, owner, job, said, placed>>
    BY <1>2 DEF ServerAnswers, searchVars, jobVars
  <2>2. /\ Truth(r) \subseteq Answers
        /\ r.cmd = "order" /\ r.of \in placed => "error" \notin Truth(r)
    <3>1. CASE r.cmd = "order" /\ r.of \in placed
      BY <3>1, MarketAssumption DEF Truth, Answers
    <3>2. CASE r.cmd = "order" /\ r.of \notin placed
      BY <3>2, MarketAssumption DEF Truth, Answers
    <3>3. CASE r.cmd # "order"
      BY <1>0, <3>3 DEF Truth, Answers
    <3> QED BY <3>1, <3>2, <3>3
  <2>3. /\ RpcInv'
        /\ \A c \in Callers :
              /\ call'[c].cmd = call[c].cmd /\ call'[c].pc = call[c].pc
              /\ call'[c].fut = "answered" =>
                   \/ call[c].fut = "answered" /\ call'[c].kind = call[c].kind
                   \/ c = r.of /\ call[c].cmd = r.cmd /\ call'[c].kind \in Truth(r)
    BY <1>0, <2>1, <2>2, AnswerKeeps
  <2>4. ASSUME NEW c \in Callers PROVE JobInv(c)'
    BY <2>1, <2>2, <2>3 DEF IInv, JobInv
  <2> QED BY <2>1, <2>3, <2>4 DEF IInv, JobTypes
<1> QED BY <1>1, <1>2

-----------------------------------------------------------------------------
(* The invariant holds initially and is preserved. *)

LEMMA ForgottenCalls ==
  ASSUME call' = [c \in Callers |-> Idle], pending' = NoPending, wire' = {}
  PROVE  RpcInv'
BY IdleType DEF RpcInv, CallInv, NoPending

LEMMA InitIInv == Init => IInv
<1> SUFFICES ASSUME Init PROVE IInv
  OBVIOUS
<1>1. RpcInv
  BY IdleType DEF Init, RpcInit, RpcInv, CallInv, NoPending
<1>2. JobTypes /\ \A c \in Callers : JobInv(c)
  BY IdleType, NamesDiffer DEF Init, RpcInit, JobTypes, JobInv
<1> QED BY <1>1, <1>2 DEF IInv

LEMMA NextIInv == IInv /\ [Next]_vars => IInv'
<1> SUFFICES ASSUME IInv, [Next]_vars PROVE IInv'
  OBVIOUS
<1>1. CASE SocketStep
  BY <1>1, RpcStepKeeps, QuietJobs DEF SocketStep, IInv, jobVars, searchVars
<1>2. CASE ConnectionEnds
  BY <1>2, CleanUpKeeps, QuietJobs DEF ConnectionEnds, IInv, jobVars
<1>3. CASE ProcessDies
  <2>1. /\ call' = [c \in Callers |-> Idle] /\ pending' = NoPending /\ wire' = {}
        /\ job' = [c \in Callers |-> "plain"] /\ said' = [c \in Callers |-> "nothing"]
        /\ placed' = {}
    BY <1>3 DEF ProcessDies
  <2>2. \A c \in Callers : JobInv(c)'
    BY <2>1, IdleType, NamesDiffer DEF JobInv
  <2> QED BY <2>1, <2>2, ForgottenCalls DEF IInv, JobTypes
<1>4. CASE UNCHANGED vars
  <2>1. UNCHANGED <<call, pending, wire, cache, owner, job, said, placed>>
    BY <1>4 DEF vars, rpcVars, searchVars, jobVars
  <2> QED BY <2>1 DEF IInv, RpcInv, CallInv, WireInv, Registered, JobTypes, JobInv
<1> QED BY <1>1, <1>2, <1>3, <1>4, StartKeeps, CallStepKeeps, ServerKeeps DEF Next

THEOREM Invariance == Spec => []IInv
BY InitIInv, NextIInv, PTL DEF Spec

-----------------------------------------------------------------------------
(* Results. *)

(* A send() that can still end well is registered: no order of writes,      *)
(* answers, time-outs, cancellations and clean-ups loses one.               *)
THEOREM NobodyIsForgotten == Spec => []WaitersAreRegistered
<1>1. IInv => WaitersAreRegistered
  BY DEF IInv, RpcInv, CallInv, WaitersAreRegistered
<1> QED BY <1>1, Invariance, PTL

(* A send() returns an answer to a request of its own command, for any      *)
(* number of calls.                                                         *)
THEOREM AnswersAreOwn == Spec => []OwnAnswer
<1>1. IInv => OwnAnswer
  BY DEF IInv, RpcInv, CallInv, OwnAnswer
<1> QED BY <1>1, Invariance, PTL

(* The trading path of the WebSocket never reports a refusal of an order    *)
(* that the server has executed.                                            *)
THEOREM RejectionsAreTrue == Spec => []RejectedIsNotPlaced
<1>1. IInv => RejectedIsNotPlaced
  BY DEF IInv, JobInv, RejectedIsNotPlaced
<1> QED BY <1>1, Invariance, PTL

(* The symbols are downloaded once per connection, under the lock. *)
THEOREM ListingStays == Spec => ListingIsKept
<1>1. IInv /\ [Next]_vars => [cache # "none" /\ link' # "down" => cache' = cache]_vars
  <2> SUFFICES ASSUME IInv, [Next]_vars, cache # "none", link' # "down"
               PROVE  cache' = cache
    OBVIOUS
  <2>1. ASSUME NEW c \in Callers, SymbolsReceived(c) PROVE FALSE
    BY <2>1 DEF SymbolsReceived, IInv, JobInv
  <2>2. ASSUME NEW c \in Callers, Start(c) PROVE cache' = cache
    BY <2>2 DEF Start, PlainStarts, SearchKnown, SearchFirst, SearchQueues, searchVars
  <2>3. ASSUME NEW c \in Callers,
               LockGranted(c) \/ StatusSubscribed(c) \/ LastAnswer(c) \/ RequestFails(c) \/ Cancel(c)
        PROVE  cache' = cache
    BY <2>3 DEF LockGranted, StatusSubscribed, LastAnswer, RequestFails, Cancel, searchVars
  <2>4. ASSUME NEW r \in wire, Executes(r) \/ ServerAnswers(r) PROVE cache' = cache
    BY <2>4 DEF Executes, ServerAnswers, searchVars
  <2>5. CASE SocketStep \/ UNCHANGED vars
    BY <2>5 DEF SocketStep, vars, searchVars
  <2>6. CASE ConnectionEnds \/ ProcessDies
    BY <2>6 DEF ConnectionEnds, CleanUp, ProcessDies
  <2> QED BY <2>1, <2>2, <2>3, <2>4, <2>5, <2>6 DEF Next, CallStep
<1> QED BY <1>1, Invariance, PTL DEF Spec, ListingIsKept
-----------------------------------------------------------------------------
(* The searches and the registry: who queues for the lock, what the jobs    *)
(* ask for, and what they have returned.                                    *)

QueueInv ==
  /\ queue \in Seq(Callers) /\ IsInjective(queue)
  /\ \A i \in DOMAIN queue : call[queue[i]].pc = "queued"

SearchTypes ==
  /\ link \in {"down", "up", "deaf"}
  /\ cache \in {"none", "empty", "listing"}
  /\ owner \in Callers \cup {None}
  /\ asked \in [Callers -> Symbols \cup {None}]

RegistryInv ==
  /\ ids \in [Wanted -> Symbols \cup {None}] /\ file \in [Wanted -> Symbols \cup {None}]
  /\ \A s \in Wanted : {ids[s], file[s]} \subseteq {None, Right(s)}

Exact(c) ==
  /\ asked[c] \in Instruments
  /\ Cardinality(AllHits(asked[c])) <= MaxHits
  => said[c] \in {"nothing", "raised", "not found", asked[c]}

TaskInv(c) ==
  /\ call[c].fut = "answered" => call[c].kind \in Kinds[call[c].cmd]
  /\ call[c].cmd \in {"status", "order"} => job[c] = "trade"
  /\ call[c].cmd = "plain" => job[c] = "plain"
  /\ job[c] = "resolve" /\ call[c].pc = "idle" => Exact(c)
  /\ job[c] = "populate" /\ call[c].pc = "idle" /\ said[c] = "populated" =>
       \A s \in Wanted : ids[s] = Right(s)

SInv == QueueInv /\ SearchTypes /\ RegistryInv /\ \A c \in Callers : TaskInv(c)

(* The queue of an asyncio lock: tasks join it at the end and leave it.     *)

LEMMA JoinQueue ==
  ASSUME queue \in Seq(Callers), IsInjective(queue), NEW c \in Callers,
         \A i \in DOMAIN queue : queue[i] # c
  PROVE  /\ Append(queue, c) \in Seq(Callers) /\ IsInjective(Append(queue, c))
         /\ \A i \in DOMAIN Append(queue, c) :
              Append(queue, c)[i] = c \/ \E k \in DOMAIN queue : queue[k] = Append(queue, c)[i]
<1> DEFINE q == Append(queue, c)
<1>1. /\ q \in Seq(Callers) /\ Len(q) = Len(queue) + 1 /\ Len(queue) \in Nat
      /\ \A i \in 1 .. Len(queue) : q[i] = queue[i]
      /\ q[Len(queue) + 1] = c
      /\ DOMAIN q = 1 .. Len(queue) + 1 /\ DOMAIN queue = 1 .. Len(queue)
  OBVIOUS
<1> HIDE DEF q
<1>2. \A i \in DOMAIN q : i \in DOMAIN queue \/ i = Len(queue) + 1
  BY <1>1
<1>3. IsInjective(q)
  BY <1>1, <1>2 DEF IsInjective
<1>4. \A i \in DOMAIN q : q[i] = c \/ \E k \in DOMAIN queue : queue[k] = q[i]
  BY <1>1, <1>2
<1> QED BY <1>1, <1>3, <1>4 DEF q

LEMMA PassQueue ==
  ASSUME queue \in Seq(Callers), IsInjective(queue), queue # <<>>
  PROVE  /\ Tail(queue) \in Seq(Callers) /\ IsInjective(Tail(queue))
         /\ \A i \in DOMAIN Tail(queue) :
              Tail(queue)[i] # Head(queue) /\ \E k \in DOMAIN queue : queue[k] = Tail(queue)[i]
<1> DEFINE q == Tail(queue)
<1>1. /\ q \in Seq(Callers) /\ Len(q) = Len(queue) - 1 /\ Len(queue) \in Nat /\ Len(queue) > 0
      /\ \A i \in 1 .. Len(q) : q[i] = queue[i + 1]
      /\ DOMAIN q = 1 .. Len(q) /\ DOMAIN queue = 1 .. Len(queue) /\ Head(queue) = queue[1]
  OBVIOUS
<1> HIDE DEF q
<1>2. \A i \in DOMAIN q : i \in Nat /\ i + 1 \in DOMAIN queue /\ i + 1 # 1 /\ q[i] = queue[i + 1]
  BY <1>1
<1>3. IsInjective(q)
  BY <1>2 DEF IsInjective
<1>4. \A i \in DOMAIN q : q[i] # Head(queue) /\ \E k \in DOMAIN queue : queue[k] = q[i]
  BY <1>1, <1>2 DEF IsInjective
<1> QED BY <1>1, <1>3, <1>4 DEF q

LEMMA LeaveQueue ==
  ASSUME queue \in Seq(Callers), IsInjective(queue), NEW c \in Callers
  PROVE  /\ Leave(c) \in Seq(Callers) /\ IsInjective(Leave(c))
         /\ \A i \in DOMAIN Leave(c) :
              Leave(c)[i] # c /\ \E k \in DOMAIN queue : queue[k] = Leave(c)[i]
<1>1. CASE \A i \in 1 .. Len(queue) : queue[i] # c
  <2>1. Leave(c) = queue
    BY <1>1 DEF Leave, RemoveFirst
  <2> QED BY <1>1, <2>1
<1>2. CASE \E i \in 1 .. Len(queue) : queue[i] = c
  <2> DEFINE I == {i \in 1 .. Len(queue) : queue[i] = c}
             n == Min(I)
             q == Leave(c)
  <2>1. PICK k \in 1 .. Len(queue) : queue[k] = c
    BY <1>2
  <2>2. I = {k}
    BY <2>1 DEF IsInjective
  <2>3. n = k
    BY <2>2 DEF Min
  <2>4. I # {}
    BY <1>2
  <2>5. q = RemoveAt(queue, n)
    BY <1>2, <2>4 DEF Leave, RemoveFirst, SelectInSeq
  <2>6. q = SubSeq(queue, 1, k - 1) \o SubSeq(queue, k + 1, Len(queue))
    BY <2>3, <2>5 DEF RemoveAt
  <2>7. /\ q \in Seq(Callers) /\ Len(q) = Len(queue) - 1 /\ DOMAIN q = 1 .. Len(q)
        /\ \A i \in 1 .. Len(q) : q[i] = IF i < k THEN queue[i] ELSE queue[i + 1]
    <3> DEFINE a == SubSeq(queue, 1, k - 1)
               b == SubSeq(queue, k + 1, Len(queue))
    <3>1. k \in Nat /\ k >= 1 /\ Len(queue) \in Nat /\ k <= Len(queue)
      BY <2>1
    <3>2. /\ a \in Seq(Callers) /\ Len(a) = k - 1
          /\ \A i \in 1 .. k - 1 : a[i] = queue[i]
      BY <3>1
    <3>3. /\ b \in Seq(Callers) /\ Len(b) = Len(queue) - k
          /\ \A i \in 1 .. Len(queue) - k : b[i] = queue[k + i]
      BY <3>1
    <3> HIDE DEF a, b
    <3>4. q = a \o b
      BY <2>6 DEF a, b
    <3> HIDE DEF q
    <3>5. /\ q \in Seq(Callers) /\ Len(q) = Len(a) + Len(b)
          /\ \A i \in 1 .. Len(a) + Len(b) : q[i] = IF i <= Len(a) THEN a[i] ELSE b[i - Len(a)]
      <4>1. a \in Seq(Callers) /\ b \in Seq(Callers)
        BY <3>2, <3>3
      <4> QED BY ONLY <3>4, <4>1, ConcatProperties
    <3>6. Len(q) = Len(queue) - 1 /\ DOMAIN q = 1 .. Len(q)
      BY <3>1, <3>2, <3>3, <3>5
    <3>7. ASSUME NEW i \in 1 .. Len(q)
          PROVE  q[i] = IF i < k THEN queue[i] ELSE queue[i + 1]
      <4>1. q[i] = IF i <= k - 1 THEN a[i] ELSE b[i - (k - 1)]
        BY <3>2, <3>5
      <4>2. i < k => q[i] = queue[i]
        BY <3>1, <3>2, <4>1
      <4>3. ~(i < k) => i - (k - 1) \in 1 .. Len(queue) - k /\ k + (i - (k - 1)) = i + 1
        BY <3>1, <3>6
      <4>4. ~(i < k) => q[i] = queue[i + 1]
        BY <3>1, <3>3, <4>1, <4>3
      <4> QED BY <4>2, <4>4
    <3> QED BY <3>5, <3>6, <3>7
  <2> HIDE DEF q, I, n
  <2>8. \A i \in DOMAIN q : \E m \in DOMAIN queue : m # k /\ m = (IF i < k THEN i ELSE i + 1) /\ q[i] = queue[m]
    BY <2>1, <2>7
  <2>9. IsInjective(q)
    BY <2>1, <2>7, <2>8 DEF IsInjective
  <2>10. \A i \in DOMAIN q : q[i] # c /\ \E m \in DOMAIN queue : queue[m] = q[i]
    BY <2>1, <2>8 DEF IsInjective
  <2> QED BY <2>7, <2>9, <2>10 DEF q
<1> QED BY <1>1, <1>2

(* What a search finds. *)

LEMMA ChooseIsExact ==
  ASSUME NEW s \in Instruments, NEW content, Cardinality(AllHits(s)) <= MaxHits
  PROVE  Choose(s, content) \in {s, "not found"}
<1>1. CASE content # "listing"
  <2>1. Kept(s, content) = {}
    BY <1>1 DEF Kept
  <2> QED BY <2>1 DEF Choose, Found, FirstFound
<1>2. CASE content = "listing"
  <2>1. Listing \in Seq(Symbols) /\ MaxHits \in Nat
    BY MarketAssumption
  <2>2. IsFiniteSet(DOMAIN Listing)
    BY <2>1, FS_Interval
  <2>3. IsFiniteSet(AllHits(s)) /\ Cardinality(AllHits(s)) \in Nat
    BY <2>2, FS_Subset, FS_CardinalityType DEF AllHits
  <2>4. ASSUME NEW i \in AllHits(s)
        PROVE  Cardinality({j \in AllHits(s) : j <= i}) <= MaxHits
    <3> DEFINE S == {j \in AllHits(s) : j <= i}
    <3>1. S \subseteq AllHits(s)
      OBVIOUS
    <3>2. IsFiniteSet(S) /\ Cardinality(S) <= Cardinality(AllHits(s))
      BY <2>3, <3>1, FS_Subset
    <3>3. Cardinality(S) \in Nat
      BY <3>2, FS_CardinalityType
    <3> QED BY <2>1, <2>3, <3>2, <3>3
  <2>5. PICK i \in DOMAIN Listing : Listing[i] = s
    BY DEF Instruments, ToSet
  <2>6. i \in AllHits(s)
    BY <2>1, <2>5, MarketAssumption DEF AllHits
  <2>7. i \in Kept(s, content)
    BY <1>2, <2>4, <2>6 DEF Kept
  <2> QED BY <2>5, <2>7 DEF Found, Choose
<1> QED BY <1>1, <1>2

(* populate() only ever writes what is right. *)

RegMove == RegistryInv' /\ \A s \in Wanted : ids'[s] \in {ids[s], Right(s)}

LEMMA MatchesAreRight ==
  ASSUME RegistryInv, NEW content,
         ids' = [s \in Wanted |-> Match(s, content)], file' = ids'
  PROVE  RegMove /\ (content = "listing" => \A s \in Wanted : ids'[s] = Right(s))
<1>1. ASSUME NEW s \in Wanted
      PROVE  /\ Match(s, content) \in {ids[s], Right(s)}
             /\ content = "listing" => Match(s, content) = Right(s)
             /\ Match(s, content) \in Symbols \cup {None}
  <2>1. /\ ids[s] \in {None, Right(s)} /\ ids[s] \in Symbols \cup {None}
        /\ Right(s) \in {s, Dotless[s], None} /\ s \in Symbols
        /\ Dotless[s] \in Symbols \cup {None}
    BY MarketAssumption DEF RegistryInv, Right
  <2>2. CASE content = "listing"
    BY <2>1, <2>2 DEF Match, Index, Right
  <2>3. CASE content # "listing"
    BY <2>1, <2>3 DEF Match, Index
  <2> QED BY <2>2, <2>3
<1>2. RegistryInv'
  BY <1>1 DEF RegistryInv, Right
<1> QED BY <1>1, <1>2 DEF RegMove

LEMMA SameRegistry ==
  ASSUME RegistryInv, UNCHANGED registryVars
  PROVE  RegMove
BY DEF RegistryInv, RegMove, registryVars, Right

(* What one call does with its symbols, and what it can say. *)

LEMMA EndedTask ==
  ASSUME IInv, NEW c \in Callers, NEW what, NEW p \in {pending, Pops(c)}, End(c, what, p),
         job'[c] = "resolve" => what = "raised" \/ Exact(c)',
         job'[c] = "populate" => what # "populated" \/ \A s \in Wanted : ids'[s] = Right(s)
  PROVE  TaskInv(c)'
<1>1. call'[c] = Idle /\ said'[c] = what
  BY EndKeeps DEF End, IInv, JobTypes
<1> QED BY <1>1, IdleType, NamesDiffer DEF TaskInv, Exact

LEMMA SendingTask ==
  ASSUME IInv, NEW c \in Callers, NEW m \in Commands, Begin(c, m, pending),
         m \in {"status", "order"} => job'[c] = "trade",
         m = "plain" => job'[c] = "plain"
  PROVE  TaskInv(c)'
<1>1. call'[c].cmd = m /\ call'[c].pc # "idle" /\ call'[c].fut = "open"
  BY BeginKeeps DEF IInv
<1> QED BY <1>1 DEF TaskInv

LEMMA SendsTask ==
  ASSUME IInv, NEW c \in Callers, NEW m \in Commands, Sends(c, m, pending),
         m \in {"status", "order"} => job'[c] = "trade",
         m = "plain" => job'[c] = "plain"
  PROVE  TaskInv(c)'
BY SendingTask, EndedTask DEF Sends

LEMMA UseSymbolsTask ==
  ASSUME IInv, SInv, NEW c \in Callers, NEW j, NEW s, NEW content,
         UseSymbols(c, j, s, content, pending), job'[c] = j, asked'[c] = s
  PROVE  RegMove /\ TaskInv(c)'
<1>0. RegistryInv
  BY DEF SInv
<1>1. CASE Resolves(c, j, s, content, pending)
  <2>1. End(c, Choose(s, content), pending) /\ UNCHANGED registryVars /\ j = "resolve"
    BY <1>1 DEF Resolves
  <2>2. said'[c] = Choose(s, content)
    BY <2>1 DEF End, IInv, JobTypes
  <2>3. Exact(c)'
    BY <2>2, ChooseIsExact DEF Exact
  <2> QED BY <1>0, <2>1, <2>3, EndedTask, SameRegistry
<1>2. CASE Populates(c, j, content, pending)
  <2>1. /\ End(c, IF content = "listing" THEN "populated" ELSE "no symbols", pending)
        /\ ids' = [t \in Wanted |-> Match(t, content)] /\ file' = ids' /\ j = "populate"
    BY <1>2 DEF Populates
  <2>2. RegMove /\ (content = "listing" => \A t \in Wanted : ids'[t] = Right(t))
    BY <1>0, <2>1, MatchesAreRight
  <2> QED BY <2>1, <2>2, EndedTask
<1>3. CASE Trades(c, j, s, content, pending)
  BY <1>0, <1>3, EndedTask, SendsTask, SameRegistry, NamesDiffer DEF Trades
<1> QED BY <1>1, <1>2, <1>3 DEF UseSymbols

LEMMA DownloadTask ==
  ASSUME IInv, NEW c \in Callers, Download(c)
  PROVE  TaskInv(c)'
BY SendingTask, EndedTask, NamesDiffer DEF Download

LEMMA OtherTasks ==
  ASSUME SInv, NEW c \in Callers, RegMove,
         \A d \in Callers \ {c} : /\ call'[d] = call[d] /\ said'[d] = said[d]
                                  /\ job'[d] = job[d] /\ asked'[d] = asked[d]
  PROVE  \A d \in Callers \ {c} : TaskInv(d)'
<1> SUFFICES ASSUME NEW d \in Callers \ {c} PROVE TaskInv(d)'
  OBVIOUS
<1>1. TaskInv(d)
  BY DEF SInv
<1> QED BY <1>1 DEF TaskInv, Exact, RegMove

LEMMA StartTasks ==
  ASSUME IInv, SInv, NEW c \in Callers, Start(c)
  PROVE  RegMove /\ \A d \in Callers : TaskInv(d)'
<1>0. /\ RpcInv /\ JobTypes /\ RegistryInv /\ asked \in [Callers -> Symbols \cup {None}]
      /\ {"symbols", "plain"} \subseteq Commands
  BY NamesDiffer DEF IInv, SInv, SearchTypes
<1>1. ASSUME NEW j, NEW s, Starts(c, j, s)
      PROVE  /\ call[c].pc = "idle" /\ job'[c] = j /\ asked'[c] = s
             /\ \A d \in Callers \ {c} : job'[d] = job[d] /\ asked'[d] = asked[d]
  BY <1>0, <1>1 DEF Starts, JobTypes
<1>2. CASE PlainStarts(c)
  <2>1. /\ Starts(c, "plain", None) /\ Sends(c, "plain", pending) /\ UNCHANGED registryVars
    BY <1>2 DEF PlainStarts
  <2>2. Moves(c)
    BY <1>0, <2>1, SendsMove
  <2>3. TaskInv(c)'
    BY <1>0, <1>1, <2>1, SendsTask
  <2> QED BY <1>0, <1>1, <2>1, <2>2, <2>3, OtherTasks, SameRegistry DEF Moves, Elsewhere
<1>3. ASSUME NEW j, NEW s, SearchKnown(c, j, s) PROVE RegMove /\ \A d \in Callers : TaskInv(d)'
  <2>1. Starts(c, j, s) /\ UseSymbols(c, j, s, cache, pending)
    BY <1>3 DEF SearchKnown
  <2>2. Moves(c)
    BY <1>0, <2>1, UseSymbolsMove
  <2>3. RegMove /\ TaskInv(c)'
    BY <1>1, <2>1, UseSymbolsTask
  <2> QED BY <1>1, <2>1, <2>2, <2>3, OtherTasks DEF Moves, Elsewhere
<1>4. ASSUME NEW j, NEW s, SearchFirst(c, j, s) PROVE RegMove /\ \A d \in Callers : TaskInv(d)'
  <2>1. Starts(c, j, s) /\ Download(c) /\ UNCHANGED registryVars
    BY <1>4 DEF SearchFirst
  <2>2. Moves(c)
    BY <1>0, <2>1, DownloadMoves
  <2>3. RegMove /\ TaskInv(c)'
    BY <1>0, <2>1, DownloadTask, SameRegistry
  <2> QED BY <1>1, <2>1, <2>2, <2>3, OtherTasks DEF Moves, Elsewhere
<1>5. ASSUME NEW j, NEW s, SearchQueues(c, j, s) PROVE RegMove /\ \A d \in Callers : TaskInv(d)'
  <2>1. /\ Starts(c, j, s) /\ Unsaid(c) /\ call' = [call EXCEPT ![c].pc = "queued"]
        /\ UNCHANGED registryVars
    BY <1>5 DEF SearchQueues
  <2>2. /\ call'[c].pc = "queued" /\ call'[c].cmd = call[c].cmd /\ call'[c].fut = call[c].fut
        /\ \A d \in Callers \ {c} : call'[d] = call[d] /\ said'[d] = said[d]
    BY <1>0, <2>1, CallFields DEF Calls, RpcInv, Unsaid, JobTypes
  <2>3. call[c].cmd = None /\ call[c].fut # "answered"
    BY <1>0, <1>1, <2>1 DEF RpcInv, CallInv
  <2>4. RegMove /\ TaskInv(c)'
    BY <1>0, <2>1, <2>2, <2>3, SameRegistry, NamesDiffer DEF TaskInv
  <2> QED BY <1>1, <2>1, <2>2, <2>4, OtherTasks
<1> QED BY <1>2, <1>3, <1>4, <1>5 DEF Start

LEMMA CallStepTasks ==
  ASSUME IInv, SInv, NEW c \in Callers, CallStep(c) \/ Cancel(c)
  PROVE  RegMove /\ \A d \in Callers : TaskInv(d)'
<1>0. RpcInv /\ JobTypes /\ RegistryInv /\ TaskInv(c)
  BY DEF IInv, SInv
<1>1. ASSUME Moves(c), RegMove, TaskInv(c)', UNCHANGED <<job, asked>>
      PROVE  RegMove /\ \A d \in Callers : TaskInv(d)'
  BY <1>1, OtherTasks DEF Moves, Elsewhere
<1>2. CASE LockGranted(c)
  <2>1. UNCHANGED <<job, asked>>
    BY <1>2 DEF LockGranted
  <2>2. CASE Download(c) /\ UNCHANGED registryVars
    BY <1>0, <1>1, <2>1, <2>2, DownloadMoves, DownloadTask, SameRegistry
  <2>3. CASE UseSymbols(c, job[c], asked[c], cache, pending)
    <3>1. Moves(c) /\ RegMove /\ TaskInv(c)'
      BY <1>0, <2>1, <2>3, UseSymbolsMove, UseSymbolsTask
    <3> QED BY <1>1, <2>1, <3>1
  <2> QED BY <1>2, <2>2, <2>3 DEF LockGranted
<1>3. CASE SymbolsReceived(c)
  <2>1. UseSymbols(c, job[c], asked[c], cache', pending) /\ UNCHANGED <<job, asked>>
    BY <1>3 DEF SymbolsReceived
  <2>2. Moves(c) /\ RegMove /\ TaskInv(c)'
    BY <1>0, <2>1, UseSymbolsMove, UseSymbolsTask
  <2> QED BY <1>1, <2>1, <2>2
<1>4. CASE StatusSubscribed(c)
  <2>1. /\ Sends(c, "order", pending) /\ UNCHANGED <<job, asked>> /\ UNCHANGED registryVars
        /\ job[c] = "trade" /\ "order" \in Commands
    BY <1>0, <1>4, NamesDiffer DEF StatusSubscribed, TaskInv
  <2>2. Moves(c) /\ RegMove /\ TaskInv(c)'
    BY <1>0, <2>1, SendsMove, SendsTask, SameRegistry
  <2> QED BY <1>1, <2>1, <2>2
<1>5. ASSUME NEW what, NEW p \in {pending, Pops(c)}, End(c, what, p),
             what = "raised" \/ job[c] \in {"trade", "plain"},
             UNCHANGED <<job, asked>>, UNCHANGED registryVars
      PROVE  RegMove /\ \A d \in Callers : TaskInv(d)'
  <2>1. TaskInv(c)' /\ RegMove
    BY <1>0, <1>5, EndedTask, SameRegistry
  <2>2. \A d \in Callers \ {c} : call'[d] = call[d] /\ said'[d] = said[d]
    BY <1>0, <1>5, EndKeeps DEF End, JobTypes
  <2> QED BY <1>5, <2>1, <2>2, OtherTasks
<1>6. CASE LastAnswer(c)
  <2>1. job[c] \in {"trade", "plain"}
    BY <1>0, <1>6 DEF LastAnswer, TaskInv
  <2> QED BY <1>5, <1>6, <2>1 DEF LastAnswer
<1>7. CASE RequestFails(c) \/ Cancel(c)
  BY <1>5, <1>7 DEF RequestFails, Failure, Cancel
<1> QED BY <1>2, <1>3, <1>4, <1>6, <1>7 DEF CallStep

(* The queue: only a call that waits for the lock is in it. *)

LEMMA QueueMoves ==
  ASSUME QueueInv, NEW c \in Callers, \A d \in Callers \ {c} : call'[d] = call[d],
         queue' \in Seq(Callers), IsInjective(queue'),
         \A i \in DOMAIN queue' : /\ queue'[i] \in Callers
                                  /\ \/ queue'[i] = c /\ call'[c].pc = "queued"
                                     \/ queue'[i] # c /\ \E k \in DOMAIN queue : queue[k] = queue'[i]
  PROVE  QueueInv'
BY DEF QueueInv

LEMMA QueueTypes ==
  ASSUME QueueInv
  PROVE  \A i \in DOMAIN queue : queue[i] \in Callers
BY DEF QueueInv

LEMMA SameQueue ==
  ASSUME QueueInv, NEW c \in Callers, \A d \in Callers \ {c} : call'[d] = call[d],
         call[c].pc # "queued", queue' = queue
  PROVE  QueueInv'
BY QueueTypes DEF QueueInv

LEMMA StartQueue ==
  ASSUME IInv, SInv, NEW c \in Callers, Start(c)
  PROVE  QueueInv'
<1>0. RpcInv /\ JobTypes /\ QueueInv /\ "plain" \in Commands /\ call[c].pc = "idle"
  BY NamesDiffer DEF IInv, SInv, Start, PlainStarts, SearchKnown, SearchFirst, SearchQueues, Starts
<1>1. CASE PlainStarts(c)
  BY <1>0, <1>1, SendsMove, SameQueue DEF PlainStarts, searchVars, Moves, Elsewhere
<1>2. ASSUME NEW j, NEW s, SearchKnown(c, j, s) PROVE QueueInv'
  BY <1>0, <1>2, UseSymbolsMove, SameQueue DEF SearchKnown, searchVars, Moves, Elsewhere
<1>3. ASSUME NEW j, NEW s, SearchFirst(c, j, s) PROVE QueueInv'
  BY <1>0, <1>3, DownloadMoves, SameQueue DEF SearchFirst, Moves, Elsewhere
<1>4. ASSUME NEW j, NEW s, SearchQueues(c, j, s) PROVE QueueInv'
  <2>1. queue' = Append(queue, c) /\ call' = [call EXCEPT ![c].pc = "queued"]
    BY <1>4 DEF SearchQueues
  <2>2. call'[c].pc = "queued" /\ \A d \in Callers \ {c} : call'[d] = call[d]
    BY <1>0, <2>1, CallFields DEF RpcInv, Calls
  <2>3. \A i \in DOMAIN queue : queue[i] # c
    BY <1>0 DEF QueueInv
  <2>4. /\ queue' \in Seq(Callers) /\ IsInjective(queue')
        /\ \A i \in DOMAIN queue' : queue'[i] = c \/ \E k \in DOMAIN queue : queue[k] = queue'[i]
    BY <1>0, <2>1, <2>3, JoinQueue DEF QueueInv
  <2>5. \A i \in DOMAIN queue' : queue'[i] \in Callers
    BY <1>0, <2>4, QueueTypes
  <2> QED BY <1>0, <2>2, <2>4, <2>5, QueueMoves
<1> QED BY <1>1, <1>2, <1>3, <1>4 DEF Start

LEMMA CallStepQueue ==
  ASSUME IInv, SInv, NEW c \in Callers, CallStep(c) \/ Cancel(c)
  PROVE  QueueInv'
<1>0. RpcInv /\ JobTypes /\ QueueInv
  BY DEF IInv, SInv
<1>1. CASE LockGranted(c)
  <2>1. queue # <<>> /\ Head(queue) = c /\ queue' = Tail(queue)
    BY <1>1 DEF LockGranted, Grantable
  <2>2. Moves(c)
    BY <1>0, <1>1, DownloadMoves, UseSymbolsMove DEF LockGranted
  <2>3. /\ queue' \in Seq(Callers) /\ IsInjective(queue')
        /\ \A i \in DOMAIN queue' : queue'[i] # c /\ \E k \in DOMAIN queue : queue[k] = queue'[i]
    BY <1>0, <2>1, PassQueue DEF QueueInv
  <2> QED BY <1>0, <2>2, <2>3, QueueTypes, QueueMoves DEF Moves, Elsewhere
<1>2. CASE SymbolsReceived(c)
  <2>1. call[c].pc # "queued" /\ queue' = queue
    BY <1>2 DEF SymbolsReceived, Answered
  <2>2. Moves(c)
    BY <1>0, <1>2, UseSymbolsMove DEF SymbolsReceived
  <2> QED BY <1>0, <2>1, <2>2, SameQueue DEF Moves, Elsewhere
<1>3. CASE StatusSubscribed(c)
  <2>1. call[c].pc # "queued" /\ queue' = queue
    BY <1>3 DEF StatusSubscribed, Answered, searchVars
  <2>2. Moves(c)
    BY <1>0, <1>3, SendsMove, NamesDiffer DEF StatusSubscribed
  <2> QED BY <1>0, <2>1, <2>2, SameQueue DEF Moves, Elsewhere
<1>4. CASE LastAnswer(c)
  <2>1. call[c].pc # "queued" /\ queue' = queue
    BY <1>4 DEF LastAnswer, Answered, searchVars
  <2>2. \A d \in Callers \ {c} : call'[d] = call[d]
    BY <1>0, <1>4, EndKeeps DEF LastAnswer
  <2> QED BY <1>0, <2>1, <2>2, SameQueue
<1>5. CASE RequestFails(c)
  <2>1. call[c].pc # "queued" /\ queue' = queue
    BY <1>5 DEF RequestFails, Raises
  <2>2. \A d \in Callers \ {c} : call'[d] = call[d]
    BY <1>0, <1>5, EndKeeps DEF RequestFails
  <2> QED BY <1>0, <2>1, <2>2, SameQueue
<1>6. CASE Cancel(c)
  <2>1. \A d \in Callers \ {c} : call'[d] = call[d]
    BY <1>0, <1>6, EndKeeps DEF Cancel
  <2>2. /\ queue' \in Seq(Callers) /\ IsInjective(queue')
        /\ \A i \in DOMAIN queue' : queue'[i] # c /\ \E k \in DOMAIN queue : queue[k] = queue'[i]
    BY <1>0, <1>6, LeaveQueue DEF QueueInv, Cancel
  <2> QED BY <1>0, <2>1, <2>2, QueueTypes, QueueMoves
<1> QED BY <1>1, <1>2, <1>3, <1>4, <1>5, <1>6 DEF CallStep

LEMMA TypesKept ==
  ASSUME IInv, SInv, [Next]_vars
  PROVE  SearchTypes'
<1>0. SearchTypes
  BY DEF SInv
<1>1. ASSUME NEW c \in Callers, Start(c) PROVE SearchTypes'
  <2>1. \A j, s : Starts(c, j, s) /\ s \in Queries \cup {None} => asked' \in [Callers -> Symbols \cup {None}]
    BY <1>0, MarketAssumption DEF Starts, SearchTypes
  <2>2. CASE PlainStarts(c)
    BY <1>0, <2>1, <2>2 DEF PlainStarts, SearchTypes, searchVars
  <2>3. ASSUME NEW j, NEW s \in Queries \cup {None},
               SearchKnown(c, j, s) \/ SearchFirst(c, j, s) \/ SearchQueues(c, j, s)
        PROVE  SearchTypes'
    BY <1>0, <2>1, <2>3 DEF SearchKnown, SearchFirst, SearchQueues, Download, SearchTypes, searchVars
  <2> QED BY <1>1, <2>2, <2>3 DEF Start
<1>2. ASSUME NEW c \in Callers, SymbolsReceived(c) PROVE SearchTypes'
  <2>1. call[c].fut = "answered" /\ call[c].cmd = "symbols" /\ call[c].kind \in Kinds["symbols"]
    BY <1>2 DEF SymbolsReceived, Answered, SInv, TaskInv
  <2>2. call[c].kind \in {"listing", "empty"}
    BY <2>1, MarketAssumption
  <2> QED BY <1>0, <1>2, <2>2 DEF SymbolsReceived, SearchTypes
<1>3. ASSUME NEW c \in Callers,
             LockGranted(c) \/ StatusSubscribed(c) \/ LastAnswer(c) \/ RequestFails(c) \/ Cancel(c)
      PROVE  SearchTypes'
  BY <1>0, <1>3 DEF LockGranted, StatusSubscribed, LastAnswer, RequestFails, Cancel, Download,
                    Unlock, SearchTypes, searchVars
<1>4. ASSUME NEW r \in wire, Executes(r) \/ ServerAnswers(r) PROVE SearchTypes'
  BY <1>0, <1>4 DEF Executes, ServerAnswers, Answer, SearchTypes, rpcVars, searchVars, jobVars
<1>5. CASE SocketStep
  BY <1>0, <1>5 DEF SocketStep, RpcStep, Written, TimerFires, Garbled, Unreadable, ListenerEnds,
                    Connect, SearchTypes, searchVars, jobVars
<1>6. CASE ConnectionEnds
  BY <1>0, <1>6 DEF ConnectionEnds, CleanUp, SearchTypes, jobVars
<1>7. CASE ProcessDies
  BY <1>7 DEF ProcessDies, SearchTypes
<1>8. CASE UNCHANGED vars
  BY <1>0, <1>8 DEF SearchTypes, vars, rpcVars, searchVars, jobVars
<1> QED BY <1>1, <1>2, <1>3, <1>4, <1>5, <1>6, <1>7, <1>8 DEF Next, CallStep

(* When only the socket moves, nothing of a job does. *)
LEMMA QuietTasks ==
  ASSUME SInv, Quiet, UNCHANGED <<queue, job, asked, said>>, UNCHANGED registryVars
  PROVE  QueueInv' /\ RegistryInv' /\ \A c \in Callers : TaskInv(c)'
<1>1. RegistryInv'
  BY SameRegistry DEF SInv, RegMove
<1>2. QueueInv'
  BY QueueTypes DEF SInv, QueueInv, Quiet
<1>3. ASSUME NEW c \in Callers PROVE TaskInv(c)'
  BY DEF SInv, TaskInv, Exact, Quiet, registryVars
<1> QED BY <1>1, <1>2, <1>3

LEMMA ServerTasks ==
  ASSUME IInv, SInv, NEW r \in wire, Executes(r) \/ ServerAnswers(r)
  PROVE  QueueInv' /\ RegistryInv' /\ \A c \in Callers : TaskInv(c)'
<1>1. CASE Executes(r)
  <2>1. Quiet
    BY <1>1 DEF Executes, rpcVars, Quiet
  <2> QED BY <1>1, <2>1, QuietTasks DEF Executes, searchVars, jobVars
<1>2. CASE ServerAnswers(r)
  <2>0. RpcInv /\ r.cmd \in Commands
    BY DEF IInv, RpcInv, Wire
  <2>1. /\ Answer(r, Truth(r)) /\ UNCHANGED <<queue, job, asked, said>> /\ UNCHANGED registryVars
    BY <1>2 DEF ServerAnswers, searchVars, jobVars
  <2>2. Truth(r) \subseteq Kinds[r.cmd] /\ Truth(r) \subseteq Answers
    <3>1. Truth(r) \subseteq Kinds[r.cmd]
      BY MarketAssumption DEF Truth
    <3> QED BY <2>0, <3>1 DEF Answers
  <2>3. \A c \in Callers :
          /\ call'[c].cmd = call[c].cmd /\ call'[c].pc = call[c].pc
          /\ call'[c].fut = "answered" =>
               \/ call[c].fut = "answered" /\ call'[c].kind = call[c].kind
               \/ c = r.of /\ call[c].cmd = r.cmd /\ call'[c].kind \in Truth(r)
    BY <2>0, <2>1, <2>2, AnswerKeeps
  <2>4. RegistryInv'
    BY <2>1, SameRegistry DEF SInv, RegMove
  <2>5. QueueInv'
    BY <2>1, <2>3, QueueTypes DEF SInv, QueueInv
  <2>6. ASSUME NEW c \in Callers PROVE TaskInv(c)'
    BY <2>1, <2>2, <2>3 DEF SInv, TaskInv, Exact, registryVars
  <2> QED BY <2>4, <2>5, <2>6
<1> QED BY <1>1, <1>2

LEMMA InitSInv == Init => SInv
<1> SUFFICES ASSUME Init PROVE SInv
  OBVIOUS
<1>1. QueueInv /\ SearchTypes /\ RegistryInv
  BY DEF Init, RpcInit, QueueInv, IsInjective, SearchTypes, RegistryInv, NoIds
<1>2. \A c \in Callers : TaskInv(c)
  BY IdleType, NamesDiffer DEF Init, RpcInit, TaskInv
<1> QED BY <1>1, <1>2 DEF SInv

LEMMA NextSInv == IInv /\ SInv /\ [Next]_vars => SInv'
<1> SUFFICES ASSUME IInv, SInv, [Next]_vars PROVE SInv'
  OBVIOUS
<1>0. SUFFICES QueueInv' /\ RegistryInv' /\ \A c \in Callers : TaskInv(c)'
  BY <1>0, TypesKept DEF SInv
<1>1. ASSUME NEW c \in Callers, Start(c) \/ CallStep(c) \/ Cancel(c)
      PROVE  QueueInv' /\ RegistryInv' /\ \A d \in Callers : TaskInv(d)'
  BY <1>1, StartTasks, CallStepTasks, StartQueue, CallStepQueue DEF RegMove
<1>2. CASE SocketStep
  BY <1>2, RpcStepKeeps, QuietTasks DEF SocketStep, IInv, jobVars, searchVars
<1>3. CASE ConnectionEnds
  BY <1>3, CleanUpKeeps, QuietTasks DEF ConnectionEnds, IInv, jobVars
<1>4. CASE ProcessDies
  <2>1. /\ call' = [c \in Callers |-> Idle] /\ job' = [c \in Callers |-> "plain"] /\ queue' = <<>>
        /\ file' \in {file, NoIds} /\ ids' = file'
    BY <1>4 DEF ProcessDies
  <2>2. \A c \in Callers : TaskInv(c)'
    BY <2>1, IdleType, NamesDiffer DEF TaskInv
  <2>3. QueueInv'
    BY <2>1 DEF QueueInv, IsInjective
  <2>4. RegistryInv'
    BY <2>1 DEF SInv, RegistryInv, NoIds, Right
  <2> QED BY <2>2, <2>3, <2>4
<1>5. CASE UNCHANGED vars
  <2>1. Quiet /\ UNCHANGED <<queue, job, asked, said>> /\ UNCHANGED registryVars
    BY <1>5 DEF vars, rpcVars, searchVars, jobVars, Quiet
  <2> QED BY <2>1, QuietTasks
<1> QED BY <1>1, <1>2, <1>3, <1>4, <1>5, ServerTasks DEF Next

THEOREM SearchInvariance == Spec => []SInv
BY InitSInv, NextSInv, Invariance, PTL DEF Spec

(* Every variable of Market has its type, whatever the jobs, the symbols    *)
(* and the answers.                                                         *)
THEOREM MarketTypes == Spec => []TypeOK
<1>1. IInv /\ SInv => TypeOK
  BY DEF IInv, RpcInv, JobTypes, SInv, SearchTypes, QueueInv, RegistryInv, TypeOK, RpcTypeOK
<1> QED BY <1>1, Invariance, SearchInvariance, PTL

(* A listed symbol whose hits are not cut off is resolved to itself or not  *)
(* at all, whoever downloads, fails, or clears the cache meanwhile.         *)
THEOREM ExactSymbolsAreResolved == Spec => []ExactIsResolved
<1>1. SInv => ExactIsResolved
  BY DEF SInv, TaskInv, Exact, ExactIsResolved
<1> QED BY <1>1, SearchInvariance, PTL

(* The registry never maps a symbol to another instrument, across crashes   *)
(* in the middle of a write and any other populate().                       *)
THEOREM RegistryStaysTrue == Spec => []RegistryIsTrue
<1>1. SInv => RegistryIsTrue
  BY DEF SInv, RegistryInv, TaskInv, RegistryIsTrue
<1> QED BY <1>1, SearchInvariance, PTL
=============================================================================
