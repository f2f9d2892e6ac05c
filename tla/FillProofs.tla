----------------------------- MODULE FillProofs -----------------------------
(* Theorems about the fills that Trade reports: what stands behind FILLED,  *)
(* and whose position it names.  They hold for every broker, one that       *)
(* places an order and answers "permission denied" included, and so rest on *)
(* an invariant of their own.                                               *)
EXTENDS TradeProofs

-----------------------------------------------------------------------------
(* The inductive invariant. *)

(* No attempt has placed anything before its request is sent. *)
UnsentInv(t) ==
  /\ pc[t] \in {"idle", "resolve", "probe"} => att[t] = 1
  /\ pc[t] \in {"idle", "resolve", "fetch"} => Clean(Own(t))
  /\ att[t] = 1 => Clean(<<t, 2>>)

(* What is known of the current order while its fill is looked for.         *)
LookingInv(t) ==
  /\ reply[t] # "none" => pc[t] = "wait"
  /\ reply[t] = "ok" => Placed(Own(t))
  /\ pc[t] \in {"idle", "resolve", "fetch", "wait", "probe"} => ack[t] = {}
  /\ pc[t] \in {"positions", "orders", "price"} =>
       Placed(Own(t)) /\ (IdsAlways => "id" \in ack[t])
  /\ pc[t] = "price" /\ IdsAlways => book[Own(t)] = "open"
  /\ pc[t] # "done" => outcome[t] = Unanswered

(* What a reported fill says of it. *)
Backed(t) ==
  \/ Placed(Own(t))
  \/ IsOpen(outcome[t].order) /\ Looks(outcome[t].order) = Req[t]
IsOwn(t) ==
  /\ book[Own(t)] = "open"
  /\ outcome[t].order = Own(t)
  /\ outcome[t].price \in {Own(t), None}
FilledInv(t) ==
  outcome[t].status = "FILLED" => Backed(t) /\ (IdsAlways /\ ack[t] # {} => IsOwn(t))

FillInv(t) == UnsentInv(t) /\ LookingInv(t) /\ FilledInv(t)

(* getPositions shows open positions only. *)
ShownInv == \A o \in shown : book[o] = "open"

FInv == TypeOK /\ FlightInv /\ ShownInv /\ \A t \in Trades : FillInv(t)

(* A fill stays backed: open positions stay open, and look the same. *)
Stable ==
  \A o \in OrderIds :
    /\ Placed(o) => Placed(o)'
    /\ book[o] = "open" => book'[o] = "open" /\ inst'[o[1]] = inst[o[1]]

LEMMA FillStays ==
  ASSUME TypeOK, NEW u \in Trades, FilledInv(u), Stable,
         att'[u] = att[u], ack'[u] = ack[u], outcome'[u] = outcome[u]
  PROVE  FilledInv(u)'
<1>1. Own(u)' = Own(u) /\ Own(u) \in OrderIds
  BY OwnType DEF Own
<1>2. Placed(Own(u)) => Placed(Own(u))'
  BY <1>1 DEF Stable, Placed
<1>3. ASSUME NEW p, IsOpen(p) PROVE IsOpen(p)' /\ Looks(p)' = Looks(p)
  BY <1>3, TradeAssumption DEF IsOpen, Looks, Stable
<1>4. Backed(u) => Backed(u)'
  BY <1>2, <1>3 DEF Backed
<1>5. IsOwn(u) => IsOwn(u)'
  BY <1>1 DEF IsOwn, Stable
<1> QED BY <1>4, <1>5 DEF FilledInv

LEMMA CleanOrders ==
  ASSUME TypeOK, NEW t \in Trades, UnsentInv(t), pc[t] \in {"idle", "resolve"}
  PROVE  \A k \in {1, 2} : Clean(<<t, k>>)
BY DEF UnsentInv, Own

-----------------------------------------------------------------------------
(* The steps of the broker. *)

(* The orders are taken, filled, cancelled and shown; the calls stay where  *)
(* they are, and only an order that was taken is accepted.                  *)
LEMMA BrokerFrame ==
  ASSUME FInv, UNCHANGED clientVars, flight' \subseteq flight,
         \A o \in OrderIds :
           /\ Placed(o) => Placed(o)'
           /\ book[o] = "open" => book'[o] = "open"
           /\ o \notin flight /\ ~Placed(o) => ~Placed(o)',
         \A t \in Trades :
           \/ reply'[t] = reply[t]
           \/ pc[t] = "wait" /\ (reply'[t] = "ok" => Placed(Own(t))')
  PROVE  \A t \in Trades : FillInv(t)'
<1> SUFFICES ASSUME NEW t \in Trades PROVE FillInv(t)'
  OBVIOUS
<1>1. TypeOK /\ FillInv(t)
  BY DEF FInv
<1>2. /\ Own(t)' = Own(t) /\ Own(t) \in OrderIds /\ <<t, 2>> \in OrderIds
      /\ pc' = pc /\ att' = att /\ ack' = ack /\ inst' = inst /\ outcome' = outcome
  BY <1>1, OwnType DEF clientVars, Own, OrderIds
<1>3. \A o \in OrderIds : Clean(o) => Clean(o)'
  BY DEF Clean
<1>4. UnsentInv(t)'
  BY <1>1, <1>2, <1>3 DEF FillInv, UnsentInv
<1>5. LookingInv(t)'
  <2>1. Placed(Own(t)) => Placed(Own(t))'
    BY <1>2 DEF Placed
  <2>2. book[Own(t)] = "open" => book'[Own(t)] = "open"
    BY <1>2
  <2> QED BY <1>1, <1>2, <2>1, <2>2 DEF FillInv, LookingInv, Unanswered
<1>6. FilledInv(t)'
  BY <1>1, <1>2, FillStays DEF FillInv, Stable
<1> QED BY <1>4, <1>5, <1>6 DEF FillInv

LEMMA BrokerKeepsFills ==
  ASSUME FInv, BrokerStep
  PROVE  FInv'
<1>0. /\ TypeOK /\ FlightInv /\ ShownInv /\ TypeOK'
      /\ book \in [OrderIds -> BookStates] /\ reply \in [Trades -> Replies \cup {"none"}]
      /\ DOMAIN book = OrderIds /\ shown \subseteq OrderIds /\ flight \subseteq OrderIds
  BY BrokerStepType DEF FInv, TypeOK
<1>1. ASSUME NEW o \in OrderIds, BrokerTakes(o) PROVE FInv'
  <2>1. PICK s \in {"open", "queued"} :
          /\ book' = [book EXCEPT ![o] = s]
          /\ shown' = IF s = "open" /\ ~SnapshotLag THEN shown \cup {o} ELSE shown
    BY <1>1 DEF BrokerTakes
  <2>2. o \in flight /\ flight' = flight \ {o} /\ ~Placed(o) /\ UNCHANGED clientVars
    BY <1>0, <1>1 DEF BrokerTakes, FlightInv
  <2>3. PICK kind \in TakenReplies : Answer(o, kind)
    BY <1>1 DEF BrokerTakes
  <2>4. /\ book'[o] \in {"open", "queued"}
        /\ \A q \in OrderIds : q # o => book'[q] = book[q]
    BY <1>0, <2>1
  <2>5. ShownInv'
    BY <1>0, <2>1, <2>2, <2>4 DEF ShownInv, Placed
  <2>6. FlightInv'
    BY <1>0, <2>2, <2>4 DEF FlightInv, Placed
  <2>7. ASSUME NEW t \in Trades
        PROVE  \/ reply'[t] = reply[t]
               \/ pc[t] = "wait" /\ (reply'[t] = "ok" => Placed(Own(t))')
    BY <1>0, <2>2, <2>3, <2>4, <2>7 DEF Answer, Own, Placed, clientVars
  <2>8. \A q \in OrderIds :
           /\ Placed(q) => Placed(q)'
           /\ book[q] = "open" => book'[q] = "open"
           /\ q \notin flight /\ ~Placed(q) => ~Placed(q)'
    BY <2>2, <2>4 DEF Placed
  <2> QED BY <1>0, <2>2, <2>5, <2>6, <2>7, <2>8, BrokerFrame DEF FInv
<1>2. ASSUME NEW o \in OrderIds, BrokerRefuses(o) PROVE FInv'
  <2>1. /\ flight' = flight \ {o} /\ UNCHANGED clientVars /\ book' = book /\ shown' = shown
    BY <1>2 DEF BrokerRefuses
  <2>2. PICK kind \in {"denied", "refused", "empty", "untrailed", "garbled"} : Answer(o, kind)
    BY <1>2 DEF BrokerRefuses
  <2>3. ASSUME NEW t \in Trades
        PROVE  \/ reply'[t] = reply[t]
               \/ pc[t] = "wait" /\ (reply'[t] = "ok" => Placed(Own(t))')
    BY <1>0, <2>2, <2>3 DEF Answer
  <2> QED BY <1>0, <2>1, <2>3, BrokerFrame DEF FInv, FlightInv, ShownInv, Placed
<1>3. ASSUME NEW o \in OrderIds, NEW s,
             book[o] = "queued", s # "absent", book' = [book EXCEPT ![o] = s],
             shown' \subseteq shown \cup {o}, o \in shown' => s = "open",
             UNCHANGED <<clientVars, flight, reply>>
      PROVE  FInv'
  <2>1. book'[o] = s /\ \A q \in OrderIds : q # o => book'[q] = book[q]
    BY <1>0, <1>3
  <2>2. ShownInv'
    BY <1>0, <1>3, <2>1 DEF ShownInv
  <2>3. FlightInv'
    BY <1>0, <1>3, <2>1 DEF FlightInv, Placed
  <2>4. \A q \in OrderIds :
           /\ Placed(q) => Placed(q)'
           /\ book[q] = "open" => book'[q] = "open"
           /\ q \notin flight /\ ~Placed(q) => ~Placed(q)'
    BY <1>3, <2>1 DEF Placed
  <2> QED BY <1>0, <1>3, <2>2, <2>3, <2>4, BrokerFrame DEF FInv
<1>4. ASSUME NEW o \in OrderIds, BrokerFills(o) PROVE FInv'
  BY <1>3, <1>4 DEF BrokerFills, BookStates
<1>5. ASSUME NEW o \in OrderIds, BrokerShows(o) PROVE FInv'
  <2>1. /\ book[o] = "open" /\ shown' = shown \cup {o} /\ book' = book
        /\ UNCHANGED <<clientVars, flight, reply>>
    BY <1>5 DEF BrokerShows
  <2> QED BY <1>0, <2>1, BrokerFrame DEF FInv, FlightInv, ShownInv, Placed
<1>6. ASSUME NEW t \in Trades, BrokerCancels(t) PROVE FInv'
  <2>1. Own(t) \in OrderIds /\ Own(t) \notin shown
    BY <1>0, <1>6, OwnType DEF BrokerCancels, ShownInv
  <2> QED BY <1>3, <1>6, <2>1 DEF BrokerCancels, BookStates
<1>7. ASSUME NEW t \in Trades, BrokerKeeps(t) PROVE FInv'
  <2>1. UNCHANGED <<clientVars, flight, reply, book, shown>>
    BY <1>7 DEF BrokerKeeps
  <2> QED BY <1>0, <2>1, BrokerFrame DEF FInv, FlightInv, ShownInv, Placed
<1> QED BY <1>1, <1>2, <1>4, <1>5, <1>6, <1>7 DEF BrokerStep

-----------------------------------------------------------------------------
(* The steps of a call. *)

(* A call that goes on, or reports, without sending a request. *)
LEMMA GoingOn ==
  ASSUME TypeOK, NEW t \in Trades, FillInv(t), pc[t] # "done", UNCHANGED <<att, flight, book>>,
         reply'[t] = "none", outcome'[t] = Unanswered, pc'[t] # "done",
         pc'[t] = "probe" => att[t] = 1,
         pc'[t] \in {"idle", "resolve", "fetch"} => pc[t] \in {"idle", "resolve"},
         pc'[t] \in {"idle", "resolve", "fetch", "wait", "probe"} => ack'[t] = {},
         pc'[t] \in {"positions", "orders", "price"} =>
           Placed(Own(t)) /\ (IdsAlways => "id" \in ack'[t]),
         pc'[t] = "price" /\ IdsAlways => book[Own(t)] = "open"
  PROVE  FillInv(t)'
<1>1. Own(t)' = Own(t) /\ \A o : (Placed(o) <=> Placed(o)') /\ (Clean(o) <=> Clean(o)')
  BY DEF Own, Placed, Clean
<1>2. UnsentInv(t)'
  BY <1>1 DEF FillInv, UnsentInv
<1>3. LookingInv(t)'
  BY <1>1 DEF LookingInv, Unanswered
<1>4. FilledInv(t)'
  BY UnansweredSays DEF FilledInv, Unanswered
<1> QED BY <1>2, <1>3, <1>4 DEF FillInv

LEMMA Reporting ==
  ASSUME TypeOK, NEW t \in Trades, FillInv(t), NEW result, Finish(t, result),
         UNCHANGED <<att, flight, book>>, reply'[t] = "none", ack'[t] = ack[t],
         inst' = inst \/ result.status # "FILLED",
         result.status = "FILLED" =>
           /\ Placed(Own(t)) \/ (IsOpen(result.order) /\ Looks(result.order) = Req[t])
           /\ IdsAlways /\ ack[t] # {} =>
                /\ book[Own(t)] = "open" /\ result.order = Own(t)
                /\ result.price \in {Own(t), None}
  PROVE  FillInv(t)'
<1>1. /\ Own(t)' = Own(t) /\ \A o : (Placed(o) <=> Placed(o)') /\ (Clean(o) <=> Clean(o)')
      /\ \A p : IsOpen(p) <=> IsOpen(p)'
      /\ inst' = inst => \A p : Looks(p)' = Looks(p)
  BY DEF Own, Placed, Clean, IsOpen, Looks
<1>2. pc'[t] = "done" /\ outcome'[t] = result
  BY DEF Finish, TypeOK
<1>3. UnsentInv(t)' /\ LookingInv(t)'
  BY <1>1, <1>2 DEF FillInv, UnsentInv, LookingInv
<1>4. FilledInv(t)'
  BY <1>1, <1>2 DEF FilledInv, Backed, IsOwn
<1> QED BY <1>3, <1>4 DEF FillInv

(* A position that is found is open; where ids are populated, and the reply *)
(* carried one, it is the call's own.                                       *)
LEMMA SnapshotIsOpen ==
  ASSUME ShownInv, TypeOK, NEW ids \in IdViews
  PROVE  /\ \A p \in Snapshot : IsOpen(p)
         /\ ids \subseteq Snapshot
         /\ IdsAlways => ids = Snapshot
BY DEF ShownInv, TypeOK, Snapshot, IsOpen, IdViews

LEMMA FoundIsOwn ==
  ASSUME ShownInv, TypeOK, IdsAlways, NEW t \in Trades, "id" \in ack[t], NEW ids \in IdViews,
         NEW p \in Matches(t, ids) \cup Priced(t, ids)
  PROVE  p = Own(t) /\ book[Own(t)] = "open"
<1>1. ids = Snapshot
  BY SnapshotIsOpen
<1>2. ids # {}
  BY <1>1 DEF Matches, Priced, ById
<1>3. p \in ById(t, ids)
  BY <1>2 DEF Matches, Priced, Decided
<1>4. Own(t) \in OrderIds /\ Own(t) \notin Strangers
  BY OwnType, TradeAssumption
<1> QED BY <1>1, <1>3, <1>4 DEF ById, Snapshot, ShownInv

LEMMA ProbedIsOpen ==
  ASSUME ShownInv, TypeOK, NEW t \in Trades, ack[t] = {}, NEW ids \in IdViews,
         NEW p \in Matches(t, ids)
  PROVE  IsOpen(p) /\ Looks(p) = Req[t]
BY SnapshotIsOpen DEF Matches, Decided

(* The request is sent: the order it is for was clean. *)
LEMMA Sending ==
  ASSUME TypeOK, FlightInv, NEW t \in Trades, FillInv(t), pc[t] \in {"resolve", "fetch"},
         Dispatch(t, att[t]), UNCHANGED <<att, ack, book, reply>>
  PROVE  FillInv(t)' /\ FlightInv'
<1>1. Clean(Own(t)) /\ reply[t] = "none" /\ ack[t] = {} /\ outcome[t] = Unanswered
  BY DEF FillInv, UnsentInv, LookingInv
<1>2. Own(t)' = Own(t) /\ Own(t) = <<t, att[t]>> /\ \A o : Placed(o) <=> Placed(o)'
  BY DEF Own, Placed
<1>3. CASE Whole(t)
  <2>1. flight' = flight \cup {Own(t)} /\ pc'[t] = "wait" /\ outcome' = outcome
    BY <1>2, <1>3 DEF Dispatch, TypeOK
  <2>2. FlightInv'
    BY <1>1, <1>2, <2>1 DEF FlightInv, Clean
  <2>3. UnsentInv(t)'
    BY <1>2, <2>1 DEF FillInv, UnsentInv, Clean
  <2>4. LookingInv(t)'
    BY <1>1, <2>1 DEF LookingInv, Unanswered
  <2>5. FilledInv(t)'
    BY <1>1, <2>1, UnansweredSays DEF FilledInv
  <2> QED BY <2>2, <2>3, <2>4, <2>5 DEF FillInv
<1>4. CASE ~Whole(t)
  <2>1. Finish(t, Raised) /\ flight' = flight
    BY <1>4 DEF Dispatch
  <2>2. Raised.status = "RAISED"
    BY DEF Raised, Result
  <2> QED BY <1>1, <1>2, <2>1, <2>2, Reporting DEF FlightInv
<1> QED BY <1>3, <1>4

LEMMA Handling ==
  ASSUME TypeOK, NEW t \in Trades, FillInv(t), pc[t] = "wait",
         NEW kind \in Replies, Handle(t, kind), kind \in {reply[t], "neterr"}
  PROVE  FillInv(t)'
<1>1. UNCHANGED <<att, flight, book>> /\ inst' = inst /\ reply'[t] = "none"
  BY DEF Handle, TypeOK
<1>2. outcome[t] = Unanswered /\ ack[t] = {}
  BY DEF FillInv, LookingInv
<1>3. CASE Accepted(t, kind)
  <2>1. Placed(Own(t))
    BY <1>3 DEF Accepted, Succeeds, FillInv, LookingInv
  <2>2. outcome'[t] = Unanswered /\ pc'[t] = "positions" /\ (IdsAlways => "id" \in ack'[t])
    BY <1>2, <1>3 DEF Accepted, AckParts, TypeOK
  <2> QED BY <1>1, <2>1, <2>2, GoingOn
<1>4. CASE Denied(t, kind)
  BY <1>1, <1>2, <1>4, GoingOn DEF Denied, TypeOK
<1>5. CASE Failed(t, kind)
  <2>1. Failure(kind).status # "FILLED"
    <3>1. CASE kind \in {"denied", "empty", "garbled"}
      BY <3>1 DEF Failure, Raised, Result
    <3>2. CASE kind \notin {"denied", "empty", "garbled"}
      BY <3>2 DEF Failure, Result
    <3> QED BY <3>1, <3>2
  <2> QED BY <1>1, <1>5, <2>1, Reporting DEF Failed
<1> QED BY <1>3, <1>4, <1>5 DEF Handle

LEMMA EndingRound ==
  ASSUME TypeOK, NEW t \in Trades, FillInv(t), pc[t] \in {"positions", "orders"},
         NEW failed \in BOOLEAN, EndOfRound(t, failed),
         UNCHANGED <<att, ack, inst, flight, book, reply>>
  PROVE  FillInv(t)'
<1>1. /\ outcome[t] = Unanswered /\ reply'[t] = "none" /\ Placed(Own(t))
      /\ IdsAlways => "id" \in ack[t]
  BY DEF FillInv, LookingInv
<1>2. CASE tries[t] = 0
  BY <1>1, <1>2, GoingOn DEF EndOfRound, TypeOK
<1>3. CASE tries[t] # 0
  <2>1. NoMatchLeft(t, failed).status # "FILLED"
    BY DEF NoMatchLeft, Result
  <2> QED BY <1>1, <1>3, <2>1, Reporting DEF EndOfRound
<1> QED BY <1>2, <1>3

LEMMA Retrying ==
  ASSUME TypeOK, NEW t \in Trades, FillInv(t), Retry(t)
  PROVE  FillInv(t)'
<1>1. /\ pc[t] = "probe" /\ att'[t] = 2 /\ pc'[t] = "fetch" /\ Own(t)' = <<t, 2>>
      /\ UNCHANGED <<ack, outcome, flight, reply, book>>
  BY DEF Retry, Own, TypeOK
<1>2. Clean(<<t, 2>>)'
  BY <1>1 DEF FillInv, UnsentInv, Clean, Placed
<1>3. UnsentInv(t)' /\ LookingInv(t)'
  BY <1>1, <1>2 DEF FillInv, UnsentInv, LookingInv, Unanswered
<1>4. FilledInv(t)'
  BY <1>1, UnansweredSays DEF FillInv, LookingInv, FilledInv
<1> QED BY <1>3, <1>4 DEF FillInv

LEMMA FillStepOwn ==
  ASSUME FInv, NEW t \in Trades, TradeStep(t)
  PROVE  FillInv(t)' /\ FlightInv'
<1> USE DEF Result
<1>a. TypeOK /\ FlightInv /\ ShownInv /\ FillInv(t) /\ t \in DOMAIN pc
  BY DEF FInv, TypeOK
<1>b. ASSUME UNCHANGED <<flight, book>> PROVE FlightInv'
  BY <1>a, <1>b DEF FlightInv, Placed
<1>c. /\ pc[t] # "wait" => reply[t] = "none"
      /\ pc[t] # "done" => outcome[t] = Unanswered
      /\ pc[t] \in {"idle", "resolve", "fetch", "wait", "probe"} => ack[t] = {}
      /\ pc[t] \in {"positions", "orders", "price"} =>
           Placed(Own(t)) /\ (IdsAlways => "id" \in ack[t])
      /\ pc[t] = "price" /\ IdsAlways => book[Own(t)] = "open"
  BY <1>a DEF FillInv, LookingInv
<1>1. CASE RefuseVolume(t)
  BY <1>1, <1>a, <1>b, <1>c, Reporting DEF RefuseVolume
<1>2. CASE Submit(t)
  BY <1>2, <1>a, <1>b, <1>c, GoingOn DEF Submit
<1>3. CASE Resolved(t)
  <2>1. CASE jwt
    BY <1>3, <2>1, <1>a, Sending DEF Resolved
  <2>2. CASE ~jwt
    BY <1>3, <2>2, <1>a, <1>b, <1>c, GoingOn DEF Resolved
  <2> QED BY <2>1, <2>2
<1>4. CASE NotListed(t)
  BY <1>4, <1>a, <1>b, <1>c, Reporting DEF NotListed
<1>5. CASE SearchFails(t)
  BY <1>5, <1>a, <1>b, <1>c, Reporting DEF SearchFails, Raised
<1>6. CASE JwtFails(t)
  BY <1>6, <1>a, <1>b, <1>c, Reporting DEF JwtFails, Raised
<1>7. CASE JwtFetched(t)
  BY <1>7, <1>a, Sending DEF JwtFetched
<1>8. CASE Receive(t)
  <2>1. reply[t] \in Replies
    BY <1>8, <1>a DEF Receive, TypeOK
  <2> QED BY <1>8, <2>1, <1>a, <1>b, Handling DEF Receive, Handle
<1>9. CASE NetworkError(t)
  BY <1>9, <1>a, <1>b, Handling DEF NetworkError, Handle, Replies
<1>10. CASE ProbeFinds(t)
  <2>1. PICK ids \in IdViews :
          \E p \in Matches(t, ids) : Finish(t, Result("FILLED", "", p, p))
    BY <1>10 DEF ProbeFinds
  <2>2. PICK p \in Matches(t, ids) : Finish(t, Result("FILLED", "", p, p))
    BY <2>1
  <2>3. ack[t] = {} /\ IsOpen(p) /\ Looks(p) = Req[t]
    BY <1>10, <1>a, <1>c, ProbedIsOpen DEF ProbeFinds
  <2> QED BY <1>10, <2>2, <2>3, <1>a, <1>b, <1>c, Reporting DEF ProbeFinds
<1>11. CASE Retry(t)
  BY <1>11, <1>a, <1>b, Retrying DEF Retry
<1>12. CASE PositionFound(t)
  <2>1. PICK ids \in IdViews : Matches(t, ids) # {}
    BY <1>12 DEF PositionFound
  <2>2. IdsAlways => book[Own(t)] = "open"
    BY <1>12, <2>1, <1>a, <1>c, FoundIsOwn DEF PositionFound
  <2> QED BY <1>12, <2>2, <1>a, <1>b, <1>c, GoingOn DEF PositionFound
<1>13. CASE NoPosition(t)
  <2>1. PICK failed \in BOOLEAN :
          IF "number" \in ack[t]
          THEN pc' = [pc EXCEPT ![t] = "orders"] /\ UNCHANGED <<tries, outcome>>
          ELSE EndOfRound(t, miss[t] \/ failed)
    BY <1>13 DEF NoPosition
  <2>2. (miss[t] \/ failed) \in BOOLEAN
    BY <1>a DEF TypeOK
  <2>3. CASE "number" \in ack[t]
    BY <1>13, <2>1, <2>3, <1>a, <1>b, <1>c, GoingOn DEF NoPosition
  <2>4. CASE "number" \notin ack[t]
    BY <1>13, <2>1, <2>2, <2>4, <1>a, <1>b, EndingRound DEF NoPosition
  <2> QED BY <2>3, <2>4
<1>14. CASE OrderFound(t)
  BY <1>14, <1>a, <1>b, <1>c, Reporting DEF OrderFound
<1>15. CASE NoOrder(t)
  <2>1. PICK failed \in BOOLEAN : EndOfRound(t, miss[t] \/ failed)
    BY <1>15 DEF NoOrder
  <2>2. (miss[t] \/ failed) \in BOOLEAN
    BY <1>a DEF TypeOK
  <2> QED BY <1>15, <2>1, <2>2, <1>a, <1>b, EndingRound DEF NoOrder
<1>16. CASE PriceFound(t)
  <2>1. PICK ids \in IdViews :
          \E p \in Priced(t, ids) : Finish(t, Result("FILLED", "", AckedOrder(t), p))
    BY <1>16 DEF PriceFound
  <2>2. PICK p \in Priced(t, ids) : Finish(t, Result("FILLED", "", AckedOrder(t), p))
    BY <2>1
  <2>3. IdsAlways => p = Own(t) /\ AckedOrder(t) = Own(t)
    BY <1>16, <1>a, <1>c, FoundIsOwn DEF PriceFound, AckedOrder
  <2> QED BY <1>16, <2>2, <2>3, <1>a, <1>b, <1>c, Reporting DEF PriceFound
<1>17. CASE NoPrice(t)
  <2>1. CASE tries[t] < 2
    BY <1>17, <2>1, <1>a, <1>b, <1>c, GoingOn DEF NoPrice
  <2>2. CASE ~(tries[t] < 2)
    <3>1. IdsAlways => AckedOrder(t) = Own(t)
      BY <1>17, <1>c DEF NoPrice, AckedOrder
    <3> QED BY <1>17, <2>2, <3>1, <1>a, <1>b, <1>c, Reporting DEF NoPrice
  <2> QED BY <2>1, <2>2
<1> QED BY <1>1, <1>2, <1>3, <1>4, <1>5, <1>6, <1>7, <1>8, <1>9, <1>10,
          <1>11, <1>12, <1>13, <1>14, <1>15, <1>16, <1>17 DEF TradeStep

(* What the other calls have seen stays: only a call that resolves changes  *)
(* what its own, unsent order would look like.                              *)
LEMMA FillStepElsewhere ==
  ASSUME FInv, NEW t \in Trades, TradeStep(t), NEW u \in Trades, u # t
  PROVE  FillInv(u)'
<1>1. TypeOK /\ FillInv(t) /\ FillInv(u) /\ SameCall(u) /\ SameOrders(u)
  BY TradeStepElsewhere DEF FInv
<1>2. book' = book /\ shown' = shown
  BY DEF TradeStep, RefuseVolume, Submit, Resolved, NotListed, SearchFails, JwtFetched, JwtFails,
         Receive, NetworkError, Handle, ProbeFinds, Retry, PositionFound, NoPosition, OrderFound,
         NoOrder, PriceFound, NoPrice
<1>3. inst' = inst \/ (pc[t] = "resolve" /\ \A v \in Trades : v # t => inst'[v] = inst[v])
  BY <1>1 DEF TradeStep, RefuseVolume, Submit, Resolved, NotListed, SearchFails, JwtFetched, JwtFails,
         Receive, NetworkError, Handle, ProbeFinds, Retry, PositionFound, NoPosition, OrderFound,
         NoOrder, PriceFound, NoPrice, TypeOK
<1>4. Stable
  <2> SUFFICES ASSUME NEW o \in OrderIds, book[o] = "open" PROVE inst'[o[1]] = inst[o[1]]
    BY <1>2 DEF Stable, Placed
  <2>1. o[1] \in Trades /\ \E k \in {1, 2} : o = <<o[1], k>>
    BY DEF OrderIds
  <2>2. CASE o[1] = t /\ pc[t] = "resolve"
    BY <1>1, <2>1, <2>2, CleanOrders DEF FillInv, Clean, Placed
  <2> QED BY <1>3, <2>1, <2>2
<1>5. FilledInv(u)'
  BY <1>1, <1>4, FillStays DEF FillInv, SameCall
<1>6. Own(u)' = Own(u) /\ Own(u) = <<u, att[u]>> /\ att[u] \in {1, 2}
  BY <1>1 DEF Own, SameCall, TypeOK
<1>7. \A k \in {1, 2} : (Clean(<<u, k>>) => Clean(<<u, k>>)')
  BY <1>1 DEF SameOrders, Clean, Placed
<1>8. UnsentInv(u)'
  BY <1>1, <1>6, <1>7 DEF FillInv, UnsentInv, SameCall
<1>9. LookingInv(u)'
  BY <1>1, <1>2, <1>6 DEF FillInv, LookingInv, SameCall, SameOrders, Placed, Unanswered
<1> QED BY <1>5, <1>8, <1>9 DEF FillInv

LEMMA TradeKeepsFills ==
  ASSUME FInv, NEW t \in Trades, TradeStep(t)
  PROVE  FInv'
<1>1. TypeOK' /\ FlightInv' /\ \A u \in Trades : FillInv(u)'
  BY TradeStepType, FillStepOwn, FillStepElsewhere DEF FInv
<1>2. book' = book /\ shown' = shown
  BY DEF TradeStep, RefuseVolume, Submit, Resolved, NotListed, SearchFails, JwtFetched, JwtFails,
         Receive, NetworkError, Handle, ProbeFinds, Retry, PositionFound, NoPosition, OrderFound,
         NoOrder, PriceFound, NoPrice
<1> QED BY <1>1, <1>2 DEF FInv, ShownInv

(* Steps of nobody the fills are about. *)
LEMMA FillsFrame ==
  ASSUME FInv, TypeOK', UNCHANGED <<clientVars, flight, reply, book, shown>>
  PROVE  FInv'
BY BrokerFrame DEF FInv, FlightInv, ShownInv, Placed

LEMMA InitFInv == Init => FInv
<1> SUFFICES ASSUME Init PROVE FInv
  OBVIOUS
<1>1. TypeOK
  BY InitIInv DEF IInv
<1>2. FlightInv /\ ShownInv
  BY DEF Init, FlightInv, ShownInv
<1>3. ASSUME NEW t \in Trades PROVE FillInv(t)
  <2>1. Own(t) = <<t, 1>> /\ \A k \in {1, 2} : Clean(<<t, k>>)
    BY DEF Init, Own, Clean, Placed, OrderIds
  <2> QED BY <2>1, UnansweredSays DEF Init, FillInv, UnsentInv, LookingInv, FilledInv
<1> QED BY <1>1, <1>2, <1>3 DEF FInv

LEMMA NextFInv == FInv /\ [Next]_vars => FInv'
<1> SUFFICES ASSUME FInv, [Next]_vars PROVE FInv'
  OBVIOUS
<1>0. TypeOK'
  BY TypeStep DEF FInv
<1>1. ASSUME NEW t \in Trades, CancelStep(t) PROVE FInv'
  <2>1. UNCHANGED <<clientVars, flight, reply, book, shown>>
    BY <1>1 DEF CancelStep, CancelOrder, CancelJwtFetched, CancelJwtFails, CancelReceive,
                CancelNetworkError, HandleCancel
  <2> QED BY <1>0, <2>1, FillsFrame
<1>2. CASE JwtExpires \/ UNCHANGED vars
  BY <1>0, <1>2, FillsFrame DEF JwtExpires, vars
<1> QED BY <1>1, <1>2, TradeKeepsFills, BrokerKeepsFills DEF Next

THEOREM FillInvariance == Spec => []FInv
BY InitFInv, NextFInv, PTL DEF Spec

-----------------------------------------------------------------------------
(* Results. *)

(* FILLED has a placed order of the call, or an open position that looks    *)
(* like the request, behind it, for good and whatever the broker does.      *)
THEOREM FillsAreBacked == Spec => []FilledIsBacked
<1>1. FInv => FilledIsBacked
  BY DEF FInv, FillInv, FilledInv, Backed, FilledIsBacked
<1> QED BY <1>1, FillInvariance, PTL

(* Where ids are populated, a fill after an accepted reply is the call's    *)
(* own position at its own price, among any number of identical ones.       *)
THEOREM FillsAreOwn == ASSUME IdsAlways PROVE Spec => []FilledIsOwn
<1>1. FInv => FilledIsOwn
  BY DEF FInv, FillInv, FilledInv, IsOwn, FilledIsOwn
<1> QED BY <1>1, FillInvariance, PTL
=============================================================================
