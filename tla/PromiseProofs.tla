--------------------------- MODULE PromiseProofs ---------------------------
(* Trade implements TradePromise, for every set of calls and every broker   *)
(* that does not answer status 7 for an order it has placed.                *)
EXTENDS TradeProofs

-----------------------------------------------------------------------------
(* The refinement mapping, by what TradeProofs knows of the calls.          *)

(* Besides IInv: a cancel is about a call that has reported something else  *)
(* than a refusal.                                                          *)
Reported(t) == outcome[t].status \in {"FILLED", "QUEUED", "AMBIGUOUS"}
AskedInv == \A t \in Trades : cancel[t] # "no" => Reported(t)
PInv == IInv /\ AskedInv

(* The order of a call is that of its current attempt. *)
LEMMA OrderIsOwn ==
  ASSUME IInv, NEW t \in Trades
  PROVE  OrderOf(t) = IF Placed(Own(t)) THEN book[Own(t)] ELSE "none"
<1>1. att[t] \in {1, 2} /\ OtherIsClean(t)
  BY DEF IInv, TypeOK, TradeInv
<1>2. CASE att[t] = 1
  <2>1. ~Placed(<<t, 2>>)
    BY <1>1, <1>2 DEF OtherIsClean, Clean
  <2> QED BY <1>2, <2>1 DEF OrderOf, Own
<1>3. CASE att[t] = 2
  <2>1. ~Placed(<<t, 1>>)
    BY <1>1, <1>3 DEF OtherIsClean, Clean
  <2> QED BY <1>3, <2>1 DEF OrderOf, Own
<1> QED BY <1>1, <1>2, <1>3

LEMMA SaidValues ==
  ASSUME NEW t \in Trades
  PROVE  /\ SaidOf(t) \in {"nothing", "refused", "taken", "unknown"}
         /\ outcome[t] = Unanswered => SaidOf(t) = "nothing"
         /\ SaidOf(t) = "nothing" => outcome[t] = Unanswered
         /\ SaidOf(t) = "refused" => Refused(t)
         /\ SaidOf(t) = "taken" => \/ outcome[t].status = "QUEUED"
                                   \/ outcome[t].code = "FILL_STATE_UNKNOWN"
<1>1. CASE outcome[t] = Unanswered
  BY <1>1, UnansweredSays DEF SaidOf
<1>2. CASE outcome[t] # Unanswered /\ Refused(t)
  BY <1>2 DEF SaidOf, Refused
<1>3. CASE outcome[t] # Unanswered /\ ~Refused(t)
  BY <1>3 DEF SaidOf, Refused
<1> QED BY <1>1, <1>2, <1>3

(* What a call has said is true of its order. *)
LEMMA SaidIsTrue ==
  ASSUME IInv, NEW t \in Trades
  PROVE  /\ SaidOf(t) = "refused" => Clean(Own(t)) /\ OrderOf(t) = "none"
         /\ SaidOf(t) = "taken" => Placed(Own(t)) /\ OrderOf(t) # "none"
<1>1. ReportInv(t) /\ Own(t) \in OrderIds /\ book[Own(t)] \in BookStates
  BY OwnType DEF IInv, TradeInv, TypeOK
<1>2. SaidOf(t) = "refused" => Clean(Own(t))
  BY <1>1, SaidValues DEF ReportInv
<1>3. SaidOf(t) = "taken" => Placed(Own(t))
  BY <1>1, SaidValues DEF ReportInv
<1> QED BY <1>1, <1>2, <1>3, OrderIsOwn DEF Clean, BookStates

(* All of it, in this state and in the next one. *)
MappingInv ==
  \A t \in Trades :
    /\ OrderOf(t) = IF Placed(Own(t)) THEN book[Own(t)] ELSE "none"
    /\ SaidOf(t) \in {"nothing", "refused", "taken", "unknown"}
    /\ SaidOf(t) = "nothing" => outcome[t] = Unanswered
    /\ SaidOf(t) = "refused" => Clean(Own(t)) /\ OrderOf(t) = "none"
    /\ SaidOf(t) = "taken" => Placed(Own(t)) /\ OrderOf(t) # "none"

LEMMA MappingHolds == IInv => MappingInv
BY OrderIsOwn, SaidValues, SaidIsTrue DEF MappingInv

LEMMA MappingStillHolds == IInv' => MappingInv'
BY MappingHolds, PTL

(* Functions that change at one call at most. *)
LEMMA OneOrder ==
  ASSUME NEW t \in Trades, NEW s, OrderOf(t)' = s,
         \A u \in Trades \ {t} : OrderOf(u)' = OrderOf(u)
  PROVE  Orders' = [Orders EXCEPT ![t] = s]
BY DEF Orders

LEMMA SameBook == book' = book => Orders' = Orders
BY DEF Orders, OrderOf, Placed

LEMMA SameOutcome == outcome' = outcome => Said' = Said
BY DEF Said, SaidOf, Unanswered

-----------------------------------------------------------------------------
(* The invariant. *)

LEMMA TradeStepSame ==
  ASSUME NEW t \in Trades, TradeStep(t)
  PROVE  pc[t] # "done" /\ book' = book /\ cancel' = cancel
BY DEF TradeStep, RefuseVolume, Submit, Resolved, NotListed, SearchFails, JwtFetched,
       JwtFails, Receive, NetworkError, Handle, ProbeFinds, Retry, PositionFound,
       NoPosition, OrderFound, NoOrder, PriceFound, NoPrice, cancelVars

LEMMA NextPInv ==
  ASSUME ~RbacPlaces, PInv, [Next]_vars
  PROVE  PInv'
<1>1. IInv'
  BY NextIInv DEF PInv
<1>2. ASSUME NEW t \in Trades, TradeStep(t), NEW u \in Trades, cancel'[u] # "no"
      PROVE  Reported(u)'
  <2>1. cancel'[u] = cancel[u] /\ pc[t] # "done"
    BY <1>2, TradeStepSame
  <2>2. u # t
    BY <1>2, <2>1 DEF PInv, IInv, TradeInv, CancelInv
  <2>3. outcome'[u] = outcome[u]
    BY <1>2, <2>2, TradeStepElsewhere DEF PInv, IInv, SameCall
  <2> QED BY <1>2, <2>1, <2>3 DEF PInv, AskedInv, Reported
<1>3. ASSUME NEW t \in Trades, CancelStep(t), NEW u \in Trades, cancel'[u] # "no"
      PROVE  Reported(u)'
  <2>1. outcome' = outcome
    BY <1>3 DEF CancelStep, CancelOrder, CancelJwtFetched, CancelJwtFails, CancelReceive,
                CancelNetworkError, HandleCancel, clientVars
  <2>2. cancel[u] # "no" \/ Reported(u)
    BY <1>3 DEF CancelStep, CancelOrder, CancelJwtFetched, CancelJwtFails, CancelReceive,
                CancelNetworkError, HandleCancel, SendCancel, Reported, PInv, IInv, TypeOK
  <2> QED BY <2>1, <2>2 DEF PInv, AskedInv, Reported
<1>4. ASSUME BrokerStep \/ JwtExpires \/ UNCHANGED vars
      PROVE  AskedInv'
  BY <1>4 DEF PInv, AskedInv, Reported, BrokerStep, BrokerTakes, BrokerRefuses, BrokerFills,
     BrokerShows, BrokerCancels, BrokerKeeps, JwtExpires, vars, clientVars, cancelVars
<1> QED BY <1>1, <1>2, <1>3, <1>4 DEF Next, PInv, AskedInv

-----------------------------------------------------------------------------
(* Every step is a step of the promise, or none. *)

LEMMA TradeStepKeepsPromise ==
  ASSUME PInv, PInv', NEW t \in Trades, TradeStep(t)
  PROVE  [Promise!Next]_Promise!vars
<1>1. Orders' = Orders /\ Cancelled' = Cancelled
  BY TradeStepSame, SameBook DEF Cancelled
<1>2. \A u \in Trades \ {t} : SaidOf(u)' = SaidOf(u)
  BY TradeStepElsewhere DEF PInv, IInv, SameCall, SaidOf, Unanswered
<1>3. SaidOf(t) = "nothing"
  BY TradeStepSame, SaidValues DEF PInv, IInv, TradeInv, AwaitInv
<1>4. Said' = [Said EXCEPT ![t] = SaidOf(t)']
  BY <1>2 DEF Said
<1>5. CASE SaidOf(t)' = "nothing"
  <2>1. Said' = Said
    BY <1>2, <1>3, <1>5 DEF Said
  <2> QED BY <1>1, <2>1 DEF Promise!vars
<1>6. CASE SaidOf(t)' # "nothing"
  <2>1. SaidOf(t)' \in {"refused", "taken", "unknown"}
    BY <1>6, MappingStillHolds DEF PInv, MappingInv
  <2>2. /\ SaidOf(t)' = "refused" => OrderOf(t)' = "none"
        /\ SaidOf(t)' = "taken" => OrderOf(t)' # "none"
    BY MappingStillHolds DEF PInv, MappingInv
  <2>3. OrderOf(t)' = OrderOf(t) /\ Orders[t] = OrderOf(t) /\ Said[t] = "nothing"
    BY <1>1, <1>3 DEF Orders, Said
  <2>4. Promise!Report(t)
    BY <1>1, <1>4, <2>1, <2>2, <2>3 DEF Promise!Report
  <2> QED BY <2>4 DEF Promise!Next
<1> QED BY <1>5, <1>6

LEMMA CancelStepKeepsPromise ==
  ASSUME PInv, PInv', NEW t \in Trades, CancelStep(t)
  PROVE  [Promise!Next]_Promise!vars
<1>1. book' = book /\ outcome' = outcome /\ cancel[t] \in {"no", "fetch", "wait"}
      /\ \A u \in Trades \ {t} : cancel'[u] = cancel[u]
  BY DEF CancelStep, CancelOrder, CancelJwtFetched, CancelJwtFails, CancelReceive,
     CancelNetworkError, HandleCancel, SendCancel, clientVars, PInv, IInv, TypeOK
<1>2. Orders' = Orders /\ Said' = Said
  BY <1>1, SameBook, SameOutcome
<1>3. CASE cancel'[t] = "CANCELLED"
  <2>1. book[Own(t)] = "cancelled" /\ Placed(Own(t))
    <3>1. book'[Own(t)'] = "cancelled"
      BY <1>3 DEF PInv, IInv, TradeInv, CancelInv
    <3>2. Own(t)' = Own(t)
      BY DEF CancelStep, CancelOrder, CancelJwtFetched, CancelJwtFails, CancelReceive,
         CancelNetworkError, HandleCancel, clientVars, Own
    <3> QED BY <1>1, <3>1, <3>2 DEF Placed
  <2>2. Orders[t] = "cancelled"
    BY <2>1, OrderIsOwn DEF PInv, Orders
  <2>3. Said[t] \in {"taken", "unknown"}
    <3>1. Reported(t)
      BY <1>1, <1>3 DEF PInv, AskedInv, Reported
    <3>2. SaidOf(t) # "nothing"
      BY <3>1, SaidValues, UnansweredSays DEF Reported
    <3>3. SaidOf(t) # "refused"
      BY <2>1, SaidIsTrue DEF PInv, Clean
    <3> QED BY <3>2, <3>3, SaidValues DEF Said
  <2>4. Cancelled' = [Cancelled EXCEPT ![t] = TRUE]
    BY <1>1, <1>3 DEF Cancelled
  <2>5. Promise!ConfirmCancel(t)
    BY <1>2, <2>2, <2>3, <2>4 DEF Promise!ConfirmCancel
  <2> QED BY <2>5 DEF Promise!Next
<1>4. CASE cancel'[t] # "CANCELLED"
  <2>1. Cancelled' = Cancelled
    BY <1>1, <1>4 DEF Cancelled
  <2> QED BY <1>2, <2>1 DEF Promise!vars
<1> QED BY <1>3, <1>4

(* A step of the broker changes one order, if any. *)
LEMMA OneBooking ==
  ASSUME PInv, NEW t \in Trades, NEW s \in BookStates \ {"absent"},
         UNCHANGED <<clientVars, cancel>>,
         book' = [book EXCEPT ![Own(t)] = s], PInv'
  PROVE  /\ Orders' = [Orders EXCEPT ![t] = s]
         /\ Said' = Said /\ Cancelled' = Cancelled
<1>1. Own(t)' = Own(t) /\ Own(t) \in OrderIds /\ outcome' = outcome
  BY OwnType DEF Own, clientVars, PInv, IInv
<1>2. book'[Own(t)] = s /\ Placed(Own(t))'
  BY <1>1 DEF PInv, IInv, TypeOK, Placed
<1>3. OrderOf(t)' = s
  BY <1>1, <1>2, MappingStillHolds DEF PInv, MappingInv
<1>4. \A u \in Trades \ {t} : OrderOf(u)' = OrderOf(u)
  <2> SUFFICES ASSUME NEW u \in Trades \ {t} PROVE OrderOf(u)' = OrderOf(u)
    OBVIOUS
  <2>1. \A k \in {1, 2} : book'[<<u, k>>] = book[<<u, k>>]
    BY DEF Own, OrderIds, PInv, IInv, TypeOK
  <2> QED BY <2>1 DEF OrderOf, Placed
<1>5. Orders' = [Orders EXCEPT ![t] = s]
  BY <1>3, <1>4, OneOrder
<1> QED BY <1>1, <1>5, SameOutcome DEF Cancelled

LEMMA BrokerStepKeepsPromise ==
  ASSUME PInv, PInv', BrokerStep
  PROVE  [Promise!Next]_Promise!vars
<1>1. ASSUME book' = book, UNCHANGED <<clientVars, cancel>>
      PROVE  [Promise!Next]_Promise!vars
  BY <1>1, SameBook, SameOutcome DEF Promise!vars, Cancelled, clientVars
<1>2. ASSUME NEW o \in OrderIds, BrokerRefuses(o) \/ BrokerShows(o)
      PROVE  [Promise!Next]_Promise!vars
  BY <1>1, <1>2 DEF BrokerRefuses, BrokerShows, cancelVars
<1>3. ASSUME NEW t \in Trades, BrokerKeeps(t)
      PROVE  [Promise!Next]_Promise!vars
  BY <1>1, <1>3 DEF BrokerKeeps
<1>4. ASSUME NEW o \in OrderIds, BrokerTakes(o)
      PROVE  [Promise!Next]_Promise!vars
  <2>1. PICK t \in Trades : \E k \in {1, 2} : o = <<t, k>>
    BY DEF OrderIds
  <2>2. PICK k \in {1, 2} : o = <<t, k>>
    BY <2>1
  <2>3. Own(t) = o /\ ~Placed(Own(t)) /\ Own(t) \in flight
    BY <1>4, <2>2, ArrivingRequest DEF BrokerTakes, PInv
  <2>4. PICK s \in {"open", "queued"} : book' = [book EXCEPT ![o] = s]
    BY <1>4 DEF BrokerTakes
  <2>5. UNCHANGED <<clientVars, cancel>>
    BY <1>4 DEF BrokerTakes, cancelVars
  <2>6. /\ Orders' = [Orders EXCEPT ![t] = s]
        /\ Said' = Said /\ Cancelled' = Cancelled
    BY <2>3, <2>4, <2>5, OneBooking DEF BookStates
  <2>7. Orders[t] = "none"
    BY <2>3, OrderIsOwn DEF PInv, Orders
  <2>8. Said[t] \in {"nothing", "unknown"}
    BY <2>3, MappingHolds DEF PInv, MappingInv, Said, Clean
  <2>9. ~Cancelled[t]
    BY <2>3 DEF PInv, IInv, TradeInv, CancelInv, Placed, Cancelled
  <2>10. Promise!Place(t)
    BY <2>6, <2>7, <2>8, <2>9 DEF Promise!Place
  <2> QED BY <2>10 DEF Promise!Next
<1>5. ASSUME NEW o \in OrderIds, BrokerFills(o)
      PROVE  [Promise!Next]_Promise!vars
  <2>1. PICK t \in Trades : \E k \in {1, 2} : o = <<t, k>>
    BY DEF OrderIds
  <2>2. PICK k \in {1, 2} : o = <<t, k>>
    BY <2>1
  <2>3. book[o] = "queued" /\ book' = [book EXCEPT ![o] = "open"] /\ UNCHANGED <<clientVars, cancel>>
    BY <1>5 DEF BrokerFills, cancelVars
  <2>4. Own(t) = o /\ Placed(Own(t))
    BY <2>2, <2>3 DEF PInv, IInv, TradeInv, OtherIsClean, Clean, Placed, Own
  <2>5. /\ Orders' = [Orders EXCEPT ![t] = "open"]
        /\ Said' = Said /\ Cancelled' = Cancelled
    BY <2>3, <2>4, OneBooking DEF BookStates
  <2>6. Orders[t] = "queued"
    BY <2>3, <2>4, OrderIsOwn DEF PInv, Orders
  <2>7. Promise!Fill(t)
    BY <2>5, <2>6 DEF Promise!Fill
  <2> QED BY <2>7 DEF Promise!Next
<1>6. ASSUME NEW t \in Trades, BrokerCancels(t)
      PROVE  [Promise!Next]_Promise!vars
  <2>1. /\ book[Own(t)] = "queued" /\ book' = [book EXCEPT ![Own(t)] = "cancelled"]
        /\ UNCHANGED <<clientVars, cancel>>
    BY <1>6 DEF BrokerCancels
  <2>2. /\ Orders' = [Orders EXCEPT ![t] = "cancelled"]
        /\ Said' = Said /\ Cancelled' = Cancelled
    BY <2>1, OneBooking DEF BookStates
  <2>3. Orders[t] = "queued"
    BY <2>1, OrderIsOwn DEF PInv, Orders, Placed
  <2>4. Promise!Withdraw(t)
    BY <2>2, <2>3 DEF Promise!Withdraw
  <2> QED BY <2>4 DEF Promise!Next
<1> QED BY <1>2, <1>3, <1>4, <1>5, <1>6 DEF BrokerStep

LEMMA StepKeepsPromise ==
  ASSUME PInv, PInv', [Next]_vars
  PROVE  [Promise!Next]_Promise!vars
<1>1. CASE JwtExpires \/ UNCHANGED vars
  <2>1. book' = book /\ outcome' = outcome /\ cancel' = cancel
    BY <1>1 DEF JwtExpires, vars, clientVars, cancelVars
  <2> QED BY <2>1, SameBook, SameOutcome DEF Promise!vars, Cancelled
<1> QED BY <1>1, TradeStepKeepsPromise, CancelStepKeepsPromise, BrokerStepKeepsPromise DEF Next

LEMMA InitPInv == Init => PInv /\ Promise!Init
<1> SUFFICES ASSUME Init PROVE PInv /\ Promise!Init
  OBVIOUS
<1>1. PInv
  BY InitIInv DEF Init, PInv, AskedInv
<1>2. \A t \in Trades : OrderOf(t) = "none" /\ SaidOf(t) = "nothing" /\ cancel[t] # "CANCELLED"
  <2> TAKE t \in Trades
  <2>1. outcome[t] = Unanswered /\ cancel[t] = "no" /\ ~Placed(Own(t))
    BY OwnType DEF Init, Placed, PInv, IInv, Own, OrderIds
  <2> QED BY <1>1, <2>1, OrderIsOwn, SaidValues DEF PInv
<1> QED BY <1>1, <1>2 DEF Promise!Init, Orders, Said, Cancelled

(* The trading calls implement their promise: whatever is lost, late or     *)
(* repeated, one order at most, one final report, nothing placed after a    *)
(* refusal and nothing live after a cancellation.                           *)
THEOREM KeepsItsPromise == ASSUME ~RbacPlaces PROVE Spec => KeepsPromise
<1>1. Init => PInv /\ Promise!Init
  BY InitPInv
<1>2. PInv /\ [Next]_vars => PInv'
  BY NextPInv
<1>3. PInv /\ PInv' /\ [Next]_vars => [Promise!Next]_Promise!vars
  BY StepKeepsPromise
<1> QED BY <1>1, <1>2, <1>3, PTL DEF Spec, KeepsPromise, Promise!Spec
=============================================================================
