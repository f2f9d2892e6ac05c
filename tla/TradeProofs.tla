---------------------------- MODULE TradeProofs ----------------------------
(* Theorems about Trade, for every set of calls and every broker.           *)
EXTENDS Trade, TLAPS

-----------------------------------------------------------------------------
(* Type correctness. *)

LEMMA ResultType ==
  ASSUME NEW status \in Statuses, NEW code \in Codes,
         NEW order \in Positions \cup {None}, NEW price \in Positions \cup {None}
  PROVE  Result(status, code, order, price) \in Results
BY DEF Result, Results

LEMMA FailureType == \A kind : Failure(kind) \in Results
<1> TAKE kind
<1>1. CASE kind = "denied"
  BY <1>1, ResultType DEF Failure, Statuses, Codes
<1>2. CASE kind = "empty"
  BY <1>2, ResultType DEF Failure, Statuses, Codes
<1>3. CASE kind = "garbled"
  BY <1>3, ResultType DEF Failure, Raised, Statuses, Codes
<1>4. CASE kind \notin {"denied", "empty", "garbled"}
  BY <1>4, ResultType DEF Failure, Statuses, Codes
<1> QED BY <1>1, <1>2, <1>3, <1>4

(* The results that Trade's actions hand to Finish besides Failure. *)
LEMMA OwnType ==
  ASSUME TypeOK, NEW t \in Trades
  PROVE  /\ Own(t) \in OrderIds
         /\ AckedOrder(t) \in Positions \cup {None}
BY DEF TypeOK, Own, AckedOrder, OrderIds, Positions

LEMMA NoMatchLeftType ==
  ASSUME TypeOK, NEW t \in Trades, NEW failed \in BOOLEAN
  PROVE  NoMatchLeft(t, failed) \in Results
BY OwnType, ResultType DEF NoMatchLeft, Statuses, Codes

(* Finish and Dispatch keep pc, outcome and flight within their types. *)
LEMMA FinishType ==
  ASSUME TypeOK, NEW t \in Trades, NEW result \in Results, Finish(t, result)
  PROVE  pc' \in [Trades -> PcValues] /\ outcome' \in [Trades -> Results]
BY DEF TypeOK, Finish, PcValues

LEMMA DispatchType ==
  ASSUME TypeOK, NEW t \in Trades, Dispatch(t, att[t])
  PROVE  /\ pc' \in [Trades -> PcValues]
         /\ outcome' \in [Trades -> Results]
         /\ flight' \subseteq OrderIds
<1>1. Raised \in Results
  BY ResultType DEF Raised, Statuses, Codes
<1>2. CASE Whole(t)
  BY <1>2 DEF TypeOK, Dispatch, PcValues, OrderIds
<1>3. CASE ~Whole(t)
  BY <1>3, <1>1, FinishType DEF Dispatch, TypeOK
<1> QED BY <1>2, <1>3

LEMMA HandleType ==
  ASSUME TypeOK, NEW t \in Trades, NEW kind \in Replies, Handle(t, kind)
  PROVE  TypeOK'
<1>1. ack' \in [Trades -> SUBSET {"id", "number"}]
  BY DEF TypeOK, Handle, Accepted, Denied, Failed, AckParts
<1>2. pc' \in [Trades -> PcValues] /\ outcome' \in [Trades -> Results]
  <2>1. CASE Accepted(t, kind)
    BY <2>1 DEF TypeOK, Accepted, PcValues
  <2>2. CASE Denied(t, kind)
    BY <2>2 DEF TypeOK, Denied, PcValues
  <2>3. CASE Failed(t, kind)
    BY <2>3, FailureType, FinishType DEF Failed
  <2> QED BY <2>1, <2>2, <2>3 DEF Handle
<1> QED BY <1>1, <1>2 DEF TypeOK, Handle, cancelVars, Replies

LEMMA EndOfRoundType ==
  ASSUME TypeOK, NEW t \in Trades, NEW failed \in BOOLEAN, EndOfRound(t, failed)
  PROVE  /\ pc' \in [Trades -> PcValues]
         /\ tries' \in [Trades -> 0 .. 2]
         /\ outcome' \in [Trades -> Results]
<1>1. CASE tries[t] = 0
  BY <1>1 DEF TypeOK, EndOfRound, PcValues
<1>2. CASE tries[t] # 0
  BY <1>2, FinishType, NoMatchLeftType DEF TypeOK, EndOfRound
<1> QED BY <1>1, <1>2

LEMMA TradeStepType ==
  ASSUME TypeOK, NEW t \in Trades, TradeStep(t)
  PROVE  TypeOK'
<1> USE TradeAssumption
<1>1. CASE RefuseVolume(t)
  BY <1>1, FinishType, ResultType DEF RefuseVolume, TypeOK, cancelVars, Statuses, Codes
<1>2. CASE Submit(t)
  BY <1>2 DEF Submit, TypeOK, cancelVars, PcValues
<1>3. CASE Resolved(t)
  <2>1. inst' \in [Trades -> Symbols \cup {None}]
    BY <1>3 DEF Resolved, Choices, TypeOK, Requests
  <2>2. /\ pc' \in [Trades -> PcValues]
        /\ outcome' \in [Trades -> Results]
        /\ flight' \subseteq OrderIds
    BY <1>3, DispatchType DEF Resolved, TypeOK, PcValues
  <2> QED BY <1>3, <2>1, <2>2 DEF Resolved, TypeOK, cancelVars
<1>4. CASE NotListed(t)
  BY <1>4, FinishType, ResultType DEF NotListed, TypeOK, cancelVars, Statuses, Codes
<1>5. CASE SearchFails(t) \/ JwtFails(t)
  BY <1>5, FinishType, ResultType DEF SearchFails, JwtFails, Raised, TypeOK, cancelVars, Statuses, Codes
<1>6. CASE JwtFetched(t)
  BY <1>6, DispatchType DEF JwtFetched, TypeOK, cancelVars
<1>7. CASE Receive(t)
  BY <1>7, HandleType DEF Receive, TypeOK
<1>8. CASE NetworkError(t)
  BY <1>8, HandleType DEF NetworkError, Replies
<1>9. CASE ProbeFinds(t)
  <2>3. PICK ids \in IdViews :
          \E p \in Matches(t, ids) : Finish(t, Result("FILLED", "", p, p))
    BY <1>9 DEF ProbeFinds
  <2>1. PICK p \in Matches(t, ids) : Finish(t, Result("FILLED", "", p, p))
    BY <2>3
  <2>2. p \in Positions
    BY OwnType DEF Matches, ById, Snapshot, Positions, TypeOK
  <2> QED BY <1>9, <2>1, <2>2, FinishType, ResultType
        DEF ProbeFinds, TypeOK, cancelVars, Statuses, Codes
<1>10. CASE Retry(t)
  BY <1>10 DEF Retry, TypeOK, cancelVars, PcValues
<1>11. CASE PositionFound(t)
  BY <1>11 DEF PositionFound, TypeOK, cancelVars, PcValues
<1>12. CASE NoPosition(t)
  <2>1. PICK failed \in BOOLEAN :
          /\ miss' = [miss EXCEPT ![t] = miss[t] \/ failed]
          /\ IF "number" \in ack[t]
             THEN pc' = [pc EXCEPT ![t] = "orders"] /\ UNCHANGED <<tries, outcome>>
             ELSE EndOfRound(t, miss[t] \/ failed)
    BY <1>12 DEF NoPosition
  <2>2. (miss[t] \/ failed) \in BOOLEAN
    BY DEF TypeOK
  <2>3. /\ pc' \in [Trades -> PcValues]
        /\ tries' \in [Trades -> 0 .. 2]
        /\ outcome' \in [Trades -> Results]
    <3>1. CASE "number" \in ack[t]
      BY <2>1, <3>1 DEF TypeOK, PcValues
    <3>2. CASE "number" \notin ack[t]
      BY <2>1, <2>2, <3>2, EndOfRoundType
    <3> QED BY <3>1, <3>2
  <2>4. miss' \in [Trades -> BOOLEAN]
    BY <2>1, <2>2 DEF TypeOK
  <2> QED BY <1>12, <2>3, <2>4 DEF NoPosition, TypeOK, cancelVars
<1>13. CASE OrderFound(t)
  BY <1>13, OwnType, FinishType, ResultType DEF OrderFound, TypeOK, cancelVars, Statuses, Codes
<1>14. CASE NoOrder(t)
  <2>1. PICK failed \in BOOLEAN :
          /\ miss' = [miss EXCEPT ![t] = miss[t] \/ failed]
          /\ EndOfRound(t, miss[t] \/ failed)
    BY <1>14 DEF NoOrder
  <2>2. (miss[t] \/ failed) \in BOOLEAN
    BY DEF TypeOK
  <2>3. miss' \in [Trades -> BOOLEAN]
    BY <2>1, <2>2 DEF TypeOK
  <2> QED BY <1>14, <2>1, <2>2, <2>3, EndOfRoundType DEF NoOrder, TypeOK, cancelVars
<1>15. CASE PriceFound(t)
  <2>3. PICK ids \in IdViews :
          \E p \in Priced(t, ids) : Finish(t, Result("FILLED", "", AckedOrder(t), p))
    BY <1>15 DEF PriceFound
  <2>1. PICK p \in Priced(t, ids) : Finish(t, Result("FILLED", "", AckedOrder(t), p))
    BY <2>3
  <2>2. p \in Positions
    BY OwnType DEF Priced, ById, Snapshot, Positions, TypeOK
  <2> QED BY <1>15, <2>1, <2>2, OwnType, FinishType, ResultType
        DEF PriceFound, TypeOK, cancelVars, Statuses, Codes
<1>16. CASE NoPrice(t)
  <2>1. CASE tries[t] < 2
    BY <1>16, <2>1 DEF NoPrice, TypeOK, cancelVars
  <2>2. CASE ~(tries[t] < 2)
    BY <1>16, <2>2, OwnType, FinishType, ResultType
    DEF NoPrice, TypeOK, cancelVars, Statuses, Codes
  <2> QED BY <2>1, <2>2
<1> QED BY <1>1, <1>2, <1>3, <1>4, <1>5, <1>6, <1>7, <1>8, <1>9, <1>10,
          <1>11, <1>12, <1>13, <1>14, <1>15, <1>16 DEF TradeStep

LEMMA CancelStepType ==
  ASSUME TypeOK, NEW t \in Trades, CancelStep(t)
  PROVE  TypeOK'
<1>1. CASE CancelOrder(t)
  BY <1>1 DEF CancelOrder, SendCancel, TypeOK, clientVars, Cancels
<1>2. CASE CancelJwtFetched(t)
  BY <1>2 DEF CancelJwtFetched, SendCancel, TypeOK, clientVars, Cancels
<1>3. CASE CancelJwtFails(t)
  BY <1>3 DEF CancelJwtFails, TypeOK, clientVars, Cancels
<1>4. \A kind : CancelResult(kind) \in Cancels
  BY Zenon DEF CancelResult, Cancels
<1>5. CASE CancelReceive(t)
  BY <1>4, <1>5 DEF CancelReceive, HandleCancel, TypeOK, clientVars
<1>6. CASE CancelNetworkError(t)
  BY <1>4, <1>6 DEF CancelNetworkError, HandleCancel, TypeOK, clientVars
<1> QED BY <1>1, <1>2, <1>3, <1>5, <1>6 DEF CancelStep

LEMMA AnswerType ==
  ASSUME TypeOK, NEW o \in OrderIds, NEW kind \in Replies, Answer(o, kind)
  PROVE  reply' \in [Trades -> Replies \cup {"none"}]
BY DEF Answer, TypeOK, OrderIds

LEMMA BrokerStepType ==
  ASSUME TypeOK, BrokerStep
  PROVE  TypeOK'
<1>1. ASSUME NEW o \in OrderIds, BrokerTakes(o) PROVE TypeOK'
  <2>1. PICK kind \in TakenReplies : Answer(o, kind)
    BY <1>1 DEF BrokerTakes
  <2>2. reply' \in [Trades -> Replies \cup {"none"}]
    BY <2>1, AnswerType DEF TakenReplies, Replies
  <2> QED BY <1>1, <2>2 DEF BrokerTakes, TypeOK, clientVars, cancelVars, BookStates
<1>2. ASSUME NEW o \in OrderIds, BrokerRefuses(o) PROVE TypeOK'
  <2>1. reply' \in [Trades -> Replies \cup {"none"}]
    BY <1>2, AnswerType DEF BrokerRefuses, Replies
  <2> QED BY <1>2, <2>1 DEF BrokerRefuses, TypeOK, clientVars, cancelVars
<1>3. ASSUME NEW o \in OrderIds, BrokerFills(o) PROVE TypeOK'
  BY <1>3 DEF BrokerFills, TypeOK, clientVars, cancelVars, BookStates
<1>4. ASSUME NEW o \in OrderIds, BrokerShows(o) PROVE TypeOK'
  BY <1>4 DEF BrokerShows, TypeOK, clientVars, cancelVars
<1>5. ASSUME NEW t \in Trades, BrokerCancels(t) PROVE TypeOK'
  BY <1>5, OwnType DEF BrokerCancels, AnswerCancel, TypeOK, clientVars, BookStates, CancelReplies
<1>6. ASSUME NEW t \in Trades, BrokerKeeps(t) PROVE TypeOK'
  BY <1>6 DEF BrokerKeeps, AnswerCancel, TypeOK, clientVars, CancelReplies
<1> QED BY <1>1, <1>2, <1>3, <1>4, <1>5, <1>6 DEF BrokerStep

LEMMA TypeStep ==
  ASSUME TypeOK, [Next]_vars
  PROVE  TypeOK'
<1>1. ASSUME NEW t \in Trades, TradeStep(t) PROVE TypeOK'
  BY <1>1, TradeStepType
<1>2. ASSUME NEW t \in Trades, CancelStep(t) PROVE TypeOK'
  BY <1>2, CancelStepType
<1>3. CASE BrokerStep
  BY <1>3, BrokerStepType
<1>4. CASE JwtExpires
  BY <1>4 DEF JwtExpires, TypeOK, clientVars, cancelVars
<1>5. CASE UNCHANGED vars
  BY <1>5 DEF TypeOK, vars, clientVars, cancelVars
<1> QED BY <1>1, <1>2, <1>3, <1>4, <1>5 DEF Next

(* Every variable of the trading paths keeps its type in every behaviour:   *)
(* in particular no result has an outcome or a code that trading.py does    *)
(* not list, and the probe loops stay within their rounds.                  *)
THEOREM TypeCorrect == Spec => []TypeOK
<1>1. Init => TypeOK
  <2>1. Unanswered \in Results
    BY ResultType DEF Unanswered, Statuses, Codes
  <2> QED BY <2>1 DEF Init, TypeOK, PcValues, BookStates, Cancels
<1> QED BY <1>1, TypeStep, PTL DEF Spec

-----------------------------------------------------------------------------
(* The inductive invariant.  The safety properties speak of calls that have *)
(* reported; what they rest on is what is known of the order of a call at   *)
(* every await before that.                                                 *)

(* Nothing of order o is at the broker, and no request can bring it there.  *)
Clean(o) == o \notin flight /\ ~Placed(o)

(* The attempt that is not the current one has placed nothing. *)
OtherIsClean(t) == \A k \in {1, 2} : k # att[t] => Clean(<<t, k>>)

(* What the await a call is suspended at says of its current order. *)
AwaitInv(t) ==
  /\ pc[t] \in {"idle", "resolve", "fetch", "probe"} => Clean(Own(t))
  /\ pc[t] \in {"positions", "orders", "price"} => Placed(Own(t))
  /\ pc[t] = "orders" => "number" \in ack[t]
  /\ pc[t] # "done" => outcome[t] = Unanswered

(* What an answer that has not been read yet says of it. *)
ReplyInv(t) ==
  /\ pc[t] # "wait" => reply[t] = "none"
  /\ reply[t] # "none" => Own(t) \notin flight
  /\ reply[t] = "denied" => ~Placed(Own(t))
  /\ reply[t] = "ok" => Placed(Own(t))

Refused(t) ==
  \/ outcome[t].status \in {"INSUFFICIENT_VOLUME", "AUTH_EXPIRED"}
  \/ outcome[t].code = "INSTRUMENT_NOT_FOUND"

(* What a result says of it. *)
ReportInv(t) ==
  /\ Refused(t) => Clean(Own(t))
  /\ outcome[t].status = "QUEUED" => outcome[t].order = Own(t) /\ Placed(Own(t))
  /\ outcome[t].code = "FILL_STATE_UNKNOWN" => Placed(Own(t))

(* What the progress of cancel_order says of it. *)
CancelInv(t) ==
  /\ t \in cflight => cancel[t] # "no"
  /\ cancel[t] # "no" => pc[t] = "done"
  /\ creply[t] = "ok" \/ cancel[t] = "CANCELLED" => book[Own(t)] = "cancelled"

FlightInv == \A o \in flight : ~Placed(o)

TradeInv(t) == OtherIsClean(t) /\ AwaitInv(t) /\ ReplyInv(t) /\ ReportInv(t) /\ CancelInv(t)
IInv == TypeOK /\ FlightInv /\ \A t \in Trades : TradeInv(t)

(* A step that leaves a call and its orders alone preserves its invariant.  *)
SameCall(u) ==
  /\ pc'[u] = pc[u] /\ att'[u] = att[u] /\ ack'[u] = ack[u]
  /\ outcome'[u] = outcome[u]
SameCancel(u) ==
  /\ cancel'[u] = cancel[u] /\ creply'[u] = creply[u]
  /\ u \in cflight' => u \in cflight
SameOrders(u) ==
  /\ reply'[u] = reply[u]
  /\ \A k \in {1, 2} : /\ <<u, k>> \in flight' => <<u, k>> \in flight
                       /\ book'[<<u, k>>] = book[<<u, k>>]

LEMMA Frame ==
  ASSUME TypeOK, NEW u \in Trades, TradeInv(u),
         SameCall(u), SameCancel(u), SameOrders(u)
  PROVE  TradeInv(u)'
<1>1. Own(u) = <<u, att[u]>> /\ Own(u)' = <<u, att[u]>> /\ att[u] \in {1, 2}
  BY DEF Own, SameCall, TypeOK
<1>2. \A k \in {1, 2} : Clean(<<u, k>>) => Clean(<<u, k>>)'
  BY DEF SameOrders, Clean, Placed
<1>3. \A k \in {1, 2} : Placed(<<u, k>>)' <=> Placed(<<u, k>>)
  BY DEF SameOrders, Placed
<1>4. OtherIsClean(u)'
  BY <1>1, <1>2 DEF TradeInv, OtherIsClean, SameCall
<1>5. AwaitInv(u)'
  BY <1>1, <1>2, <1>3 DEF TradeInv, AwaitInv, SameCall, Unanswered
<1>6. ReplyInv(u)'
  BY <1>1, <1>3 DEF TradeInv, ReplyInv, SameCall, SameOrders
<1>7. ReportInv(u)'
  BY <1>1, <1>2, <1>3 DEF TradeInv, ReportInv, Refused, SameCall
<1>8. CancelInv(u)'
  BY <1>1 DEF TradeInv, CancelInv, SameCall, SameCancel, SameOrders
<1> QED BY <1>4, <1>5, <1>6, <1>7, <1>8 DEF TradeInv

(* A step of one call is a step of no other.                                *)
LEMMA EndOfRoundElsewhere ==
  ASSUME TypeOK, NEW t \in Trades, NEW failed \in BOOLEAN, EndOfRound(t, failed),
         NEW u \in Trades, u # t
  PROVE  pc'[u] = pc[u] /\ outcome'[u] = outcome[u]
<1>1. CASE tries[t] = 0
  BY <1>1 DEF EndOfRound, TypeOK
<1>2. CASE tries[t] # 0
  BY <1>2 DEF EndOfRound, Finish, TypeOK
<1> QED BY <1>1, <1>2

LEMMA TradeStepElsewhere ==
  ASSUME TypeOK, NEW t \in Trades, TradeStep(t), NEW u \in Trades, u # t
  PROVE  SameCall(u) /\ SameCancel(u) /\ SameOrders(u)
<1> USE DEF SameCall, SameCancel, SameOrders, cancelVars, Finish, TypeOK
<1>1. CASE RefuseVolume(t) \/ Submit(t) \/ NotListed(t) \/ SearchFails(t) \/ JwtFails(t)
  BY <1>1 DEF RefuseVolume, Submit, NotListed, SearchFails, JwtFails
<1>2. CASE Resolved(t)
  BY <1>2 DEF Resolved, Dispatch
<1>3. CASE JwtFetched(t)
  BY <1>3 DEF JwtFetched, Dispatch
<1>4. ASSUME NEW kind, Handle(t, kind) PROVE SameCall(u) /\ SameCancel(u) /\ SameOrders(u)
  BY <1>4 DEF Handle, Accepted, Denied, Failed
<1>5. CASE Receive(t) \/ NetworkError(t)
  BY <1>4, <1>5 DEF Receive, NetworkError
<1>6. CASE ProbeFinds(t) \/ Retry(t)
  BY <1>6 DEF ProbeFinds, Retry
<1>7. CASE PositionFound(t) \/ NoPosition(t)
  BY <1>7 DEF PositionFound, NoPosition, EndOfRound
<1>8. CASE OrderFound(t)
  BY <1>8 DEF OrderFound
<1>9. CASE NoOrder(t)
  <2>1. PICK failed \in BOOLEAN : EndOfRound(t, miss[t] \/ failed)
    BY <1>9 DEF NoOrder
  <2>2. (miss[t] \/ failed) \in BOOLEAN
    OBVIOUS
  <2>3. pc'[u] = pc[u] /\ outcome'[u] = outcome[u]
    BY <2>1, <2>2, EndOfRoundElsewhere
  <2> QED BY <1>9, <2>3 DEF NoOrder
<1>10. CASE PriceFound(t) \/ NoPrice(t)
  BY <1>10 DEF PriceFound, NoPrice
<1> QED BY <1>1, <1>2, <1>3, <1>5, <1>6, <1>7, <1>8, <1>9, <1>10 DEF TradeStep

-----------------------------------------------------------------------------
(* The step of a call, on its own part of the invariant.                    *)

(* What a step leaves alone that does not talk to the broker. *)
BrokerSame == UNCHANGED <<att, cancelVars, flight, book>>

(* A call that reports what its order permits keeps its invariant. *)
LEMMA ReportingStep ==
  ASSUME TypeOK, NEW t \in Trades, TradeInv(t), pc[t] # "done", BrokerSame,
         reply'[t] = "none", NEW result, Finish(t, result),
         \/ result.status \in {"INSUFFICIENT_VOLUME", "AUTH_EXPIRED"}
         \/ result.code = "INSTRUMENT_NOT_FOUND"
         => Clean(Own(t)),
         result.status = "QUEUED" => result.order = Own(t) /\ Placed(Own(t)),
         result.code = "FILL_STATE_UNKNOWN" => Placed(Own(t))
  PROVE  TradeInv(t)'
<1>1. Own(t)' = Own(t) /\ outcome'[t] = result /\ pc'[t] = "done" /\ att'[t] = att[t]
  BY DEF Own, BrokerSame, Finish, TypeOK
<1>2. Clean(Own(t))' = Clean(Own(t)) /\ Placed(Own(t))' = Placed(Own(t))
  BY <1>1 DEF Clean, Placed, BrokerSame
<1>3. OtherIsClean(t)'
  BY <1>1 DEF TradeInv, OtherIsClean, Clean, Placed, BrokerSame
<1>4. AwaitInv(t)'
  BY <1>1 DEF AwaitInv
<1>5. ReplyInv(t)'
  BY <1>1 DEF ReplyInv
<1>6. ReportInv(t)'
  BY <1>1, <1>2 DEF ReportInv, Refused
<1>7. CancelInv(t)'
  BY <1>1 DEF TradeInv, CancelInv, BrokerSame, cancelVars
<1> QED BY <1>3, <1>4, <1>5, <1>6, <1>7 DEF TradeInv

(* So does a call that goes on to an await its order permits. *)
LEMMA AwaitingStep ==
  ASSUME TypeOK, NEW t \in Trades, TradeInv(t), pc[t] # "done", BrokerSame,
         reply'[t] = "none", outcome' = outcome, pc'[t] # "done",
         pc'[t] \in {"idle", "resolve", "fetch", "probe"} => Clean(Own(t)),
         pc'[t] \in {"positions", "orders", "price"} => Placed(Own(t)),
         pc'[t] = "orders" => "number" \in ack'[t]
  PROVE  TradeInv(t)'
<1>1. Own(t)' = Own(t) /\ att'[t] = att[t]
  BY DEF Own, BrokerSame
<1>2. Clean(Own(t))' = Clean(Own(t)) /\ Placed(Own(t))' = Placed(Own(t))
  BY <1>1 DEF Clean, Placed, BrokerSame
<1>3. OtherIsClean(t)'
  BY <1>1 DEF TradeInv, OtherIsClean, Clean, Placed, BrokerSame
<1>4. AwaitInv(t)'
  BY <1>2 DEF TradeInv, AwaitInv, Unanswered
<1>5. ReplyInv(t)'
  BY DEF ReplyInv
<1>6. ReportInv(t)'
  BY <1>1, <1>2 DEF TradeInv, ReportInv, Refused
<1>7. CancelInv(t)'
  BY <1>1 DEF TradeInv, CancelInv, BrokerSame, cancelVars
<1> QED BY <1>3, <1>4, <1>5, <1>6, <1>7 DEF TradeInv

LEMMA UnansweredSays == Unanswered.status = "pending" /\ Unanswered.code = ""
BY DEF Unanswered, Result

(* Sending the request of an attempt that has placed nothing. *)
LEMMA DispatchingStep ==
  ASSUME TypeOK, FlightInv, NEW t \in Trades, TradeInv(t),
         pc[t] \in {"resolve", "fetch"}, Dispatch(t, att[t]),
         UNCHANGED <<att, cancelVars, book, reply>>
  PROVE  TradeInv(t)' /\ FlightInv'
<1>1. Clean(Own(t)) /\ reply[t] = "none" /\ outcome[t] = Unanswered
  BY DEF TradeInv, AwaitInv, ReplyInv
<1>2. CASE Whole(t)
  <2>1. flight' = flight \cup {Own(t)} /\ pc'[t] = "wait" /\ outcome' = outcome
    BY <1>2 DEF Dispatch, Own, TypeOK
  <2>2. Own(t) = <<t, att[t]>> /\ Own(t)' = Own(t)
    BY DEF Own
  <2>3. OtherIsClean(t)'
    BY <2>1, <2>2 DEF TradeInv, OtherIsClean, Clean, Placed
  <2>4. AwaitInv(t)' /\ ReplyInv(t)'
    BY <1>1, <2>1 DEF AwaitInv, ReplyInv, Unanswered
  <2>5. ReportInv(t)'
    <3>1. outcome'[t].status = "pending" /\ outcome'[t].code = ""
      BY <1>1, <2>1, UnansweredSays
    <3> QED BY <3>1 DEF ReportInv, Refused
  <2>6. CancelInv(t)'
    BY <2>2 DEF TradeInv, CancelInv, cancelVars
  <2>7. FlightInv'
    BY <1>1, <2>1 DEF FlightInv, Clean, Placed
  <2> QED BY <2>3, <2>4, <2>5, <2>6, <2>7 DEF TradeInv
<1>3. CASE ~Whole(t)
  <2>1. Finish(t, Raised) /\ flight' = flight
    BY <1>3 DEF Dispatch
  <2>2. TradeInv(t)'
    BY <1>1, <2>1, ReportingStep DEF BrokerSame, Raised, Result
  <2> QED BY <2>1, <2>2 DEF FlightInv, Placed
<1> QED BY <1>2, <1>3

(* Handling a reply, or the lack of one. *)
LEMMA HandlingStep ==
  ASSUME TypeOK, NEW t \in Trades, TradeInv(t), pc[t] = "wait",
         NEW kind \in Replies, Handle(t, kind), kind \in {reply[t], "neterr"}
  PROVE  TradeInv(t)'
<1>1. BrokerSame /\ reply'[t] = "none"
  BY DEF Handle, BrokerSame, TypeOK
<1>2. kind = "denied" => Clean(Own(t))
  BY DEF TradeInv, ReplyInv, Clean
<1>3. kind = "ok" => Placed(Own(t))
  BY DEF TradeInv, ReplyInv
<1>4. CASE Accepted(t, kind)
  BY <1>1, <1>3, <1>4, AwaitingStep DEF Accepted, Succeeds, TypeOK
<1>5. CASE Denied(t, kind)
  BY <1>1, <1>2, <1>5, AwaitingStep DEF Denied, RbacDenied, TypeOK
<1>6. CASE Failed(t, kind)
  <2>1. /\ Failure(kind).status = "AUTH_EXPIRED" => kind = "denied"
        /\ Failure(kind).status # "QUEUED"
        /\ Failure(kind).status # "INSUFFICIENT_VOLUME"
        /\ Failure(kind).code \notin {"INSTRUMENT_NOT_FOUND", "FILL_STATE_UNKNOWN"}
    <3>1. CASE kind = "denied"
      BY <3>1 DEF Failure, Result
    <3>2. CASE kind = "empty"
      BY <3>2 DEF Failure, Result
    <3>3. CASE kind = "garbled"
      BY <3>3 DEF Failure, Raised, Result
    <3>4. CASE kind \notin {"denied", "empty", "garbled"}
      BY <3>4 DEF Failure, Result
    <3> QED BY <3>1, <3>2, <3>3, <3>4
  <2> QED BY <1>1, <1>2, <1>6, <2>1, ReportingStep DEF Failed
<1> QED BY <1>4, <1>5, <1>6 DEF Handle

(* The end of a probe round of an accepted trade. *)
LEMMA EndOfRoundStep ==
  ASSUME TypeOK, NEW t \in Trades, TradeInv(t), pc[t] \in {"positions", "orders"},
         NEW failed \in BOOLEAN, EndOfRound(t, failed), BrokerSame, reply' = reply
  PROVE  TradeInv(t)'
<1>1. Placed(Own(t)) /\ reply'[t] = "none"
  BY DEF TradeInv, AwaitInv, ReplyInv
<1>2. CASE tries[t] = 0
  BY <1>1, <1>2, AwaitingStep DEF EndOfRound, TypeOK
<1>3. CASE tries[t] # 0
  <2>1. /\ NoMatchLeft(t, failed).status \in {"QUEUED", "AMBIGUOUS"}
        /\ NoMatchLeft(t, failed).code # "INSTRUMENT_NOT_FOUND"
        /\ NoMatchLeft(t, failed).status = "QUEUED" => NoMatchLeft(t, failed).order = Own(t)
    BY DEF NoMatchLeft, Result, AckedOrder
  <2> QED BY <1>1, <1>3, <2>1, ReportingStep DEF EndOfRound
<1> QED BY <1>2, <1>3

LEMMA TradeStepOwn ==
  ASSUME TypeOK, FlightInv, NEW t \in Trades, TradeInv(t), TradeStep(t)
  PROVE  TradeInv(t)' /\ FlightInv'
<1> USE DEF BrokerSame, Result
<1>a. ASSUME UNCHANGED <<flight, book>> PROVE FlightInv'
  BY <1>a DEF FlightInv, Placed
<1>b. /\ pc[t] # "wait" => reply[t] = "none"
      /\ pc[t] \in {"idle", "resolve", "fetch", "probe"} => Clean(Own(t))
      /\ pc[t] \in {"positions", "orders", "price"} => Placed(Own(t))
      /\ t \in DOMAIN pc
  BY DEF TradeInv, AwaitInv, ReplyInv, TypeOK
<1>1. CASE RefuseVolume(t)
  BY <1>1, <1>a, <1>b, ReportingStep DEF RefuseVolume
<1>2. CASE Submit(t)
  BY <1>2, <1>a, <1>b, AwaitingStep DEF Submit
<1>3. CASE Resolved(t)
  <2>1. CASE jwt
    BY <1>3, <2>1, DispatchingStep DEF Resolved
  <2>2. CASE ~jwt
    BY <1>3, <2>2, <1>a, <1>b, AwaitingStep DEF Resolved
  <2> QED BY <2>1, <2>2
<1>4. CASE NotListed(t)
  BY <1>4, <1>a, <1>b, ReportingStep DEF NotListed
<1>5. CASE SearchFails(t)
  BY <1>5, <1>a, <1>b, ReportingStep DEF SearchFails, Raised
<1>6. CASE JwtFails(t)
  BY <1>6, <1>a, <1>b, ReportingStep DEF JwtFails, Raised
<1>7. CASE JwtFetched(t)
  BY <1>7, DispatchingStep DEF JwtFetched
<1>8. CASE Receive(t)
  <2>1. reply[t] \in Replies
    BY <1>8 DEF Receive, TypeOK
  <2> QED BY <1>8, <2>1, <1>a, HandlingStep DEF Receive, Handle
<1>9. CASE NetworkError(t)
  BY <1>9, <1>a, HandlingStep DEF NetworkError, Handle, Replies
<1>10. CASE ProbeFinds(t)
  <2>1. PICK ids \in IdViews :
          \E p \in Matches(t, ids) : Finish(t, Result("FILLED", "", p, p))
    BY <1>10 DEF ProbeFinds
  <2>2. PICK p \in Matches(t, ids) : Finish(t, Result("FILLED", "", p, p))
    BY <2>1
  <2> QED BY <1>10, <2>2, <1>a, <1>b, ReportingStep DEF ProbeFinds
<1>11. CASE Retry(t)
  <2>1. /\ Own(t) = <<t, att[t]>> /\ att[t] \in {1, 2}
        /\ att'[t] = 2 /\ Own(t)' = <<t, 2>> /\ pc'[t] = "fetch"
    BY <1>11 DEF Retry, Own, TypeOK
  <2>2. \A k \in {1, 2} : Clean(<<t, k>>)'
    BY <1>11, <2>1, <1>b DEF Retry, TradeInv, OtherIsClean, Clean, Placed
  <2>3. OtherIsClean(t)'
    BY <2>2 DEF OtherIsClean
  <2>4. AwaitInv(t)' /\ ReplyInv(t)'
    BY <1>11, <1>b, <2>1, <2>2 DEF Retry, TradeInv, AwaitInv, ReplyInv, Unanswered
  <2>5. ReportInv(t)'
    <3>1. outcome'[t].status = "pending" /\ outcome'[t].code = ""
      BY <1>11, UnansweredSays DEF Retry, TradeInv, AwaitInv
    <3> QED BY <3>1 DEF ReportInv, Refused
  <2>6. CancelInv(t)'
    BY <1>11, <1>b DEF Retry, TradeInv, CancelInv, cancelVars, Clean, Placed
  <2> QED BY <1>11, <1>a, <2>3, <2>4, <2>5, <2>6 DEF Retry, TradeInv
<1>12. CASE PositionFound(t)
  BY <1>12, <1>a, <1>b, AwaitingStep DEF PositionFound
<1>13. CASE NoPosition(t)
  <2>1. PICK failed \in BOOLEAN :
          IF "number" \in ack[t]
          THEN pc' = [pc EXCEPT ![t] = "orders"] /\ UNCHANGED <<tries, outcome>>
          ELSE EndOfRound(t, miss[t] \/ failed)
    BY <1>13 DEF NoPosition
  <2>2. (miss[t] \/ failed) \in BOOLEAN
    BY DEF TypeOK
  <2>3. CASE "number" \in ack[t]
    BY <1>13, <2>1, <2>3, <1>a, <1>b, AwaitingStep DEF NoPosition
  <2>4. CASE "number" \notin ack[t]
    BY <1>13, <2>1, <2>2, <2>4, <1>a, EndOfRoundStep DEF NoPosition
  <2> QED BY <2>3, <2>4
<1>14. CASE OrderFound(t)
  <2>1. Placed(Own(t)) /\ AckedOrder(t) = Own(t)
    BY <1>14 DEF OrderFound, TradeInv, AwaitInv, AckedOrder
  <2> QED BY <1>14, <2>1, <1>a, <1>b, ReportingStep DEF OrderFound
<1>15. CASE NoOrder(t)
  <2>1. PICK failed \in BOOLEAN : EndOfRound(t, miss[t] \/ failed)
    BY <1>15 DEF NoOrder
  <2>2. (miss[t] \/ failed) \in BOOLEAN
    BY DEF TypeOK
  <2> QED BY <1>15, <2>1, <2>2, <1>a, EndOfRoundStep DEF NoOrder
<1>16. CASE PriceFound(t)
  <2>1. PICK ids \in IdViews :
          \E p \in Priced(t, ids) : Finish(t, Result("FILLED", "", AckedOrder(t), p))
    BY <1>16 DEF PriceFound
  <2>2. PICK p \in Priced(t, ids) : Finish(t, Result("FILLED", "", AckedOrder(t), p))
    BY <2>1
  <2> QED BY <1>16, <2>2, <1>a, <1>b, ReportingStep DEF PriceFound
<1>17. CASE NoPrice(t)
  <2>1. CASE tries[t] < 2
    BY <1>17, <2>1, <1>a, <1>b, AwaitingStep DEF NoPrice
  <2>2. CASE ~(tries[t] < 2)
    BY <1>17, <2>2, <1>a, <1>b, ReportingStep DEF NoPrice
  <2> QED BY <2>1, <2>2
<1> QED BY <1>1, <1>2, <1>3, <1>4, <1>5, <1>6, <1>7, <1>8, <1>9, <1>10,
          <1>11, <1>12, <1>13, <1>14, <1>15, <1>16, <1>17 DEF TradeStep

-----------------------------------------------------------------------------
(* The steps of cancel_order and of the broker.                             *)

(* A step that leaves the call itself and what the broker holds alone needs *)
(* to respect only what the invariant says of the cancel.                   *)
LEMMA CancellingStep ==
  ASSUME TypeOK, NEW t \in Trades, TradeInv(t), CancelInv(t)',
         UNCHANGED <<clientVars, flight, reply, book>>
  PROVE  TradeInv(t)'
BY DEF TradeInv, OtherIsClean, AwaitInv, ReplyInv, ReportInv, Refused, Clean, Placed,
       Own, clientVars, Unanswered

LEMMA CancelStepKeeps ==
  ASSUME IInv, NEW t \in Trades, CancelStep(t)
  PROVE  FlightInv' /\ \A u \in Trades : TradeInv(u)'
<1> USE DEF IInv
<1>1. UNCHANGED <<clientVars, flight, reply, book>>
  BY DEF CancelStep, CancelOrder, CancelJwtFetched, CancelJwtFails, CancelReceive,
         CancelNetworkError, HandleCancel
<1>2. FlightInv'
  BY <1>1 DEF FlightInv, Placed
<1>3. Own(t)' = Own(t) /\ TradeInv(t) /\ CancelInv(t)
  BY <1>1 DEF Own, clientVars, TradeInv
<1>4. CancelInv(t)'
  <2>1. CASE CancelOrder(t)
    <3>1. pc[t] = "done"
      BY <2>1, UnansweredSays DEF CancelOrder, TradeInv, AwaitInv
    <3> QED BY <1>1, <1>3, <2>1, <3>1
          DEF CancelOrder, SendCancel, CancelInv, clientVars, TypeOK
  <2>2. CASE CancelJwtFetched(t) \/ CancelJwtFails(t)
    BY <1>1, <1>3, <2>2
    DEF CancelJwtFetched, CancelJwtFails, SendCancel, CancelInv, clientVars, TypeOK
  <2>3. ASSUME NEW kind, kind \in {creply[t], "neterr"}, cancel[t] = "wait", HandleCancel(t, kind)
        PROVE CancelInv(t)'
    <3>1. CancelResult(kind) # "no" /\ (CancelResult(kind) = "CANCELLED" => kind = "ok")
      BY Zenon DEF CancelResult, CancelSucceeds
    <3> QED BY <1>1, <1>3, <2>3, <3>1 DEF HandleCancel, CancelInv, clientVars, TypeOK
  <2>4. CASE CancelReceive(t) \/ CancelNetworkError(t)
    BY <2>3, <2>4 DEF CancelReceive, CancelNetworkError
  <2> QED BY <2>1, <2>2, <2>4 DEF CancelStep
<1>5. ASSUME NEW u \in Trades, u # t PROVE CancelInv(u)'
  <2>1. SameCancel(u)
    BY <1>5 DEF CancelStep, CancelOrder, CancelJwtFetched, CancelJwtFails, CancelReceive,
                CancelNetworkError, HandleCancel, SendCancel, SameCancel, TypeOK
  <2> QED BY <1>1, <2>1 DEF SameCancel, TradeInv, CancelInv, clientVars, Own
<1> QED BY <1>1, <1>2, <1>4, <1>5, CancellingStep

(* A request that arrives belongs to the current attempt of its call, which *)
(* has not been answered and is still waited for, or has given up.          *)
LEMMA ArrivingRequest ==
  ASSUME IInv, NEW t \in Trades, NEW k \in {1, 2}, <<t, k>> \in flight
  PROVE  /\ Own(t) = <<t, k>> /\ k = att[t]
         /\ ~Placed(Own(t))
         /\ pc[t] \in {"wait", "done"}
         /\ reply[t] = "none"
<1>1. k = att[t]
  BY DEF IInv, TradeInv, OtherIsClean, Clean
<1>2. Own(t) = <<t, k>>
  BY <1>1 DEF Own
<1>3. ~Placed(Own(t)) /\ ~Clean(Own(t))
  BY <1>2 DEF IInv, FlightInv, Clean
<1>4. pc[t] \in {"wait", "done"} /\ reply[t] = "none"
  BY <1>2, <1>3 DEF IInv, TypeOK, PcValues, TradeInv, AwaitInv, ReplyInv
<1> QED BY <1>1, <1>2, <1>3, <1>4

(* The broker deals with such a request: it takes it or refuses it. *)
LEMMA DealingStep ==
  ASSUME IInv, NEW t \in Trades, <<t, att[t]>> \in flight, NEW kind \in Replies,
         flight' = flight \ {<<t, att[t]>>}, Answer(<<t, att[t]>>, kind),
         UNCHANGED <<clientVars, cancelVars>>,
         NEW s \in BookStates, book' = [book EXCEPT ![<<t, att[t]>>] = s],
         s = "absent" => kind # "ok",
         s # "absent" => kind # "denied"
  PROVE  TradeInv(t)' /\ FlightInv' /\ \A u \in Trades : u # t => TradeInv(u)'
<1> DEFINE o == <<t, att[t]>>
<1>0. att[t] \in {1, 2}
  BY DEF IInv, TypeOK
<1>1. /\ Own(t) = o /\ ~Placed(o) /\ o \in OrderIds
      /\ pc[t] \in {"wait", "done"} /\ reply[t] = "none"
  BY <1>0, ArrivingRequest DEF OrderIds
<1>2. Own(t)' = o /\ att' = att /\ pc' = pc /\ ack' = ack /\ outcome' = outcome
      /\ cancel' = cancel /\ creply' = creply /\ cflight' = cflight
  BY DEF clientVars, cancelVars, Own
<1>3. book'[o] = s /\ o \notin flight' /\ ~Clean(o)
  BY <1>1 DEF IInv, TypeOK, Clean
<1>4. reply'[t] = IF pc[t] = "wait" THEN kind ELSE "none"
  BY <1>1 DEF Answer, IInv, TypeOK, Own
<1>5. OtherIsClean(t)'
  <2> SUFFICES ASSUME NEW k \in {1, 2}, k # att[t] PROVE Clean(<<t, k>>)'
    BY <1>2 DEF OtherIsClean
  <2>1. Clean(<<t, k>>) /\ <<t, k>> # o /\ <<t, k>> \in OrderIds
    BY <1>0 DEF IInv, TradeInv, OtherIsClean, OrderIds
  <2> QED BY <2>1 DEF Clean, Placed, IInv, TypeOK
<1>6. AwaitInv(t)'
  BY <1>1, <1>2 DEF IInv, TradeInv, AwaitInv, Unanswered
<1>7. ReplyInv(t)'
  BY <1>1, <1>2, <1>3, <1>4 DEF ReplyInv, Placed
<1>8. ReportInv(t)'
  BY <1>1, <1>2, <1>3 DEF IInv, TradeInv, ReportInv, Refused, Placed
<1>9. CancelInv(t)'
  BY <1>1, <1>2 DEF IInv, TradeInv, CancelInv, Placed
<1>10. FlightInv'
  BY <1>3 DEF IInv, TypeOK, FlightInv, Placed
<1>11. ASSUME NEW u \in Trades, u # t PROVE TradeInv(u)'
  <2>1. SameCall(u) /\ SameCancel(u)
    BY <1>2 DEF SameCall, SameCancel
  <2>2. SameOrders(u)
    BY <1>11 DEF SameOrders, Answer, IInv, TypeOK, OrderIds
  <2> QED BY <2>1, <2>2, Frame DEF IInv
<1> QED BY <1>5, <1>6, <1>7, <1>8, <1>9, <1>10, <1>11 DEF TradeInv

LEMMA BrokerStepKeeps ==
  ASSUME IInv, ~RbacPlaces, BrokerStep
  PROVE  FlightInv' /\ \A u \in Trades : TradeInv(u)'
<1> DEFINE Goal == FlightInv' /\ \A u \in Trades : TradeInv(u)'
<1>1. ASSUME NEW o \in OrderIds, o \in flight
      PROVE  \E t \in Trades : o = <<t, att[t]>> /\ ~Placed(o)
  <2>1. PICK t \in Trades : \E k \in {1, 2} : o = <<t, k>>
    BY DEF OrderIds
  <2>2. PICK k \in {1, 2} : o = <<t, k>>
    BY <2>1
  <2> QED BY <1>1, <2>2, ArrivingRequest
<1>2. ASSUME NEW o \in OrderIds, BrokerTakes(o) PROVE Goal
  <2>1. PICK t \in Trades : o = <<t, att[t]>> /\ ~Placed(o)
    BY <1>1, <1>2 DEF BrokerTakes
  <2>2. PICK s \in {"open", "queued"} : book' = [book EXCEPT ![o] = s]
    BY <1>2 DEF BrokerTakes
  <2>3. PICK kind \in TakenReplies : Answer(o, kind)
    BY <1>2 DEF BrokerTakes
  <2>4. kind \in Replies /\ kind # "denied" /\ s \in BookStates /\ s # "absent"
    BY DEF TakenReplies, Replies, BookStates
  <2> QED BY <1>2, <2>1, <2>2, <2>3, <2>4, DealingStep DEF BrokerTakes
<1>3. ASSUME NEW o \in OrderIds, BrokerRefuses(o) PROVE Goal
  <2>1. PICK t \in Trades : o = <<t, att[t]>> /\ ~Placed(o)
    BY <1>1, <1>3 DEF BrokerRefuses
  <2>2. PICK kind \in {"denied", "refused", "empty", "untrailed", "garbled"} : Answer(o, kind)
    BY <1>3 DEF BrokerRefuses
  <2>3. book' = [book EXCEPT ![o] = "absent"]
    BY <1>3, <2>1 DEF BrokerRefuses, IInv, TypeOK, Placed
  <2>4. kind \in Replies /\ kind # "ok" /\ "absent" \in BookStates
    BY DEF Replies, BookStates
  <2> QED BY <1>3, <2>1, <2>2, <2>3, <2>4, DealingStep DEF BrokerRefuses
<1>4. ASSUME NEW o \in OrderIds, BrokerFills(o) PROVE Goal
  <2>1. \A p \in OrderIds : Placed(p)' = Placed(p) /\ Clean(p)' = Clean(p)
    BY <1>4 DEF BrokerFills, Placed, Clean, IInv, TypeOK
  <2>2. FlightInv'
    BY <1>4, <2>1 DEF BrokerFills, FlightInv, IInv, TypeOK
  <2>3. ASSUME NEW u \in Trades PROVE TradeInv(u)'
    <3>1. /\ Own(u)' = Own(u) /\ Own(u) \in OrderIds /\ TradeInv(u)
          /\ \A k \in {1, 2} : <<u, k>> \in OrderIds
      BY <1>4, OwnType DEF BrokerFills, clientVars, Own, IInv, OrderIds
    <3>2. OtherIsClean(u)' /\ AwaitInv(u)' /\ ReplyInv(u)' /\ ReportInv(u)'
      BY <1>4, <2>1, <3>1 DEF BrokerFills, TradeInv, OtherIsClean, AwaitInv, ReplyInv,
         ReportInv, Refused, clientVars, Unanswered
    <3>3. CancelInv(u)'
      BY <1>4, <3>1 DEF BrokerFills, TradeInv, CancelInv, clientVars, cancelVars, IInv, TypeOK
    <3> QED BY <3>2, <3>3 DEF TradeInv
  <2> QED BY <2>2, <2>3
<1>5. ASSUME NEW o \in OrderIds, BrokerShows(o) PROVE Goal
  <2>1. \A u \in Trades : SameCall(u) /\ SameCancel(u) /\ SameOrders(u)
    BY <1>5 DEF BrokerShows, SameCall, SameCancel, SameOrders, clientVars, cancelVars
  <2> QED BY <1>5, <2>1, Frame DEF BrokerShows, IInv, FlightInv, Placed
<1>6. ASSUME NEW t \in Trades, BrokerCancels(t) PROVE Goal
  <2>1. Own(t) \in OrderIds
    BY OwnType DEF IInv
  <2>2. \A p \in OrderIds : Placed(p)' = Placed(p) /\ Clean(p)' = Clean(p)
    BY <1>6, <2>1 DEF BrokerCancels, Placed, Clean, IInv, TypeOK
  <2>3. FlightInv'
    BY <1>6, <2>2 DEF BrokerCancels, FlightInv, IInv, TypeOK
  <2>4. ASSUME NEW u \in Trades PROVE TradeInv(u)'
    <3>1. /\ Own(u)' = Own(u) /\ Own(u) \in OrderIds /\ TradeInv(u)
          /\ \A k \in {1, 2} : <<u, k>> \in OrderIds
      BY <1>6, OwnType DEF BrokerCancels, clientVars, Own, IInv, OrderIds
    <3>2. OtherIsClean(u)' /\ AwaitInv(u)' /\ ReplyInv(u)' /\ ReportInv(u)'
      BY <1>6, <2>2, <3>1 DEF BrokerCancels, TradeInv, OtherIsClean, AwaitInv, ReplyInv,
         ReportInv, Refused, clientVars, Unanswered
    <3>3. CASE u = t
      BY <1>6, <2>1, <3>1, <3>2, <3>3
      DEF BrokerCancels, AnswerCancel, TradeInv, CancelInv, clientVars, IInv, TypeOK
    <3>4. CASE u # t
      <4>1. Own(u) # Own(t)
        BY <3>4 DEF Own
      <4> QED BY <1>6, <3>1, <3>2, <3>4, <4>1
            DEF BrokerCancels, AnswerCancel, TradeInv, CancelInv, clientVars, IInv, TypeOK
    <3> QED BY <3>3, <3>4
  <2> QED BY <2>3, <2>4
<1>7. ASSUME NEW t \in Trades, BrokerKeeps(t) PROVE Goal
  <2>1. ASSUME NEW u \in Trades PROVE CancelInv(u)'
    BY <1>7 DEF BrokerKeeps, AnswerCancel, IInv, TypeOK, TradeInv, CancelInv, clientVars, Own
  <2> QED BY <1>7, <2>1, CancellingStep DEF BrokerKeeps, IInv, FlightInv, Placed
<1> QED BY <1>2, <1>3, <1>4, <1>5, <1>6, <1>7 DEF BrokerStep

-----------------------------------------------------------------------------
(* The theorems.  They assume of the broker that it never answers status 7  *)
(* for an order it has placed: without that they are false.                 *)

LEMMA InitIInv == Init => IInv
<1> SUFFICES ASSUME Init PROVE IInv
  OBVIOUS
<1>1. TypeOK
  <2>1. Unanswered \in Results
    BY ResultType DEF Unanswered, Statuses, Codes
  <2> QED BY <2>1 DEF Init, TypeOK, PcValues, BookStates, Cancels
<1>2. FlightInv
  BY DEF Init, FlightInv
<1>3. ASSUME NEW t \in Trades PROVE TradeInv(t)
  <2>1. \A k \in {1, 2} : <<t, k>> \in OrderIds /\ Clean(<<t, k>>)
    BY DEF Init, Clean, Placed, OrderIds
  <2>2. Own(t) = <<t, 1>> /\ Clean(Own(t))
    BY <2>1 DEF Init, Own
  <2>3. OtherIsClean(t)
    BY <2>1 DEF OtherIsClean
  <2>4. AwaitInv(t) /\ ReplyInv(t) /\ CancelInv(t)
    BY <2>2 DEF Init, AwaitInv, ReplyInv, CancelInv
  <2>5. ReportInv(t)
    BY UnansweredSays DEF Init, ReportInv, Refused
  <2> QED BY <2>3, <2>4, <2>5 DEF TradeInv
<1> QED BY <1>1, <1>2, <1>3 DEF IInv

LEMMA NextIInv ==
  ASSUME ~RbacPlaces, IInv, [Next]_vars
  PROVE  IInv'
<1>1. TypeOK'
  BY TypeStep DEF IInv
<1>2. FlightInv' /\ \A u \in Trades : TradeInv(u)'
  <2>1. ASSUME NEW t \in Trades, TradeStep(t)
        PROVE  FlightInv' /\ \A u \in Trades : TradeInv(u)'
    BY <2>1, TradeStepOwn, TradeStepElsewhere, Frame DEF IInv
  <2>2. ASSUME NEW t \in Trades, CancelStep(t)
        PROVE  FlightInv' /\ \A u \in Trades : TradeInv(u)'
    BY <2>2, CancelStepKeeps
  <2>3. CASE BrokerStep
    BY <2>3, BrokerStepKeeps
  <2>4. CASE JwtExpires \/ UNCHANGED vars
    <3>1. \A u \in Trades : SameCall(u) /\ SameCancel(u) /\ SameOrders(u)
      BY <2>4 DEF JwtExpires, vars, SameCall, SameCancel, SameOrders, clientVars, cancelVars
    <3>2. FlightInv'
      BY <2>4 DEF JwtExpires, vars, IInv, FlightInv, Placed
    <3> QED BY <3>1, <3>2, Frame DEF IInv
  <2> QED BY <2>1, <2>2, <2>3, <2>4 DEF Next
<1> QED BY <1>1, <1>2 DEF IInv

(* The inductive invariant holds in every reachable state: at every await   *)
(* of every call, what the code infers about its order from the replies is  *)
(* true of the broker.                                                      *)
THEOREM CallsKnowTheirOrder == ASSUME ~RbacPlaces PROVE Spec => []IInv
BY InitIInv, NextIInv, PTL DEF Spec

(* No call of buy() or sell() leaves two orders at the broker, whatever the *)
(* interleaving, the losses and the expiries of the JWT.                    *)
THEOREM NeverTwoOrders == ASSUME ~RbacPlaces PROVE Spec => []OnePlacement
<1>1. IInv => OnePlacement
  <2> SUFFICES ASSUME IInv, NEW t \in Trades PROVE ~(Placed(<<t, 1>>) /\ Placed(<<t, 2>>))
    BY DEF OnePlacement
  <2>1. att[t] \in {1, 2} /\ OtherIsClean(t)
    BY DEF IInv, TypeOK, TradeInv
  <2> QED BY <2>1 DEF OtherIsClean, Clean
<1> QED BY <1>1, CallsKnowTheirOrder, PTL

(* A result that says no order was accepted is right and stays right. *)
THEOREM RefusalsAreFinal == ASSUME ~RbacPlaces PROVE Spec => []CleanRefusal
<1>1. IInv => CleanRefusal
  <2> SUFFICES ASSUME IInv, NEW t \in Trades, Refused(t), NEW k \in {1, 2}
               PROVE  Clean(<<t, k>>)
    BY DEF CleanRefusal, Refused, Clean
  <2> QED BY DEF IInv, TradeInv, ReportInv, OtherIsClean, Own
<1> QED BY <1>1, CallsKnowTheirOrder, PTL

(* A result that says the trade was accepted is about an order the broker   *)
(* took, and QUEUED names it.                                               *)
THEOREM AcceptanceIsReal == ASSUME ~RbacPlaces PROVE Spec => []AcceptedIsPlaced
<1>1. IInv => AcceptedIsPlaced
  BY DEF IInv, TradeInv, ReportInv, AcceptedIsPlaced
<1> QED BY <1>1, CallsKnowTheirOrder, PTL

(* After CANCELLED no order of the call is live or can become live. *)
THEOREM CancellationIsFinal == ASSUME ~RbacPlaces PROVE Spec => []CancelKills
<1>1. IInv => CancelKills
  <2> SUFFICES ASSUME IInv, NEW t \in Trades, cancel[t] = "CANCELLED", NEW k \in {1, 2}
               PROVE  book[<<t, k>>] \in {"absent", "cancelled"} /\ <<t, k>> \notin flight
    BY DEF CancelKills
  <2>1. CASE k = att[t]
    BY <2>1 DEF IInv, TradeInv, CancelInv, FlightInv, Placed, Own
  <2>2. CASE k # att[t]
    BY <2>2 DEF IInv, TradeInv, OtherIsClean, Clean, Placed
  <2> QED BY <2>1, <2>2
<1> QED BY <1>1, CallsKnowTheirOrder, PTL
=============================================================================
