------------------------------- MODULE Trade -------------------------------
(***************************************************************************)
(* Placing and cancelling market orders: XTBClient.buy/sell/cancel_order   *)
(* (src/xtb_api/client.py) over GrpcClient.execute_order/cancel_orders     *)
(* (src/xtb_api/grpc/client.py), and the broker they talk to.              *)
(*                                                                         *)
(* Every call of buy() or sell() is one asyncio task, a member of Trades.  *)
(* The tasks share the cached JWT and the broker.  A call sends at most    *)
(* two NewMarketOrder requests; the k-th request of call t is the order    *)
(* <<t, k>> at the broker.  The await points of the code are the values of *)
(* pc, so what runs between two awaits is one action.                      *)
(***************************************************************************)
EXTENDS Integers, FiniteSets

CONSTANTS
  Trades,       \* the calls of buy() and sell()
  Strangers,    \* open positions no call of Trades opened
  Symbols,      \* instrument symbols, letter case folded
  Req,          \* what a call asks for, and what a stranger's position is
  Listing,      \* the symbols a search for a symbol can hit
  RbacPlaces,   \* may the broker place an order and still answer status 7?
  SnapshotLag,  \* may a fresh position be missing from getPositions?
  IdsAlways,    \* do replies and snapshots always carry the order ids?
  None          \* no instrument, no order, no price

Requests == [symbol : Symbols, side : {"buy", "sell"}, volume : Int]
OrderIds == Trades \X {1, 2}

ASSUME TradeAssumption ==
  /\ Req \in [Trades \cup Strangers -> Requests]
  /\ Listing \in [Symbols -> SUBSET Symbols]
  /\ RbacPlaces \in BOOLEAN
  /\ SnapshotLag \in BOOLEAN
  /\ IdsAlways \in BOOLEAN
  /\ Trades \cap Strangers = {}
  /\ Strangers \cap OrderIds = {}
  /\ None \notin Symbols \cup Strangers \cup OrderIds

VARIABLES
  pc,       \* pc[t]: the await call t is suspended at
  att,      \* att[t]: which of its two execute_order calls t is in
  inst,     \* inst[t]: the instrument _resolve_instrument_id chose
  ack,      \* ack[t]: what an accepted reply carried: "id", "number"
  tries,    \* tries[t]: probe rounds, then price polls, done so far
  miss,     \* miss[t]: has a probe raised (last_exc is set)?
  outcome,  \* outcome[t]: the TradeResult, or the exception, of t
  cancel,   \* cancel[t]: progress and result of cancel_order for t
  jwt,      \* is a JWT that has not expired cached in the GrpcClient?
  flight,   \* NewMarketOrder requests on their way to the broker
  reply,    \* reply[t]: what came back for the request t waits for
  cflight,  \* DeleteOrders requests on their way, by call
  creply,   \* creply[t]: what came back for the cancel of t
  book,     \* book[o]: the state of order o at the broker
  shown     \* the open positions of Trades that getPositions returns

clientVars == <<pc, att, inst, ack, tries, miss, outcome>>
cancelVars == <<cancel, cflight, creply>>
vars == <<clientVars, cancelVars, jwt, flight, reply, book, shown>>

Own(t) == <<t, att[t]>>

-----------------------------------------------------------------------------
(* Results. *)

Result(status, code, order, price) ==
  [status |-> status, code |-> code, order |-> order, price |-> price]

Unanswered == Result("pending", "", None, None)
Raised == Result("RAISED", "", None, None)

Statuses == {"pending", "RAISED", "FILLED", "QUEUED", "REJECTED", "AMBIGUOUS",
             "INSUFFICIENT_VOLUME", "AUTH_EXPIRED"}
Codes == {"", "INSUFFICIENT_VOLUME", "INSTRUMENT_NOT_FOUND", "RBAC_DENIED",
          "AMBIGUOUS_NO_RESPONSE", "FILL_STATE_UNKNOWN", "FILL_PRICE_UNKNOWN"}
Positions == Strangers \cup OrderIds
Results == [status : Statuses, code : Codes,
            order : Positions \cup {None}, price : Positions \cup {None}]

Finish(t, result) ==
  /\ pc' = [pc EXCEPT ![t] = "done"]
  /\ outcome' = [outcome EXCEPT ![t] = result]

-----------------------------------------------------------------------------
(* Volumes are in tenths of a share: int(volume + 0.5) is (v + 5) \div 10. *)

Rounded(v) == (v + 5) \div 10
TooSmall(t) == Rounded(Req[t].volume) < 1
Whole(t) == Req[t].volume % 10 = 0

(* execute_order once it holds a JWT: the request is encoded and sent.  The *)
(* varint encoder raises on a volume that is not an integer.                *)
Dispatch(t, k) ==
  IF Whole(t)
  THEN /\ pc' = [pc EXCEPT ![t] = "wait"]
       /\ flight' = flight \cup {<<t, k>>}
       /\ UNCHANGED outcome
  ELSE Finish(t, Raised) /\ UNCHANGED flight

RefuseVolume(t) ==
  /\ pc[t] = "idle"
  /\ TooSmall(t)
  /\ Finish(t, Result("INSUFFICIENT_VOLUME", "INSUFFICIENT_VOLUME", None, None))
  /\ UNCHANGED <<att, inst, ack, tries, miss, cancelVars, jwt, flight, reply, book, shown>>

Submit(t) ==
  /\ pc[t] = "idle"
  /\ ~TooSmall(t)
  /\ pc' = [pc EXCEPT ![t] = "resolve"]
  /\ UNCHANGED <<att, inst, ack, tries, miss, outcome, cancelVars, jwt, flight, reply, book, shown>>

(* _resolve_instrument_id: the exact symbol if the search returned it, else *)
(* the first hit.  The order of the hits is the broker's.                   *)
Choices(s, hits) == IF s \in hits THEN {s} ELSE hits

Resolved(t) ==
  /\ pc[t] = "resolve"
  /\ \E hits \in SUBSET Listing[Req[t].symbol] :
       \E s \in Choices(Req[t].symbol, hits) : inst' = [inst EXCEPT ![t] = s]
  /\ IF jwt
     THEN Dispatch(t, att[t])
     ELSE pc' = [pc EXCEPT ![t] = "fetch"] /\ UNCHANGED <<flight, outcome>>
  /\ UNCHANGED <<att, ack, tries, miss, cancelVars, jwt, reply, book, shown>>

NotListed(t) ==
  /\ pc[t] = "resolve"
  /\ Finish(t, Result("REJECTED", "INSTRUMENT_NOT_FOUND", None, None))
  /\ UNCHANGED <<att, inst, ack, tries, miss, cancelVars, jwt, flight, reply, book, shown>>

SearchFails(t) ==
  /\ pc[t] = "resolve"
  /\ Finish(t, Raised)
  /\ UNCHANGED <<att, inst, ack, tries, miss, cancelVars, jwt, flight, reply, book, shown>>

(* _ensure_jwt with nothing cached: get_jwt stores the new JWT and the      *)
(* request goes out, or the authentication error leaves execute_order.      *)
JwtFetched(t) ==
  /\ pc[t] = "fetch"
  /\ jwt' = TRUE
  /\ Dispatch(t, att[t])
  /\ UNCHANGED <<att, inst, ack, tries, miss, cancelVars, reply, book, shown>>

JwtFails(t) ==
  /\ pc[t] = "fetch"
  /\ Finish(t, Raised)
  /\ UNCHANGED <<att, inst, ack, tries, miss, cancelVars, jwt, flight, reply, book, shown>>

JwtExpires ==
  /\ jwt
  /\ jwt' = FALSE
  /\ UNCHANGED <<clientVars, cancelVars, flight, reply, book, shown>>

-----------------------------------------------------------------------------
(* What execute_order makes of a reply.  "untrailed" is a body whose        *)
(* grpc-status trailer is missing, "garbled" one that cannot be decoded     *)
(* (not base64, or a truncated field), "neterr" any httpx.HTTPError: a      *)
(* time-out, a lost answer, an HTTP status.                                 *)

Replies == {"ok", "denied", "refused", "empty", "untrailed", "garbled", "neterr"}

(* Mutant: a missing trailer counts as status 0. *)
TrailerOptional(kind) == kind \in {"ok", "untrailed"}
(* Mutant: any failure without a trailer is retried like a denial. *)
RetriesUntrailed(kind) == kind \in {"denied", "untrailed"}
(* Mutant: a network error is taken for an expired session. *)
TimeoutIsDenial(kind) ==
  CASE kind \in {"denied", "neterr"} -> Result("AUTH_EXPIRED", "RBAC_DENIED", None, None)
    [] kind = "empty"   -> Result("AMBIGUOUS", "AMBIGUOUS_NO_RESPONSE", None, None)
    [] kind = "garbled" -> Raised
    [] OTHER            -> Result("REJECTED", "", None, None)

Succeeds(kind) == kind = "ok"
RbacDenied(kind) == kind = "denied"

(* What a failed GrpcTradeResult, or an exception, becomes for the caller.  *)
Failure(kind) ==
  CASE kind = "denied"  -> Result("AUTH_EXPIRED", "RBAC_DENIED", None, None)
    [] kind = "empty"   -> Result("AMBIGUOUS", "AMBIGUOUS_NO_RESPONSE", None, None)
    [] kind = "garbled" -> Raised
    [] OTHER            -> Result("REJECTED", "", None, None)

(* What the data frame of an accepted reply may yield.                      *)
AckParts == {parts \in SUBSET {"id", "number"} : IdsAlways => "id" \in parts}

Accepted(t, kind) ==
  /\ Succeeds(kind)
  /\ \E parts \in AckParts : ack' = [ack EXCEPT ![t] = parts]
  /\ pc' = [pc EXCEPT ![t] = "positions"]
  /\ UNCHANGED outcome

Denied(t, kind) ==
  /\ RbacDenied(kind)
  /\ att[t] = 1
  /\ pc' = [pc EXCEPT ![t] = "probe"]
  /\ UNCHANGED <<ack, outcome>>

Failed(t, kind) ==
  /\ ~Succeeds(kind)
  /\ RbacDenied(kind) => att[t] = 2
  /\ Finish(t, Failure(kind))
  /\ UNCHANGED ack

Handle(t, kind) ==
  /\ Accepted(t, kind) \/ Denied(t, kind) \/ Failed(t, kind)
  /\ reply' = [reply EXCEPT ![t] = "none"]
  /\ UNCHANGED <<att, inst, tries, miss, cancelVars, jwt, flight, book, shown>>

Receive(t) ==
  /\ pc[t] = "wait"
  /\ reply[t] # "none"
  /\ Handle(t, reply[t])

NetworkError(t) ==
  /\ pc[t] = "wait"
  /\ Handle(t, "neterr")

-----------------------------------------------------------------------------
(* Snapshots of the open positions, and finding one's own among them.       *)

(* What a position looks like in a snapshot, whoever opened it. *)
Looks(p) ==
  IF p \in Strangers THEN Req[p]
  ELSE [Req[p[1]] EXCEPT !.symbol = inst[p[1]]]

Snapshot == Strangers \cup shown

(* The positions of a snapshot whose order id is populated. *)
IdViews == IF IdsAlways THEN {Snapshot} ELSE SUBSET Snapshot

(* _lookup_by_order_id: is a look-up by id meaningful, and what it finds.   *)
Decided(t, ids) == "id" \in ack[t] /\ ids # {}
ById(t, ids) == ids \cap {Own(t)}

(* Mutant: side and volume, or the order id, are not compared. *)
SameSymbol(t, ids) == {p \in Snapshot : Looks(p).symbol = Req[t].symbol}

(* _match_position: the positions that may be returned; {} is None.         *)
Matches(t, ids) ==
  IF Decided(t, ids) THEN ById(t, ids)
  ELSE {p \in Snapshot : Looks(p) = Req[t]}

(* _poll_fill_price: by id, else the first position of the same symbol.     *)
Priced(t, ids) ==
  IF Decided(t, ids) THEN ById(t, ids)
  ELSE {p \in Snapshot : Looks(p).symbol = Req[t].symbol}

-----------------------------------------------------------------------------
(* After a denial: the idempotency probe, then the retry with a fresh JWT.  *)

ProbeFinds(t) ==
  /\ pc[t] = "probe"
  /\ \E ids \in IdViews : \E p \in Matches(t, ids) :
       Finish(t, Result("FILLED", "", p, p))
  /\ UNCHANGED <<att, inst, ack, tries, miss, cancelVars, jwt, flight, reply, book, shown>>

(* No match, or get_positions raised: invalidate_jwt and execute_order.     *)
Retry(t) ==
  /\ pc[t] = "probe"
  /\ jwt' = FALSE
  /\ att' = [att EXCEPT ![t] = 2]
  /\ pc' = [pc EXCEPT ![t] = "fetch"]
  /\ UNCHANGED <<inst, ack, tries, miss, outcome, cancelVars, flight, reply, book, shown>>

-----------------------------------------------------------------------------
(* _classify_accepted_trade: positions, then orders, twice.                 *)

(* A probe either answers that it found nothing or raises.  With a match in *)
(* every snapshot it can only have raised.                                  *)
CanMiss(t) == \E ids \in IdViews : Matches(t, ids) = {}

(* The order that order_id and order_number of the result name.             *)
AckedOrder(t) == IF ack[t] # {} THEN Own(t) ELSE None

(* What is left to do once both probes of a round are done. *)
NoMatchLeft(t, failed) ==
  IF ~failed /\ "number" \in ack[t]
  THEN Result("QUEUED", "", AckedOrder(t), None)
  ELSE Result("AMBIGUOUS", "FILL_STATE_UNKNOWN", AckedOrder(t), None)

(* Mutant: the second round is not the last one. *)
AnotherRound(t, failed) ==
  pc' = [pc EXCEPT ![t] = "positions"] /\ UNCHANGED <<tries, outcome>>

EndOfRound(t, failed) ==
  IF tries[t] = 0
  THEN /\ pc' = [pc EXCEPT ![t] = "positions"]
       /\ tries' = [tries EXCEPT ![t] = 1]
       /\ UNCHANGED outcome
  ELSE Finish(t, NoMatchLeft(t, failed)) /\ UNCHANGED tries

PositionFound(t) ==
  /\ pc[t] = "positions"
  /\ \E ids \in IdViews : Matches(t, ids) # {}
  /\ pc' = [pc EXCEPT ![t] = "price"]
  /\ tries' = [tries EXCEPT ![t] = 0]
  /\ UNCHANGED <<att, inst, ack, miss, outcome, cancelVars, jwt, flight, reply, book, shown>>

NoPosition(t) ==
  /\ pc[t] = "positions"
  /\ \E failed \in BOOLEAN :
       /\ ~failed => CanMiss(t)
       /\ miss' = [miss EXCEPT ![t] = miss[t] \/ failed]
       /\ IF "number" \in ack[t]
          THEN pc' = [pc EXCEPT ![t] = "orders"] /\ UNCHANGED <<tries, outcome>>
          ELSE EndOfRound(t, miss[t] \/ failed)
  /\ UNCHANGED <<att, inst, ack, cancelVars, jwt, flight, reply, book, shown>>

(* getAllOrders may or may not list an order that waits for its market.     *)
OrderFound(t) ==
  /\ pc[t] = "orders"
  /\ book[Own(t)] = "queued"
  /\ Finish(t, Result("QUEUED", "", AckedOrder(t), None))
  /\ UNCHANGED <<att, inst, ack, tries, miss, cancelVars, jwt, flight, reply, book, shown>>

NoOrder(t) ==
  /\ pc[t] = "orders"
  /\ \E failed \in BOOLEAN :
       /\ miss' = [miss EXCEPT ![t] = miss[t] \/ failed]
       /\ EndOfRound(t, miss[t] \/ failed)
  /\ UNCHANGED <<att, inst, ack, cancelVars, jwt, flight, reply, book, shown>>

PriceFound(t) ==
  /\ pc[t] = "price"
  /\ \E ids \in IdViews : \E p \in Priced(t, ids) :
       Finish(t, Result("FILLED", "", AckedOrder(t), p))
  /\ UNCHANGED <<att, inst, ack, tries, miss, cancelVars, jwt, flight, reply, book, shown>>

(* Mutant: one poll too many. *)
PollsOnceMore(t) ==
  /\ pc[t] = "price"
  /\ IF tries[t] <= 2
     THEN tries' = [tries EXCEPT ![t] = @ + 1] /\ UNCHANGED <<pc, outcome>>
     ELSE /\ Finish(t, Result("FILLED", "FILL_PRICE_UNKNOWN", AckedOrder(t), None))
          /\ UNCHANGED tries
  /\ UNCHANGED <<att, inst, ack, miss, cancelVars, jwt, flight, reply, book, shown>>

NoPrice(t) ==
  /\ pc[t] = "price"
  /\ IF tries[t] < 2
     THEN tries' = [tries EXCEPT ![t] = @ + 1] /\ UNCHANGED <<pc, outcome>>
     ELSE /\ Finish(t, Result("FILLED", "FILL_PRICE_UNKNOWN", AckedOrder(t), None))
          /\ UNCHANGED tries
  /\ UNCHANGED <<att, inst, ack, miss, cancelVars, jwt, flight, reply, book, shown>>

-----------------------------------------------------------------------------
(* cancel_order(result.order_number), called by the user of a result that   *)
(* carries a number.                                                        *)

Cancels == {"no", "fetch", "wait", "CANCELLED", "AMBIGUOUS", "REJECTED", "RAISED"}
CancelReplies == {"ok", "denied", "refused", "empty", "garbled", "neterr"}

SendCancel(t) ==
  /\ cancel' = [cancel EXCEPT ![t] = "wait"]
  /\ cflight' = cflight \cup {t}

CancelOrder(t) ==
  /\ cancel[t] = "no"
  /\ outcome[t].status \in {"FILLED", "QUEUED", "AMBIGUOUS"}
  /\ "number" \in ack[t]
  /\ IF jwt THEN SendCancel(t)
     ELSE cancel' = [cancel EXCEPT ![t] = "fetch"] /\ UNCHANGED cflight
  /\ UNCHANGED <<clientVars, jwt, flight, reply, creply, book, shown>>

CancelJwtFetched(t) ==
  /\ cancel[t] = "fetch"
  /\ jwt' = TRUE
  /\ SendCancel(t)
  /\ UNCHANGED <<clientVars, flight, reply, creply, book, shown>>

CancelJwtFails(t) ==
  /\ cancel[t] = "fetch"
  /\ cancel' = [cancel EXCEPT ![t] = "RAISED"]
  /\ UNCHANGED <<clientVars, jwt, flight, cflight, reply, creply, book, shown>>

(* _parse_cancel_response and cancel_order: success is status 0 together    *)
(* with a data frame for the order.                                         *)
(* Mutant: no acknowledgement of the order is asked for. *)
CancelUnacknowledged(kind) == kind \in {"ok", "empty"}

CancelSucceeds(kind) == kind = "ok"
CancelResult(kind) ==
  CASE CancelSucceeds(kind)             -> "CANCELLED"
    [] kind \in {"empty", "neterr"}     -> "AMBIGUOUS"
    [] kind = "garbled"                 -> "RAISED"
    [] OTHER                            -> "REJECTED"

HandleCancel(t, kind) ==
  /\ cancel' = [cancel EXCEPT ![t] = CancelResult(kind)]
  /\ creply' = [creply EXCEPT ![t] = "none"]
  /\ UNCHANGED <<clientVars, jwt, flight, cflight, reply, book, shown>>

CancelReceive(t) ==
  /\ cancel[t] = "wait"
  /\ creply[t] # "none"
  /\ HandleCancel(t, creply[t])

CancelNetworkError(t) ==
  /\ cancel[t] = "wait"
  /\ HandleCancel(t, "neterr")

-----------------------------------------------------------------------------
(* The broker.  It answers a request whether or not somebody still waits.   *)

Answer(o, kind) ==
  reply' = IF pc[o[1]] = "wait" /\ Own(o[1]) = o
           THEN [reply EXCEPT ![o[1]] = kind] ELSE reply

TakenReplies ==
  {"ok", "empty", "untrailed", "garbled"} \cup (IF RbacPlaces THEN {"denied"} ELSE {})

BrokerTakes(o) ==
  /\ o \in flight
  /\ flight' = flight \ {o}
  /\ \E s \in {"open", "queued"} :
       /\ book' = [book EXCEPT ![o] = s]
       /\ shown' = IF s = "open" /\ ~SnapshotLag THEN shown \cup {o} ELSE shown
  /\ \E kind \in TakenReplies : Answer(o, kind)
  /\ UNCHANGED <<clientVars, cancelVars, jwt>>

BrokerRefuses(o) ==
  /\ o \in flight
  /\ flight' = flight \ {o}
  /\ \E kind \in {"denied", "refused", "empty", "untrailed", "garbled"} : Answer(o, kind)
  /\ UNCHANGED <<clientVars, cancelVars, jwt, book, shown>>

(* The market opens for an order that waited for it. *)
BrokerFills(o) ==
  /\ book[o] = "queued"
  /\ book' = [book EXCEPT ![o] = "open"]
  /\ shown' = IF SnapshotLag THEN shown ELSE shown \cup {o}
  /\ UNCHANGED <<clientVars, cancelVars, jwt, flight, reply>>

BrokerShows(o) ==
  /\ book[o] = "open"
  /\ o \notin shown
  /\ shown' = shown \cup {o}
  /\ UNCHANGED <<clientVars, cancelVars, jwt, flight, reply, book>>

AnswerCancel(t, kind) ==
  creply' = IF cancel[t] = "wait" THEN [creply EXCEPT ![t] = kind] ELSE creply

BrokerCancels(t) ==
  /\ t \in cflight
  /\ cflight' = cflight \ {t}
  /\ book[Own(t)] = "queued"
  /\ book' = [book EXCEPT ![Own(t)] = "cancelled"]
  /\ \E kind \in {"ok", "empty", "garbled"} : AnswerCancel(t, kind)
  /\ UNCHANGED <<clientVars, cancel, jwt, flight, reply, shown>>

BrokerKeeps(t) ==
  /\ t \in cflight
  /\ cflight' = cflight \ {t}
  /\ \E kind \in {"denied", "refused", "empty", "garbled"} : AnswerCancel(t, kind)
  /\ UNCHANGED <<clientVars, cancel, jwt, flight, reply, book, shown>>

-----------------------------------------------------------------------------
Init ==
  /\ pc = [t \in Trades |-> "idle"]
  /\ att = [t \in Trades |-> 1]
  /\ inst = [t \in Trades |-> None]
  /\ ack = [t \in Trades |-> {}]
  /\ tries = [t \in Trades |-> 0]
  /\ miss = [t \in Trades |-> FALSE]
  /\ outcome = [t \in Trades |-> Unanswered]
  /\ cancel = [t \in Trades |-> "no"]
  /\ jwt \in BOOLEAN
  /\ flight = {}
  /\ reply = [t \in Trades |-> "none"]
  /\ cflight = {}
  /\ creply = [t \in Trades |-> "none"]
  /\ book = [o \in OrderIds |-> "absent"]
  /\ shown = {}

(* The steps of one buy() or sell().  Each await in them ends: the network  *)
(* calls by an answer or a time-out, the sleeps by themselves.              *)
TradeStep(t) ==
  \/ RefuseVolume(t) \/ Submit(t)
  \/ Resolved(t) \/ NotListed(t) \/ SearchFails(t)
  \/ JwtFetched(t) \/ JwtFails(t)
  \/ Receive(t) \/ NetworkError(t)
  \/ ProbeFinds(t) \/ Retry(t)
  \/ PositionFound(t) \/ NoPosition(t)
  \/ OrderFound(t) \/ NoOrder(t)
  \/ PriceFound(t) \/ NoPrice(t)

CancelStep(t) ==
  \/ CancelOrder(t) \/ CancelJwtFetched(t) \/ CancelJwtFails(t)
  \/ CancelReceive(t) \/ CancelNetworkError(t)

BrokerStep ==
  \/ \E o \in OrderIds : BrokerTakes(o) \/ BrokerRefuses(o) \/ BrokerFills(o) \/ BrokerShows(o)
  \/ \E t \in Trades : BrokerCancels(t) \/ BrokerKeeps(t)

Next ==
  \/ \E t \in Trades : TradeStep(t) \/ CancelStep(t)
  \/ BrokerStep
  \/ JwtExpires

Spec == Init /\ [][Next]_vars
FairSpec == Spec /\ \A t \in Trades : WF_vars(TradeStep(t))

-----------------------------------------------------------------------------
(* Properties. *)

PcValues == {"idle", "resolve", "fetch", "wait", "probe",
             "positions", "orders", "price", "done"}
BookStates == {"absent", "queued", "open", "cancelled"}

(* Every variable has its type (the model's counterpart of the annotations  *)
(* of client.py); tries stays within the two rounds and three polls.        *)
TypeOK ==
  /\ pc \in [Trades -> PcValues]
  /\ att \in [Trades -> {1, 2}]
  /\ inst \in [Trades -> Symbols \cup {None}]
  /\ ack \in [Trades -> SUBSET {"id", "number"}]
  /\ tries \in [Trades -> 0 .. 2]
  /\ miss \in [Trades -> BOOLEAN]
  /\ outcome \in [Trades -> Results]
  /\ cancel \in [Trades -> Cancels]
  /\ jwt \in BOOLEAN
  /\ flight \subseteq OrderIds
  /\ reply \in [Trades -> Replies \cup {"none"}]
  /\ cflight \subseteq Trades
  /\ creply \in [Trades -> CancelReplies \cup {"none"}]
  /\ book \in [OrderIds -> BookStates]
  /\ shown \subseteq OrderIds

Placed(o) == book[o] # "absent"

(* One call of buy() or sell() never leaves two orders at the broker: the   *)
(* retry of _execute_trade is only sent when the first request is known to  *)
(* have placed nothing.                                                     *)
OnePlacement == \A t \in Trades : ~(Placed(<<t, 1>>) /\ Placed(<<t, 2>>))

(* A result that says no order was accepted is right and stays right: after *)
(* INSUFFICIENT_VOLUME, INSTRUMENT_NOT_FOUND or AUTH_EXPIRED no request of  *)
(* the call is at the broker or can still reach it.                         *)
CleanRefusal ==
  \A t \in Trades :
    \/ outcome[t].status \in {"INSUFFICIENT_VOLUME", "AUTH_EXPIRED"}
    \/ outcome[t].code = "INSTRUMENT_NOT_FOUND"
    => \A k \in {1, 2} : <<t, k>> \notin flight /\ ~Placed(<<t, k>>)

(* QUEUED, and AMBIGUOUS after an accepted reply, are only said of an order *)
(* the broker did take, and QUEUED names that order, so that cancel_order   *)
(* can be given its number.                                                 *)
AcceptedIsPlaced ==
  \A t \in Trades :
    /\ outcome[t].status = "QUEUED" => outcome[t].order = Own(t) /\ Placed(Own(t))
    /\ outcome[t].code = "FILL_STATE_UNKNOWN" => Placed(Own(t))

(* FILLED is never said out of thin air: either the broker took the order   *)
(* of this call, or the position the result names is open and has the       *)
(* symbol, side and volume of the request (_match_position in the probe     *)
(* that follows a denial).                                                  *)
IsOpen(p) == p \in Strangers \/ (p \in OrderIds /\ book[p] = "open")

FilledIsBacked ==
  \A t \in Trades :
    outcome[t].status = "FILLED" =>
      \/ Placed(Own(t))
      \/ IsOpen(outcome[t].order) /\ Looks(outcome[t].order) = Req[t]

(* Once cancel_order says CANCELLED, no order of the call is live and none  *)
(* can become live, the one of the first attempt included.                  *)
CancelKills ==
  \A t \in Trades :
    cancel[t] = "CANCELLED" =>
      \A k \in {1, 2} : book[<<t, k>>] \in {"absent", "cancelled"} /\ <<t, k>> \notin flight

(* Where ids are populated, a fill that was classified from an accepted     *)
(* reply is the call's own position, at its own price, however many         *)
(* identical or same-symbol positions there are.                            *)
FilledIsOwn ==
  \A t \in Trades :
    outcome[t].status = "FILLED" /\ ack[t] # {} =>
      /\ book[Own(t)] = "open"
      /\ outcome[t].order = Own(t)
      /\ outcome[t].price \in {Own(t), None}

(* A call that has started reports, whatever the broker and the network do. *)
EveryTradeReports == \A t \in Trades : pc[t] = "resolve" ~> pc[t] = "done"

-----------------------------------------------------------------------------
(* The promise of the trading calls that this module implements.            *)

(* Two orders of one call are none that TradePromise knows. *)
OrderOf(t) ==
  CASE Placed(<<t, 1>>) /\ Placed(<<t, 2>>) -> "two"
    [] Placed(<<t, 1>>) /\ ~Placed(<<t, 2>>) -> book[<<t, 1>>]
    [] ~Placed(<<t, 1>>) /\ Placed(<<t, 2>>) -> book[<<t, 2>>]
    [] OTHER -> "none"

SaidOf(t) ==
  CASE outcome[t] = Unanswered -> "nothing"
    [] outcome[t].status \in {"INSUFFICIENT_VOLUME", "AUTH_EXPIRED"}
         \/ outcome[t].code = "INSTRUMENT_NOT_FOUND" -> "refused"
    [] outcome[t].status = "QUEUED" \/ outcome[t].code = "FILL_STATE_UNKNOWN" -> "taken"
    [] OTHER -> "unknown"

Orders == [t \in Trades |-> OrderOf(t)]
Said == [t \in Trades |-> SaidOf(t)]
Cancelled == [t \in Trades |-> cancel[t] = "CANCELLED"]

Promise == INSTANCE TradePromise WITH
  Calls <- Trades, order <- Orders, said <- Said, cancelled <- Cancelled

(* Every step of the calls, of the network and of the broker is a step of   *)
(* the promise, or none: reports are final, a retry, a late request or a    *)
(* race with a cancellation never makes an order that the promise excludes. *)
KeepsPromise == Promise!Spec

-----------------------------------------------------------------------------
(* What the documentation says of outcomes and the code does not keep.      *)

(* REJECTED means that the broker refused: no order of the call is placed   *)
(* (types/trading.py, TradeOutcome).                                        *)
NoFalseRejection ==
  \A t \in Trades : outcome[t].status = "REJECTED" => ~Placed(Own(t))
=============================================================================
