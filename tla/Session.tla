------------------------------ MODULE Session ------------------------------
(***************************************************************************)
(* The JWT of GrpcClient (src/xtb_api/grpc/client.py) over the TGT of      *)
(* Auth: one manager serves the service tickets of the WebSocket and the   *)
(* access tokens of the trading calls.  What a trading call does with the  *)
(* answer to its order is in Trade.  Times are distances from now, as in   *)
(* Auth; a JWT is the time the server will still honour it.  Nothing keeps *)
(* a JWT from dying while the order it goes with is under way: the server  *)
(* then denies the order with status 7.                                    *)
(***************************************************************************)
EXTENDS Auth

CONSTANTS
  JwtLife,   \* life of a JWT at the server
  JwtValid   \* _JWT_VALIDITY_SEC

NoJwt == -1

(* A JWT is used for no longer than it lives, five minutes both in the code *)
(* and at the server, and a request takes less time than that.              *)
ASSUME JwtAssumption ==
  /\ JwtLife \in Nat /\ JwtValid \in Nat
  /\ JwtValid <= JwtLife
  /\ MaxDelay < JwtValid

VARIABLES
  jwt,     \* _jwt
  age,     \* how long ago _jwt_timestamp was
  began,   \* began[c]: how long ago c read the clock, before it fetches a JWT
  token    \* token[c]: the JWT of c's order, as it was when the order was sent

jwtVars == <<jwt, age>>
localVars == <<began, token>>
vars == <<authVars, jwtVars, localVars>>

-----------------------------------------------------------------------------
(* A call that is over forgets its locals. *)
Locals(f, none) == [c \in Traders |-> IF pc'[c] \in {"idle", "refused"} THEN none ELSE f[c]]
Forget ==
  /\ began' = Locals(began, 0)
  /\ token' = Locals(token, NoJwt)

Order(c, j) ==
  /\ pc' = [pc EXCEPT ![c] = "order"]
  /\ held' = [held EXCEPT ![c] = NoTgt]
  /\ waited' = [waited EXCEPT ![c] = 0]
  /\ token' = [token EXCEPT ![c] = j]
  /\ began' = [began EXCEPT ![c] = 0]
  /\ UNCHANGED <<tgtVars, browserVars, refused>>

Valid == jwt # NoJwt /\ age < JwtValid

(* _ensure_jwt finds a JWT that is young enough. *)
ReuseJwt(c) ==
  /\ pc[c] = "idle"
  /\ Valid
  /\ Order(c, jwt)
  /\ UNCHANGED <<cacheVars, jwtVars>>

(* It finds none: get_jwt reads the clock, then awaits the TGT. *)
RequestJwt(c) ==
  /\ pc[c] = "idle"
  /\ ~Valid
  /\ GetTgt(c, cached, file)
  /\ began' = [began EXCEPT ![c] = 0]
  /\ UNCHANGED <<tgtVars, browserVars, refused, jwtVars, token>>

(* Mutant: the age of the JWT is counted from its receipt. *)
AgeOnReceipt(c) == 0
AgeOnReturn(c) == began[c]

(* CreateAccessToken yields a JWT, made since the request was sent. *)
JwtReceived(c) ==
  /\ pc[c] = "token"
  /\ \E ago \in 0 .. waited[c] : jwt' = JwtLife - ago /\ Order(c, JwtLife - ago)
  /\ age' = AgeOnReturn(c)
  /\ UNCHANGED cacheVars

(* The network fails. *)
JwtFails(c) ==
  /\ pc[c] = "token"
  /\ Finish({c})
  /\ Forget
  /\ UNCHANGED <<tgtVars, cacheVars, browserVars, jwtVars>>

(* The answer holds no JWT: the server does not accept the TGT any more,    *)
(* and AuthenticationError says so.                                         *)
JwtRefused(c) ==
  /\ pc[c] = "token"
  /\ pc' = [pc EXCEPT ![c] = "refused"]
  /\ waited' = [waited EXCEPT ![c] = 0]
  /\ Forget
  /\ UNCHANGED <<held, refused, tgtVars, cacheVars, browserVars, jwtVars>>

Raise(c) ==
  /\ pc[c] = "refused"
  /\ Finish({c})
  /\ Forget
  /\ UNCHANGED <<tgtVars, cacheVars, browserVars, jwtVars>>

OrderEnds(c) ==
  /\ pc[c] = "order"
  /\ Finish({c})
  /\ Forget
  /\ UNCHANGED <<tgtVars, cacheVars, browserVars, jwtVars>>

(* Status 7: invalidate_jwt. *)
OrderDenied(c) ==
  /\ pc[c] = "order"
  /\ Finish({c})
  /\ jwt' = NoJwt /\ age' = 0
  /\ Forget
  /\ UNCHANGED <<tgtVars, cacheVars, browserVars>>

Disconnect ==
  /\ jwt' = NoJwt /\ age' = 0
  /\ UNCHANGED <<authVars, localVars>>

ProcessDies ==
  /\ Crash
  /\ jwt' = NoJwt /\ age' = 0
  /\ Forget

ManagerStep ==
  /\ AuthStep
  /\ Forget
  /\ UNCHANGED jwtVars

(* Ages are counted to the life of a JWT; one that old is not used again. *)
Older(n) == IF n < JwtLife THEN n + 1 ELSE n
TimePasses ==
  /\ Tick
  /\ jwt' = IF jwt = NoJwt \/ Older(age) = JwtLife THEN NoJwt ELSE Less(jwt)
  /\ age' = IF jwt = NoJwt \/ Older(age) = JwtLife THEN 0 ELSE Older(age)
  /\ began' = [c \in Traders |-> IF pc[c] \in {"idle", "refused", "order"} THEN 0 ELSE Older(began[c])]
  /\ token' = [c \in Traders |-> IF pc[c] = "order" THEN token[c] ELSE NoJwt]

-----------------------------------------------------------------------------
Init ==
  /\ AuthInit
  /\ jwt = NoJwt
  /\ age = 0
  /\ began = [c \in Traders |-> 0]
  /\ token = [c \in Traders |-> NoJwt]

TraderStep(c) == JwtReceived(c) \/ JwtFails(c) \/ JwtRefused(c) \/ Raise(c) \/ OrderEnds(c) \/ OrderDenied(c)

Next ==
  \/ ManagerStep
  \/ \E c \in Traders : ReuseJwt(c) \/ RequestJwt(c) \/ TraderStep(c)
  \/ Disconnect
  \/ TimePasses
  \/ ProcessDies

Spec == Init /\ [][Next]_vars

(* Every await of a call of the manager ends: HTTP calls and the browser's  *)
(* waits have time-outs, and the event loop resumes what is ready.  This is *)
(* weak fairness of the steps of a call, written out: a call that is not    *)
(* over can always step, and every step of it changes its pc.               *)
Stepping(c) == pc[c] # "idle" /\ pc'[c] # pc[c]
FairSpec == Spec /\ \A c \in Ticketers : []<>(pc[c] = "idle") \/ []<><<Stepping(c)>>_vars

-----------------------------------------------------------------------------
(* Every variable has its type. *)
TypeOK ==
  /\ AuthTypeOK
  /\ jwt \in Nat \cup {NoJwt}
  /\ age \in Nat
  /\ began \in [Traders -> Nat]
  /\ token \in [Traders -> Nat \cup {NoJwt}]

(* No order is sent with a JWT that the server has stopped honouring:       *)
(* _JWT_VALIDITY_SEC and the clock read before the fetch keep a shared JWT  *)
(* young, whoever fetched it last, however late its answer came.  It may    *)
(* still die before the order arrives.                                      *)
JwtIsAlive ==
  \A c \in Traders : pc[c] = "order" => token[c] > 0

(* Every get_service_ticket ends, whatever the servers refuse and whoever   *)
(* shares the manager: the fallbacks, the code and the retry are tried once.*)
EveryCallReports ==
  \A c \in Ticketers : pc[c] # "idle" ~> pc[c] = "idle"

(* The chain runs again when the TGT is not valid any more: one that        *)
(* CreateAccessToken has refused is not kept for the next call.             *)
RefreshIsTransparent ==
  \A c \in Traders : pc[c] = "refused" => cached # held[c]
=============================================================================
