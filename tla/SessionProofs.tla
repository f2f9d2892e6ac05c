--------------------------- MODULE SessionProofs ---------------------------
(* Theorems about Session, for all callers, delays, lives and margins that  *)
(* satisfy the assumptions of Auth and Session.                             *)
EXTENDS Session, TLAPS

-----------------------------------------------------------------------------
(* The inductive invariant.  Of a TGT: the client may believe in it longer  *)
(* than the server, but by no more than its late receipt.  Of a call with a *)
(* TGT on its way: what is left of the TGT's life covers what is left of    *)
(* the delay.  Of a JWT: what it has lived is within its counted age.       *)

NotTooLong == \A t \in Tgts : trust[t] <= life[t] + MaxDelay

CallInv(c) ==
  /\ pc[c] \in {"ticket", "token"} =>
       /\ held[c] \in Tgts
       /\ life[held[c]] + waited[c] > MaxDelay
       /\ waited[c] <= MaxDelay
  /\ pc[c] = "idle" => refused[c] = NoTgt
  /\ pc[c] = "ticket" => held[c] # refused[c]

CallTypes ==
  /\ pc \in [Callers -> {"idle", "v2", "v1", "browser", "totp", "otp", "2fa", "refused"} \cup WithToken]
  /\ held \in [Callers -> Tgts \cup {NoTgt}]
  /\ waited \in [Callers -> Nat]
  /\ refused \in [Callers -> Tgts \cup {NoTgt}]

AuthInv == AuthTypeOK /\ NotTooLong /\ \A c \in Callers : CallInv(c)

TraderInv(c) ==
  /\ pc[c] = "token" => began[c] >= waited[c]
  /\ pc[c] = "order" =>
       /\ token[c] \in Nat
       /\ token[c] > JwtLife - JwtValid
       /\ waited[c] <= MaxDelay

JwtInv ==
  /\ jwt \in Nat \cup {NoJwt}
  /\ age \in 0 .. JwtLife
  /\ began \in [Traders -> 0 .. JwtLife]
  /\ token \in [Traders -> Nat \cup {NoJwt}]
  /\ jwt # NoJwt => jwt + age >= JwtLife
  /\ \A c \in Traders : TraderInv(c)

IInv == AuthInv /\ JwtInv

(* What a step of the manager leaves of the traders' calls: it may hand one *)
(* a TGT, and it does not touch what is on its way.                         *)
Calm ==
  \A c \in Traders :
    /\ pc'[c] = "token" => \/ waited'[c] = 0
                           \/ pc[c] = "token" /\ waited'[c] = waited[c]
    /\ pc'[c] = "order" => pc[c] = "order" /\ waited'[c] = waited[c]

-----------------------------------------------------------------------------
(* The pieces the actions share. *)

LEMMA FinishKeeps ==
  ASSUME AuthInv, NEW D \in SUBSET Callers, Finish(D),
         \A t \in Named \ {NoTgt} : life'[t] = life[t]
  PROVE  /\ CallTypes'
         /\ \A c \in Callers : CallInv(c)'
         /\ Calm
<1>1. CallTypes'
  BY DEF CallTypes, AuthInv, AuthTypeOK, Finish
<1>2. ASSUME NEW c \in Callers
      PROVE  CallInv(c)'
  <2>1. CASE c \in D
    BY <2>1 DEF Finish, CallInv
  <2>2. CASE c \notin D
    <3>1. pc'[c] = pc[c] /\ held'[c] = held[c] /\ waited'[c] = waited[c] /\ refused'[c] = refused[c]
      BY <2>2 DEF Finish
    <3>2. CallInv(c)
      BY DEF AuthInv
    <3>3. pc[c] \in {"ticket", "token"} => life'[held[c]] = life[held[c]]
      BY <3>2 DEF CallInv, Named, Tgts, NoTgt
    <3> QED BY <3>1, <3>2, <3>3 DEF CallInv
  <2> QED BY <2>1, <2>2
<1>3. Calm
  BY DEF Calm, Finish, Callers
<1> QED BY <1>1, <1>2, <1>3

(* A TGT that lives long enough is handed to some calls. *)
LEMMA UseKeeps ==
  ASSUME AuthInv, NEW D \in SUBSET Callers, NEW t \in Tgts, Use(D, t), UNCHANGED refused,
         life' \in [Tgts -> Nat], life'[t] > MaxDelay,
         \A c \in D : pc'[c] = "ticket" => refused[c] # t,
         \A u \in Named \ {NoTgt} : life'[u] = life[u]
  PROVE  /\ CallTypes'
         /\ \A c \in Callers : CallInv(c)'
         /\ Calm
<1>1. CallTypes'
  BY DEF CallTypes, AuthInv, AuthTypeOK, Use, WithToken
<1>2. ASSUME NEW c \in Callers
      PROVE  CallInv(c)'
  <2>1. CASE c \in D
    <3>1. pc'[c] \in {"ticket", "token"} /\ held'[c] = t /\ waited'[c] = 0 /\ refused'[c] = refused[c]
      BY <2>1 DEF Use
    <3> QED BY <2>1, <3>1, AuthAssumption DEF CallInv
  <2>2. CASE c \notin D
    <3>1. pc'[c] = pc[c] /\ held'[c] = held[c] /\ waited'[c] = waited[c] /\ refused'[c] = refused[c]
      BY <2>2 DEF Use
    <3>2. CallInv(c)
      BY DEF AuthInv
    <3>3. pc[c] \in {"ticket", "token"} => life'[held[c]] = life[held[c]]
      BY <3>2 DEF CallInv, Named, Tgts, NoTgt
    <3> QED BY <3>1, <3>2, <3>3 DEF CallInv
  <2> QED BY <2>1, <2>2
<1>3. Calm
  BY DEF Calm, Use, Callers
<1> QED BY <1>1, <1>2, <1>3

(* c goes on, and sends no token. *)
LEMMA AwaitKeeps ==
  ASSUME AuthInv, NEW c \in Callers, NEW next \in {"v2", "v1", "browser", "totp", "otp", "2fa"},
         Await(c, next), UNCHANGED tgtVars
  PROVE  /\ CallTypes'
         /\ \A d \in Callers : CallInv(d)'
         /\ Calm
  BY DEF CallTypes, AuthInv, AuthTypeOK, Await, CallInv, Calm, Callers, tgtVars

-----------------------------------------------------------------------------
(* get_tgt and _cache_tgt. *)

LEMMA FreshLives ==
  ASSUME AuthInv, NEW t, Fresh(t)
  PROVE  t \in Tgts /\ life[t] > MaxDelay
BY AuthAssumption, MarginAssumption DEF AuthInv, AuthTypeOK, NotTooLong, Fresh

LEMMA GetTgtKeeps ==
  ASSUME AuthInv, NEW c \in Callers,
         NEW mem \in Tgts \cup {NoTgt}, NEW f \in Tgts \cup {NoTgt},
         GetTgt(c, mem, f), UNCHANGED <<tgtVars, browserVars>>,
         \/ UNCHANGED refused /\ refused[c] = NoTgt
         \/ /\ refused' = [refused EXCEPT ![c] = held[c]]
            /\ mem = NoTgt /\ f = NoTgt /\ held[c] \in Tgts
  PROVE  AuthInv' /\ Calm
<1> DEFINE t == IF Fresh(mem) THEN mem ELSE IF Fresh(f) THEN f ELSE NoTgt
<1>1. /\ file' = f
      /\ IF t = NoTgt
         THEN /\ cached' = mem
              /\ pc' = [pc EXCEPT ![c] = "v2"]
              /\ held' = [held EXCEPT ![c] = NoTgt]
              /\ waited' = [waited EXCEPT ![c] = 0]
         ELSE cached' = t /\ Use({c}, t)
  BY Zenon DEF GetTgt
<1>2. t \in Tgts \cup {NoTgt} /\ (t # NoTgt => Fresh(t))
  OBVIOUS
<1>3. life' = life /\ trust' = trust /\ browser' = browser /\ page' = page
  BY DEF tgtVars, browserVars
<1>4. CASE t = NoTgt
  <2>1. /\ pc' = [pc EXCEPT ![c] = "v2"]
        /\ held' = [held EXCEPT ![c] = NoTgt]
        /\ waited' = [waited EXCEPT ![c] = 0]
        /\ cached' = mem /\ file' = f
    BY <1>1, <1>4
  <2>2. AuthTypeOK'
    BY <1>3, <2>1 DEF AuthInv, AuthTypeOK
  <2>3. ASSUME NEW d \in Callers PROVE CallInv(d)'
    BY <1>3, <2>1 DEF AuthInv, AuthTypeOK, CallInv
  <2>4. Calm
    BY <2>1 DEF Calm, Callers, AuthInv, AuthTypeOK
  <2> QED BY <1>3, <2>2, <2>3, <2>4 DEF AuthInv, NotTooLong
<1>5. CASE t # NoTgt
  <2> HIDE DEF t
  <2>1. t \in Tgts /\ life[t] > MaxDelay
    BY <1>2, <1>5, FreshLives
  <2>2. cached' = t /\ file' = f /\ Use({c}, t)
    BY <1>1, <1>5
  <2>3. UNCHANGED refused /\ refused[c] = NoTgt
    BY <1>2, <1>5 DEF Fresh, Tgts, NoTgt, t
  <2>4. refused[c] # t
    BY <2>1, <2>3 DEF Tgts, NoTgt
  <2>5. life' \in [Tgts -> Nat]
    BY <1>3 DEF AuthInv, AuthTypeOK
  <2>6. /\ CallTypes'
        /\ \A d \in Callers : CallInv(d)'
        /\ Calm
    BY <1>3, <2>1, <2>2, <2>3, <2>4, <2>5, UseKeeps
  <2> QED BY <1>3, <2>1, <2>2, <2>6 DEF CallTypes, AuthInv, AuthTypeOK, NotTooLong
<1> QED BY <1>4, <1>5

LEMMA ReceiveKeeps ==
  ASSUME AuthInv, NEW D \in SUBSET Callers, Receive(D),
         browser' \in Callers \cup {None, Closed}, page' \in [Callers -> Callers \cup {None}]
  PROVE  AuthInv' /\ Calm
<1>1. PICK t \in Tgts \ Named :
        /\ \E late \in 0 .. MaxDelay : life' = [life EXCEPT ![t] = TgtLife - late]
        /\ trust' = [trust EXCEPT ![t] = TgtLife]
        /\ cached' = t
        /\ \/ file' = (IF SessionFile THEN t ELSE file) /\ Use(D, t) /\ UNCHANGED refused
           \/ SessionFile /\ file' \in {file, NoTgt} /\ Finish(D)
  BY DEF Receive
<1>2. PICK late \in 0 .. MaxDelay : life' = [life EXCEPT ![t] = TgtLife - late]
  BY <1>1
<1>3. TgtLife \in Nat /\ MaxDelay \in Nat /\ 2 * MaxDelay < TgtLife
  BY AuthAssumption, MarginAssumption
<1>4. TgtLife - late \in Nat /\ TgtLife - late > MaxDelay /\ TgtLife <= TgtLife - late + MaxDelay
  BY <1>2, <1>3
<1>5. /\ life' \in [Tgts -> Nat] /\ trust' \in [Tgts -> Nat] /\ life'[t] > MaxDelay
      /\ \A u \in Named \ {NoTgt} : life'[u] = life[u]
  BY <1>1, <1>2, <1>3, <1>4 DEF AuthInv, AuthTypeOK
<1>6. NotTooLong'
  BY <1>1, <1>2, <1>3, <1>4 DEF AuthInv, AuthTypeOK, NotTooLong
<1>7. \A c \in D : refused[c] # t
  BY <1>1 DEF Named
<1>8. cached' \in Tgts \cup {NoTgt} /\ file' \in Tgts \cup {NoTgt}
  BY <1>1 DEF AuthInv, AuthTypeOK
<1>9. /\ CallTypes'
      /\ \A c \in Callers : CallInv(c)'
      /\ Calm
  <2>1. CASE Use(D, t) /\ UNCHANGED refused
    BY <1>5, <1>7, <2>1, UseKeeps
  <2>2. CASE Finish(D)
    BY <1>5, <2>2, FinishKeeps
  <2> QED BY <1>1, <2>1, <2>2
<1> QED BY <1>5, <1>6, <1>8, <1>9 DEF CallTypes, AuthInv, AuthTypeOK

-----------------------------------------------------------------------------
(* The steps of the manager. *)

LEMMA BrowserTypes ==
  ASSUME AuthInv, NEW b \in Callers, NEW D \in SUBSET Callers
  PROVE  /\ browser \in Callers \cup {None, Closed}
         /\ page \in [Callers -> Callers \cup {None}]
         /\ Close(b) => browser' \in Callers \cup {None, Closed}
         /\ LeavePage(D, b) => page' \in [Callers -> Callers \cup {None}]
BY DEF AuthInv, AuthTypeOK, Close, LeavePage

LEMMA EndKeeps ==
  ASSUME AuthInv, NEW D \in SUBSET Callers, Finish(D), UNCHANGED tgtVars,
         cached' \in Tgts \cup {NoTgt}, file' \in Tgts \cup {NoTgt},
         browser' \in Callers \cup {None, Closed}, page' \in [Callers -> Callers \cup {None}]
  PROVE  AuthInv' /\ Calm
BY FinishKeeps DEF CallTypes, AuthInv, AuthTypeOK, NotTooLong, tgtVars

LEMMA GoOnKeeps ==
  ASSUME AuthInv, NEW c \in Callers, NEW next \in {"v2", "v1", "browser", "totp", "otp", "2fa"},
         Await(c, next), UNCHANGED <<tgtVars, cacheVars>>,
         browser' \in Callers \cup {None, Closed}, page' \in [Callers -> Callers \cup {None}]
  PROVE  AuthInv' /\ Calm
BY AwaitKeeps DEF CallTypes, AuthInv, AuthTypeOK, NotTooLong, tgtVars, cacheVars

LEMMA LoginStepKeeps ==
  ASSUME AuthInv, NEW c \in Callers, LoginStep(c)
  PROVE  AuthInv' /\ Calm
<1>0. /\ cached \in Tgts \cup {NoTgt} /\ file \in Tgts \cup {NoTgt}
      /\ browser \in Callers \cup {None, Closed}
      /\ page \in [Callers -> Callers \cup {None}]
  BY DEF AuthInv, AuthTypeOK
<1>1. CASE Unauthorized(c) \/ NoCode(c) \/ NoPage(c)
  BY <1>0, <1>1, EndKeeps DEF Unauthorized, NoCode, NoPage, cacheVars, browserVars
<1>2. CASE FallBackToV1(c) \/ Challenged(c) \/ SubmitByRest(c)
  BY <1>0, <1>2, GoOnKeeps DEF FallBackToV1, Challenged, SubmitByRest, browserVars
<1>3. CASE FallBackToBrowser(c)
  BY <1>0, <1>3, GoOnKeeps DEF FallBackToBrowser
<1>4. CASE SubmitToBrowser(c)
  BY <1>0, <1>4, GoOnKeeps DEF SubmitToBrowser
<1>5. CASE BrowserFails(c)
  BY <1>0, <1>5, EndKeeps, BrowserTypes DEF BrowserFails, cacheVars
<1>6. CASE CodeRefused(c)
  <2>1. CASE page[c] = None
    BY <1>0, <1>6, <2>1, EndKeeps DEF CodeRefused, cacheVars, browserVars
  <2>2. CASE page[c] # None
    <3>1. page[c] \in Callers
      BY <1>0, <2>2
    <3> QED BY <1>0, <1>6, <2>2, <3>1, EndKeeps, BrowserTypes DEF CodeRefused, cacheVars
  <2> QED BY <2>1, <2>2
<1>7. CASE LoginSucceeds(c)
  BY <1>0, <1>7, ReceiveKeeps DEF LoginSucceeds, browserVars
<1>8. CASE BrowserSucceeds(c)
  BY <1>0, <1>8, ReceiveKeeps, BrowserTypes DEF BrowserSucceeds
<1> QED BY <1>1, <1>2, <1>3, <1>4, <1>5, <1>6, <1>7, <1>8 DEF LoginStep

LEMMA RequestTicketKeeps ==
  ASSUME AuthInv, NEW c \in Callers, pc[c] = "idle", GetTgt(c, cached, file),
         UNCHANGED <<tgtVars, browserVars, refused>>
  PROVE  AuthInv' /\ Calm
<1>1. cached \in Tgts \cup {NoTgt} /\ file \in Tgts \cup {NoTgt}
  BY DEF AuthInv, AuthTypeOK
<1>2. refused[c] = NoTgt
  BY DEF AuthInv, CallInv
<1> QED BY <1>1, <1>2, GetTgtKeeps

LEMMA AuthStepKeeps ==
  ASSUME AuthInv, AuthStep
  PROVE  AuthInv' /\ Calm
<1>0. /\ cached \in Tgts \cup {NoTgt} /\ file \in Tgts \cup {NoTgt}
      /\ browser \in Callers \cup {None, Closed}
      /\ page \in [Callers -> Callers \cup {None}]
  BY DEF AuthInv, AuthTypeOK
<1>1. ASSUME NEW c \in Callers, LoginStep(c)
      PROVE  AuthInv' /\ Calm
  BY <1>1, LoginStepKeeps
<1>2. ASSUME NEW c \in Callers, RequestTicket(c)
      PROVE  AuthInv' /\ Calm
  BY <1>2, RequestTicketKeeps DEF RequestTicket
<1>3. ASSUME NEW c \in Callers, TicketStep(c)
      PROVE  AuthInv' /\ Calm
  <2>1. CASE TicketEnds(c) \/ RefusedAgain(c)
    BY <1>0, <1>3, <2>1, EndKeeps DEF TicketEnds, RefusedAgain, cacheVars, browserVars
  <2>2. CASE TicketRefused(c)
    <3>1. held[c] \in Tgts
      BY <2>2 DEF TicketRefused, AuthInv, CallInv
    <3> QED BY <2>2, <3>1, GetTgtKeeps DEF TicketRefused, Dropped
  <2> QED BY <1>3, <2>1, <2>2 DEF TicketStep
<1>4. ASSUME NEW b \in Callers, PageYields(b)
      PROVE  AuthInv' /\ Calm
  <2>1. PICK D \in SUBSET {c \in Callers : pc[c] = "otp" /\ page[c] = b} :
               Receive(D) /\ LeavePage(D, b)
    BY <1>4 DEF PageYields
  <2>2. browser' = None /\ D \in SUBSET Callers
    BY <1>4 DEF PageYields
  <2> QED BY <2>1, <2>2, ReceiveKeeps, BrowserTypes
<1>5. CASE Invalidate
  <2>1. /\ cached' = NoTgt /\ file' = NoTgt /\ life' = life /\ trust' = trust
        /\ browser' = browser /\ page' = page
        /\ pc' = pc /\ held' = held /\ waited' = waited /\ refused' = refused
    BY <1>5 DEF Invalidate, Dropped, tgtVars, browserVars, callVars
  <2>2. AuthInv'
    BY <2>1 DEF AuthInv, AuthTypeOK, NotTooLong, CallInv
  <2> QED BY <2>1, <2>2 DEF Calm
<1> QED BY <1>1, <1>2, <1>3, <1>4, <1>5 DEF AuthStep

(* The manager's part of a restart and of the clock. *)
LEMMA CrashKeeps ==
  ASSUME AuthInv, Crash
  PROVE  AuthInv' /\ Calm
<1>1. /\ Finish(Callers) /\ UNCHANGED tgtVars
      /\ cached' = NoTgt /\ file' \in {file, NoTgt} /\ browser' = None
      /\ page' = [c \in Callers |-> None]
  BY DEF Crash
<1> QED BY <1>1, EndKeeps DEF AuthInv, AuthTypeOK

LEMMA TickKeeps ==
  ASSUME AuthInv, Tick
  PROVE  AuthInv'
<1> USE AuthAssumption DEF AuthInv, AuthTypeOK
<1>1. /\ \A c \in Callers : pc[c] \in WithToken => waited[c] < MaxDelay
      /\ waited' = [c \in Callers |-> IF pc[c] \in WithToken THEN waited[c] + 1 ELSE 0]
      /\ life' = [t \in Tgts |-> IF t \in Named THEN Less(life[t]) ELSE 0]
      /\ trust' = [t \in Tgts |-> IF t \in Named THEN Less(trust[t]) ELSE 0]
      /\ UNCHANGED <<cached, file, browser, page, pc, held, refused>>
  BY DEF Tick, cacheVars, browserVars
<1>2. AuthTypeOK'
  <2>1. waited' \in [Callers -> Nat]
    BY <1>1
  <2>2. life' \in [Tgts -> Nat] /\ trust' \in [Tgts -> Nat]
    BY <1>1 DEF Less
  <2> QED BY <1>1, <2>1, <2>2
<1>3. NotTooLong'
  BY <1>1 DEF NotTooLong, Less
<1>4. ASSUME NEW c \in Callers
      PROVE  CallInv(c)'
  <2>1. CallInv(c)
    OBVIOUS
  <2>2. CASE pc[c] \in {"ticket", "token"}
    <3>1. held[c] \in Named /\ held[c] \in Tgts
      BY <2>1, <2>2 DEF CallInv, Named
    <3>2. life[held[c]] + waited[c] > MaxDelay /\ waited[c] < MaxDelay
      BY <1>1, <2>1, <2>2 DEF CallInv, WithToken
    <3>3. life'[held[c]] = life[held[c]] - 1 /\ waited'[c] = waited[c] + 1
      BY <1>1, <2>2, <3>1, <3>2 DEF Less, WithToken
    <3>4. life[held[c]] \in Nat /\ waited[c] \in Nat
      BY <3>1
    <3>5. life'[held[c]] + waited'[c] > MaxDelay /\ waited'[c] <= MaxDelay
      BY <3>2, <3>3, <3>4
    <3> QED BY <1>1, <2>1, <2>2, <3>1, <3>5 DEF CallInv
  <2>3. CASE pc[c] \notin {"ticket", "token"}
    BY <1>1, <2>1, <2>3 DEF CallInv
  <2> QED BY <2>2, <2>3
<1> QED BY <1>2, <1>3, <1>4

-----------------------------------------------------------------------------
(* The JWT. *)

(* What stays of the traders' calls when the JWT does, or is forgotten.     *)
LEMMA ForgetKeeps ==
  ASSUME IInv, AuthInv', Calm, Forget, UNCHANGED jwtVars \/ (jwt' = NoJwt /\ age' = 0)
  PROVE  JwtInv'
<1>1. \A c \in Traders : /\ began'[c] = IF pc'[c] \in {"idle", "refused"} THEN 0 ELSE began[c]
                         /\ token'[c] = IF pc'[c] \in {"idle", "refused"} THEN NoJwt ELSE token[c]
  BY DEF Forget, Locals
<1>2. /\ jwt' \in Nat \cup {NoJwt} /\ age' \in 0 .. JwtLife
      /\ jwt' # NoJwt => jwt' + age' >= JwtLife
  BY JwtAssumption DEF IInv, JwtInv, jwtVars
<1>3. /\ began' \in [Traders -> 0 .. JwtLife]
      /\ token' \in [Traders -> Nat \cup {NoJwt}]
  <2>1. 0 \in 0 .. JwtLife
    BY JwtAssumption
  <2> QED BY <2>1 DEF Forget, Locals, IInv, JwtInv
<1>4. ASSUME NEW c \in Traders
      PROVE  TraderInv(c)'
  <2>1. TraderInv(c) /\ began[c] \in 0 .. JwtLife
    BY DEF IInv, JwtInv
  <2>2. pc'[c] = "token" => began'[c] >= waited'[c]
    BY <1>1, <2>1, JwtAssumption DEF Calm, TraderInv
  <2>3. pc'[c] = "order" => pc[c] = "order" /\ token'[c] = token[c] /\ waited'[c] = waited[c]
    BY <1>1 DEF Calm
  <2> QED BY <2>1, <2>2, <2>3 DEF TraderInv
<1> QED BY <1>2, <1>3, <1>4 DEF JwtInv

(* An order goes out with a JWT that is alive. *)
LEMMA OrderKeeps ==
  ASSUME IInv, NEW c \in Traders, NEW j \in Nat, Order(c, j), j > JwtLife - JwtValid,
         UNCHANGED cacheVars,
         jwt' \in Nat, age' \in 0 .. JwtLife, jwt' + age' >= JwtLife
  PROVE  IInv'
<1> USE AuthAssumption, JwtAssumption DEF IInv
<1>1. /\ pc' = [pc EXCEPT ![c] = "order"]
      /\ held' = [held EXCEPT ![c] = NoTgt]
      /\ waited' = [waited EXCEPT ![c] = 0]
      /\ token' = [token EXCEPT ![c] = j]
      /\ began' = [began EXCEPT ![c] = 0]
      /\ UNCHANGED <<life, trust, browser, page, refused, cached, file>>
  BY DEF Order, tgtVars, browserVars, cacheVars
<1>2. c \in Callers
  BY DEF Callers
<1>3. AuthTypeOK'
  BY <1>1 DEF AuthInv, AuthTypeOK, WithToken
<1>4. \A d \in Callers : CallInv(d)'
  BY <1>1 DEF AuthInv, AuthTypeOK, CallInv
<1>5. AuthInv'
  BY <1>1, <1>3, <1>4 DEF AuthInv, NotTooLong
<1>6. /\ began' \in [Traders -> 0 .. JwtLife]
      /\ token' \in [Traders -> Nat \cup {NoJwt}]
  BY <1>1 DEF JwtInv
<1>7. ASSUME NEW d \in Traders
      PROVE  TraderInv(d)'
  <2>1. d \in Callers /\ TraderInv(d)
    BY DEF Callers, JwtInv
  <2> QED BY <1>1, <1>2, <2>1 DEF TraderInv, AuthInv, AuthTypeOK, JwtInv
<1> QED BY <1>5, <1>6, <1>7 DEF JwtInv

LEMMA TraderStepKeeps ==
  ASSUME IInv, NEW c \in Traders, TraderStep(c)
  PROVE  IInv'
<1> USE AuthAssumption, JwtAssumption
<1>0. /\ c \in Callers
      /\ cached \in Tgts \cup {NoTgt} /\ file \in Tgts \cup {NoTgt}
      /\ browser \in Callers \cup {None, Closed}
      /\ page \in [Callers -> Callers \cup {None}]
  BY DEF Callers, IInv, AuthInv, AuthTypeOK
<1>1. CASE JwtReceived(c)
  <2>1. PICK ago \in 0 .. waited[c] : jwt' = JwtLife - ago /\ Order(c, JwtLife - ago)
    BY <1>1 DEF JwtReceived
  <2>2. /\ pc[c] = "token" /\ age' = began[c] /\ UNCHANGED cacheVars
    BY <1>1 DEF JwtReceived, AgeOnReturn
  <2>3. /\ waited[c] \in Nat /\ waited[c] <= MaxDelay /\ began[c] >= waited[c]
        /\ began[c] \in 0 .. JwtLife
    BY <1>0, <2>2 DEF IInv, AuthInv, AuthTypeOK, CallInv, JwtInv, TraderInv
  <2>4. /\ JwtLife - ago \in Nat /\ JwtLife - ago > JwtLife - JwtValid
        /\ jwt' + age' >= JwtLife
    BY <2>1, <2>2, <2>3
  <2> QED BY <2>1, <2>2, <2>3, <2>4, OrderKeeps
<1>2. CASE JwtFails(c) \/ Raise(c) \/ OrderEnds(c)
  <2>1. /\ Finish({c}) /\ Forget /\ UNCHANGED <<tgtVars, cacheVars, browserVars, jwtVars>>
    BY <1>2 DEF JwtFails, Raise, OrderEnds
  <2>2. AuthInv' /\ Calm
    BY <1>0, <2>1, EndKeeps DEF IInv, cacheVars, browserVars
  <2> QED BY <2>1, <2>2, ForgetKeeps DEF IInv
<1>3. CASE OrderDenied(c)
  <2>1. AuthInv' /\ Calm
    BY <1>0, <1>3, EndKeeps DEF OrderDenied, IInv, cacheVars, browserVars
  <2> QED BY <1>3, <2>1, ForgetKeeps DEF OrderDenied, IInv
<1>4. CASE JwtRefused(c)
  <2>1. /\ pc' = [pc EXCEPT ![c] = "refused"]
        /\ waited' = [waited EXCEPT ![c] = 0]
        /\ UNCHANGED <<life, trust, cached, file, browser, page, held, refused>>
        /\ Forget /\ UNCHANGED jwtVars
    BY <1>4 DEF JwtRefused, tgtVars, cacheVars, browserVars
  <2>2. AuthTypeOK'
    BY <2>1 DEF IInv, AuthInv, AuthTypeOK
  <2>3. AuthInv'
    BY <2>1, <2>2 DEF IInv, AuthInv, AuthTypeOK, NotTooLong, CallInv
  <2>4. Calm
    BY <1>0, <2>1 DEF Calm, Callers, IInv, AuthInv, AuthTypeOK
  <2> QED BY <2>1, <2>3, <2>4, ForgetKeeps DEF IInv
<1> QED BY <1>1, <1>2, <1>3, <1>4 DEF TraderStep

LEMMA TimePassesKeeps ==
  ASSUME IInv, TimePasses
  PROVE  IInv'
<1> USE AuthAssumption, JwtAssumption DEF IInv
<1>1. AuthInv'
  BY TickKeeps DEF TimePasses
<1>2. /\ \A c \in Callers : pc[c] \in WithToken => waited[c] < MaxDelay
      /\ waited' = [c \in Callers |-> IF pc[c] \in WithToken THEN waited[c] + 1 ELSE 0]
      /\ pc' = pc
      /\ jwt' = IF jwt = NoJwt \/ Older(age) = JwtLife THEN NoJwt ELSE Less(jwt)
      /\ age' = IF jwt = NoJwt \/ Older(age) = JwtLife THEN 0 ELSE Older(age)
      /\ began' = [c \in Traders |-> IF pc[c] \in {"idle", "refused", "order"} THEN 0 ELSE Older(began[c])]
      /\ token' = [c \in Traders |-> IF pc[c] = "order" THEN token[c] ELSE NoJwt]
  BY DEF TimePasses, Tick
<1>3. /\ jwt' \in Nat \cup {NoJwt} /\ age' \in 0 .. JwtLife
      /\ jwt' # NoJwt => jwt' + age' >= JwtLife
  BY <1>2 DEF JwtInv, Older, Less, NoJwt
<1>4. ASSUME NEW c \in Traders
      PROVE  TraderInv(c)' /\ began'[c] \in 0 .. JwtLife /\ token'[c] \in Nat \cup {NoJwt}
  <2>1. /\ TraderInv(c) /\ c \in Callers /\ waited[c] \in Nat
        /\ began[c] \in 0 .. JwtLife /\ token[c] \in Nat \cup {NoJwt}
    BY DEF JwtInv, Callers, AuthInv, AuthTypeOK
  <2>2. pc[c] \in {"token", "order"} => waited[c] < MaxDelay /\ waited'[c] = waited[c] + 1
    BY <1>2, <2>1 DEF WithToken
  <2>3. /\ began'[c] = IF pc[c] \in {"idle", "refused", "order"} THEN 0 ELSE Older(began[c])
        /\ token'[c] = IF pc[c] = "order" THEN token[c] ELSE NoJwt
    BY <1>2
  <2>4. CASE pc[c] = "token"
    BY <1>2, <2>1, <2>2, <2>3, <2>4 DEF TraderInv, Older
  <2>5. CASE pc[c] = "order"
    BY <1>2, <2>1, <2>2, <2>3, <2>5 DEF TraderInv, NoJwt
  <2>6. CASE pc[c] \notin {"token", "order"}
    BY <1>2, <2>1, <2>3, <2>6 DEF TraderInv, Older
  <2> QED BY <2>4, <2>5, <2>6
<1>5. began' \in [Traders -> 0 .. JwtLife] /\ token' \in [Traders -> Nat \cup {NoJwt}]
  BY <1>2, <1>4
<1> QED BY <1>1, <1>3, <1>4, <1>5 DEF JwtInv

-----------------------------------------------------------------------------
(* The invariant holds initially and is preserved. *)

LEMMA InitIInv == Init => IInv
<1> SUFFICES ASSUME Init PROVE IInv
  OBVIOUS
<1> USE AuthAssumption, JwtAssumption DEF Init, AuthInit
<1>1. AuthTypeOK
  BY DEF AuthTypeOK, Tgts, NoTgt
<1>2. NotTooLong
  BY DEF NotTooLong
<1>3. \A c \in Callers : CallInv(c)
  BY DEF CallInv
<1>4. JwtInv
  BY DEF JwtInv, TraderInv, Callers
<1> QED BY <1>1, <1>2, <1>3, <1>4 DEF IInv, AuthInv

LEMMA NextIInv == IInv /\ [Next]_vars => IInv'
<1> SUFFICES ASSUME IInv, [Next]_vars PROVE IInv'
  OBVIOUS
<1> USE AuthAssumption, JwtAssumption
<1>1. CASE ManagerStep
  BY <1>1, AuthStepKeeps, ForgetKeeps DEF ManagerStep, IInv
<1>2. ASSUME NEW c \in Traders, ReuseJwt(c)
      PROVE  IInv'
  <2>1. /\ jwt \in Nat /\ jwt > JwtLife - JwtValid /\ age \in 0 .. JwtLife /\ jwt + age >= JwtLife
    BY <1>2 DEF ReuseJwt, Valid, IInv, JwtInv, NoJwt
  <2> QED BY <1>2, <2>1, OrderKeeps DEF ReuseJwt, jwtVars
<1>3. ASSUME NEW c \in Traders, RequestJwt(c)
      PROVE  IInv'
  <2>1. c \in Callers
    BY DEF Callers
  <2>2. AuthInv' /\ Calm
    BY <1>3, <2>1, RequestTicketKeeps DEF RequestJwt, IInv
  <2>3. began' = [began EXCEPT ![c] = 0] /\ token' = token /\ jwt' = jwt /\ age' = age
    BY <1>3 DEF RequestJwt, jwtVars
  <2>4. waited'[c] = 0
    BY <1>3, <2>1 DEF RequestJwt, GetTgt, Use, IInv, AuthInv, AuthTypeOK
  <2>5. ASSUME NEW d \in Traders
        PROVE  TraderInv(d)'
    <3>1. TraderInv(d) /\ began[d] \in 0 .. JwtLife
      BY DEF IInv, JwtInv
    <3>2. began'[d] \in 0 .. JwtLife
      BY <2>3, <3>1 DEF IInv, JwtInv
    <3>3. pc'[d] = "token" => began'[d] >= waited'[d]
      <4>1. CASE d = c
        BY <2>3, <2>4, <3>2, <4>1
      <4>2. CASE d # c
        BY <2>2, <2>3, <3>1, <4>2 DEF Calm, TraderInv
      <4> QED BY <4>1, <4>2
    <3> QED BY <2>2, <2>3, <3>1, <3>3 DEF TraderInv, Calm
  <2> QED BY <2>2, <2>3, <2>5 DEF IInv, JwtInv
<1>4. ASSUME NEW c \in Traders, TraderStep(c)
      PROVE  IInv'
  BY <1>4, TraderStepKeeps
<1>5. CASE Disconnect
  <2>1. jwt' = NoJwt /\ age' = 0 /\ UNCHANGED authVars /\ UNCHANGED localVars
    BY <1>5 DEF Disconnect
  <2> QED BY <2>1 DEF IInv, AuthInv, AuthTypeOK, NotTooLong, CallInv, JwtInv, TraderInv, authVars, tgtVars,
             cacheVars, browserVars, callVars, localVars
<1>6. CASE TimePasses
  BY <1>6, TimePassesKeeps
<1>7. CASE ProcessDies
  BY <1>7, CrashKeeps, ForgetKeeps DEF ProcessDies, IInv
<1>8. CASE UNCHANGED vars
  BY <1>8 DEF vars, IInv, AuthInv, AuthTypeOK, NotTooLong, CallInv, JwtInv, TraderInv, authVars, tgtVars,
     cacheVars, browserVars, callVars, jwtVars, localVars
<1> QED BY <1>1, <1>2, <1>3, <1>4, <1>5, <1>6, <1>7, <1>8 DEF Next

THEOREM Invariance == Spec => []IInv
BY InitIInv, NextIInv, PTL DEF Spec

-----------------------------------------------------------------------------
(* Results. *)

(* Every variable of the manager and of the JWT has its type. *)
THEOREM TypeCorrect == Spec => []TypeOK
<1>1. IInv => TypeOK
  BY DEF IInv, AuthInv, JwtInv, TypeOK
<1> QED BY <1>1, Invariance, PTL

(* get_tgt never hands out a TGT that the server has let expire before the  *)
(* request with it is over, for all margins that cover two delays.          *)
THEOREM OnlyLiveTgts == Spec => []TgtIsAlive
<1>1. IInv => TgtIsAlive
  BY AuthAssumption DEF IInv, AuthInv, AuthTypeOK, CallInv, TgtIsAlive
<1> QED BY <1>1, Invariance, PTL

(* The retry of get_service_ticket uses another TGT than the refused one,   *)
(* whatever concurrent calls cache, save, invalidate or lose in a crash.    *)
THEOREM RetriesAreFresh == Spec => []RetryIsFresh
<1>1. IInv => RetryIsFresh
  BY DEF IInv, AuthInv, CallInv, RetryIsFresh, Callers
<1> QED BY <1>1, Invariance, PTL

(* No order goes out with a JWT that has expired, for all validities that   *)
(* do not exceed the life of a JWT, however late its answer came.           *)
THEOREM OnlyLiveJwts == Spec => []JwtIsAlive
<1>1. IInv => JwtIsAlive
  BY JwtAssumption DEF IInv, JwtInv, TraderInv, JwtIsAlive
<1> QED BY <1>1, Invariance, PTL
=============================================================================
