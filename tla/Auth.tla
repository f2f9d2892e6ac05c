-------------------------------- MODULE Auth --------------------------------
(***************************************************************************)
(* Ticket granting tickets (TGTs): AuthManager                             *)
(* (src/xtb_api/auth/auth_manager.py) on top of CASClient (cas_client.py)  *)
(* and BrowserCASAuth (browser_auth.py).                                   *)
(*                                                                         *)
(* Concurrent tasks ask the manager for a service ticket (Ticketers) or    *)
(* for the TGT itself (Traders, through GrpcClient.get_jwt: see Session).  *)
(* A TGT comes from memory, from the session file, or from a login: REST   *)
(* v2, REST v1, then a browser, each perhaps with a two-factor code.  What *)
(* runs between two awaits is one action.  The process may die and start   *)
(* again; left out are cookies, session_source, payloads, and an unlink    *)
(* that fails.                                                             *)
(*                                                                         *)
(* A moment of the code (expires_at) is kept as its distance from now,     *)
(* which a Tick lessens: no clock, and no bound on the length of a run.    *)
(* MaxDelay is the longest time from the send of a request with a token to *)
(* the end of its call, and from the issue of a token to its receipt.  A   *)
(* TGT that nothing refers to any more lends its name to a new one.        *)
(***************************************************************************)
EXTENDS Integers, FiniteSets

CONSTANTS
  Ticketers,      \* tasks calling get_service_ticket
  Traders,        \* tasks calling get_tgt for a JWT
  None,           \* no browser
  Closed,         \* a browser that is remembered after it was closed
  MaxTgts,        \* bound on the TGTs that are referred to at once
  MaxDelay,       \* longest delay of a request or an answer with a token
  TgtLife,        \* TGT_LIFETIME_SECONDS, at the server and in the client
  Margin,         \* TGT_REFRESH_MARGIN_SECONDS
  SessionFile     \* is a session file configured?

Callers == Ticketers \cup Traders
Tgts == 1 .. MaxTgts
NoTgt == 0

ASSUME AuthAssumption ==
  /\ Ticketers \cap Traders = {}
  /\ {None, Closed} \cap Callers = {} /\ None # Closed
  /\ {MaxTgts, MaxDelay, TgtLife, Margin} \subseteq Nat
  /\ SessionFile \in BOOLEAN

(* The margin covers a late receipt of the TGT and a late use of it. *)
ASSUME MarginAssumption == 2 * MaxDelay <= Margin /\ 2 * MaxDelay < TgtLife

VARIABLES
  life,     \* life[t]: how long t will live at the server, unless dropped
  trust,    \* trust[t]: how long until the expires_at the client computed
  cached,   \* _cached_tgt
  file,     \* the TGT in the session file, NoTgt if it is missing or unreadable
  browser,  \* _browser_auth: whose login created it, Closed if its page is
  pc,       \* pc[c]: the await c is suspended at
  held,     \* held[c]: the TGT c is using
  waited,   \* waited[c]: how long c waits for the request with its token
  refused,  \* refused[c]: the TGT a ticket was refused for in this call
  page      \* page[c]: whose page c has typed its code into, None once closed

tgtVars == <<life, trust>>
cacheVars == <<cached, file>>
browserVars == <<browser, page>>
callVars == <<pc, held, waited, refused>>
authVars == <<tgtVars, cacheVars, browserVars, callVars>>

-----------------------------------------------------------------------------
(* Pieces that several actions share. *)

(* The calls in D are over, with a result or an exception. *)
Finish(D) ==
  /\ pc' = [c \in Callers |-> IF c \in D THEN "idle" ELSE pc[c]]
  /\ held' = [c \in Callers |-> IF c \in D THEN NoTgt ELSE held[c]]
  /\ waited' = [c \in Callers |-> IF c \in D THEN 0 ELSE waited[c]]
  /\ refused' = [c \in Callers |-> IF c \in D THEN NoTgt ELSE refused[c]]

(* get_tgt returns t to the calls in D, which send it on at once. *)
Use(D, t) ==
  /\ pc' = [c \in Callers |-> IF c \notin D THEN pc[c]
                              ELSE IF c \in Ticketers THEN "ticket" ELSE "token"]
  /\ held' = [c \in Callers |-> IF c \in D THEN t ELSE held[c]]
  /\ waited' = [c \in Callers |-> IF c \in D THEN 0 ELSE waited[c]]

(* The calls in D leave their page; the page of b, if any, is closed.       *)
LeavePage(D, b) ==
  page' = [c \in Callers |-> IF c \in D \/ page[c] = b THEN None ELSE page[c]]
Close(b) == browser' = IF browser = b THEN Closed ELSE browser

(* c goes on to another await of its login. *)
Await(c, next) ==
  /\ pc' = [pc EXCEPT ![c] = next]
  /\ UNCHANGED <<held, waited, refused>>

(* Mutant: a TGT is used up to the end of its life. *)
FreshToTheEnd(t) == t \in Tgts /\ trust[t] > 0

(* _is_tgt_fresh, of a TGT in memory or in a file that can be read. *)
Fresh(t) == t \in Tgts /\ trust[t] > Margin

(* get_tgt up to its first await, with mem in memory and f in the file. *)
GetTgt(c, mem, f) ==
  LET t == IF Fresh(mem) THEN mem ELSE IF Fresh(f) THEN f ELSE NoTgt
  IN /\ file' = f
     /\ IF t = NoTgt
        THEN /\ cached' = mem
             /\ pc' = [pc EXCEPT ![c] = "v2"]
             /\ held' = [held EXCEPT ![c] = NoTgt]
             /\ waited' = [waited EXCEPT ![c] = 0]
         ELSE cached' = t /\ Use({c}, t)

(* A login yields a TGT to the calls in D: the client computes its expiry   *)
(* on receipt, _cache_tgt keeps it in memory and in the file.  The save may *)
(* raise, having truncated the file or not.                                 *)
Named == {cached, file} \cup {held[c] : c \in Callers} \cup {refused[c] : c \in Callers}
Receive(D) ==
  \E t \in Tgts \ Named :
    /\ \A u \in Tgts \ Named : t <= u
    /\ \E late \in 0 .. MaxDelay : life' = [life EXCEPT ![t] = TgtLife - late]
    /\ trust' = [trust EXCEPT ![t] = TgtLife]
    /\ cached' = t
    /\ \/ file' = (IF SessionFile THEN t ELSE file) /\ Use(D, t) /\ UNCHANGED refused
       \/ SessionFile /\ file' \in {file, NoTgt} /\ Finish(D)

-----------------------------------------------------------------------------
(* The login chain: _login_with_fallback and CASClient.login. *)

RestLogin == {"v2", "v1", "2fa"}

(* A REST login, or the REST submission of a code, yields a TGT. *)
LoginSucceeds(c) ==
  /\ pc[c] \in RestLogin
  /\ Receive({c})
  /\ UNCHANGED browserVars

(* v2 answers 401 or an UNAUTHORIZED code: no fallback. *)
Unauthorized(c) ==
  /\ pc[c] = "v2"
  /\ Finish({c})
  /\ UNCHANGED <<tgtVars, cacheVars, browserVars>>

(* Another CASError of v2: v1 is tried. *)
FallBackToV1(c) ==
  /\ pc[c] = "v2"
  /\ Await(c, "v1")
  /\ UNCHANGED <<tgtVars, cacheVars, browserVars>>

(* v1 fails as well, or v2 failed with anything but a CASError (a page of   *)
(* the firewall, the network): a browser is started, and remembered before  *)
(* it runs.                                                                 *)
FallBackToBrowser(c) ==
  /\ pc[c] \in {"v2", "v1"}
  /\ Await(c, "browser")
  /\ browser' = c
  /\ UNCHANGED <<tgtVars, cacheVars, page>>

(* The browser's login intercepts a TGT and closes; it stays remembered. *)
BrowserSucceeds(c) ==
  /\ pc[c] = "browser"
  /\ Receive({c})
  /\ Close(c)
  /\ LeavePage({c}, c)

(* It cannot be started, or times out. *)
BrowserFails(c) ==
  /\ pc[c] = "browser"
  /\ Finish({c})
  /\ Close(c)
  /\ LeavePage({c}, c)
  /\ UNCHANGED <<tgtVars, cacheVars>>

(* A code is asked for, by v2 or by the page, which stays open. *)
Challenged(c) ==
  /\ pc[c] \in {"v2", "browser"}
  /\ Await(c, "totp")
  /\ UNCHANGED <<tgtVars, cacheVars, browserVars>>

(* No secret, no pyotp, or a secret that is not base32. *)
NoCode(c) ==
  /\ pc[c] = "totp"
  /\ Finish({c})
  /\ UNCHANGED <<tgtVars, cacheVars, browserVars>>

(* Mutant: nobody notices that the page is closed. *)
SubmitUnchecked(c) ==
  /\ pc[c] = "totp"
  /\ browser # None
  /\ Await(c, "otp")
  /\ page' = [page EXCEPT ![c] = browser]
  /\ UNCHANGED <<tgtVars, cacheVars, browser>>

(* _handle_two_factor: a remembered browser gets the code, whoever asked. *)
SubmitToBrowser(c) ==
  /\ pc[c] = "totp"
  /\ browser \in Callers
  /\ Await(c, "otp")
  /\ page' = [page EXCEPT ![c] = browser]
  /\ UNCHANGED <<tgtVars, cacheVars, browser>>

(* Its page is closed already: BROWSER_AUTH_NO_PAGE. *)
NoPage(c) ==
  /\ pc[c] = "totp"
  /\ browser = Closed
  /\ Finish({c})
  /\ UNCHANGED <<tgtVars, cacheVars, browserVars>>

SubmitByRest(c) ==
  /\ pc[c] = "totp"
  /\ browser = None
  /\ Await(c, "2fa")
  /\ UNCHANGED <<tgtVars, cacheVars, browserVars>>

(* The page of b shows a TGT: all calls that wait for it wake and go on,    *)
(* but for those still typing when the first of them closes the page.       *)
PageYields(b) ==
  /\ \E D \in SUBSET {c \in Callers : pc[c] = "otp" /\ page[c] = b} :
       D # {} /\ Receive(D) /\ LeavePage(D, b)
  /\ browser' = None

(* Mutant: a code that is refused is followed by another one. *)
CodeRefusedAgain(c) ==
  /\ pc[c] \in {"otp", "2fa"}
  /\ Await(c, "totp")
  /\ LeavePage({c}, c)
  /\ UNCHANGED <<tgtVars, cacheVars, browser>>

(* The code is refused, times out, or meets a closed page; the browser is   *)
(* closed and stays remembered.                                             *)
CodeRefused(c) ==
  /\ pc[c] \in {"otp", "2fa"}
  /\ Finish({c})
  /\ IF page[c] = None
     THEN UNCHANGED browserVars
     ELSE Close(page[c]) /\ LeavePage({c}, page[c])
  /\ UNCHANGED <<tgtVars, cacheVars>>

-----------------------------------------------------------------------------
(* get_service_ticket and invalidate. *)

RequestTicket(c) ==
  /\ c \in Ticketers
  /\ pc[c] = "idle"
  /\ GetTgt(c, cached, file)
  /\ UNCHANGED <<tgtVars, browserVars, refused>>

(* The ticket is granted, or fails with anything but a dead TGT. *)
TicketEnds(c) ==
  /\ pc[c] = "ticket"
  /\ Finish({c})
  /\ UNCHANGED <<tgtVars, cacheVars, browserVars>>

(* Mutant: the file survives _invalidate_cache. *)
KeptOnDisk(f) == f
(* _invalidate_cache unlinks the file. *)
Dropped(f) == NoTgt

(* 401 or 404, CAS_TGT_EXPIRED: the server may drop a TGT at any time.  The *)
(* first time the cache is cleared, whatever it holds by now, and get_tgt   *)
(* starts again.                                                            *)
TicketRefused(c) ==
  /\ pc[c] = "ticket"
  /\ refused[c] = NoTgt
  /\ refused' = [refused EXCEPT ![c] = held[c]]
  /\ GetTgt(c, NoTgt, Dropped(file))
  /\ UNCHANGED <<tgtVars, browserVars>>

(* The second refusal is raised. *)
RefusedAgain(c) ==
  /\ pc[c] = "ticket"
  /\ refused[c] # NoTgt
  /\ Finish({c})
  /\ UNCHANGED <<tgtVars, cacheVars, browserVars>>

Invalidate ==
  /\ cached' = NoTgt
  /\ file' = Dropped(file)
  /\ UNCHANGED <<tgtVars, browserVars, callVars>>

-----------------------------------------------------------------------------
(* The server, the clock and the process. *)

WithToken == {"ticket", "token", "order"}
Less(n) == IF n > 0 THEN n - 1 ELSE 0
Tick ==
  /\ \A c \in Callers : pc[c] \in WithToken => waited[c] < MaxDelay
  /\ waited' = [c \in Callers |-> IF pc[c] \in WithToken THEN waited[c] + 1 ELSE 0]
  /\ life' = [t \in Tgts |-> IF t \in Named THEN Less(life[t]) ELSE 0]
  /\ trust' = [t \in Tgts |-> IF t \in Named THEN Less(trust[t]) ELSE 0]
  /\ UNCHANGED <<cacheVars, browserVars, pc, held, refused>>

(* The process dies, perhaps while it saves a TGT it has just received: the *)
(* file is truncated before it is written, and cannot be read then.         *)
Receiving == RestLogin \cup {"browser", "otp"}
Crash ==
  /\ cached' = NoTgt
  /\ file' \in {file} \cup IF SessionFile /\ \E c \in Callers : pc[c] \in Receiving
                           THEN {NoTgt} ELSE {}
  /\ browser' = None
  /\ page' = [c \in Callers |-> None]
  /\ Finish(Callers)
  /\ UNCHANGED tgtVars

-----------------------------------------------------------------------------
AuthInit ==
  /\ life = [t \in Tgts |-> 0]
  /\ trust = [t \in Tgts |-> 0]
  /\ cached = NoTgt
  /\ file = NoTgt
  /\ browser = None
  /\ pc = [c \in Callers |-> "idle"]
  /\ held = [c \in Callers |-> NoTgt]
  /\ waited = [c \in Callers |-> 0]
  /\ refused = [c \in Callers |-> NoTgt]
  /\ page = [c \in Callers |-> None]

LoginStep(c) ==
  \/ Unauthorized(c) \/ FallBackToV1(c) \/ FallBackToBrowser(c)
  \/ BrowserFails(c) \/ Challenged(c) \/ NoCode(c)
  \/ SubmitToBrowser(c) \/ NoPage(c) \/ SubmitByRest(c) \/ CodeRefused(c)
  \/ LoginSucceeds(c) \/ BrowserSucceeds(c)

TicketStep(c) == TicketEnds(c) \/ TicketRefused(c) \/ RefusedAgain(c)

AuthStep ==
  \/ \E c \in Callers : LoginStep(c) \/ RequestTicket(c) \/ TicketStep(c) \/ PageYields(c)
  \/ Invalidate

(* Every variable has its type. *)
AuthTypeOK ==
  /\ life \in [Tgts -> Nat]
  /\ trust \in [Tgts -> Nat]
  /\ cached \in Tgts \cup {NoTgt}
  /\ file \in Tgts \cup {NoTgt}
  /\ browser \in Callers \cup {None, Closed}
  /\ pc \in [Callers -> {"idle", "v2", "v1", "browser", "totp", "otp", "2fa", "refused"} \cup WithToken]
  /\ held \in [Callers -> Tgts \cup {NoTgt}]
  /\ waited \in [Callers -> Nat]
  /\ refused \in [Callers -> Tgts \cup {NoTgt}]
  /\ page \in [Callers -> Callers \cup {None}]

(* No TGT is presented to the server after its life there, however late the *)
(* client learned of it or the request arrives (TGT_REFRESH_MARGIN_SECONDS).*)
TgtIsAlive ==
  \A c \in Callers : pc[c] \in {"ticket", "token"} => life[held[c]] > 0

(* After a refusal get_service_ticket never presents the refused TGT again, *)
(* whatever other calls have cached or saved meanwhile.                     *)
RetryIsFresh ==
  \A c \in Ticketers : pc[c] = "ticket" => held[c] # refused[c]
=============================================================================
