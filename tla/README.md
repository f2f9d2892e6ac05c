# Verification of xtb-api

TLA+ models of `xtb_api`, an asyncio client for a broker: WebSocket for data,
gRPC-web for trading, a CAS single sign-on for both. The models are translated
from the Python source in `src/src/xtb_api`, checked with TLC on small instances,
and what matters most is proved with TLAPS for every instance. `PROJECT.json` lists
the runs, the mutants that show each property can fail, the source lines behind
each definition, the hazards, the findings and the theorems.

Contents: [inventory](#inventory), [modules](#modules), [Trade](#trade),
[Link](#link), [Auth and Session](#auth-and-session),
[Requests and Market](#requests-and-market), [Wire](#wire), [runs](#runs),
[findings](#findings), [known deviations](#known-deviations), [proofs](#proofs),
[limits](#limits).

## Inventory

Everything runs in one asyncio event loop: a task keeps control between two
awaits, and anything may happen at an await. The hard behaviour is therefore at
the awaits, where other tasks, the listener, a time-out or a lost answer come in.

| Component | State | Operations | What makes it correct |
|---|---|---|---|
| `client.py`, trading facade | none of its own, one task per call | `buy`, `sell`, `cancel_order` | the typed outcome is true of the order; never two orders for one call; every call reports |
| `grpc/client.py` | cached JWT and its time, an HTTP client | `execute_order`, `cancel_orders`, `get_jwt`, `invalidate_jwt`, `disconnect` | an answer means what the trailer says; the token in use is not stale |
| `ws/ws_client.py`, connection | `_ws`, status, listener and ping tasks, reconnection counters and flags | `connect`, `disconnect(_async)`, `_establish_connection`, `_schedule_reconnect`, `_cleanup` | one listener on the current socket; the keep-alive runs; a loss is repaired or reported; a disconnect is final; no connection is leaked |
| `ws/ws_client.py`, requests | `_pending_requests`, request counter, handlers | `send`, `_handle_message`, `_emit`, subscriptions | an answer resolves exactly its request; nothing pends for ever |
| `ws/ws_client.py`, symbol search | `_symbols_cache`, `_symbols_lock` | `search_instrument` | one download; the cache does not outlive the connection; the exact symbol is found |
| `auth/auth_manager.py` | TGT, its expiry, session file, session source | `get_tgt`, `get_service_ticket`, `invalidate` | a fresh TGT is reused, a dead one is not; at most one login at a time is wanted; the file survives crashes |
| `auth/cas_client.py`, `auth/browser_auth.py` | cookies, HTTP client, an open browser | `login`, `login_with_two_factor`, `get_service_ticket`, `login_with_browser`, `submit_browser_otp` | the two-factor code goes to the session that asked for it; the browser is closed |
| `grpc/proto.py` | none | varint, field and frame codec, answer parsers | decoding inverts encoding; bad input gives no order |
| `instruments.py` | symbol ids and their file | `get`, `set`, `populate` | what was saved is read back |
| `ws/parsers.py`, `utils.py`, `types/`, `config.py`, `exceptions.py`, `__main__.py` | none | conversions, declarations, a diagnostic command | not a matter of state |

How they interact. `XTBClient.connect` gets a service ticket from the auth
manager (which may have to log in), opens the socket, registers and logs in on
it. `buy` searches the symbol over the socket, sends one gRPC request with a JWT
derived from the same TGT, and reads positions and orders over the socket to
find out what the broker did with the order. The listener task resolves the
futures of requests; when the connection breaks it fails them all and starts a
reconnection, which goes through the auth manager again.

## Modules

| Module | Models | Uses |
|---|---|---|
| `TradePromise` | what `buy`, `sell`, `cancel_order` promise their caller: the abstract specification | |
| `Trade` | the trading paths of `client.py` and `grpc/client.py` against a broker | instantiates `TradePromise` under a refinement mapping (`KeepsPromise`) |
| `LinkPromise` | what the client promises of its link: the abstract specification | |
| `Link` | the life of the WebSocket connection | instantiates `LinkPromise` under a refinement mapping (`KeepsLink`) |
| `Requests` | `send()`, pending requests, `_handle_message`, `_cleanup` on a socket | |
| `Market` | symbol search and its lock, the WebSocket trading path, the instrument registry | extends `Requests`: every search, trade and update is made of its requests |
| `Auth` | the auth manager over the CAS client and the browser | |
| `Session` | the JWT of `grpc/client.py` over the TGT of `Auth`, with time | extends `Auth`: one manager serves tickets and access tokens |
| `Wire` | protobuf, frames, base64 and the parsing of answers, byte by byte | |
| `MCTrade`, `MCLink`, `MCMarket`, `MCWire` | instances for TLC | |
| `TradeProofs`, `FillProofs`, `PromiseProofs` | theorems about `Trade` | |
| `LinkProofs`, `SessionProofs`, `MarketProofs` | theorems about `Link`, `Session`, `Market` | |
| `WireProofs`, `AnswerProofs` | theorems about the requests and the answers of `Wire` | |

The modules meet at named interfaces. `Trade` takes the JWT as a flag that may be
refused at any time, which `Session` refines with ages; it takes answers as the
kinds of outcome that `Wire` derives from their bytes; it takes a search as what
`Market` says it may return. `Link` says when the socket comes and goes, and
gives each task one request; `Requests` lets the socket come and go at any time
and has any number of requests. `Link` takes tickets as obtained or failed,
which `Auth` explains.

Left of the plan: the composition of `Link` with `Auth` and of `Trade` with
`Requests` in one state space.

## Trade

`Trade.tla` models the trading paths of `client.py` and `grpc/client.py`.

*State.* For each call: `pc`, the await it is suspended at (symbol search, JWT
fetch, the NewMarketOrder request, the probe after a denial, the positions and
orders probes, the price poll); which of its two `execute_order` calls it is in
(`att`); the instrument it resolved; what the accepted answer carried (an order
id, an order number, both or neither); rounds and polls done; whether a probe
raised (`last_exc`); its `TradeResult`. For its cancel: progress, request and
answer. Shared: the cached JWT as a flag. The broker: requests in flight,
unread answers, the state of each order, and which open positions `getPositions`
returns. Order `<<t, k>>` is what the k-th request of call `t` asks for.

*Actions.* One per piece of code between two awaits; the comments and the map
name the code. `Dispatch`, `Handle` and `EndOfRound` are the pieces several
actions share. The broker (`BrokerTakes`, `BrokerRefuses`, `BrokerFills`,
`BrokerShows`, `BrokerCancels`, `BrokerKeeps`) is external: it may take or refuse
any request whether or not anybody still waits, answer in every shape the client
tells apart, fill late, and show a position late.

*Parameters.* `RbacPlaces`: whether the broker may place an order and answer
status 7. `SnapshotLag`: whether a position may be missing from a fresh snapshot.
`IdsAlways`: whether answers and snapshots always carry the ids that are matched.
`Listing`: what a search may hit. `Strangers`: positions that were there before.

*Abstractions.* Volumes are tenths of a share, so that the rounding and the
integer encoding bite; prices are the position they are read from. Frames and
trailers are the kind of answer they amount to: `ok`, `denied` (status 7),
`refused` (another status), `empty`, `untrailed`, `garbled` (decoding raises),
`neterr`. A stranger's position stays open. Each call is cancelled at most once,
after its result, with the number the result carries. Stop loss and take profit
only change the payload. The JWT may expire, and be refused, at any time.

*Refinement.* `TradePromise` has per call the state of its order, what was said of
it (`refused`, `taken`, `unknown`) and whether `CANCELLED` was said. Requests,
tokens, probes, retries and polls are hidden. `KeepsPromise` maps an order of
`Trade` to whichever of the call's two requests was placed, and every outcome
to one of the three: `REJECTED` after a network error is `unknown`, because the
code cannot know more (see the finding), `QUEUED` and an unknown fill state
are `taken`, `FILLED` is `unknown`: after a denial a fill may be taken from a position
that looks alike. What `FILLED` does promise, `FilledIsBacked` and
`FilledIsOwn` say. The run `Trade_crowd` checks the refinement and `PromiseProofs`
proves it.

## Link

`Link.tla` models the connection in `ws_client.py` as `XTBClient` drives it.

*State.* Sockets, open or ended with a close frame (`clean`) or without
(`broken`), and those the server accepted a login on; the fields of the client
(`_ws`, `_status`, `_listen_task`, `_ping_task`, `_authenticated`,
`_reconnect_attempts`, `_reconnecting`, `_intentional_disconnect`); per task the
await it is in, its pending request's socket and future; the socket an
asynchronous disconnect waits for; and history variables for what the user
asked for and what failed.

*Tasks.* The user's `connect()`, the reconnection tasks (the code creates a new
one per attempt, `Loops` names them), the listener, and the disconnects. A
future that is resolved is separate from the resumption of its task. The loop
is first in, first out, so a task whose answer was read resumes before the
listener learns of a later loss (`Settled`); without that the model would have
interleavings asyncio does not.

*The listener* has three ends: the connection breaks (`ListenerLoses`: cleanup, event,
reconnection), the server closes it (`ListenerEnds`: nothing at all), or a message
raises in `_handle_message` (`ListenerRaises`: an error event). After the last two the
link is *deaf*: still reported as connected, read by nobody.

*Parameters.* `CleanCloses`, `Unreadables`, `DropsInHandshake` and `LoginFails` switch
the faults on: a close frame of the server, a message that raises, a break before
the login is over, requests of the handshake that are refused, unanswered or
answered with such a message. Tickets and dials may always fail.

*Abstractions.* Back-off delays are left out: a sleep ends at some time. The
ping's own request is left out (it swallows every exception and its answer
changes nothing). The user calls `connect()` only when he has no link: after
`disconnect()`, an exception, or the give-up. The branch of
`_schedule_reconnect` without an auth manager is left out, since `XTBClient`
always has one.

*Refinement.* `LinkPromise` has three variables: what the client is about (nothing,
connecting, up, deaf, reconnecting, given up), whether a connection is alive that the
server has accepted a login on, and how many reconnections have failed in a row.
Tickets, sockets, requests, tasks and flags are hidden. `KeepsLink` says that a link
reported as up was accepted by the server, is given up only for a real loss, that
every loss of a link that is read is followed by reconnecting, and that this ends
with a link or after exactly `MaxAttempts` failures. A link may go deaf (`Deafen`), but
only while it is up and alive, and only where the server sends close frames or
unreadable messages (`MayDeafen`); the promise has no way back from there,
as the code has none. The run `Link_restore` checks it and `LinkProofs` proves
it, for a user who does not disconnect; `Link_clean_close` shows what the documentation
promises instead.

## Auth and Session

*State.* `Auth`: the TGT in memory and in the session file; per task the await of
`get_tgt` or `get_service_ticket` it is in (REST v2, v1, browser, code, ticket),
the TGT it uses, and the one it was refused; the browser the CAS client
remembers, and whose page a code was typed into. `Session` adds the JWT, its
age, the clock each fetch has read, and the life that was left of the JWT an order
was sent with, when it was sent.

*Time.* An expiry is kept as its distance from now, so a `Tick` lessens it and runs
have no last moment. `life` is the server's, `trust` the client's view, which
starts later because the answer was late. `MaxDelay` bounds how long a request
with a token, or an answer with one, is under way.

*Actions.* Every branch of `_login_with_fallback`, `CASClient.login`,
`_handle_two_factor`, `submit_otp` and `get_service_ticket`: unauthorized, fall
back, challenge, no secret, no page, code accepted or refused, ticket granted,
TGT refused once and twice. `Receive` is the end of a login: the TGT gets its
expiry, is cached and saved, and the save may raise. `Crash` restarts the process
at any await; where a login was about to end it may leave a truncated file. A
browser's page wakes all tasks that wait for it, as its event does.

*Abstractions.* Cookies, payloads, one-time codes and page selectors are left out;
a code is accepted or refused. `get_tgt_sync` is `get_tgt` in another thread.

## Requests and Market

*State.* `Requests`: the link (`down`, `up`, or `deaf`: connected, but the listener is
gone), per task where its `send()` is and what became of its future, the table
`_pending_requests`, and the requests the server has not answered. `Market` adds
the symbol cache, the lock with its queue, what each task does and has
returned, the registry in memory and on disk, and which orders the server has
executed.

*Actions.* `Begin`, `Written`, `TimerFires`, `Pops` are the pieces of `send()`; `Answer`,
`Garbled` and `Unreadable` those of `_handle_message`; a request may be cancelled at
any await, the socket replaced while in use, cleaned up, or go deaf. What a task
does when its `send()` returns happens in the same step, as in the code:
`SymbolsReceived` fills the cache, releases the lock and goes on to resolve,
populate or trade. A lock that is free is taken without an await, otherwise tasks
queue. `ProcessDies` may fall into the write of the registry.

*Abstractions.* A request id is a small number; when all have been used, one that
nobody waits with is taken, and its old request is forgotten by the server. The
listing is a sequence of symbols, and a search a set of hits that is cut off.
Prices, volumes and the rows of the listing are left out. A push changes nothing.

## Wire

`Wire` has no concurrency: one exchange after the other, of which the answer may
end anywhere without an error. `Varint`, and the decoders `Values`, `FieldsFrom` and
`FramesFrom`, are recursive functions, the decoders of the position they read
from, as the loops of the code are; `ServerReads` decodes independently of the
client's encoder. Answers have every status, may quote a status in their
message, carry the ids in three layouts, and are encoded in one piece or frame
by frame. Texts have only the bytes the code looks for: a status line starts
with a mark, a JWT with another. What ids, statuses and JWTs may be the
assumptions `UuidAssumption`, `AnswerAssumption` and `JwtAssumption` say; in the
instance an id is two letters. `WireAssumption` says what a request may be: natural
numbers, texts of bytes, and a message whose length fits into the four bytes of
its frame (`struct.pack` raises otherwise). `MCWire` also asserts the bytes that
`build_delete_orders_request` documents for order 872077045.

## Runs

Trade, Link and Session do not check for deadlock: there calls end and bounds are
reached, after which nothing is left to do. Market and Wire do.

| Run | Shows | Bounds |
|---|---|---|
| `Trade_twins` | types, `OnePlacement`, `CleanRefusal`, `AcceptedIsPlaced`, `CancelKills` | two identical calls (symmetric) sharing the JWT, ids sometimes missing, snapshots late |
| `Trade_crowd` | `FilledIsOwn`, `FilledIsBacked`, `CleanRefusal`, `EveryTradeReports`, `KeepsPromise` | three calls (1, 0.6 and 0.4 shares), an identical and an opposite position before them, loose search |
| `Link_storm` | types, `ListenerIsCurrent`, `KeepaliveRuns`, `QuietDisconnect` | every fault, two overlapping reconnections, two connects, a disconnect of either kind |
| `Link_restore` | `KeepsLink`, `LossIsRepaired`, `GiveUpIsEarned`, `FailuresBounded`, `NoLeak`, `AuthenticatedIsReal` | breaks, close frames and unreadable messages on logged-in connections, three attempts, a second connect after the give-up, no disconnect |
| `Session` | types, `TgtIsAlive`, `JwtIsAlive`, `RetryIsFresh`, `EveryCallReports` | a ticket call and a trading call, again and again; two TGTs at once; lives of three ticks, delays of one, margin of two, a JWT used for the whole of its life |
| `Market` | types, `OwnAnswer`, `WaitersAreRegistered`, `ExactIsResolved`, `RegistryIsTrue`, `RejectedIsNotPlaced`, `ListingIsKept`, `EveryCallEnds` | two tasks, again and again, one that trades or sends plain requests and one that populates or resolves; three ids; three instruments, a dot-less look-alike, hits cut at two |
| `Wire` | types, `RequestArrives`, `SuccessIsReal`, `CancelledIsReal`, `WholeAnswerIsUnderstood` | numbers of one to four bytes, two order numbers in a request, three numbers and two ids in an answer, a cut after any quantum |

*Why the bounds are enough.* Calls interact only through the JWT and through
positions that look alike, and a call sends at most two requests: two calls give
every order of invalidation, expiry, fetch and answer between two of them, and a
stranger's position stands for any number of look-alikes (the choice among
matches is free). The theorems remove this bound for the properties of
`Trade_twins`. In Link what matters is that a connection is replaced while
another is alive or dying; two sockets and two reconnection tasks do that, and
`Link_restore` counts the attempts past one and up to the maximum. In Session two
tasks are enough for each to invalidate, replace or outlive what the other holds,
and the lives are the shortest that keep the order margin, delay, life of the
code's constants (8 h, 5 min, seconds); a JWT is used as long as it lives, as in the
code (300 s of five minutes). In Market two tasks meet at the lock and at
the ids, and what they contend for does not depend on which of them does what; a
third id makes an abandoned one come back. In Wire the numbers lie on both sides of
every boundary of a varint, and every place a cut may be is tried. Theorems remove
these bounds for the safety properties of Trade, Link, Session, Market and Wire.

*Fairness.* `FairSpec` of Trade is weak fairness of each call's steps. Every await
of a call ends by itself: HTTP calls have a 20 s time-out, WebSocket requests 10
or 30 s, the sleeps are finite; the event loop runs every ready task. Nothing is
assumed of the broker. In Link, tasks, the listener and the closing handshake
are fair for the same reasons, and the server reads a login on an open
connection (`LoginFails` off), which is the environment `LossIsRepaired` is about. Nothing
is assumed of `ListenerRaises`. In Session every await of a ticket
call ends: HTTP calls and the browser's waits have time-outs. In Market a time-out
ends every answered or unanswered request, the keepalive of the library ends a
write that blocks, and `asyncio.Lock` is granted in the order of its queue. Both
are weak fairness of a task's steps, written without ENABLED (`Stepping`).

Where a property is limited to an environment the reason is that it is false
outside: `OnePlacement`, `CancelKills` and `KeepsPromise` need `~RbacPlaces`;
`FilledIsOwn` needs `IdsAlways`;
`NoLeak`, `AuthenticatedIsReal` and `FailuresBounded` need connections
that break only after their login and logins that are not refused; `NoLeak` also
needs that the user does not disconnect during a reconnection, and `KeepsLink` that
he does not at all and that reconnection is on; `LossIsRepaired` and `KeepsLink` leave a deaf
link as it is, which `LinkIsRestored`, of the run `Link_clean_close`, does not; `ExactIsResolved`
needs that the search does not cut its hits off; `WholeAnswerIsUnderstood` needs an
answer that is encoded in one piece.

## Findings

| Run | What it shows |
|---|---|
| `Trade_false_rejection` | a lost answer, or one without a trailer, is reported as `REJECTED` though the order may be placed; the documentation promises `AMBIGUOUS` |
| `Trade_duplicate` | the probe after status 7 cannot see a queued order, and counts its own failure as "nothing there": the retry can duplicate |
| `Link_clean_close` | a close frame of the server ends the listener without cleanup, event or reconnection |
| `Session_revoked` | a TGT that is refused for an access token stays cached: trading fails until its own expiry, though the README promises a transparent refresh |
| `Market_false_fill` | the WebSocket trading path says `FILLED` of an order the server answered with an exception |

## Known deviations

What the models contain and no run reports.

- Trade: `QUEUED` may be said of an order that has just filled; after a denial an
  identical older position is taken for the fill (`FilledIsBacked`: never one that
  is not alike); a search without an exact hit trades its first hit.
- Link: `_intentional_disconnect` is never reset, so after `disconnect()` and a new
  `connect()` losses are not repaired; a reconnection that sleeps when the user
  disconnects goes on and connects; the dial clears `_reconnecting`, so where a
  connection breaks inside its handshake a second reconnection runs beside the first,
  and the two can leak a connection and leave `is_authenticated` set on one without a login; a
  successful dial resets the attempts, so refused logins never exhaust them; a message that raises
  in `_handle_message` ends the listener with an error event, the link stays `CONNECTED`,
  and nothing repairs it.
- Auth: a browser that has failed stays remembered, and the next REST challenge
  goes to it and fails with `BROWSER_AUTH_NO_PAGE`; two logins at once type one code
  into the other's page; an old refusal invalidates a fresh TGT; two callers log
  in twice; a second refusal is raised with the TGT left in the cache.
- Session: a JWT is reused until its five minutes are over, so one sent in the last
  seconds may be dead on arrival and be refused with status 7; `buy` and `sell` then
  invalidate, probe and retry (Trade), `cancel_order` reports `REJECTED` and keeps it.
- Market: an empty listing is cached until the next cleanup; a listing that arrives
  before a cleanup and is read after it is cached again; 100 hits can cut the
  exact symbol off; a crash while saving loses the registry; a cancelled request,
  or one whose write fails, leaves its entry in the table; an answer that is no
  `WSResponse` ends the listener and leaves its caller to its time-out.
- Wire: of frames encoded one by one only the first is read; a JWT that is cut off
  in its last part is taken; a varint cut off inside a value raises `ValueError`
  out of `execute_order`.

## Proofs

`TradeProofs.tla` proves for any sets of calls, positions and instruments:

- `TypeCorrect`: `Spec => []TypeOK`.
- `CallsKnowTheirOrder`: `IInv` is an invariant, assuming `~RbacPlaces`.
- `NeverTwoOrders`, `RefusalsAreFinal`, `AcceptanceIsReal`, `CancellationIsFinal`:
  the safety properties of `Trade_twins`, from `IInv`.

The safety properties are not inductive: they speak of results and of two orders,
and a step that breaks them is only wrong because of what happened several
awaits before. `IInv` says for each call what every await knows of its current
order: before a send, and while a denial is examined, the order is *clean* (not
at the broker and no request under way); while an accepted order is classified it
is placed; an unread `ok` or `denied` is true of the order and its request has
arrived. `OtherIsClean` says that the attempt that is not current has placed
nothing and cannot any more, which is the heart of `NeverTwoOrders`: a retry is
sent only from a clean order. `FlightInv` says a request under way has not been
placed. The argument has one lemma per kind of step: `ReportingStep`,
`AwaitingStep` and `DispatchingStep` for a call's own steps, `Frame` for all other
calls, `DealingStep` for the broker's treatment of an arriving request, which
uses `ArrivingRequest` (it belongs to the current attempt and no answer is
waiting).

`~RbacPlaces` is used once, where the broker takes a request: it may not answer
`denied`. `Trade_duplicate` shows that the theorem fails without it.

`FillProofs.tla` proves for any sets of calls, positions and instruments:

- `FillInvariance`: `FInv` is an invariant.
- `FillsAreBacked`: `FilledIsBacked`. Nothing is assumed of the broker.
- `FillsAreOwn`: `FilledIsOwn`, assuming `IdsAlways`.

`FInv` needs less than `IInv`, since what a call may say of a fill does not depend on
how it came to look: it holds with `RbacPlaces`, too. It says that until a request is
sent, and while a price is fetched, the order is clean and nothing is acknowledged;
that an unread `ok` is true of the order; that while a fill is looked for the order is
placed and, with `IdsAlways`, its id is known and at the poll of its price it is an open
position; and that a fill that was said is backed, and stays so because an open position
stays open.

`LinkProofs.tla` proves for any sockets, tasks and bounds, with every fault allowed:

- `RequestsBelongToHandshakes`: `LinkInv` (types and `Awaiting`) is an invariant.
- `LinkTypes`, `OneConnectionIsRead`, `ConnectionsAreKeptAlive`: `TypeOK`,
  `ListenerIsCurrent` and `KeepaliveRuns`.
- `DisconnectedStaysQuiet`: `Spec => QuietDisconnect`.

`TypeOK` of Link is not inductive: the server reads a login on the socket of a
pending request, which must exist. `Awaiting` adds that a future belongs to a task
in one of the two requests of the handshake and was sent on a socket. It also
carries `DisconnectedStaysQuiet`: a task that is off has no future, so that no
late answer or time-out (`RequestFails`, `RequestTimesOut`) revives it, and the
only other step that starts a task, `ListenerLoses`, respects the intentional
flag. `ListenerIsCurrent` and `KeepaliveRuns` are proved together (`Wired`), and
need nothing else. No environment is excluded, no constant is bounded.

About the reconnections it proves, for any sockets, tasks, attempts and calls of `connect()`:

- `RestoreInvariance`: `RInv` is an invariant, assuming `Calm`.
- `SafeUntilDisconnect`: `NoLeak`, `AuthenticatedIsReal`, `FailuresBounded` and
  `GiveUpIsEarned` hold until the first `disconnect()`; `NoConnectionLeaks`,
  `LoginsAreReal`, `ReconnectionStops` and `GiveUpsAreEarned` state them as the run
  does, for a user who never disconnects.
- `KeepsItsLink`: `Spec => KeepsLink`, assuming `Promised`.

`Calm` (a connection breaks only after its login, and a login that is sent is
accepted) is an assumption about the environment without which the properties are
false: the listener of a handshake that is lost starts a second reconnection, and
`Link_storm` has such tasks. `RInv` says that until the user disconnects at most one task connects, and
what the client holds at each of its awaits: before the dial nothing at all, no
socket open, no listener; in the handshake exactly the current, open connection;
at rest either a link or none. `_reconnect_attempts` counts the failures in a row and
the attempt under way, a fact that spans the chain of tasks the code makes.
`Promised` is `Calm`, no `disconnect()` and reconnection switched on; close frames and
unreadable messages are allowed. `KeepsItsLink` adds (`UInv`) that a client at rest that
wants a link has one that the server has accepted, and that `_reconnecting` is then clear, so
that the listener that learns of a loss does start a reconnection. Each
step of a task, the listener or the network then maps to one of the abstract
actions or to a stutter.

`PromiseProofs.tla` proves `KeepsItsPromise`: `Spec => KeepsPromise`, assuming
`~RbacPlaces`. The initial states map to the initial state, and every step maps to
one of the abstract actions or to a stutter: the broker's steps to `Place`, `Fill` and
`Withdraw`, the end of a call to `Report`, a cancellation's end to `ConfirmCancel`, all
others to nothing. The invariant of `TradeProofs` carries it: that at most one of
the two orders is at the broker makes the mapping of an order a function, and that
a clean order stays clean lets a refusal be reported.

`SessionProofs.tla` proves for any tasks, lifetimes and delays:

- `Invariance`: `IInv` is an invariant.
- `TypeCorrect`, `OnlyLiveTgts`, `RetriesAreFresh`, `OnlyLiveJwts`: `TypeOK`,
  `TgtIsAlive`, `RetryIsFresh` and `JwtIsAlive`.

That a token in use is alive is not inductive. The invariant compares clocks: a TGT
that anybody refers to lives at the server at least as long as the client trusts
it, less `MaxDelay`; one under way had at least the margin left when it was sent,
`waited` ago; the JWT has been alive at most as long as its age says, because the
age counts from before the fetch. `MarginAssumption` says that
the margin of a TGT covers two delays, `JwtAssumption` that a JWT is used no longer than
it lives and longer than a request takes; the constants of the code satisfy them (8 h
with a margin of 5 min, 300 s of the five minutes of a JWT, 20 s time-outs). Nothing keeps
a JWT from dying under way, and `JwtIsAlive` does not say so. `RetryIsFresh` holds
because a refusal empties the memory and the file, and because a login gives a TGT a
name that nobody uses, the refused TGT of a running call included.

`MarketProofs.tla` proves for any tasks, commands, ids and listings:

- `Invariance`: `IInv` is an invariant.
- `NobodyIsForgotten`, `AnswersAreOwn`, `RejectionsAreTrue`, `ListingStays`:
  `WaitersAreRegistered`, `OwnAnswer`, `RejectedIsNotPlaced` and `ListingIsKept`.
- `SearchInvariance`: `SInv` is an invariant; from it `MarketTypes`,
  `ExactSymbolsAreResolved`, `RegistryStaysTrue`: `TypeOK`, `ExactIsResolved` and
  `RegistryIsTrue`.

The invariant says that two calls never share an id, that an open future is
registered under its id, and that an unanswered request bears the id of the call
it came from or one nobody waits with: ids that are abandoned and answered late
never meet a new request. `RejectedIsNotPlaced` adds what an answer read says of
the order. `ListingIsKept` needs that the holder of the lock, and only he,
downloads, and that the cache is empty while he does.

`SInv` says that the queue of the lock holds each waiting task once, that the registry
and its file map a symbol to its own instrument or to nothing, and what a finished
resolve or populate has returned: of an exact symbol whose hits are not cut off, itself or
nothing, and of a populate that has succeeded, that the whole registry is filled. A symbol is resolved from hits that were matched
against one listing, so that an answer, a clean-up or a failed download in between
cannot change what it is resolved to.

`WireProofs.tla` proves for any requests that `WireAssumption` allows:

- `RequestInvariance`: `WInv` is an invariant.
- `RequestsAreRead`: `RequestArrives`.

What a recursive function computes for every input needs an induction, and the
induction theorems of the library, which take an operator, cannot be used. They
are not needed: `Least` (a set of numbers that is not empty has a least element)
follows from `WFMin`, and with it `Recursion` shows that a function exists that
satisfies its recursive definition, so that the definition may be unfolded. With
`VarintDef`, `ValuesDef`, `FieldsFromDef` and `FramesFromDef` the rest is reasoning about
sequences. `Holds(data, pos, part)` says that a part stands at a position of the
data, and every encoding is read where it stands, whatever follows it:
`VarintIsRead`, `NumbersAreRead`, `FrameIsRead`. `Encodes` lists the fields that
a text is made of; `EncodedFieldsAreRead` says that exactly these are parsed. Base64
loses nothing of a text it is given whole (`QuantaAreDecoded`). `MessageIsRead` puts
the three messages together, the optional prices by their cases.

`AnswerProofs.tla` proves for any requests, order numbers, ids, statuses and JWTs:

- `AnswerInvariance`: `AInv` is an invariant.
- `AnswersHaveTypes`, `SuccessIsTheBrokers`, `CancelledIsTheBrokers`,
  `WholeAnswersAreUnderstood`: `TypeOK`, `SuccessIsReal`, `CancelledIsReal` and
  `WholeAnswerIsUnderstood`.

`AInv` says that what is under way is the request or one of the answers to it, and
that once the client has read it, its conclusion owes nothing to chance: no more
than the broker told, and all of it if nothing is missing. The work is in `WhatIsRead`,
about one answer and one place where it is cut off. What b64decode returns is a
beginning of the text (`DecodedIsBeginning`), of which the first frames are read, each
of them whole (`BeginningIsRead`). The trailer is the last, so that without all
frames there is no status and no success. The status is read back from its digits
(`DecimalOfDigits`), also where a message quotes another (`StatusIsRead`). An
acknowledgement is read as it was meant in each of its layouts (`AckIsRead`); where the
id is not in field 1, nothing in front of it can be taken for one, since no two of its
characters follow one another there (`Calm`, `SweepFinds`). A JWT ends at the flag of the
trailer (`JwtIsFound`).

The assumptions are about the broker: `UuidAssumption` (ids are hexadecimal digits and
dashes, all of one length of at most 44, as the 36 characters of `_UUID_RE` are),
`AnswerAssumption` (a status has at most ten digits and an answer fits into its
frames), `JwtAssumption` (a JWT has three parts, and the letters it begins with are
not in front of it), `NoneAssumption` (`None` is neither a number nor a text). TLC
evaluates them on the instance. The proof of `WholeAnswerIsUnderstood` found two arms of its
`CASE` that overlapped, a refused token among them; the arms are disjoint now.

Outside the prover's reach: liveness and fairness (`EveryTradeReports`,
`LossIsRepaired`, `EveryCallReports`, `EveryCallEnds`), which TLC checks. Only
model-checked besides: the runs that expect a violation. Every safety property of the
passing runs is stated by a theorem.

## Limits

Not modelled: configuration, declarations, the doctor command, scripts and
examples (no state of their own); field-by-field conversions of the parsers;
pushes and event handlers, which change no state of the client; the login that
`XTBWebSocketClient.connect` does without an auth manager, which `XTBClient` never
uses; back-off delays; cookies; the time a one-time code is valid. The polling of
the balance and the two keys of a quote are sequences of plain requests.

Parameters of the broker and the server are assumptions about services that are
not in the repository: in particular whether position ids equal the order ids of
answers (`IdsAlways`), whether status 7 can follow a placement (`RbacPlaces`), how
late a token's answer may be (`MaxDelay`), and how answers are framed (`Wire`).
