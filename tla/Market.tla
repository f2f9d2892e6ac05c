------------------------------- MODULE Market -------------------------------
(***************************************************************************)
(* What XTBWebSocketClient does with its requests: the symbol search with  *)
(* its cache and lock, the trading path buy()/sell() of the WebSocket, and *)
(* plain requests.  On top of the search, _resolve_instrument_id of        *)
(* XTBClient and the InstrumentRegistry (src/xtb_api/instruments.py).      *)
(*                                                                         *)
(* The server's instruments do not change; an instrument's id is its name, *)
(* letter case folded.                                                     *)
(***************************************************************************)
EXTENDS Requests

CONSTANTS
  Jobs,      \* Jobs[c]: what the task c may be asked to do
  Symbols,   \* the symbols that occur
  Queries,   \* those a task may ask for
  Listing,   \* the sequence of the server's instruments
  Hits,      \* Hits[s]: the instruments in which the text s occurs
  MaxHits,   \* the search keeps that many
  Wanted,    \* the symbols that populate() is asked to match
  Dotless    \* Dotless[s]: the dot-less variant of s, or None

ASSUME MarketAssumption ==
  /\ Jobs \in [Callers -> SUBSET {"resolve", "populate", "trade", "plain"}]
  /\ Listing \in Seq(Symbols)
  /\ Hits \in [Symbols -> SUBSET Symbols]
  /\ Queries \subseteq Symbols
  /\ \A s \in Symbols : s \in Hits[s]
  /\ MaxHits \in Nat \ {0}
  /\ Wanted \subseteq Symbols
  /\ Dotless \in [Symbols -> Symbols \cup {None}]
  /\ {"symbols", "status", "order", "plain"} \subseteq Commands
  /\ Kinds["symbols"] = {"listing", "empty"}
  /\ Kinds["order"] = {"ok", "error", "exception"}

Instruments == ToSet(Listing)

VARIABLES
  cache,   \* _symbols_cache: "none", "empty" or "listing"
  owner,   \* who holds _symbols_lock
  queue,   \* who waits for it
  job,     \* job[c]: what c is doing, or did last
  asked,   \* asked[c]: for which symbol
  said,    \* said[c]: what it returned or raised
  ids,     \* ids[s]: the instrument that the registry knows for s
  file,    \* the registry on disk; a torn file reads as an empty one
  placed   \* the calls whose order the server has executed

searchVars == <<cache, owner, queue>>
jobVars == <<job, asked, said>>
registryVars == <<ids, file>>
vars == <<rpcVars, searchVars, jobVars, registryVars, placed>>

NoIds == [s \in Wanted |-> None]

-----------------------------------------------------------------------------
(* The search. *)

(* The places in the listing where the text s occurs; the first MaxHits of  *)
(* them are kept.                                                           *)
AllHits(s) == {i \in DOMAIN Listing : Listing[i] \in Hits[s]}
Kept(s, content) ==
  IF content = "listing"
  THEN {i \in AllHits(s) : Cardinality({j \in AllHits(s) : j <= i}) <= MaxHits}
  ELSE {}
Found(s, content) == {Listing[i] : i \in Kept(s, content)}

FirstFound(s, content) ==
  IF Kept(s, content) = {} THEN "not found" ELSE Listing[Min(Kept(s, content))]

(* Mutant: the first hit is good enough. *)
ChooseFirst(s, content) == FirstFound(s, content)
(* _resolve_instrument_id: the symbol itself, or else the first hit. *)
Choose(s, content) == IF s \in Found(s, content) THEN s ELSE FirstFound(s, content)

(* populate() matches against the whole cache.                              *)
(* Mutant: against what a search returns.                                   *)
IndexOfHits(content) == IF content = "listing" THEN ToSet(SubSeq(Listing, 1, MaxHits)) ELSE {}
Index(content) == IF content = "listing" THEN Instruments ELSE {}

(* Mutant: a symbol that is not listed is stored as such.                   *)
MatchAnyway(s, content) ==
  IF s \in Index(content) THEN s ELSE IF Dotless[s] \in Index(content) THEN Dotless[s] ELSE "not listed"

(* populate() finds the symbol, or else its dot-less variant; ids of other  *)
(* symbols stay as they are.                                                *)
Match(s, content) ==
  CASE s \in Index(content)          -> s
    [] s \notin Index(content) /\ Dotless[s] \in Index(content) -> Dotless[s]
    [] OTHER                         -> ids[s]

-----------------------------------------------------------------------------
(* The ends of a job. *)

End(c, what, p) ==
  /\ call' = [call EXCEPT ![c] = Idle]
  /\ said' = [said EXCEPT ![c] = what]
  /\ pending' = p
  /\ UNCHANGED wire

Unsaid(c) == said' = [said EXCEPT ![c] = "nothing"]

(* What the task c does with the symbols, be they cached or downloaded. *)
Resolves(c, j, s, content, p) ==
  /\ j = "resolve"
  /\ End(c, Choose(s, content), p)
  /\ UNCHANGED registryVars

Populates(c, j, content, p) ==
  /\ j = "populate"
  /\ End(c, IF content = "listing" THEN "populated" ELSE "no symbols", p)
  /\ ids' = [s \in Wanted |-> Match(s, content)]
  /\ file' = ids'

(* send(), or the exception it raises without a connection. *)
Sends(c, m, p) ==
  \/ CanSend /\ Begin(c, m, p) /\ Unsaid(c)
  \/ ~CanSend /\ End(c, "raised", p)

(* A trade subscribes to the status of its requests, then sends the order.  *)
Trades(c, j, s, content, p) ==
  /\ j = "trade"
  /\ IF Found(s, content) = {} THEN End(c, "REJECTED", p) ELSE Sends(c, "status", p)
  /\ UNCHANGED registryVars

UseSymbols(c, j, s, content, p) ==
  \/ Resolves(c, j, s, content, p)
  \/ Populates(c, j, content, p)
  \/ Trades(c, j, s, content, p)

-----------------------------------------------------------------------------
(* search_instrument, and the starts of the jobs. *)

Starts(c, j, s) ==
  /\ call[c].pc = "idle"
  /\ j \in Jobs[c]
  /\ job' = [job EXCEPT ![c] = j]
  /\ asked' = [asked EXCEPT ![c] = s]
  /\ placed' = placed \ {c}

(* The fast path. *)
SearchKnown(c, j, s) ==
  /\ cache # "none"
  /\ Starts(c, j, s)
  /\ UseSymbols(c, j, s, cache, pending)
  /\ UNCHANGED <<link, searchVars>>

(* Under the lock the cache is looked at again.                             *)
(* Mutant: it is not.                                                       *)
AlwaysMissing == TRUE
Missing == cache = "none"

Download(c) ==
  \/ CanSend /\ Begin(c, "symbols", pending) /\ owner' = c /\ Unsaid(c)
  \/ ~CanSend /\ End(c, "raised", pending) /\ owner' = None

(* A free lock, with nobody before, is taken without an await. *)
SearchFirst(c, j, s) ==
  /\ cache = "none"
  /\ owner = None /\ queue = <<>>
  /\ Starts(c, j, s)
  /\ Download(c)
  /\ UNCHANGED <<link, cache, queue, registryVars>>

SearchQueues(c, j, s) ==
  /\ cache = "none"
  /\ owner # None \/ queue # <<>>
  /\ Starts(c, j, s)
  /\ call' = [call EXCEPT ![c].pc = "queued"]
  /\ queue' = Append(queue, c)
  /\ Unsaid(c)
  /\ UNCHANGED <<link, pending, wire, cache, owner, registryVars>>

Grantable(c) == owner = None /\ queue # <<>> /\ Head(queue) = c

LockGranted(c) ==
  /\ call[c].pc = "queued"
  /\ Grantable(c)
  /\ queue' = Tail(queue)
  /\ \/ Missing /\ Download(c) /\ UNCHANGED registryVars
     \/ ~Missing /\ UseSymbols(c, job[c], asked[c], cache, pending) /\ UNCHANGED owner
  /\ UNCHANGED <<link, cache, job, asked, placed>>

PlainStarts(c) ==
  /\ Starts(c, "plain", None)
  /\ Sends(c, "plain", pending)
  /\ UNCHANGED <<link, searchVars, registryVars>>

Start(c) ==
  \/ PlainStarts(c)
  \/ \E j \in Jobs[c] \ {"plain"} :
       \E s \in IF j = "populate" THEN {None} ELSE Queries :
         SearchKnown(c, j, s) \/ SearchFirst(c, j, s) \/ SearchQueues(c, j, s)

-----------------------------------------------------------------------------
(* The ends of the requests. *)

SymbolsReceived(c) ==
  /\ Answered(c) /\ call[c].cmd = "symbols"
  /\ cache' = IF call[c].from = "symbols" THEN call[c].kind ELSE "empty"
  /\ owner' = None
  /\ UseSymbols(c, job[c], asked[c], cache', pending)
  /\ UNCHANGED <<link, queue, job, asked, placed>>

StatusSubscribed(c) ==
  /\ Answered(c) /\ call[c].cmd = "status"
  /\ Sends(c, "order", pending)
  /\ UNCHANGED <<link, searchVars, job, asked, registryVars, placed>>

Confirmed(kind) == IF kind = "error" THEN "REJECTED" ELSE "FILLED"
LastAnswer(c) ==
  /\ Answered(c) /\ call[c].cmd \in {"order", "plain"}
  /\ End(c, IF call[c].cmd = "order" THEN Confirmed(call[c].kind) ELSE "answered", pending)
  /\ UNCHANGED <<link, searchVars, job, asked, registryVars, placed>>

(* Leaving the async with block, whether by return or by an exception.      *)
(* Mutant: an exception leaves the lock taken.                              *)
KeepLock(c) == owner
Unlock(c) == IF owner = c THEN None ELSE owner

(* Mutant: an order without an answer is taken for a refused one.           *)
SilenceIsRefusal(c) == IF call[c].cmd = "order" THEN "REJECTED" ELSE "raised"
Failure(c) == "raised"

RequestFails(c) ==
  /\ Raises(c)
  /\ End(c, Failure(c), Pops(c))
  /\ owner' = Unlock(c)
  /\ UNCHANGED <<link, cache, queue, job, asked, registryVars, placed>>

Leave(c) == RemoveFirst(queue, c)

(* The task is cancelled; the entry of its request stays behind. *)
Cancel(c) ==
  /\ call[c].pc # "idle"
  /\ End(c, "raised", pending)
  /\ owner' = Unlock(c)
  /\ queue' = Leave(c)
  /\ UNCHANGED <<link, cache, job, asked, registryVars, placed>>

-----------------------------------------------------------------------------
(* The server, the socket and the process. *)

Executes(r) ==
  /\ r \in wire
  /\ r.cmd = "order" /\ call[r.of].id = r.id
  /\ placed' = placed \cup {r.of}
  /\ UNCHANGED <<rpcVars, searchVars, jobVars, registryVars>>

(* The outcome of an order is told as it is. *)
Truth(r) ==
  CASE r.cmd = "order" /\ r.of \in placed    -> {"ok"}
    [] r.cmd = "order" /\ r.of \notin placed -> {"error", "exception"}
    [] OTHER                                 -> Kinds[r.cmd]
ServerAnswers(r) ==
  /\ Answer(r, Truth(r))
  /\ UNCHANGED <<searchVars, jobVars, registryVars, placed>>

SocketStep ==
  /\ RpcStep
  /\ UNCHANGED <<searchVars, jobVars, registryVars, placed>>

(* _cleanup forgets the symbols too. *)
ConnectionEnds ==
  /\ CleanUp
  /\ cache' = "none"
  /\ UNCHANGED <<owner, queue, jobVars, registryVars, placed>>

(* A crash may fall into the write of the registry.  The next process has   *)
(* no calls, and reads the file.                                            *)
ProcessDies ==
  /\ file' \in {file} \cup {NoIds : c \in {d \in Callers : job[d] = "populate" /\ call[d].pc # "idle"}}
  /\ ids' = file'
  /\ link' = "down" /\ wire' = {} /\ pending' = NoPending
  /\ call' = [c \in Callers |-> Idle]
  /\ cache' = "none" /\ owner' = None /\ queue' = <<>>
  /\ job' = [c \in Callers |-> "plain"]
  /\ asked' = [c \in Callers |-> None]
  /\ said' = [c \in Callers |-> "nothing"]
  /\ placed' = {}

-----------------------------------------------------------------------------
Init ==
  /\ RpcInit
  /\ cache = "none" /\ owner = None /\ queue = <<>>
  /\ job = [c \in Callers |-> "plain"]
  /\ asked = [c \in Callers |-> None]
  /\ said = [c \in Callers |-> "nothing"]
  /\ ids = NoIds /\ file = NoIds
  /\ placed = {}

CallStep(c) == LockGranted(c) \/ SymbolsReceived(c) \/ StatusSubscribed(c) \/ LastAnswer(c) \/ RequestFails(c)

Next ==
  \/ \E c \in Callers : Start(c) \/ CallStep(c) \/ Cancel(c)
  \/ \E r \in wire : Executes(r) \/ ServerAnswers(r)
  \/ SocketStep
  \/ ConnectionEnds
  \/ ProcessDies

Spec == Init /\ [][Next]_vars

(* wait_for and the keepalive of the socket end every await of a request,   *)
(* and asyncio grants the lock in the order of the queue: weak fairness of  *)
(* the steps of a call, written out.                                        *)
CanStep(c) == call[c].pc # "idle" /\ (call[c].pc = "queued" => Grantable(c))
Stepping(c) == call[c].pc # "idle" /\ call'[c].pc # call[c].pc
FairSpec == Spec /\ \A c \in Callers : []<>~CanStep(c) \/ []<><<Stepping(c)>>_vars

-----------------------------------------------------------------------------
(* Every variable has its type. *)
TypeOK ==
  /\ RpcTypeOK
  /\ cache \in {"none", "empty", "listing"}
  /\ owner \in Callers \cup {None}
  /\ queue \in Seq(Callers) /\ IsInjective(queue)
  /\ job \in [Callers -> {"resolve", "populate", "trade", "plain"}]
  /\ asked \in [Callers -> Symbols \cup {None}]
  /\ ids \in [Wanted -> Symbols \cup {None}]
  /\ file \in [Wanted -> Symbols \cup {None}]
  /\ placed \subseteq Callers

(* Symbols that are cached stay until the connection ends: no second        *)
(* download, perhaps an empty one, overwrites them, however searches queue  *)
(* and fail (ws_client.py:628-643).                                         *)
ListingIsKept == [][cache # "none" /\ link' # "down" => cache' = cache]_vars

(* A symbol that the server lists is resolved to itself, unless the search  *)
(* cuts its hits off, whoever downloads, fails or clears the cache meanwhile*)
(* (client.py:394, ws_client.py:618).                                       *)
ExactIsResolved ==
  \A c \in Callers :
    /\ job[c] = "resolve" /\ call[c].pc = "idle"
    /\ asked[c] \in Instruments
    /\ Cardinality(AllHits(asked[c])) <= MaxHits
    => said[c] \in {"nothing", "raised", "not found", asked[c]}

(* The registry, in memory and on disk, never maps a symbol to another      *)
(* instrument, and after populate() it knows every wanted one, whatever     *)
(* crashed before (instruments.py:82-132).                                  *)
Right(s) == IF s \in Instruments THEN s ELSE IF Dotless[s] \in Instruments THEN Dotless[s] ELSE None
RegistryIsTrue ==
  \A s \in Wanted :
    /\ {ids[s], file[s]} \subseteq {None, Right(s)}
    /\ (\E c \in Callers : job[c] = "populate" /\ call[c].pc = "idle" /\ said[c] = "populated")
         => ids[s] = Right(s)

(* REJECTED is only said of an order the server has not executed, however   *)
(* late answers, time-outs and lost connections meet (ws_client.py:730).    *)
RejectedIsNotPlaced ==
  \A c \in Callers : job[c] = "trade" /\ call[c].pc = "idle" /\ said[c] = "REJECTED" => c \notin placed

(* FILLED means that the broker confirmed the order. *)
FilledIsConfirmed ==
  \A c \in Callers : job[c] = "trade" /\ call[c].pc = "idle" /\ said[c] = "FILLED" => c \in placed

(* Every call ends: time-outs end the requests, and every way out of a      *)
(* search gives the lock back.                                              *)
EveryCallEnds == \A c \in Callers : call[c].pc # "idle" ~> call[c].pc = "idle"
=============================================================================
