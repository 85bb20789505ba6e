--------------------------- MODULE LimitResolver ---------------------------
(***************************************************************************)
(* The model limits a request runs under (internal/provider/metadata.go):   *)
(* one resolver, shared by every conversation of the process, that asks the *)
(* endpoint and then a catalog for a model's context window, keeps what it  *)
(* hears in a cache that is saved to a file, and learns a smaller window    *)
(* when the provider refuses a request as too long (agent/conversation.go). *)
(*                                                                          *)
(* An entry is [win, src, deg, at, exp, stale, neg], win 0 for none.  Time  *)
(* passes in ticks longer than it takes to record an answer.                *)
(***************************************************************************)
EXTENDS Integers, Sequences, FiniteSets, FiniteSetsExt

CONSTANTS
    Requests,    \* requests in progress at one time
    Models,      \* metadataKey: the models the providers name
    Windows,     \* windows an endpoint may report
    Tiers,       \* ProbeTiers, strictly descending
    TTL,         \* [endpoint, catalog, learned, negative, stale]
    MaxEntries,  \* MaxCacheEntries
    Configured,  \* model -> the window its configuration sets, or 0
    IsLocal,     \* models served by this host
    Listed,      \* model -> providers of the catalog that list it
    CatalogWindow, \* the window the catalog gives
    MaxClock, MaxCalls,
    MaxFaults    \* cancelled requests, files that are not saved, restarts

ASSUME LimitsAssumption ==
    /\ Tiers # <<>> /\ Tiers \in Seq(Nat \ {0})
    /\ \A i \in 1..(Len(Tiers) - 1) : Tiers[i] > Tiers[i + 1]
    /\ LET Term == Nat \ {0}
       IN  TTL \in [endpoint : Term, catalog : Term, learned : Term, negative : Term, stale : Term]
    /\ Windows \subseteq Nat \ {0} /\ CatalogWindow \in Nat \ {0} /\ Configured \in [Models -> Nat]
    /\ MaxEntries \in Nat \ {0} /\ "none" \notin Requests

VARIABLES
    cache, disk, \* the entries in memory and in the file
    loaded,      \* whether the file has been read
    inflight,    \* model -> the request that discovers it, or None
    listing,     \* [holder, at]: catalogMu and the time of the fetch, or -1
    reqs,        \* the requests
    clock,
    learned,     \* the limit learned last for each model, while nothing explains its loss
    begun, faults

limitsVars == <<cache, disk, loaded, inflight, listing, reqs, clock, learned, begun, faults>>

None == "none"
NoEntry == [win |-> 0, src |-> None, deg |-> 0, at |-> 0, exp |-> 0, stale |-> 0, neg |-> FALSE]
IdleReq == [pc |-> "idle", model |-> None, win |-> 0, src |-> None, deg |-> 0, age |-> 0,
            asked |-> FALSE, attempt |-> 0, tried |-> 0, stale |-> NoEntry, found |-> NoEntry, cancelled |-> FALSE]
Empty == [m \in Models |-> NoEntry]

-----------------------------------------------------------------------------
\* ttlFor.
TtlFor(src) ==
    CASE src = "catalog"  -> TTL.catalog
      [] src = "overflow" -> TTL.learned
      [] OTHER            -> TTL.endpoint

\* WithLimits: the configured window, when there is one, whatever was found.
WithLimits(q, e) ==
    [IdleReq EXCEPT !.pc = "generate", !.model = q.model, !.src = e.src, !.deg = e.deg,
                    !.age = clock - e.at, !.asked = q.asked,
                    !.win = IF Configured[q.model] > 0 THEN Configured[q.model] ELSE e.win]

\* What may remain of the entries: the latest MaxEntries.
Prunings(entries) ==
    LET full == {m \in Models : entries[m].win > 0}
    IN IF Cardinality(full) <= MaxEntries THEN {entries}
       ELSE {[m \in Models |-> IF m \in kept THEN entries[m] ELSE NoEntry] :
               kept \in {k \in kSubset(MaxEntries, full) :
                           \A x \in full \ k, y \in k : entries[x].at <= entries[y].at}}

\* pruneLocked and saveCacheLocked: the entries replace the file's, unless
\* they cannot be written, which nobody is told.
Put(entries, ghosts) ==
    \E kept \in Prunings(entries) :
        /\ cache' = kept
        /\ learned' = [m \in Models |-> IF kept[m].win > 0 THEN ghosts[m] ELSE NoEntry]
        /\ \/ disk' = kept /\ UNCHANGED faults
           \/ faults < MaxFaults /\ faults' = faults + 1 /\ UNCHANGED disk

\* Closing the channel of a discovery wakes every request that waits for it.
Woken(m) == [q \in Requests |-> IF reqs[q].pc = "wait" /\ reqs[q].model = m
                                 THEN [reqs[q] EXCEPT !.pc = "resolve"] ELSE reqs[q]]

-----------------------------------------------------------------------------
Begin(q, m) ==
    /\ reqs[q].pc = "idle" /\ begun < MaxCalls
    /\ reqs' = [reqs EXCEPT ![q] = [IdleReq EXCEPT !.pc = "resolve", !.model = m]]
    /\ begun' = begun + 1
    /\ UNCHANGED <<cache, disk, loaded, inflight, listing, clock, learned, faults>>

\* Resolve under its mutex: a fresh entry, a discovery to wait for, or a
\* discovery of one's own.
Lookup(q) ==
    LET known == IF loaded THEN cache ELSE disk
        m == reqs[q].model
    IN /\ reqs[q].pc = "resolve"
       /\ loaded' = TRUE /\ cache' = known
       /\ \/ /\ known[m].exp > clock
             /\ reqs' = [reqs EXCEPT ![q] = WithLimits(@, known[m])]
             /\ UNCHANGED inflight
          \/ /\ known[m].exp <= clock /\ inflight[m] # None
             /\ reqs' = [reqs EXCEPT ![q].pc = "wait"]
             /\ UNCHANGED inflight
          \/ /\ known[m].exp <= clock /\ inflight[m] = None
             /\ inflight' = [inflight EXCEPT ![m] = q]
             /\ reqs' = [reqs EXCEPT ![q].pc = "discover", ![q].asked = TRUE, ![q].stale = known[m]]
       /\ UNCHANGED <<disk, listing, clock, learned, begun, faults>>

\* The wait ends with the request's context.
WaitCancelled(q) ==
    /\ reqs[q].pc = "wait" /\ reqs[q].cancelled
    /\ reqs' = [reqs EXCEPT ![q] = IdleReq]
    /\ UNCHANGED <<cache, disk, loaded, inflight, listing, clock, learned, begun, faults>>

Answer(win, src) == [NoEntry EXCEPT !.win = win, !.src = src, !.at = clock]

\* The window the first endpoint that knows it gives: the model list, and on
\* this host Ollama's two and llama.cpp's.
Probed(m, answers) ==
    LET known == {i \in 1..4 : answers[i] > 0 /\ (i = 1 \/ m \in IsLocal)}
    IN IF known = {} THEN 0 ELSE answers[Min(known)]

AskEndpoint(q) ==
    /\ reqs[q].pc = "discover"
    /\ \E answers \in [1..4 -> Windows \cup {0}] :
         LET win == Probed(reqs[q].model, answers) IN
         IF win > 0
         THEN reqs' = [reqs EXCEPT ![q].pc = "store", ![q].found = Answer(win, "endpoint")]
         ELSE reqs' = [reqs EXCEPT ![q].pc = "catalog"]
    /\ UNCHANGED <<cache, disk, loaded, inflight, listing, clock, learned, begun, faults>>

\* The endpoint took all the time there was, or metadata is switched off.
AskNobody(q) ==
    /\ reqs[q].pc = "discover"
    /\ reqs' = [reqs EXCEPT ![q].pc = "store"]
    /\ UNCHANGED <<cache, disk, loaded, inflight, listing, clock, learned, begun, faults>>

\* A model several providers list is nobody's.
InCatalog(m) == IF Cardinality(Listed[m]) = 1 THEN Answer(CatalogWindow, "catalog") ELSE NoEntry
CatalogIsFresh == listing.at >= 0 /\ clock < listing.at + TTL.catalog

CatalogKept(q) ==
    /\ reqs[q].pc = "catalog" /\ listing.holder = None /\ CatalogIsFresh
    /\ reqs' = [reqs EXCEPT ![q].pc = "store", ![q].found = InCatalog(reqs[q].model)]
    /\ UNCHANGED <<cache, disk, loaded, inflight, listing, clock, learned, begun, faults>>

\* catalogMu is held for as long as the catalog is being fetched.
CatalogAsked(q) ==
    /\ reqs[q].pc = "catalog" /\ listing.holder = None /\ ~CatalogIsFresh
    /\ listing' = [listing EXCEPT !.holder = q]
    /\ reqs' = [reqs EXCEPT ![q].pc = "fetch"]
    /\ UNCHANGED <<cache, disk, loaded, inflight, clock, learned, begun, faults>>

CatalogFetched(q) ==
    /\ reqs[q].pc = "fetch"
    /\ \/ /\ listing' = [holder |-> None, at |-> clock]
          /\ reqs' = [reqs EXCEPT ![q].pc = "store", ![q].found = InCatalog(reqs[q].model)]
       \/ /\ listing' = [listing EXCEPT !.holder = None]
          /\ reqs' = [reqs EXCEPT ![q].pc = "store"]
    /\ UNCHANGED <<cache, disk, loaded, inflight, clock, learned, begun, faults>>

FallbackEntry ==
    [win |-> Tiers[1], src |-> "fallback", deg |-> 0, at |-> clock,
     exp |-> clock + TTL.negative, stale |-> clock + TTL.negative, neg |-> TRUE]
FoundEntry(e) == [e EXCEPT !.exp = clock + TtlFor(e.src), !.stale = clock + TTL.stale]

\* Mutant: an entry that has expired is good for another term.
RenewedEntry(q) ==
    IF q.found.win > 0 THEN FoundEntry(q.found)
    ELSE IF q.stale.win > 0 /\ clock < q.stale.stale /\ ~q.stale.neg THEN FoundEntry(q.stale)
    ELSE FallbackEntry

\* What was found, else what is known and not too old, else the first tier.
\* An entry kept for want of a better one stays expired.
EntryFor(q) ==
    IF q.found.win > 0 THEN FoundEntry(q.found)
    ELSE IF q.stale.win > 0 /\ clock < q.stale.stale /\ ~q.stale.neg THEN q.stale
    ELSE FallbackEntry

RecordLimit(q) ==
    LET m == reqs[q].model
        e == EntryFor(reqs[q])
    IN /\ reqs[q].pc = "store" /\ ~reqs[q].cancelled
       /\ Put([cache EXCEPT ![m] = e], learned)
       /\ inflight' = [inflight EXCEPT ![m] = None]
       /\ reqs' = [Woken(m) EXCEPT ![q] = WithLimits(reqs[q], e)]
       /\ UNCHANGED <<loaded, listing, clock, begun>>

\* finishInflight: the requests that waited try for themselves.
FreePlace(q) ==
    /\ inflight' = [inflight EXCEPT ![reqs[q].model] = None]
    /\ reqs' = [Woken(reqs[q].model) EXCEPT ![q] = IdleReq]

Abandon(q) ==
    /\ reqs[q].pc = "store" /\ reqs[q].cancelled
    /\ FreePlace(q)
    /\ UNCHANGED <<cache, disk, loaded, listing, clock, learned, begun, faults>>

CancelRequest(q) ==
    /\ reqs[q].pc \in {"wait", "discover", "catalog", "fetch", "store"} /\ ~reqs[q].cancelled
    /\ faults < MaxFaults /\ faults' = faults + 1
    /\ reqs' = [reqs EXCEPT ![q].cancelled = TRUE]
    /\ UNCHANGED <<cache, disk, loaded, inflight, listing, clock, learned, begun>>

-----------------------------------------------------------------------------
(***************************************************************************)
(* The model call: an answer, or a refusal as too long and a retry with     *)
(* less, three times at most.                                               *)
(***************************************************************************)
LastTier == Tiers[Len(Tiers)]
NextTier(current) ==
    LET lower == {i \in 1..Len(Tiers) : Tiers[i] < current}
    IN IF lower = {} THEN LastTier ELSE Tiers[Min(lower)]

LearnedWindow(current, confirmed) ==
    IF confirmed > 0 /\ confirmed < current THEN confirmed ELSE NextTier(current)

LearnedEntry(win, deg) ==
    [win |-> win, src |-> "overflow", deg |-> deg, at |-> clock,
     exp |-> clock + TTL.learned, stale |-> clock + TTL.learned, neg |-> FALSE]

\* LearnOverflow.  A discovery that is under way will replace the limit.
LearnOverflow(q, confirmed) ==
    LET m == reqs[q].model
        e == LearnedEntry(LearnedWindow(reqs[q].win, confirmed), reqs[q].deg + 1)
    IN /\ reqs[q].pc = "generate" /\ reqs[q].attempt < 3
       /\ Put([cache EXCEPT ![m] = e], [learned EXCEPT ![m] = IF inflight[m] = None
                                                              THEN [e EXCEPT !.exp = clock + TTL.learned,
                                                                             !.stale = clock + TTL.learned]
                                                              ELSE NoEntry])
       /\ reqs' = [reqs EXCEPT ![q] = [WithLimits(reqs[q], e) EXCEPT !.tried = reqs[q].win, !.attempt = reqs[q].attempt + 1]]
       /\ UNCHANGED <<loaded, inflight, listing, clock, begun>>

\* An answer, another failure, or a fourth refusal.
GenerateEnds(q) ==
    /\ reqs[q].pc = "generate"
    /\ reqs' = [reqs EXCEPT ![q] = IdleReq]
    /\ UNCHANGED <<cache, disk, loaded, inflight, listing, clock, learned, begun, faults>>

-----------------------------------------------------------------------------
Tick ==
    /\ clock < MaxClock /\ \A q \in Requests : reqs[q].pc # "store"
    /\ clock' = clock + 1
    /\ UNCHANGED <<cache, disk, loaded, inflight, listing, reqs, learned, begun, faults>>

Same(e, f) == e.win = f.win /\ e.src = f.src /\ e.at = f.at

Restart ==
    /\ faults < MaxFaults /\ faults' = faults + 1
    /\ loaded' = FALSE /\ cache' = Empty
    /\ inflight' = [m \in Models |-> None]
    /\ listing' = [holder |-> None, at |-> -1]
    /\ reqs' = [q \in Requests |-> IdleReq]
    /\ learned' = [m \in Models |-> IF Same(disk[m], learned[m]) THEN learned[m] ELSE NoEntry]
    /\ UNCHANGED <<disk, clock, begun>>

\* A former process may have left an endpoint's answer in the file.
LimitsInit ==
    /\ cache = Empty /\ loaded = FALSE
    /\ \E m \in Models, win \in Windows : disk \in {Empty, [Empty EXCEPT ![m] =
         [win |-> win, src |-> "endpoint", deg |-> 0, at |-> 0,
          exp |-> TTL.endpoint, stale |-> TTL.stale, neg |-> FALSE]]}
    /\ inflight = [m \in Models |-> None]
    /\ listing = [holder |-> None, at |-> -1]
    /\ reqs = [q \in Requests |-> IdleReq]
    /\ clock = 0 /\ learned = Empty
    /\ begun = 0 /\ faults = 0

Works(q) ==
    \/ Lookup(q) \/ WaitCancelled(q) \/ AskEndpoint(q) \/ AskNobody(q)
    \/ CatalogKept(q) \/ CatalogAsked(q) \/ CatalogFetched(q)
    \/ RecordLimit(q) \/ Abandon(q)

LimitsNext ==
    \/ \E q \in Requests :
         \/ \E m \in Models : Begin(q, m)
         \/ Works(q) \/ CancelRequest(q) \/ GenerateEnds(q)
         \/ \E confirmed \in Windows \cup {0} : LearnOverflow(q, confirmed)
    \/ Tick \/ Restart

LimitsSpec == LimitsInit /\ [][LimitsNext]_limitsVars

-----------------------------------------------------------------------------
\* A model is discovered by one request at a time, and a place that is taken
\* is taken by a request that works on it: nobody waits for nothing.
Discovering == {q \in Requests : reqs[q].pc \in {"discover", "catalog", "fetch", "store"}}
OneDiscovery ==
    /\ \A q \in Discovering : inflight[reqs[q].model] = q
    /\ \A m \in Models : inflight[m] # None => inflight[m] \in Discovering
    /\ \A q \in Requests : reqs[q].pc = "wait" => inflight[reqs[q].model] # None

\* The limit a request starts with is not older than its source allows; an
\* older one only when this request asked and nobody knew better, never one
\* that was learned or guessed, and never one past the stale term.
LimitIsCurrent ==
    \A q \in Requests :
        LET r == reqs[q] IN (r.pc = "generate" /\ r.attempt = 0) =>
             CASE r.src = "fallback" -> r.age < TTL.negative
               [] r.src = "overflow" -> r.age < TTL.learned
               [] OTHER -> r.age < TtlFor(r.src) \/ (r.asked /\ r.age < TTL.stale)

\* A request refused as too long is tried again with less, unless its window
\* is the configured one or there is no smaller tier.
RecoveryShrinks ==
    \A q \in Requests :
        (reqs[q].pc = "generate" /\ reqs[q].attempt > 0 /\ Configured[reqs[q].model] = 0 /\ reqs[q].tried > LastTier)
            => reqs[q].win < reqs[q].tried

\* What a refusal taught lasts its term, through later discoveries and a
\* restart: only a discovery that was already under way, the cache's limit or
\* an unsaved file loses it.
LearnedLasts ==
    \A m \in Models : (loaded /\ learned[m].exp > clock) => cache[m].win = learned[m].win

\* The window a request works with, from discovery over the cache and the restart to
\* the recovery from a refusal.
LimitsHold == OneDiscovery /\ LimitIsCurrent /\ RecoveryShrinks /\ LearnedLasts
=============================================================================
