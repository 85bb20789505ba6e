---------------------------- MODULE McpManager ----------------------------
(***************************************************************************)
(* The MCP manager (internal/mcpclient/manager.go, tools.go) and the      *)
(* application's view of it (internal/app/mcp.go).                        *)
(*                                                                         *)
(* Every configured server has a runtime: its configuration switch, a     *)
(* status, at most one session, a generation that every change of session *)
(* raises, and what the session listed.  Callers run Reconnect, Enable,   *)
(* Disable and Logout; goroutines of the manager watch a session for its  *)
(* end, load the optional part of a catalog and refresh it when the       *)
(* server says that it changed; the agent's tool calls use the sessions.  *)
(* rebuildCatalog publishes the union of the connected runtimes, and a    *)
(* watcher of the application copies it to the conversations.             *)
(*                                                                         *)
(* A server's offer is the version of what it lists: a list_changed       *)
(* notification raises it.  rebuildCatalog and the publication that       *)
(* follows it are one step (nothing but a subscriber's reading can tell). *)
(***************************************************************************)
EXTENDS Naturals, FiniteSets

CONSTANTS
  Servers,        \* names of the configured servers
  MaxOp,          \* bound: operations, each run by a goroutine of its caller
  None,
  MaxRetries,     \* maxConnectionRetries
  Budgets         \* bounds, one record per scenario: how many operations
                  \* (op), changes of a server's lists (offer), sessions
                  \* ended by their server (end), tool calls (call) and
                  \* requests that configure their runtime (send), and
                  \* whether the application watches (watch) and may close
                  \* the manager (close)

ASSUME McpAssumption ==
  /\ IsFiniteSet(Servers) /\ None \notin Servers \cup (0 .. MaxOp)
  /\ MaxRetries \in Nat /\ MaxOp \in Nat
  /\ Budgets \subseteq [op : 0 .. MaxOp, offer : Nat, end : Nat, call : Nat, send : Nat,
                  watch : BOOLEAN, close : BOOLEAN]

VARIABLES
  closed,      \* Manager.closed
  rt,          \* serverRuntime of every server
  connectMu,   \* who holds serverRuntime.connectMu
  refreshMu,   \* the goroutine that holds serverRuntime.refreshMu
  op,          \* the operation every caller runs
  work,        \* goroutines the manager started, and tool calls
  open,        \* sessions with a live connection, by server
  cut,         \* sessions whose calls were cancelled (cancelCalls)
  catalog,     \* Manager.tools, contexts and fingerprint
  offer,       \* external: what every server lists
  news,        \* an event about the state waits in the watcher's channel
  subscribed,  \* the watcher's subscription is open
  watcher,     \* the watcher: what it has read so far
  sender,      \* a request in configureMCPRuntime: what it has read so far
  view,        \* runtime.mcpState: the catalog the conversations use
  opened,      \* sessions opened so far, numbered in their order
  left         \* what is left of the bounds

vars == <<closed, rt, connectMu, refreshMu, op, work, open, cut, catalog,
          offer, news, subscribed, watcher, sender, view, opened, left>>
appVars == <<subscribed, watcher, sender, view>>

Callers == 1 .. MaxOp

Nothing == [s \in Servers |-> None]
Resting == [pc |-> "idle", kind |-> "none", s |-> None, gen |-> 0, at |-> 0,
            retry |-> 0, sess |-> 0, old |-> 0, saw |-> 0, err |-> "none"]
Returned == [Resting EXCEPT !.pc = "done"]
Unread == [pc |-> "idle", tools |-> Nothing]

Connected(s) == rt[s].status = "connected"

(***************************************************************************)
(* rebuildCatalog, publish                                                 *)
(***************************************************************************)
(* Mutant: a server that lost its session keeps its tools. *)

Snapshot ==
  [s \in Servers |-> IF Connected(s) THEN [tools |-> rt[s].tools, res |-> rt[s].res]
                     ELSE None]

RebuildCatalog == catalog' = IF closed THEN catalog ELSE Snapshot

(* Events about the state: the watcher copies the catalog when it takes one, *)
(* so one that waits stands for all behind it.  A diagnostic is not one.     *)
(* The channel holds 64; what a burst of logging drops is not modelled.      *)
Publish == news' = (news \/ (~closed /\ subscribed))

(***************************************************************************)
(* The operations: what a caller starts.  disconnect cuts the session      *)
(* under the runtime's lock and does not wait for a connect in progress.   *)
(***************************************************************************)
Start(c, kind, s) ==
  /\ op[c].pc = "idle" /\ ~closed /\ c <= left.op
  /\ \A d \in 1 .. c - 1 : op[d].pc # "idle"
  /\ op' = [op EXCEPT ![c] = [Resting EXCEPT
              !.pc = IF kind = "enable" THEN "connect" ELSE "cut", !.kind = kind, !.s = s]]
  /\ rt' = IF kind \in {"enable", "disable"}
             THEN [rt EXCEPT ![s].on = (kind = "enable")] ELSE rt
  /\ UNCHANGED <<closed, connectMu, refreshMu, work, open, cut, catalog, offer, news, appVars, opened, left>>

StatusAfter(kind) ==
  CASE kind = "disable" -> "disabled"
    [] kind = "logout" -> "needs_auth"
    [] OTHER -> "disconnected"

Severed(r, status) ==
  [r EXCEPT !.sess = 0, !.gen = @ + 1, !.status = status, !.tools = None, !.res = None]

(* Mutant: an operation leaves the calls of the session it closes running. *)

Disconnect(c) ==
  LET s == op[c].s IN
  /\ op[c].pc = "cut"
  /\ rt' = [rt EXCEPT ![s] = Severed(@, StatusAfter(op[c].kind))]
  /\ cut' = cut \cup ({rt[s].sess} \ {0})
  /\ op' = [op EXCEPT ![c].pc = "cut_done", ![c].old = rt[s].sess]
  /\ UNCHANGED <<closed, connectMu, refreshMu, work, open, catalog, offer, news, appVars, opened, left>>

(* The rest of disconnect: the catalog, the event, the old session. *)
DisconnectTold(c) ==
  /\ op[c].pc = "cut_done"
  /\ RebuildCatalog /\ Publish
  /\ open' = [n \in DOMAIN open \ {op[c].old} |-> open[n]]
  /\ op' = [op EXCEPT ![c] = IF op[c].kind = "reconnect"
              THEN [@ EXCEPT !.pc = "connect", !.old = 0] ELSE Returned]
  /\ UNCHANGED <<closed, rt, connectMu, refreshMu, work, cut, offer, appVars, opened, left>>

(* Every operation looks the runtime up again, which a closed manager refuses. *)
Refused(c) ==
  /\ closed /\ op[c].pc \in {"cut", "connect"}
  /\ op' = [op EXCEPT ![c] = Returned]
  /\ UNCHANGED <<closed, rt, connectMu, refreshMu, work, open, cut, catalog, offer, news, appVars, opened, left>>

(***************************************************************************)
(* connect: one at a time per server, each with its attempts               *)
(***************************************************************************)
Connect(c) ==
  LET s == op[c].s IN
  /\ op[c].pc = "connect" /\ connectMu[s] = None
  /\ connectMu' = [connectMu EXCEPT ![s] = c]
  /\ op' = [op EXCEPT ![c].pc = "attempt", ![c].gen = rt[s].gen]
  /\ UNCHANGED <<closed, rt, refreshMu, work, open, cut, catalog, offer, news, appVars, opened, left>>

(* Mutant: a path out of connect forgets the lock. *)
FinishLocked(c) ==
  /\ op' = [op EXCEPT ![c] = Returned]
  /\ UNCHANGED connectMu

Finish(c) ==
  /\ op' = [op EXCEPT ![c] = Returned]
  /\ connectMu' = [connectMu EXCEPT ![op[c].s] = None]

AttemptDisabled(c) ==
  LET s == op[c].s IN
  /\ op[c].pc = "attempt" /\ ~closed /\ ~rt[s].on
  /\ rt' = [rt EXCEPT ![s].status = "disabled"]
  /\ Finish(c) /\ Publish
  /\ UNCHANGED <<closed, refreshMu, work, open, cut, catalog, offer, appVars, opened, left>>

Attempt(c) ==
  LET s == op[c].s IN
  /\ op[c].pc = "attempt" /\ ~closed /\ rt[s].on
  /\ rt' = [rt EXCEPT ![s].status = IF op[c].retry = 0 THEN "connecting" ELSE "reconnecting"]
  /\ op' = [op EXCEPT ![c].pc = "dial", ![c].at = rt[s].gen, ![c].saw = offer[s]]
  /\ Publish
  /\ UNCHANGED <<closed, connectMu, refreshMu, work, open, cut, catalog, offer, appVars, opened, left>>

Retryable(c, err) == err = "transient" /\ op[c].retry < MaxRetries /\ ~closed

(* No session, or no list of its tools: a startup that timed out, an error of *)
(* the transport, a missing authorisation, a cancelled context. *)
DialFails(c, err) ==
  /\ op[c].pc = "dial" \/ (op[c].pc = "attempt" /\ closed)
  /\ op' = [op EXCEPT ![c] = IF Retryable(c, err)
              THEN [@ EXCEPT !.pc = "attempt", !.retry = op[c].retry + 1]
              ELSE [@ EXCEPT !.pc = "failed", !.err = err]]
  /\ UNCHANGED <<closed, rt, connectMu, refreshMu, work, open, cut, catalog, offer, news, appVars, opened, left>>

(* The server accepts the connection and lists its tools. *)
Dialled(c) ==
  LET s == op[c].s IN
  /\ op[c].pc = "dial"
  /\ open' = [n \in DOMAIN open \cup {opened + 1} |-> IF n = opened + 1 THEN s ELSE open[n]]
  /\ op' = [op EXCEPT ![c].pc = "listed", ![c].sess = opened + 1, ![c].saw = offer[s]]
  /\ opened' = opened + 1
  /\ UNCHANGED <<closed, rt, connectMu, refreshMu, work, cut, catalog, offer, news, appVars, left>>

(* Mutant: only the switch is looked at again, never what happened meanwhile. *)
StillWantedSwitchOnly(c) == rt[op[c].s].on

StillWanted(c) ==
  LET s == op[c].s IN ~closed /\ rt[s].gen = op[c].at /\ rt[s].on

Installed(r, sess, tools) ==
  [r EXCEPT !.sess = sess, !.gen = @ + 1, !.status = "connected", !.tools = tools, !.res = None]

Install(c) ==
  LET s == op[c].s IN
  /\ op[c].pc = "listed" /\ StillWanted(c)
  /\ rt' = [rt EXCEPT ![s] = Installed(@, op[c].sess, op[c].saw)]
  /\ cut' = cut \cup ({rt[s].sess} \ {0})
  /\ op' = [op EXCEPT ![c].pc = "installed", ![c].old = rt[s].sess]
  /\ UNCHANGED <<closed, connectMu, refreshMu, work, open, catalog, offer, news, appVars, opened, left>>

(* The session is closed again and the attempt ends with context.Canceled. *)
Discard(c) ==
  /\ op[c].pc = "listed" /\ ~StillWanted(c)
  /\ open' = [n \in DOMAIN open \ {op[c].sess} |-> open[n]]
  /\ op' = [op EXCEPT ![c].pc = "failed", ![c].err = "other"]
  /\ UNCHANGED <<closed, rt, connectMu, refreshMu, work, cut, catalog, offer, news, appVars, opened, left>>

Goroutine(kind, pc, s, sess, gen, saw) ==
  [kind |-> kind, pc |-> pc, s |-> s, sess |-> sess, gen |-> gen, saw |-> saw]

(* The rest of a successful attempt: the old session, the catalog, the event, *)
(* the monitor of the new session and the load of its optional catalog. *)
Announce(c) ==
  LET s == op[c].s
      gen == op[c].at + 1 IN
  /\ op[c].pc = "installed"
  /\ open' = [n \in DOMAIN open \ {op[c].old} |-> open[n]]
  /\ RebuildCatalog /\ Publish
  /\ work' = work \cup {Goroutine("monitor", "wait", s, op[c].sess, gen, 0),
                        Goroutine("optional", "start", s, op[c].sess, gen, 0)}
  /\ Finish(c)
  /\ UNCHANGED <<closed, rt, refreshMu, cut, offer, appVars, opened, left>>

(* Mutant: the failure of an old attempt overwrites whatever came after it. *)
FailureCountsAlways(c) == ~closed

FailureCounts(c) ==
  LET s == op[c].s IN ~closed /\ rt[s].gen = op[c].gen /\ rt[s].on

ConnectionFailed(c) ==
  LET s == op[c].s IN
  /\ op[c].pc = "failed"
  /\ IF FailureCounts(c)
       THEN /\ rt' = [rt EXCEPT ![s].status =
                        IF op[c].err = "auth" THEN "needs_auth" ELSE "error"]
            /\ op' = [op EXCEPT ![c].pc = "failure_told"]
            /\ UNCHANGED connectMu
       ELSE Finish(c) /\ UNCHANGED rt
  /\ UNCHANGED <<closed, refreshMu, work, open, cut, catalog, offer, news, appVars, opened, left>>

(* Only a diagnostic is published: the watcher does not copy the catalog for it. *)
FailureTold(c) ==
  /\ op[c].pc = "failure_told"
  /\ RebuildCatalog /\ Finish(c)
  /\ UNCHANGED <<closed, rt, refreshMu, work, open, cut, offer, news, appVars, opened, left>>

(***************************************************************************)
(* The manager's goroutines and the tool calls                             *)
(***************************************************************************)
Replace(g, h) == work' = (work \ {g}) \cup {h}
Ends(g) == work' = work \ {g}

(* The last step of a goroutine that changed a runtime. *)
Tell(g) ==
  /\ g \in work /\ g.pc = "tell"
  /\ RebuildCatalog /\ Publish /\ Ends(g)
  /\ open' = IF g.kind = "call" THEN [n \in DOMAIN open \ {g.sess} |-> open[n]] ELSE open
  /\ refreshMu' = IF g.kind \in {"refresh", "optional"}
                    THEN [refreshMu EXCEPT ![g.s] = None] ELSE refreshMu
  /\ UNCHANGED <<closed, rt, connectMu, op, cut, offer, appVars, opened, left>>

(* monitor: session.Wait returned. *)
MonitorStale(g) ==
  closed \/ rt[g.s].gen # g.gen \/ rt[g.s].sess # g.sess \/ ~rt[g.s].on

Monitor(g) ==
  /\ g \in work /\ g.kind = "monitor" /\ g.pc = "wait" /\ g.sess \notin DOMAIN open
  /\ IF MonitorStale(g) THEN Ends(g) /\ UNCHANGED <<rt, cut>>
     ELSE /\ \E status \in {"disconnected", "error", "needs_auth"} :
               rt' = [rt EXCEPT ![g.s].sess = 0, ![g.s].status = status]
          /\ cut' = cut \cup {g.sess}
          /\ Replace(g, [g EXCEPT !.pc = "tell"])
  /\ UNCHANGED <<closed, connectMu, refreshMu, op, open, catalog, offer, news, appVars, opened, left>>

(* loadOptionalCatalog and refresh take turns on refreshMu and look at the *)
(* runtime again before they apply what they fetched. *)
Usable(g) ==
  /\ Connected(g.s)
  /\ g.kind = "optional" => rt[g.s].sess = g.sess /\ rt[g.s].gen = g.gen

Fetch(g) ==
  /\ g \in work /\ g.kind \in {"refresh", "optional"} /\ g.pc = "start" /\ refreshMu[g.s] = None
  /\ IF Usable(g) /\ rt[g.s].sess # 0
       THEN /\ Replace(g, [g EXCEPT !.pc = "fetch", !.sess = rt[g.s].sess, !.saw = offer[g.s]])
            /\ refreshMu' = [refreshMu EXCEPT ![g.s] = g.kind]
       ELSE Ends(g) /\ UNCHANGED refreshMu
  /\ UNCHANGED <<closed, rt, connectMu, op, open, cut, catalog, offer, news, appVars, opened, left>>

FetchFails(g) ==
  /\ g \in work /\ g.pc = "fetch"
  /\ Ends(g) /\ refreshMu' = [refreshMu EXCEPT ![g.s] = None]
  /\ UNCHANGED <<closed, rt, connectMu, op, open, cut, catalog, offer, news, appVars, opened, left>>

StillCurrent(g) == Usable(g) /\ rt[g.s].sess = g.sess

(* The lists were read at some moment since the request was sent. *)
Apply(g) ==
  /\ g \in work /\ g.pc = "fetch"
  /\ IF StillCurrent(g)
       THEN /\ \E v \in g.saw .. offer[g.s] :
                 rt' = [rt EXCEPT ![g.s].res = v,
                                  ![g.s].tools = IF g.kind = "refresh" THEN v ELSE @]
            /\ Replace(g, [g EXCEPT !.pc = "tell"])
            /\ UNCHANGED refreshMu
       ELSE /\ Ends(g) /\ refreshMu' = [refreshMu EXCEPT ![g.s] = None]
            /\ UNCHANGED rt
  /\ UNCHANGED <<closed, connectMu, op, open, cut, catalog, offer, news, appVars, opened, left>>

(* withSessionCall: beginCall, and the two ways a call returns. *)
BeginCall(s) ==
  /\ rt[s].sess # 0 /\ Connected(s) /\ left.call > 0
  /\ work' = work \cup {Goroutine("call", "run", s, rt[s].sess, left.call, 0)}
  /\ left' = [left EXCEPT !.call = @ - 1]
  /\ UNCHANGED <<closed, rt, connectMu, refreshMu, op, open, cut, catalog, offer, news, appVars, opened>>

CallReturns(g) ==
  /\ g \in work /\ g.kind = "call" /\ g.pc = "run"
  /\ Ends(g)
  /\ UNCHANGED <<closed, rt, connectMu, refreshMu, op, open, cut, catalog, offer, news, appVars, opened, left>>

(* failSession: the server no longer knows the session. *)
SessionMissing(g) ==
  /\ g \in work /\ g.kind = "call" /\ g.pc = "run" /\ g.sess \notin DOMAIN open
  /\ IF rt[g.s].sess = g.sess
       THEN /\ rt' = [rt EXCEPT ![g.s] = Severed(@, "error")]
            /\ cut' = cut \cup {g.sess}
            /\ Replace(g, [g EXCEPT !.pc = "tell"])
       ELSE Ends(g) /\ UNCHANGED <<rt, cut>>
  /\ UNCHANGED <<closed, connectMu, refreshMu, op, open, catalog, offer, news, appVars, opened, left>>

(***************************************************************************)
(* Close                                                                   *)
(***************************************************************************)
(* closeMCPLocked ends the watcher and empties the view before the manager. *)
Unsubscribe ==
  /\ subscribed /\ left.close /\ subscribed' = FALSE
  /\ UNCHANGED <<closed, rt, connectMu, refreshMu, op, work, open, cut, catalog, offer,
                 news, watcher, sender, view, opened, left>>

Close ==
  /\ ~closed /\ left.close /\ ~subscribed /\ ~news /\ watcher.pc = "idle"
  /\ closed' = TRUE /\ catalog' = Nothing /\ view' = Nothing
  /\ work' = work \cup {Goroutine("closer", "run", s, 0, 0, 0) : s \in Servers}
  /\ UNCHANGED <<rt, connectMu, refreshMu, op, open, cut, offer, news, subscribed, watcher,
                 sender, opened, left>>

CloseServer(g) ==
  /\ g \in work /\ g.kind = "closer"
  /\ rt' = [rt EXCEPT ![g.s].sess = 0, ![g.s].gen = @ + 1, ![g.s].status = "disconnected"]
  /\ cut' = cut \cup ({rt[g.s].sess} \ {0})
  /\ open' = [n \in DOMAIN open \ {rt[g.s].sess} |-> open[n]]
  /\ Ends(g)
  /\ UNCHANGED <<closed, connectMu, refreshMu, op, catalog, offer, news, appVars, opened, left>>

(***************************************************************************)
(* The servers                                                             *)
(***************************************************************************)
(* A list_changed notification: one refresh per session that hears it. *)
OfferChanges(s) ==
  /\ left.offer > 0 /\ \E n \in DOMAIN open : open[n] = s
  /\ offer' = [offer EXCEPT ![s] = @ + 1]
  /\ left' = [left EXCEPT !.offer = @ - 1]
  /\ work' = work \cup {Goroutine("refresh", "start", s, 0, 0, offer[s] + 1)}
  /\ UNCHANGED <<closed, rt, connectMu, refreshMu, op, open, cut, catalog, news, appVars, opened>>

SessionEnds(n) ==
  /\ left.end > 0 /\ n \in DOMAIN open
  /\ open' = [m \in DOMAIN open \ {n} |-> open[m]]
  /\ left' = [left EXCEPT !.end = @ - 1]
  /\ UNCHANGED <<closed, rt, connectMu, refreshMu, op, work, cut, catalog, offer, news, appVars, opened>>

(***************************************************************************)
(* The application: mcpStateFromManager reads the tools, then the          *)
(* contexts; storeMCPState replaces the view.  The watcher does it for     *)
(* every event about the state, a request when it configures its runtime.  *)
(***************************************************************************)
managerVars == <<closed, rt, connectMu, refreshMu, op, work, open, cut, catalog, offer>>

WatcherTakes ==
  /\ watcher.pc = "idle" /\ news
  /\ news' = FALSE
  /\ watcher' = [pc |-> "store", tools |-> catalog]
  /\ UNCHANGED <<managerVars, subscribed, sender, view, opened, left>>

WatcherStores ==
  /\ watcher.pc = "store"
  /\ view' = watcher.tools /\ watcher' = Unread
  /\ UNCHANGED <<managerVars, news, subscribed, sender, opened, left>>

SenderReads ==
  /\ sender.pc = "idle" /\ left.send > 0 /\ ~closed
  /\ sender' = [pc |-> "store", tools |-> catalog]
  /\ left' = [left EXCEPT !.send = @ - 1]
  /\ UNCHANGED <<managerVars, news, subscribed, watcher, view, opened>>

SenderStores ==
  /\ sender.pc = "store"
  /\ view' = sender.tools /\ sender' = Unread
  /\ UNCHANGED <<managerVars, news, subscribed, watcher, opened, left>>

(***************************************************************************)
(* OpenWithOptions returns when the first connect of every enabled server   *)
(* ended: with a session, its monitor and the load of its optional catalog,  *)
(* or with an error.  The watcher is subscribed and the view was stored.     *)
(***************************************************************************)
Off == [on |-> TRUE, status |-> "error", sess |-> 0, gen |-> 0, tools |-> None, res |-> None]
InitUp(up, number) ==
  /\ rt = [s \in Servers |-> IF s \in up
             THEN [Off EXCEPT !.status = "connected", !.sess = number[s], !.gen = 1, !.tools = 0]
             ELSE Off]
  /\ open = [n \in {number[s] : s \in up} |-> CHOOSE s \in up : number[s] = n]
  /\ work = UNION {{Goroutine("monitor", "wait", s, number[s], 1, 0),
                    Goroutine("optional", "start", s, number[s], 1, 0)} : s \in up}

Init ==
  /\ closed = FALSE /\ left \in Budgets
  /\ \E up \in SUBSET Servers, number \in [Servers -> 1 .. Cardinality(Servers)] :
       /\ \A s, t \in Servers : s # t => number[s] # number[t]
       /\ InitUp(up, number)
  /\ connectMu = [s \in Servers |-> None] /\ refreshMu = [s \in Servers |-> None]
  /\ op = [c \in Callers |-> Resting] /\ cut = {}
  /\ catalog = Snapshot /\ view = Snapshot
  /\ offer = [s \in Servers |-> 0]
  /\ news = FALSE /\ subscribed = left.watch /\ watcher = Unread /\ sender = Unread
  /\ opened = Cardinality(Servers)

Operation(c) ==
  \/ \E kind \in {"reconnect", "enable", "disable", "logout"}, s \in Servers : Start(c, kind, s)

Step(c) ==
  \/ Disconnect(c) \/ DisconnectTold(c) \/ Refused(c) \/ Connect(c)
  \/ AttemptDisabled(c) \/ Attempt(c) \/ Dialled(c)
  \/ \E err \in {"transient", "auth", "other"} : DialFails(c, err)
  \/ Install(c) \/ Discard(c) \/ Announce(c) \/ ConnectionFailed(c) \/ FailureTold(c)

Background ==
  \E g \in work :
    Tell(g) \/ Monitor(g) \/ Fetch(g) \/ FetchFails(g) \/ Apply(g)
      \/ CallReturns(g) \/ SessionMissing(g) \/ CloseServer(g)

Application == WatcherTakes \/ WatcherStores \/ SenderReads \/ SenderStores

External ==
  \/ Unsubscribe \/ Close
  \/ \E s \in Servers : OfferChanges(s) \/ BeginCall(s)
  \/ \E n \in DOMAIN open : SessionEnds(n)

Next == (\E c \in Callers : Operation(c) \/ Step(c)) \/ Background \/ Application \/ External

Spec == Init /\ [][Next]_vars

(* A dial, a fetch and a call end by their timeouts and a goroutine that can *)
(* run does; callers, servers, calls and requests may stop at any time.      *)
FairSpec ==
  Spec /\ (\A c \in Callers : WF_vars(Step(c))) /\ WF_vars(Background)

(***************************************************************************)
(* Properties                                                              *)
(***************************************************************************)
Statuses == {"disabled", "connecting", "connected", "needs_auth", "reconnecting",
             "disconnected", "error"}
TypeOK ==
  /\ \A s \in Servers :
       /\ rt[s].status \in Statuses /\ rt[s].sess \in 0 .. opened
       /\ {rt[s].tools, rt[s].res} \subseteq (0 .. offer[s]) \cup {None}
       /\ connectMu[s] \in Callers \cup {None}
  /\ DOMAIN open \subseteq 1 .. opened

Parked(g) == (g.kind = "monitor" /\ g.sess \in DOMAIN open) \/ (g.kind = "call" /\ g.pc = "run")
Settled == (\A c \in Callers : op[c].pc \in {"idle", "done"}) /\ (\A g \in work : Parked(g))

(* Every connection that is open belongs to a runtime or to a goroutine that *)
(* will install or close it; a closed manager leaves none; and a call never  *)
(* runs on beside the session it was made in (manager.go: connectAttempt,    *)
(* disconnect, failSession, monitor and Close, each with its own lock order).*)
SessionsAreOwned ==
  /\ TypeOK
  /\ \A n \in DOMAIN open :
       \/ rt[open[n]].sess = n
       \/ \E c \in Callers : op[c].old = n \/ (op[c].sess = n /\ op[c].pc \in {"listed", "installed"})
       \/ \E g \in work : g.kind = "call" /\ g.pc = "tell" /\ g.sess = n
  /\ closed /\ Settled => DOMAIN open = {}
  /\ \A g \in work : g.kind = "call" /\ g.pc = "run" => g.sess = rt[g.s].sess \/ g.sess \in cut

(* When nothing is under way the published catalog is what the connected     *)
(* sessions list, and a server that is switched off is down and contributes  *)
(* nothing, whatever connect, failure or notification raced with it.         *)
CatalogFollows ==
  Settled /\ ~closed =>
    \A s \in Servers :
      /\ Connected(s) => rt[s].on /\ rt[s].sess # 0
      /\ catalog[s] = IF Connected(s) THEN [tools |-> rt[s].tools, res |-> rt[s].res] ELSE None
      /\ ~rt[s].on => rt[s].status \in {"disabled", "needs_auth"} /\ rt[s].sess = 0

(* Every operation a caller starts returns. *)
OperationsReturn == \A c \in Callers : (op[c].pc # "idle") ~> (op[c].pc = "done")
=============================================================================
