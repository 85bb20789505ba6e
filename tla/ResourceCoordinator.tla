------------------------- MODULE ResourceCoordinator -------------------------
(***************************************************************************)
(* internal/tool/coordinator.go: one queue of resource claims shared by all *)
(* executors of a session (the conversation's own and its subagents').      *)
(* A caller is a goroutine executing one tool call at a time. Everything    *)
(* between Lock and Unlock is one step; between two steps a caller sits in   *)
(* the select on its context and on the channel it read under the lock.      *)
(* The channel is closed, never sent to, so a signal reaches every caller    *)
(* that had read it: woken is the set of callers whose channel is closed.    *)
(***************************************************************************)
EXTENDS Integers, Sequences, SequencesExt

CONSTANTS
  Caller,          \* goroutines that call Acquire
  Name,            \* path elements
  WorkspacePaths,  \* the files and directories of the workspace, as Seq(Name)
  Submitted        \* the ConcurrencySpec values tools hand in, before normalisation

ASSUME CoordinatorAssumption ==
  /\ WorkspacePaths \subseteq Seq(Name)
  /\ \A s \in Submitted : \A claim \in s.claims : claim.path \in Seq(Name)

VARIABLES
  standing,    \* standing[c]: "idle", "waiting" or "holding"
  spec,        \* spec[c]: the normalised spec of the call c is executing
  waiters,     \* ResourceCoordinator.waiters: callers in order of arrival
  woken,       \* callers whose channel has been closed since they read it
  contextDone, \* callers whose context is done
  ahead        \* history: ahead[c], callers waiting ever since before c arrived

coordinatorVars == <<standing, spec, waiters, woken, contextDone, ahead>>

Exclusive == [mode |-> "exclusive", claims |-> {}]
Shared    == [mode |-> "shared", claims |-> {}]

-----------------------------------------------------------------------------
(* Specs and their conflicts (executor.go) *)

\* A claim names a file or a tree by its path and the access it wants. A spec the
\* coordinator cannot read, like a mode it does not know, is exclusive.
Readable(claim) == /\ claim.path # <<>>
                   /\ claim.kind \in {"file", "tree"}
                   /\ claim.access \in {"read", "write"}

Normalised(s) ==
  CASE s.mode = "shared" -> Shared
    [] s.mode = "claimed" /\ s.claims # {} /\ (\A claim \in s.claims : Readable(claim)) ->
         [mode |-> "claimed", claims |-> s.claims]
    [] OTHER -> Exclusive

TreeContains(tree, path) == IsPrefix(tree, path)

\* Mutant: two trees overlap only when they are the same tree.
OverlapSameTree(l, r) ==
  CASE l.kind = "tree" /\ r.kind = "file" -> TreeContains(l.path, r.path)
    [] l.kind = "file" /\ r.kind = "tree" -> TreeContains(r.path, l.path)
    [] OTHER -> l.path = r.path

Overlap(l, r) ==
  CASE l.kind = "file" /\ r.kind = "file" -> l.path = r.path
    [] l.kind = "tree" /\ r.kind = "file" -> TreeContains(l.path, r.path)
    [] l.kind = "file" /\ r.kind = "tree" -> TreeContains(r.path, l.path)
    [] OTHER -> TreeContains(l.path, r.path) \/ TreeContains(r.path, l.path)

Conflicts(l, r) ==
  \/ l.mode = "exclusive" \/ r.mode = "exclusive"
  \/ /\ l.mode = "claimed" /\ r.mode = "claimed"
     /\ \E first \in l.claims, second \in r.claims :
          (first.access = "write" \/ second.access = "write") /\ Overlap(first, second)
-----------------------------------------------------------------------------
(* The queue *)

Holders == {c \in Caller : standing[c] = "holding"}
Waiting == {c \in Caller : standing[c] = "waiting"}

\* Mutant: a waiter only looks at what is granted, not at who came first.
GrantableOvertaking(c, s, queue) == \A h \in Holders : ~Conflicts(s, spec[h])

\* canAcquireLocked for c, whose spec is s, at its place in the queue.
Grantable(c, s, queue) ==
  /\ \A h \in Holders : ~Conflicts(s, spec[h])
  /\ \A i, j \in DOMAIN queue : queue[i] = c /\ j < i => ~Conflicts(s, spec[queue[j]])

\* waiterIndexLocked, and the removal of that element.
Place(c) == CHOOSE i \in DOMAIN waiters : waiters[i] = c
WaitersWithout(c) == RemoveAt(waiters, Place(c))

\* signalLocked, called by c: every other caller in the select is told.
SignalOthers(c) == woken' = (woken \cup Waiting) \ {c}

\* Acquire under its first lock: join the queue, then take the claim or wait.
Arrive(c, submitted) ==
  LET s     == Normalised(submitted)
      queue == Append(waiters, c)
  IN /\ standing[c] = "idle" /\ c \notin contextDone
     /\ spec' = [spec EXCEPT ![c] = s]
     /\ ahead' = [ahead EXCEPT ![c] = Waiting]
     /\ IF Grantable(c, s, queue)
        THEN /\ standing' = [standing EXCEPT ![c] = "holding"]
             /\ SignalOthers(c)
             /\ UNCHANGED waiters
        ELSE /\ standing' = [standing EXCEPT ![c] = "waiting"]
             /\ waiters' = queue
             /\ UNCHANGED woken
     /\ UNCHANGED contextDone

\* c leaves the queue, to hold its claim or with its context's error.
Dequeue(c, next) ==
  /\ standing' = [standing EXCEPT ![c] = next]
  /\ waiters' = WaitersWithout(c)
  /\ SignalOthers(c)
  /\ ahead' = [d \in Caller |-> ahead[d] \ {c}]
  /\ UNCHANGED <<spec, contextDone>>

\* The channel c read was closed: it looks at the queue again, and grants itself
\* the claim unless its context ended in the meantime.
LookAgain(c) ==
  /\ standing[c] = "waiting" /\ c \in woken
  /\ IF Grantable(c, spec[c], waiters)
     THEN Dequeue(c, IF c \in contextDone THEN "idle" ELSE "holding")
     ELSE woken' = woken \ {c} /\ UNCHANGED <<standing, spec, waiters, contextDone, ahead>>

\* The select saw the context end.
GiveUp(c) ==
  /\ standing[c] = "waiting" /\ c \in contextDone
  /\ Dequeue(c, "idle")

\* The release function returned by Acquire; the tool call is over.
ReleaseClaim(c) ==
  /\ standing[c] = "holding"
  /\ standing' = [standing EXCEPT ![c] = "idle"]
  /\ SignalOthers(c)
  /\ UNCHANGED <<spec, waiters, contextDone, ahead>>

\* The context of the call c executes ends: a stopped or timed-out request.
ContextEnds(c) ==
  /\ standing[c] # "idle" /\ c \notin contextDone
  /\ contextDone' = contextDone \cup {c}
  /\ UNCHANGED <<standing, spec, waiters, woken, ahead>>

\* The goroutine's next call comes with a context of its own.
NextCall(c) ==
  /\ standing[c] = "idle" /\ c \in contextDone
  /\ contextDone' = contextDone \ {c}
  /\ UNCHANGED <<standing, spec, waiters, woken, ahead>>

CoordinatorInit ==
  /\ standing = [c \in Caller |-> "idle"]
  /\ spec = [c \in Caller |-> Shared]
  /\ waiters = <<>>
  /\ woken = {} /\ contextDone = {}
  /\ ahead = [c \in Caller |-> {}]

CoordinatorNext == \E c \in Caller :
  \/ \E s \in Submitted : Arrive(c, s)
  \/ LookAgain(c) \/ GiveUp(c) \/ ReleaseClaim(c) \/ ContextEnds(c) \/ NextCall(c)

CoordinatorSpec == CoordinatorInit /\ [][CoordinatorNext]_coordinatorVars

\* A goroutine whose channel is closed runs again, and a tool call ends: each
\* has a timeout or the request's own deadline.
CoordinatorFairSpec ==
  /\ CoordinatorSpec
  /\ \A c \in Caller : /\ WF_coordinatorVars(LookAgain(c)) /\ WF_coordinatorVars(GiveUp(c))
                      /\ WF_coordinatorVars(ReleaseClaim(c))
-----------------------------------------------------------------------------
(* Properties *)

\* What normalizeConcurrencySpec lets into the queue.
IsNormal(s) == \/ s \in {Exclusive, Shared}
               \/ /\ s.mode = "claimed"
                  /\ \A claim \in s.claims : Readable(claim) /\ claim.path \in Seq(Name)

CoordinatorTypeOK ==
  /\ standing \in [Caller -> {"idle", "waiting", "holding"}]
  /\ DOMAIN spec = Caller /\ \A c \in Caller : IsNormal(spec[c])
  /\ waiters \in Seq(Caller)
  /\ woken \subseteq Caller /\ contextDone \subseteq Caller
  /\ ahead \in [Caller -> SUBSET Caller]

\* What a running call may write, and what it may read or write.
Covers(claim, p) == claim.path = p \/ (claim.kind = "tree" /\ TreeContains(claim.path, p))
Writes(s)  == {p \in WorkspacePaths : \/ s.mode = "exclusive"
                                     \/ \E claim \in s.claims : claim.access = "write" /\ Covers(claim, p)}
Touches(s) == {p \in WorkspacePaths : \/ s.mode = "exclusive"
                                     \/ \E claim \in s.claims : Covers(claim, p)}

\* While a tool call that may write a path runs, no other call that may touch
\* that path runs, whichever executor it belongs to.
NoRace == \A c, d \in Holders : c # d => Writes(spec[c]) \cap Touches(spec[d]) = {}

\* An exclusive call runs alone among those that were granted a claim.
ExclusiveRunsAlone == \A c, d \in Holders : c # d => spec[c].mode # "exclusive"

\* The queue holds exactly the callers that are waiting, once each: a cancelled
\* call leaves no waiter behind to block the ones after it.
QueueIsWaiting ==
  /\ {waiters[i] : i \in DOMAIN waiters} = Waiting
  /\ \A i, j \in DOMAIN waiters : waiters[i] = waiters[j] => i = j

\* "Earlier conflicting waiters retain priority": nobody holds a claim that
\* conflicts with a caller that has been waiting since before it arrived.
NoOvertaking == \A c \in Holders : \A w \in ahead[c] : ~Conflicts(spec[c], spec[w])

\* No lost wakeup: a caller that could take its claim now is about to look.
NoLostWakeup == \A c \in Waiting \ woken : ~Grantable(c, spec[c], waiters)

\* A queued call is eventually granted its claim or refused, however many calls
\* keep arriving behind it.
EveryWaitEnds == \A c \in Caller : (standing[c] = "waiting") ~> (standing[c] # "waiting")
=============================================================================
