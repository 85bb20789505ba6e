----------------------------- MODULE CodeFiles -----------------------------
(***************************************************************************)
(* The file tools of internal/tool (read_file, search_code, write_file,     *)
(* edit_file and bash) on one workspace, with the CodeContext they share:   *)
(* the listing of the repository and its generation, the cache of file      *)
(* texts with the loads in flight, and the trigram postings of the search.  *)
(*                                                                          *)
(* A text is the set of those that wrote in it, and holds the searched word *)
(* when it is not empty.  A stamp stands for a file's size and              *)
(* modification time; a version, which no code sees, counts its changes.    *)
(* The coordinator's claims are the guard Claimed.  A search loads one file *)
(* at a time, where the code has several workers.                           *)
(***************************************************************************)
EXTENDS Integers, FiniteSets

CONSTANTS
    Files,       \* integers, in the order of their names
    Calls,       \* tool calls, as integers
    Plans,       \* the plans explored: functions from Calls to [op, file]
    MaxCache,    \* code_context_cache_bytes
    MaxOutside,  \* changes made by other programs
    MaxCancels   \* calls whose context is cancelled

ASSUME CodeFilesAssumption ==
    /\ IsFiniteSet(Files) /\ Files \subseteq Nat \ {0} /\ Calls \subseteq Nat \ {0}
    /\ Plans \subseteq [Calls -> [op : {"read", "search", "shell", "write", "create", "edit"}, file : Files]]
    /\ MaxCache \in Nat \ {0} /\ MaxOutside \in Nat /\ MaxCancels \in Nat

VARIABLES
    plan,     \* what each call does
    workspace,     \* file -> [there, text, stamp, ver]
    cached,    \* file -> [in, text, stamp, ver]
    bytes,    \* cacheBytes: what the code counts in the cache
    loads,   \* file -> [on, text, ver]: a load that has read and not yet looked
    context,    \* CodeContext: [ready, fresh, whole, gen, snap, lexGen, posts]
    refresher,\* the call that holds refreshMu, 0 if none
    lexer,    \* the call that holds lexicalMu, 0 if none
    tool,     \* call -> its locals
    outside,  \* changes by other programs so far
    overtaken \* files that changed under a load, or without a new stamp

fileVars == <<plan, workspace, cached, bytes, loads, context, refresher, lexer, tool, outside, overtaken>>

Op(c) == plan[c].op
Target(c) == plan[c].file
NoLoad == 0
Before == -1  \* the mark of what a text held at the start
Other == 0    \* the mark of another program
NoEntry == [in |-> FALSE, text |-> {}, stamp |-> 0, ver |-> 0]
IdleTool == [pc |-> "idle", cancelled |-> FALSE, from |-> 0, waits |-> NoLoad, todo |-> {},
             text |-> {}, ver |-> 0, snap |-> {}, gen |-> 0, ids |-> {}, found |-> {},
             moved |-> FALSE, whole |-> TRUE, ok |-> FALSE, replaced |-> FALSE, lost |-> FALSE]

HasWord(text) == text # {}
Size(text) == Cardinality(text) + 1
Existing == {f \in Files : workspace[f].there}
Cached(f) == /\ workspace[f].there /\ cached[f].in
             /\ cached[f].stamp = workspace[f].stamp
Writers == {"write", "create", "edit"}
Active(c) == tool[c].pc \notin {"idle", "done"}
Busy(ops) == \E d \in Calls : Active(d) /\ Op(d) \in ops
BusyOn(ops, f) == \E d \in Calls : Active(d) /\ Op(d) \in ops /\ Target(d) = f

Goto(c, pc) == tool' = [tool EXCEPT ![c].pc = pc]
Fails(c) == tool' = [tool EXCEPT ![c].pc = "done", ![c].ok = FALSE]

(***************************************************************************)
(* Claims: a file tool claims its file, a search reads the tree, a shell    *)
(* command runs alone.                                                      *)
(***************************************************************************)

Claimed(c) ==
    CASE Op(c) = "read"   -> ~BusyOn(Writers, Target(c)) /\ ~Busy({"shell"})
      [] Op(c) = "search" -> ~Busy(Writers \cup {"shell"})
      [] Op(c) = "shell"  -> ~\E d \in Calls : Active(d)
      [] OTHER            -> ~Busy({"search", "shell"}) /\ ~BusyOn(Writers \cup {"read"}, Target(c))

FirstStep(op) ==
    CASE op = "read" -> "slice" [] op = "search" -> "refresh"
      [] op = "shell" -> "run"  [] OTHER -> "stat"

Begins(c) ==
    /\ tool[c].pc = "idle" /\ Claimed(c)
    /\ tool' = [tool EXCEPT ![c].pc = FirstStep(Op(c)),
                            ![c].from = IF Op(c) = "search" THEN 0 ELSE workspace[Target(c)].ver,
                            ![c].todo = IF Op(c) = "read" THEN {Target(c)} ELSE {}]
    /\ UNCHANGED <<plan, workspace, cached, bytes, loads, context, refresher, lexer, outside, overtaken>>

CancelTool(c) ==
    /\ tool[c].pc # "done" /\ ~tool[c].cancelled
    /\ Cardinality({d \in Calls : tool[d].cancelled}) < MaxCancels
    /\ tool' = [tool EXCEPT ![c].cancelled = TRUE]
    /\ UNCHANGED <<plan, workspace, cached, bytes, loads, context, refresher, lexer, outside, overtaken>>

(***************************************************************************)
(* Changes of a file.  One made while a load of the file is in flight       *)
(* overtakes it.                                                            *)
(***************************************************************************)
Changed(f, text, stamp) ==
    [workspace EXCEPT ![f] = [there |-> TRUE, text |-> text, stamp |-> stamp, ver |-> @.ver + 1]]
Stamps(f) == {workspace[f].stamp + 1} \cup (IF workspace[f].there THEN {workspace[f].stamp} ELSE {})
Overtaking(f) == overtaken \cup (IF loads[f].on THEN {f} ELSE {})

\* Another program changes a file, or makes one.
OutsideChange(f) ==
    /\ outside < MaxOutside
    /\ outside' = outside + 1
    /\ workspace' = Changed(f, workspace[f].text \cup {Other}, workspace[f].stamp + 1)
    /\ overtaken' = Overtaking(f)
    /\ UNCHANGED <<plan, cached, bytes, loads, context, refresher, lexer, tool>>

-----------------------------------------------------------------------------
(***************************************************************************)
(* Loading a file.  A load reads the text and then takes the stamp; calls   *)
(* that want the same file join it; a call that is cancelled leaves, and    *)
(* the load goes on without it.                                             *)
(***************************************************************************)
Loading == {"slice", "grams", "texts"}
\* What a call does with a text it asked for.
Given(r, f, text, ver) ==
    LET s == [r EXCEPT !.todo = @ \ {f}, !.waits = NoLoad] IN
    CASE r.pc = "slice" -> [s EXCEPT !.pc = "done", !.ok = TRUE, !.text = text, !.ver = ver]
      [] r.pc = "grams" -> IF HasWord(text) THEN [s EXCEPT !.ids = @ \cup {f}] ELSE s
      [] OTHER          -> IF HasWord(text) THEN [s EXCEPT !.found = @ \cup {f}] ELSE s
Skips(r, f) ==
    IF r.pc = "slice" THEN [r EXCEPT !.pc = "done", !.ok = FALSE, !.waits = NoLoad]
    ELSE [r EXCEPT !.todo = @ \ {f}, !.waits = NoLoad]

Wants(c, f) == tool[c].pc \in Loading /\ f \in tool[c].todo /\ tool[c].waits = NoLoad

LoadHit(c, f) ==
    /\ Wants(c, f) /\ ~tool[c].cancelled /\ Cached(f)
    /\ tool' = [tool EXCEPT ![c] = Given(@, f, cached[f].text, cached[f].ver)]
    /\ UNCHANGED <<plan, workspace, cached, bytes, loads, context, refresher, lexer, outside, overtaken>>

LoadMiss(c, f) ==
    /\ Wants(c, f) /\ ~tool[c].cancelled /\ workspace[f].there /\ ~Cached(f)
    /\ tool' = [tool EXCEPT ![c].waits = f]
    /\ loads' = IF loads[f].on THEN loads
                 ELSE [loads EXCEPT ![f] = [on |-> TRUE, text |-> workspace[f].text, ver |-> workspace[f].ver]]
    /\ UNCHANGED <<plan, workspace, cached, bytes, context, refresher, lexer, outside, overtaken>>

LoadSkipped(c, f) ==
    /\ Wants(c, f) /\ (tool[c].cancelled \/ ~workspace[f].there)
    /\ tool' = [tool EXCEPT ![c] = Skips(@, f)]
    /\ UNCHANGED <<plan, workspace, cached, bytes, loads, context, refresher, lexer, outside, overtaken>>

LeavesLoad(c) ==
    /\ tool[c].waits # NoLoad /\ tool[c].cancelled
    /\ tool' = [tool EXCEPT ![c] = Skips(@, tool[c].waits)]
    /\ UNCHANGED <<plan, workspace, cached, bytes, loads, context, refresher, lexer, outside, overtaken>>

\* A text that fits enters the cache, and others leave for it (evictLocked);
\* one that does not fit leaves the entry of the file's former text behind.
Counted(f) == bytes - (IF cached[f].in THEN Size(cached[f].text) ELSE 0)
SizeOf(S) == LET sum[T \in SUBSET S] ==
                   IF T = {} THEN 0
                   ELSE LET g == CHOOSE g \in T : TRUE IN Size(cached[g].text) + sum[T \ {g}]
             IN sum[S]
Fits(f) == Size(loads[f].text) <= MaxCache
Evicted(f, out) ==
    LET full == Counted(f) + Size(loads[f].text)
        rest == {g \in Files \ {f} : cached[g].in}
    IN /\ out \subseteq rest
       /\ full - SizeOf(out) <= MaxCache \/ out = rest
       /\ \A g \in out : full - SizeOf(out \ {g}) > MaxCache

LoadEnds(f) ==
    /\ loads[f].on
    /\ loads' = [loads EXCEPT ![f] = [on |-> FALSE, text |-> {}, ver |-> 0]]
    /\ \/ /\ ~Fits(f)
          /\ bytes' = Counted(f)
          /\ UNCHANGED cached
       \/ /\ Fits(f)
          /\ \E out \in SUBSET Files :
               /\ Evicted(f, out)
               /\ bytes' = Counted(f) + Size(loads[f].text) - SizeOf(out)
               /\ cached' = [g \in Files |->
                      IF g = f THEN [in |-> TRUE, text |-> loads[f].text,
                                     stamp |-> workspace[f].stamp, ver |-> loads[f].ver]
                      ELSE IF g \in out THEN NoEntry ELSE cached[g]]
    /\ tool' = [c \in Calls |-> IF tool[c].waits = f
                                THEN Given(tool[c], f, loads[f].text, loads[f].ver) ELSE tool[c]]
    /\ UNCHANGED <<plan, workspace, context, refresher, lexer, outside, overtaken>>

-----------------------------------------------------------------------------
(***************************************************************************)
(* The listing of the repository, kept for RefreshInterval.                 *)
(***************************************************************************)
\* RefreshInterval passes.
Ages ==
    /\ context.fresh
    /\ context' = [context EXCEPT !.fresh = FALSE]
    /\ UNCHANGED <<plan, workspace, cached, bytes, loads, refresher, lexer, tool, outside, overtaken>>

WithSnapshot(r, i) ==
    [r EXCEPT !.pc = "lexical", !.moved = FALSE, !.snap = i.snap, !.gen = i.gen, !.whole = i.whole]

RefreshKept(c) ==
    /\ tool[c].pc = "refresh" /\ context.ready /\ context.fresh
    /\ tool' = [tool EXCEPT ![c] = WithSnapshot(@, context)]
    /\ UNCHANGED <<plan, workspace, cached, bytes, loads, context, refresher, lexer, outside, overtaken>>

\* git or the directory walk: a cancelled walk returns what it has so far.
RefreshLists(c) ==
    /\ tool[c].pc = "refresh" /\ ~(context.ready /\ context.fresh) /\ refresher = 0
    /\ refresher' = c
    /\ \E part \in IF tool[c].cancelled THEN SUBSET Existing ELSE {Existing} :
         tool' = [tool EXCEPT ![c].pc = "adopt", ![c].whole = (part = Existing),
                     ![c].snap = {[file |-> f, stamp |-> workspace[f].stamp, ver |-> workspace[f].ver] : f \in part}]
    /\ UNCHANGED <<plan, workspace, cached, bytes, loads, context, lexer, outside, overtaken>>

Manifest(snap) == {<<e.file, e.stamp>> : e \in snap}

Adopted(i, r) ==
    LET next == [i EXCEPT !.ready = TRUE, !.fresh = TRUE, !.snap = r.snap, !.whole = r.whole] IN
    IF i.ready /\ Manifest(i.snap) = Manifest(r.snap) THEN next
    ELSE [next EXCEPT !.gen = @ + 1, !.lexGen = 0, !.posts = {}]

RefreshAdopts(c) ==
    /\ tool[c].pc = "adopt"
    /\ refresher' = 0
    /\ context' = Adopted(context, tool[c])
    /\ LET gone == IF context'.gen = context.gen THEN {}
                   ELSE {f \in Files : cached[f].in /\ <<f, cached[f].stamp>> \notin Manifest(tool[c].snap)}
       IN /\ cached' = [f \in Files |-> IF f \in gone THEN NoEntry ELSE cached[f]]
          /\ bytes' = bytes - SizeOf(gone)
    /\ tool' = [d \in Calls |->
                  IF d = c THEN WithSnapshot(tool[d], context')
                  ELSE IF context'.gen # context.gen THEN [tool[d] EXCEPT !.moved = TRUE] ELSE tool[d]]
    /\ UNCHANGED <<plan, workspace, loads, lexer, outside, overtaken>>

Bumped == [context EXCEPT !.gen = @ + 1, !.lexGen = 0, !.posts = {}, !.fresh = FALSE]

-----------------------------------------------------------------------------
(***************************************************************************)
(* The search: the postings of the listing's generation, then the texts of  *)
(* the files they name.  A posting is a file's place in the listing.        *)
(***************************************************************************)
Listed(snap) == {e.file : e \in snap}
Position(f, snap) == Cardinality({g \in Listed(snap) : g < f})

LexicalReady(c) ==
    /\ tool[c].pc = "lexical" /\ context.lexGen = tool[c].gen
    /\ Goto(c, "pick")
    /\ UNCHANGED <<plan, workspace, cached, bytes, loads, context, refresher, lexer, outside, overtaken>>

LexicalBuilds(c) ==
    /\ tool[c].pc = "lexical" /\ context.lexGen # tool[c].gen /\ lexer = 0
    /\ lexer' = c
    /\ tool' = [tool EXCEPT ![c].pc = "grams", ![c].todo = Listed(tool[c].snap), ![c].ids = {}]
    /\ UNCHANGED <<plan, workspace, cached, bytes, loads, context, refresher, outside, overtaken>>

\* Mutant: the postings are installed whatever the generation is by now.
PostedAnyway(i, r) ==
    [i EXCEPT !.lexGen = r.gen, !.posts = {Position(f, r.snap) : f \in r.ids}]

\* The postings are for one generation of the listing.
Posted(i, r) ==
    IF i.gen # r.gen THEN i
    ELSE [i EXCEPT !.lexGen = r.gen, !.posts = {Position(f, r.snap) : f \in r.ids}]

LexicalInstalls(c) ==
    /\ tool[c].pc = "grams" /\ tool[c].todo = {}
    /\ lexer' = 0
    /\ \/ /\ tool[c].cancelled
          /\ Fails(c)
          /\ UNCHANGED context
       \/ /\ ~tool[c].cancelled
          /\ context' = Posted(context, tool[c])
          /\ Goto(c, "pick")
    /\ UNCHANGED <<plan, workspace, cached, bytes, loads, refresher, outside, overtaken>>

SearchPicks(c) ==
    /\ tool[c].pc = "pick"
    /\ tool' = [tool EXCEPT ![c].pc = "texts",
                    ![c].todo = {f \in Listed(tool[c].snap) : Position(f, tool[c].snap) \in context.posts}]
    /\ UNCHANGED <<plan, workspace, cached, bytes, loads, context, refresher, lexer, outside, overtaken>>

SearchEnds(c) ==
    /\ tool[c].pc = "texts" /\ tool[c].todo = {}
    /\ tool' = [tool EXCEPT ![c].pc = "done", ![c].ok = TRUE]
    /\ UNCHANGED <<plan, workspace, cached, bytes, loads, context, refresher, lexer, outside, overtaken>>

-----------------------------------------------------------------------------
(***************************************************************************)
(* write_file (create when createOnly) and edit_file.                       *)
(***************************************************************************)
\* forWrite or existing, the stat, and what the edit reads.
StatTarget(c) ==
    LET f == Target(c) IN
    /\ tool[c].pc = "stat"
    /\ \/ /\ tool[c].cancelled \/ (Op(c) = "create" /\ workspace[f].there) \/ (Op(c) = "edit" /\ ~workspace[f].there)
          /\ Fails(c)
       \/ /\ ~tool[c].cancelled
          /\ Op(c) = "create" => ~workspace[f].there
          /\ Op(c) = "edit" => workspace[f].there
          /\ tool' = [tool EXCEPT ![c].pc = "read"]
    /\ UNCHANGED <<plan, workspace, cached, bytes, loads, context, refresher, lexer, outside, overtaken>>

\* The edit's text, or the hash of what a write replaces.
ReadTarget(c) ==
    /\ tool[c].pc = "read"
    /\ \/ Fails(c)      \* cancelled, unreadable, or no such text to replace
       \/ /\ ~tool[c].cancelled
          /\ tool' = [tool EXCEPT ![c].pc = "replace", ![c].text = workspace[Target(c)].text,
                                  ![c].ver = workspace[Target(c)].ver]
    /\ UNCHANGED <<plan, workspace, cached, bytes, loads, context, refresher, lexer, outside, overtaken>>

NewText(c) == IF Op(c) = "edit" THEN tool[c].text \cup {c} ELSE {c}

\* The temporary file is whole; the last look at the context; the rename.
Replace(c) ==
    LET f == Target(c) IN
    /\ tool[c].pc = "replace" /\ ~tool[c].cancelled
    /\ \E stamp \in Stamps(f) : workspace' = Changed(f, NewText(c), stamp)
    /\ overtaken' = Overtaking(f)
    /\ tool' = [tool EXCEPT ![c].pc = "invalidate", ![c].replaced = TRUE,
                            ![c].lost = (Op(c) = "edit" /\ workspace[f].ver # tool[c].ver /\ Other \notin workspace[f].text)]
    /\ UNCHANGED <<plan, cached, bytes, loads, context, refresher, lexer, outside>>

ReplaceFails(c) ==
    /\ tool[c].pc = "replace"
    /\ Fails(c)
    /\ UNCHANGED <<plan, workspace, cached, bytes, loads, context, refresher, lexer, outside, overtaken>>

\* A written file's text leaves the cache.
Dropped(f) == {f} \cap {g \in Files : cached[g].in}

InvalidateTarget(c) ==
    /\ tool[c].pc = "invalidate"
    /\ cached' = [f \in Files |-> IF f \in Dropped(Target(c)) THEN NoEntry ELSE cached[f]]
    /\ bytes' = bytes - SizeOf(Dropped(Target(c)))
    /\ context' = Bumped
    /\ tool' = [d \in Calls |->
                  IF d = c THEN [tool[d] EXCEPT !.pc = "done", !.ok = TRUE]
                  ELSE [tool[d] EXCEPT !.moved = TRUE]]
    /\ UNCHANGED <<plan, workspace, loads, refresher, lexer, outside, overtaken>>

-----------------------------------------------------------------------------
(***************************************************************************)
(* bash: a command changes what it likes; AfterExecute then lets every      *)
(* listing age and leaves the texts to their stamps.                        *)
(***************************************************************************)
ShellRuns(c) ==
    LET f == Target(c) IN
    /\ tool[c].pc = "run"
    /\ \E stamp \in Stamps(f) :
         /\ workspace' = Changed(f, workspace[f].text \cup {c}, stamp)
         /\ overtaken' = Overtaking(f) \cup (IF stamp = workspace[f].stamp THEN {f} ELSE {})
    /\ Goto(c, "after")
    /\ UNCHANGED <<plan, cached, bytes, loads, context, refresher, lexer, outside>>

AfterShell == Bumped

ShellEnds(c) ==
    /\ tool[c].pc = "after"
    /\ context' = AfterShell
    /\ tool' = [d \in Calls |->
                  IF d = c THEN [tool[d] EXCEPT !.pc = "done", !.ok = TRUE]
                  ELSE [tool[d] EXCEPT !.moved = TRUE]]
    /\ UNCHANGED <<plan, workspace, cached, bytes, loads, refresher, lexer, outside, overtaken>>

-----------------------------------------------------------------------------
FilesInit ==
    /\ plan \in Plans
    /\ workspace \in [Files -> {[there |-> FALSE, text |-> {}, stamp |-> 0, ver |-> 0],
                           [there |-> TRUE, text |-> {}, stamp |-> 0, ver |-> 0],
                           [there |-> TRUE, text |-> {Before}, stamp |-> 0, ver |-> 0]}]
    /\ cached = [f \in Files |-> NoEntry] /\ bytes = 0
    /\ loads = [f \in Files |-> [on |-> FALSE, text |-> {}, ver |-> 0]]
    /\ context = [ready |-> FALSE, fresh |-> FALSE, whole |-> TRUE, gen |-> 0,
                snap |-> {}, lexGen |-> 0, posts |-> {}]
    /\ refresher = 0 /\ lexer = 0
    /\ tool = [c \in Calls |-> IdleTool]
    /\ outside = 0
    /\ overtaken = {}

FilesNext ==
    \/ Ages
    \/ \E f \in Files : OutsideChange(f) \/ LoadEnds(f)
    \/ \E c \in Calls :
         \/ Begins(c) \/ CancelTool(c) \/ LeavesLoad(c)
         \/ RefreshKept(c) \/ RefreshLists(c) \/ RefreshAdopts(c)
         \/ LexicalReady(c) \/ LexicalBuilds(c) \/ LexicalInstalls(c)
         \/ SearchPicks(c) \/ SearchEnds(c)
         \/ StatTarget(c) \/ ReadTarget(c) \/ Replace(c) \/ ReplaceFails(c) \/ InvalidateTarget(c)
         \/ ShellRuns(c) \/ ShellEnds(c)
         \/ \E f \in Files : LoadHit(c, f) \/ LoadMiss(c, f) \/ LoadSkipped(c, f)

FilesSpec == FilesInit /\ [][FilesNext]_fileVars

-----------------------------------------------------------------------------
\* read_file returns the file as it was when the call began, or newer: what
\* an earlier write, edit or command did is in it.  Only a load that a change
\* overtook (a cancelled read's load outlives its claim), and a command that
\* keeps the stamp, escape this.
ReadIsFresh ==
    \A c \in Calls :
        (Op(c) = "read" /\ tool[c].pc = "done" /\ tool[c].ok /\ Target(c) \notin overtaken)
            => tool[c].ver >= tool[c].from

\* search_code names every file that held the word and did not change since
\* the listing the search works on, whatever other searches build meanwhile;
\* a whole listing has every file that stood there from the start.  Not
\* covered: a generation that moved under the search, whose postings it then
\* reads.
SearchFindsWhatStood ==
    \A c \in Calls :
        (Op(c) = "search" /\ tool[c].pc = "done" /\ tool[c].ok
           /\ ~tool[c].cancelled /\ ~tool[c].moved)
            => \A f \in Existing \ overtaken :
                 /\ HasWord(workspace[f].text)
                 /\ \/ \E e \in tool[c].snap : e.file = f /\ e.ver = workspace[f].ver
                    \/ tool[c].whole /\ workspace[f].ver = 0
                 => f \in tool[c].found

\* A write or an edit that reports success replaced the file, one that
\* reports an error or its cancellation did not; and no edit writes over
\* another call's change it has not read.
EditsAreHonest ==
    \A c \in Calls :
        Op(c) \in Writers =>
            /\ tool[c].pc = "done" => (tool[c].ok <=> tool[c].replaced)
            /\ ~tool[c].lost

\* What the file tools tell the model is what the workspace held: an answer is not
\* older than its call, and a change reported as made is made, on a text that was read.
FileToolsAreTrue == ReadIsFresh /\ SearchFindsWhatStood /\ EditsAreHonest
=============================================================================
