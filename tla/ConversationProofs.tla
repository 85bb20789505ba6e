------------------------- MODULE ConversationProofs -------------------------
(***************************************************************************)
(* The safety of Conversation, for any number of calls.  One writer: a call *)
(* enters Writers in the step that sets active and leaves it in the step     *)
(* that clears active.  How requests end: only a writer leaves calls open    *)
(* and adds to the transcript, so that what it left when it was not running  *)
(* is in order; and a stop reason is there before its cancel is.             *)
(***************************************************************************)
EXTENDS Conversation, TLAPS

Gate == active \in BOOLEAN /\ DOMAIN pc = Actor

Inv == Gate /\ OneWriter

\* A step that keeps everybody's side of the gate, and the gate itself.
Outside(a) == pc[a] \notin Running \cup Claiming /\ pc'[a] \notin Running \cup Claiming
Inside(a)  == pc[a] \in Running \cup Claiming /\ pc'[a] \in Running \cup Claiming

\* Nobody but a changes its place.
Only(a) == a \in Actor /\ \E stage : Go(a, stage)

LEMMA KeepsGate ==
  ASSUME Inv, NEW a \in Actor, Only(a), UNCHANGED gate,
         a \in Request \cup Rotator \cup Compactor => Inside(a) \/ Outside(a)
  PROVE  Inv'
  <1> DEFINE W == Running \cup Claiming
  <1> HIDE DEF W
  <1>1. PICK stage : pc' = [pc EXCEPT ![a] = stage]  BY DEF Only, Go
  <1>2. DOMAIN pc' = Actor /\ \A b \in Actor \ {a} : pc'[b] = pc[b]
    BY <1>1 DEF Inv, Gate
  <1>3. \A b \in Request \cup Rotator \cup Compactor : (pc'[b] \in W) = (pc[b] \in W)
    BY <1>2 DEF Inside, Outside, W, Actor
  <1>4. Writers' = Writers  BY <1>3 DEF Writers, W
  <1> QED  BY <1>2, <1>4 DEF Inv, Gate, OneWriter, gate

LEMMA EntersGate ==
  ASSUME Inv, NEW a \in Request \cup Rotator \cup Compactor, Only(a), Claim,
         pc'[a] \in Running \cup Claiming
  PROVE  Inv'
  <1>1. PICK stage : pc' = [pc EXCEPT ![a] = stage]  BY DEF Only, Go
  <1>2. DOMAIN pc' = Actor /\ \A b \in Actor \ {a} : pc'[b] = pc[b]
    BY <1>1 DEF Inv, Gate
  <1>3. Writers = {}  BY DEF Inv, OneWriter, Claim
  <1>4. Writers' = {a}  BY <1>2, <1>3 DEF Writers, Actor
  <1> QED  BY <1>2, <1>4 DEF Inv, Gate, OneWriter, Claim

LEMMA LeavesGate ==
  ASSUME Inv, NEW a \in Request \cup Rotator \cup Compactor, pc[a] \in Running \cup Claiming,
         pc' = [pc EXCEPT ![a] = "done"], FreeGate
  PROVE  Inv'
  <1>1. DOMAIN pc' = Actor /\ \A b \in Actor \ {a} : pc'[b] = pc[b]  BY DEF Inv, Gate
  <1>2. pc'[a] = "done"  BY DEF Inv, Gate, Actor
  <1>3. \A b \in Writers : b = a  BY DEF Inv, OneWriter, Writers
  <1>4. Writers' = {}  BY <1>1, <1>2, <1>3 DEF Writers, Actor, Running, Claiming
  <1> QED  BY <1>1, <1>4 DEF Inv, Gate, OneWriter, FreeGate

\* The places of the actions, read off their definitions.
LEMMA RequestStaysInside ==
  ASSUME Inv, NEW r \in Request,
         \/ Prepare(r) \/ Enter(r) \/ StartRound(r) \/ Refresh(r) \/ Answer(r)
         \/ Settle(r) \/ RefreshForBatch(r) \/ Batch(r) \/ Finish(r)
  PROVE  Only(r) /\ Inside(r) /\ UNCHANGED gate
  <1>1. r \in Actor /\ DOMAIN pc = Actor  BY DEF Actor, Inv, Gate
  <1>2. \A stage : Go(r, stage) => Only(r) /\ pc'[r] = stage  BY <1>1 DEF Only, Go
  <1>3. CASE Prepare(r)          BY <1>2, <1>3 DEF Prepare, At, Inside, Running
  <1>4. CASE Enter(r)            BY <1>2, <1>4 DEF Enter, At, Inside, Running
  <1>5. CASE StartRound(r)       BY <1>2, <1>5 DEF StartRound, Stop, At, Inside, Running
  <1>6. CASE Refresh(r)          BY <1>2, <1>6 DEF Refresh, Stop, At, Inside, Running
  <1>7. CASE Answer(r)           BY <1>2, <1>7 DEF Answer, Stop, At, Inside, Running
  <1>8. CASE Settle(r)           BY <1>2, <1>8 DEF Settle, Stop, At, Inside, Running
  <1>9. CASE RefreshForBatch(r)  BY <1>2, <1>9 DEF RefreshForBatch, At, Inside, Running
  <1>10. CASE Batch(r)           BY <1>2, <1>10 DEF Batch, Stop, At, Inside, Running
  <1>11. CASE Finish(r)          BY <1>2, <1>11 DEF Finish, At, Inside, Running
  <1> QED  BY <1>3, <1>4, <1>5, <1>6, <1>7, <1>8, <1>9, <1>10, <1>11

LEMMA RunPreserves == ASSUME Inv, NEW r \in Request, RunStep(r) PROVE Inv'
  <1>1. r \in Actor /\ DOMAIN pc = Actor  BY DEF Actor, Inv, Gate
  <1>2. \A stage : Go(r, stage) => Only(r) /\ pc'[r] = stage  BY <1>1 DEF Only, Go
  <1>3. CASE Begin(r)
    <2>1. CASE Claim /\ Go(r, "claimed")
      BY <1>2, <2>1, EntersGate DEF Running
    <2>2. CASE Go(r, "done") /\ UNCHANGED gate
      <3>1. Only(r) /\ Outside(r)
        BY <1>2, <1>3, <2>2 DEF Begin, At, Outside, Running, Claiming
      <3> QED  BY <1>1, <2>2, <3>1, KeepsGate
    <2> QED  BY <1>3, <2>1, <2>2 DEF Begin
  <1>4. CASE Attach(r)
    <2>1. pc' = [pc EXCEPT ![r] = "attached"] /\ pc[r] = "claimed"  BY <1>4 DEF Attach, Go, At
    <2>2. pc'[r] = "attached" /\ DOMAIN pc' = Actor /\ \A b \in Actor \ {r} : pc'[b] = pc[b]
      BY <1>1, <2>1
    <2>3. Writers' = Writers /\ r \in Writers
      BY <2>1, <2>2 DEF Writers, Actor, Running
    <2> QED  BY <1>4, <2>2, <2>3 DEF Attach, Inv, Gate, OneWriter
  <1>5. CASE Prepare(r) \/ Enter(r) \/ StartRound(r) \/ Refresh(r) \/ Answer(r)
             \/ Settle(r) \/ RefreshForBatch(r) \/ Batch(r) \/ Finish(r)
    <2>1. Only(r) /\ Inside(r) /\ UNCHANGED gate  BY <1>5, RequestStaysInside
    <2> QED  BY <1>1, <2>1, KeepsGate
  <1> QED  BY <1>3, <1>4, <1>5 DEF RunStep

LEMMA RotatePreserves == ASSUME Inv, NEW n \in Rotator, RotateStep(n) PROVE Inv'
  <1>1. n \in Actor /\ DOMAIN pc = Actor  BY DEF Actor, Inv, Gate
  <1>2. \A stage : Go(n, stage) => Only(n) /\ pc'[n] = stage  BY <1>1 DEF Only, Go
  <1>3. CASE TryAcquire(n)
    <2>1. pc[n] \in {"idle", "waiting", "overrun"}  BY <1>3 DEF TryAcquire, At
    <2>2. CASE Claim /\ Go(n, "rotating")
      BY <1>2, <2>2, EntersGate DEF Claiming
    <2>3. CASE Go(n, "waiting") /\ UNCHANGED gate
      <3>1. Only(n) /\ Outside(n)  BY <1>2, <2>1, <2>3 DEF Outside, Running, Claiming
      <3> QED  BY <1>1, <2>3, <3>1, KeepsGate
    <2> QED  BY <1>3, <2>2, <2>3 DEF TryAcquire, Acquire
  <1>4. CASE GraceEnds(n)
    <2>1. Only(n) /\ Outside(n) /\ UNCHANGED gate
      BY <1>2, <1>4 DEF GraceEnds, At, Outside, Running, Claiming
    <2> QED  BY <1>1, <2>1, KeepsGate
  <1>5. CASE Rotate(n)
    <2>1. Only(n) /\ Inside(n) /\ UNCHANGED gate
      BY <1>2, <1>5 DEF Rotate, At, Inside, Claiming
    <2> QED  BY <1>1, <2>1, KeepsGate
  <1> QED  BY <1>3, <1>4, <1>5 DEF RotateStep

LEMMA CompactPreserves == ASSUME Inv, NEW c \in Compactor, CompactStep(c) PROVE Inv'
  <1>1. c \in Actor /\ DOMAIN pc = Actor  BY DEF Actor, Inv, Gate
  <1>2. \A stage : Go(c, stage) => Only(c) /\ pc'[c] = stage  BY <1>1 DEF Only, Go
  <1>3. CASE CompactBegin(c)
    <2>1. CASE Claim /\ Go(c, "planning")
      BY <1>2, <2>1, EntersGate DEF Claiming
    <2>2. CASE Go(c, "done") /\ UNCHANGED gate
      <3>1. Only(c) /\ Outside(c)
        BY <1>2, <1>3, <2>2 DEF CompactBegin, At, Outside, Running, Claiming
      <3> QED  BY <1>1, <2>2, <3>1, KeepsGate
    <2> QED  BY <1>3, <2>1, <2>2 DEF CompactBegin
  <1>4. CASE CompactPlan(c)
    <2>1. Only(c) /\ Inside(c) /\ UNCHANGED gate
      BY <1>2, <1>4 DEF CompactPlan, At, Inside, Claiming
    <2> QED  BY <1>1, <2>1, KeepsGate
  <1>5. CASE CompactCommit(c)
    <2>1. Only(c) /\ Inside(c) /\ UNCHANGED gate
      BY <1>2, <1>5 DEF CompactCommit, At, Inside, Claiming
    <2> QED  BY <1>1, <2>1, KeepsGate
  <1> QED  BY <1>3, <1>4, <1>5 DEF CompactStep

\* Whoever never claims the gate: its place says nothing about the gate.
LEMMA BystanderPreserves ==
  ASSUME Inv, NEW a \in Stopper \cup Applier \cup Catalog \cup Isolated,
         \E stage : Go(a, stage), UNCHANGED gate,
         a \notin Request \cup Rotator \cup Compactor
  PROVE  Inv'
  <1>1. a \in Actor /\ Only(a)  BY DEF Actor, Only
  <1> QED  BY <1>1, KeepsGate

LEMMA StutterPreserves == ASSUME Inv, UNCHANGED <<gate, pc>> PROVE Inv'
  BY DEF Inv, Gate, OneWriter, Writers, gate

LEMMA GateHolds == Spec => []Inv
  <1>1. Init => Inv
    BY ZenonT(60), ConversationAssumption DEF Init, Inv, Gate, OneWriter, Writers, Actor, Running, Claiming
  <1>2. Inv /\ [Next]_vars => Inv'
    <2> SUFFICES ASSUME Inv, [Next]_vars PROVE Inv'  OBVIOUS
    <2>1. ASSUME NEW r \in Request, RunStep(r) PROVE Inv'  BY <2>1, RunPreserves
    <2>2. ASSUME NEW r \in Request, UserCancels(r) PROVE Inv'
      BY <2>2, StutterPreserves DEF UserCancels
    <2>3. ASSUME NEW n \in Rotator, RotateStep(n) PROVE Inv'  BY <2>3, RotatePreserves
    <2>4. ASSUME NEW c \in Compactor, CompactStep(c) PROVE Inv'  BY <2>4, CompactPreserves
    <2>5. ASSUME NEW a \in Request \cup Rotator \cup Compactor, Release(a) PROVE Inv'
      <3>1. pc[a] \in Running \cup Claiming /\ pc' = [pc EXCEPT ![a] = "done"] /\ FreeGate
        BY <2>5 DEF Release, Go, Running, Claiming
      <3> QED  BY <3>1, LeavesGate
    <2>6. ASSUME NEW s \in Stopper, StopLook(s) \/ StopTell(s) \/ StopCancel(s) PROVE Inv'
      <3>1. (\E stage : Go(s, stage)) /\ UNCHANGED gate
        BY <2>6 DEF StopLook, StopTell, StopCancel
      <3> QED  BY <3>1, BystanderPreserves, ConversationAssumption
    <2>7. ASSUME NEW p \in Applier, SnapshotLook(p) \/ SnapshotApply(p) PROVE Inv'
      <3>1. (\E stage : Go(p, stage)) /\ UNCHANGED gate
        BY <2>7 DEF SnapshotLook, SnapshotApply
      <3> QED  BY <3>1, BystanderPreserves, ConversationAssumption
    <2>8. ASSUME NEW m \in Catalog, CatalogChanged(m) PROVE Inv'
      <3>1. (\E stage : Go(m, stage)) /\ UNCHANGED gate  BY <2>8 DEF CatalogChanged
      <3> QED  BY <3>1, BystanderPreserves, ConversationAssumption
    <2>9. ASSUME NEW i \in Isolated, Fork(i) \/ Adopt(i) PROVE Inv'
      <3>1. (\E stage : Go(i, stage)) /\ UNCHANGED gate  BY <2>9 DEF Fork, Adopt
      <3> QED  BY <3>1, BystanderPreserves, ConversationAssumption
    <2>10. CASE UNCHANGED vars  BY <2>10, StutterPreserves DEF vars
    <2> QED
      BY <2>1, <2>2, <2>3, <2>4, <2>5, <2>6, <2>7, <2>8, <2>9, <2>10 DEF Next, Finished
  <1> QED  BY <1>1, <1>2, PTL DEF Spec

\* A conversation has one writer: whatever the host calls and in whatever order, at
\* most one request, rotation or compaction is between taking the gate and giving it
\* back, the gate says busy exactly then, and its cancel function is that writer's.
THEOREM OneWriterHolds == Spec => []OneWriter
  <1>1. Inv => OneWriter  BY DEF Inv
  <1> QED  BY <1>1, GateHolds, PTL

-----------------------------------------------------------------------------
(* Types *)

\* What a call appends to the transcript.
LEMMA WriteAppends ==
  ASSUME turns \in Seq(Turn), NEW a \in Request \cup Isolated, NEW kinds \in Seq(Kind),
         Write(a, kinds)
  PROVE  /\ turns' \in Seq(Turn) /\ Len(turns') = Len(turns) + Len(kinds)
         /\ \A k \in 1..Len(turns) : turns'[k] = turns[k]
         /\ \A k \in 1..Len(kinds) : turns'[Len(turns) + k] = [by |-> a, kind |-> kinds[k]]
  <1> DEFINE added == [i \in 1..Len(kinds) |-> [by |-> a, kind |-> kinds[i]]]
  <1>1. added \in Seq(Turn) /\ Len(added) = Len(kinds)  BY DEF Turn
  <1>2. turns' = turns \o added  BY DEF Write
  <1>3. \A k \in 1..Len(kinds) : added[k] = [by |-> a, kind |-> kinds[k]]  OBVIOUS
  <1> HIDE DEF added
  <1>4. turns' \in Seq(Turn) /\ Len(turns') = Len(turns) + Len(kinds)  BY <1>1, <1>2
  <1>5. \A k \in 1..Len(turns) : turns'[k] = turns[k]  BY <1>1, <1>2
  <1>6. \A k \in 1..Len(added) : turns'[Len(turns) + k] = added[k]  BY <1>1, <1>2
  <1>7. \A k \in 1..Len(kinds) : turns'[Len(turns) + k] = [by |-> a, kind |-> kinds[k]]
    BY <1>1, <1>3, <1>6
  <1> QED  BY <1>4, <1>5, <1>7

LEMMA WriteOne ==
  ASSUME turns \in Seq(Turn), NEW a \in Request \cup Isolated, NEW kind \in Kind,
         Write(a, <<kind>>)
  PROVE  /\ turns' \in Seq(Turn) /\ Len(turns') = Len(turns) + 1
         /\ \A k \in 1..Len(turns) : turns'[k] = turns[k]
         /\ turns'[Len(turns) + 1] = [by |-> a, kind |-> kind]
  <1> DEFINE kinds == <<kind>>
  <1>1. kinds \in Seq(Kind) /\ Len(kinds) = 1 /\ kinds[1] = kind  OBVIOUS
  <1>2. Write(a, kinds)  OBVIOUS
  <1> HIDE DEF kinds
  <1>3. /\ turns' \in Seq(Turn) /\ Len(turns') = Len(turns) + Len(kinds)
        /\ \A k \in 1..Len(turns) : turns'[k] = turns[k]
        /\ \A k \in 1..Len(kinds) : turns'[Len(turns) + k] = [by |-> a, kind |-> kinds[k]]
    BY <1>1, <1>2, WriteAppends
  <1>4. 1 \in 1..Len(kinds)  BY <1>1
  <1> QED  BY <1>1, <1>3, <1>4

PlacesTyped ==
  /\ active \in BOOLEAN /\ epoch \in Nat /\ attached \in Request \cup {Nobody}
  /\ pc \in [Actor -> Stage]
  /\ target \in [Stopper \cup Rotator \cup Applier -> Request \cup Applier \cup {Nobody} \cup Nat]
TextTyped ==
  /\ turns \in Seq(Turn) /\ closed \in Seq(Seq(Turn))
  /\ pendingCalls \in {"empty", "open", "closed"}
ModelTyped ==
  /\ driverState \in [by : Snapshot, at : Nat]
  /\ {provider, pendingSnapshot, configured} \subseteq Snapshot
  /\ lastRuntime \in [provider : Snapshot, driver : BOOLEAN]
  /\ runtime \in [Request \cup Compactor \cup Isolated -> Snapshot]
  /\ taken \in [Request -> Snapshot]
RunTyped ==
  /\ stopReason \in Stopper \cup {Nobody}
  /\ round \in [Request -> 0..MaxRounds]
  /\ report \in [Request -> Outcome]
  /\ cancelledBy \in [Request -> SUBSET (Stopper \cup Rotator \cup {User})]

LEMMA GateStaysTyped ==
  ASSUME PlacesTyped, Claim \/ FreeGate \/ UNCHANGED gate
  PROVE  active' \in BOOLEAN /\ epoch' \in Nat /\ attached' \in Request \cup {Nobody}
  <1>1. active' \in BOOLEAN  BY Zenon DEF PlacesTyped, Claim, FreeGate, gate
  <1>2. epoch' \in Nat /\ attached' \in Request \cup {Nobody}
    <2>1. epoch' = epoch \/ epoch' = epoch + 1  BY DEF Claim, FreeGate, gate
    <2>2. attached' = attached \/ attached' = Nobody  BY DEF Claim, FreeGate, gate
    <2> QED  BY <2>1, <2>2 DEF PlacesTyped
  <1> QED  BY <1>1, <1>2

LEMMA PlacesStayTyped == ASSUME PlacesTyped, Next PROVE PlacesTyped'
  <1> USE DEF PlacesTyped
  <1>1. \A a \in Actor, stage \in Stage : Go(a, stage) => pc' \in [Actor -> Stage]
    BY DEF Go
  <1>2. ASSUME NEW r \in Request, RunStep(r) \/ UserCancels(r) PROVE PlacesTyped'
    <2>1. r \in Actor /\ Running \subseteq Stage /\ "done" \in Stage  BY DEF Actor, Stage
    <2>2. pc' \in [Actor -> Stage]
      <3>1. UserCancels(r) \/ \E stage \in Running \cup {"done"} : Go(r, stage)
        BY <1>2 DEF RunStep, Running, Begin, Attach, Prepare, Enter, StartRound, Refresh,
           Answer, Settle, RefreshForBatch, Batch, Finish, Stop
      <3> QED  BY <1>1, <2>1, <3>1 DEF UserCancels
    <2>3. UNCHANGED gate \/ Begin(r) \/ Attach(r)
      BY <1>2 DEF RunStep, UserCancels, Prepare, Enter, StartRound, Refresh,
         Answer, Settle, RefreshForBatch, Batch, Finish, gate
    <2>4. UNCHANGED target
      BY <1>2 DEF RunStep, UserCancels, Begin, Attach, Prepare, Enter, StartRound, Refresh,
         Answer, Settle, RefreshForBatch, Batch, Finish, ask
    <2>5. CASE Begin(r) \/ UNCHANGED gate
      <3>1. Claim \/ UNCHANGED gate  BY <2>5 DEF Begin
      <3> QED  BY <2>2, <2>4, <3>1, GateStaysTyped
    <2>6. CASE Attach(r)  BY <2>2, <2>4, <2>6 DEF Attach
    <2> QED  BY <2>2, <2>3, <2>4, <2>5, <2>6
  <1>3. ASSUME NEW n \in Rotator, RotateStep(n) PROVE PlacesTyped'
    <2>1. n \in Actor /\ {"waiting", "overrun", "rotating", "release"} \subseteq Stage
      BY DEF Actor, Stage, Claiming
    <2>2. pc' \in [Actor -> Stage]
      BY <1>1, <1>3, <2>1 DEF RotateStep, TryAcquire, Acquire, GraceEnds, Rotate
    <2>3. Claim \/ UNCHANGED gate
      BY <1>3 DEF RotateStep, TryAcquire, Acquire, GraceEnds, Rotate
    <2>4. target' = target \/ target' = [target EXCEPT ![n] = Nobody]
          \/ target' = [target EXCEPT ![n] = epoch]
      BY <1>3 DEF RotateStep, TryAcquire, Acquire, GraceEnds, Rotate, ask
    <2> QED  BY <2>2, <2>3, <2>4, GateStaysTyped
  <1>4. ASSUME NEW c \in Compactor, CompactStep(c) PROVE PlacesTyped'
    <2>1. c \in Actor /\ Claiming \cup {"done"} \subseteq Stage  BY DEF Actor, Stage
    <2>2. pc' \in [Actor -> Stage]
      BY <1>1, <1>4, <2>1 DEF CompactStep, CompactBegin, CompactPlan, CompactCommit, Claiming
    <2>3. Claim \/ UNCHANGED gate
      BY <1>4 DEF CompactStep, CompactBegin, CompactPlan, CompactCommit
    <2>4. UNCHANGED target
      BY <1>4 DEF CompactStep, CompactBegin, CompactPlan, CompactCommit, ask
    <2> QED  BY <2>2, <2>3, <2>4, GateStaysTyped
  <1>5. ASSUME NEW a \in Request \cup Rotator \cup Compactor, Release(a) PROVE PlacesTyped'
    <2>1. a \in Actor /\ "done" \in Stage  BY DEF Actor, Stage
    <2> QED  BY <1>1, <1>5, <2>1, GateStaysTyped DEF Release, ask
  <1>6. ASSUME NEW s \in Stopper, StopLook(s) \/ StopTell(s) \/ StopCancel(s) PROVE PlacesTyped'
    <2>1. s \in Actor /\ {"done", "tell", "cancel"} \subseteq Stage  BY DEF Actor, Stage
    <2>2. pc' \in [Actor -> Stage]  BY <1>1, <1>6, <2>1 DEF StopLook, StopTell, StopCancel
    <2>3. UNCHANGED gate  BY <1>6 DEF StopLook, StopTell, StopCancel
    <2>4. target' = target \/ target' = [target EXCEPT ![s] = attached]
      BY <1>6 DEF StopLook, StopTell, StopCancel, ask
    <2> QED  BY <2>2, <2>3, <2>4, GateStaysTyped
  <1>8. ASSUME NEW p \in Applier, SnapshotLook(p) \/ SnapshotApply(p) PROVE PlacesTyped'
    <2>1. p \in Actor /\ {"done", "look"} \subseteq Stage  BY DEF Actor, Stage
    <2>2. pc' \in [Actor -> Stage]  BY <1>1, <1>8, <2>1 DEF SnapshotLook, SnapshotApply
    <2>3. UNCHANGED gate  BY <1>8 DEF SnapshotLook, SnapshotApply
    <2>4. \E v \in {p, Nobody} : target' = [target EXCEPT ![p] = v]
      BY <1>8 DEF SnapshotLook, SnapshotApply
    <2> QED  BY <2>2, <2>3, <2>4, GateStaysTyped
  <1>9. ASSUME NEW a \in Catalog \cup Isolated, CatalogChanged(a) \/ Fork(a) \/ Adopt(a)
        PROVE  PlacesTyped'
    <2>1. a \in Actor /\ {"done", "look"} \subseteq Stage  BY DEF Actor, Stage
    <2>2. pc' \in [Actor -> Stage]  BY <1>1, <1>9, <2>1 DEF CatalogChanged, Fork, Adopt
    <2>3. UNCHANGED <<gate, target>>  BY <1>9 DEF CatalogChanged, Fork, Adopt, ask
    <2> QED  BY <2>2, <2>3, GateStaysTyped
  <1>7. CASE Finished  BY <1>7 DEF Finished, vars, gate, ask
  <1> HIDE DEF PlacesTyped
  <1> QED  BY <1>2, <1>3, <1>4, <1>5, <1>6, <1>7, <1>8, <1>9 DEF Next

LEMMA TextStaysTyped == ASSUME TextTyped, Next PROVE TextTyped'
  <1> USE DEF TextTyped
  <1>1. ASSUME NEW a \in Request \cup Isolated, NEW kinds, Write(a, kinds),
               kinds \in {<<"user">>, <<"answer">>, <<"calls">>, <<"results">>, <<"partial">>,
                          <<"unrun">>, <<"user", "answer">>, <<"user", "calls", "unrun">>}
        PROVE  turns' \in Seq(Turn)
    <2>1. {"user", "answer", "calls", "results", "partial", "unrun"} = Kind  BY DEF Kind
    <2>2. \A x, y, z \in Kind : <<x>> \in Seq(Kind) /\ <<x, y>> \in Seq(Kind) /\ <<x, y, z>> \in Seq(Kind)
      OBVIOUS
    <2>3. kinds \in Seq(Kind)  BY <1>1, <2>1, <2>2
    <2> QED  BY <1>1, <2>3, WriteAppends
  <1>2. ASSUME NEW r \in Request, Prepare(r) PROVE TextTyped'
    BY <1>1, <1>2 DEF Prepare
  <1>3. ASSUME NEW r \in Request, Answer(r) PROVE TextTyped'
    BY <1>1, <1>3 DEF Answer
  <1>4. ASSUME NEW r \in Request, Settle(r) PROVE TextTyped'
    BY <1>1, <1>4 DEF Settle, CloseToolCalls
  <1>5. ASSUME NEW r \in Request, Batch(r) PROVE TextTyped'
    BY <1>1, <1>5 DEF Batch
  <1>6. ASSUME NEW r \in Request, Finish(r) PROVE TextTyped'
    BY <1>6 DEF Finish
  <1>7. ASSUME NEW n \in Rotator, Rotate(n) PROVE TextTyped'
    BY <1>7 DEF Rotate
  <1>8. ASSUME NEW i \in Isolated, Adopt(i) PROVE TextTyped'
    BY <1>1, <1>8 DEF Adopt
  <1>9. \/ UNCHANGED text
        \/ \E r \in Request : Prepare(r) \/ Answer(r) \/ Settle(r) \/ Batch(r) \/ Finish(r)
        \/ \E n \in Rotator : Rotate(n)
        \/ \E i \in Isolated : Adopt(i)
    BY DEF Next, RunStep, UserCancels, RotateStep, CompactStep, Begin, Attach, Enter, StartRound,
       Refresh, RefreshForBatch, TryAcquire, GraceEnds, CompactBegin, CompactPlan, CompactCommit,
       Release, StopLook, StopTell, StopCancel, SnapshotLook, SnapshotApply, CatalogChanged, Fork,
       Finished, vars
  <1> QED  BY <1>2, <1>3, <1>4, <1>5, <1>6, <1>7, <1>8, <1>9 DEF text

LEMMA ModelStaysTyped == ASSUME ModelTyped, TextTyped, Next PROVE ModelTyped'
  <1> USE DEF ModelTyped
  <1>1. \A s \in Snapshot : ApplyRuntime(s) =>
          provider' \in Snapshot /\ driverState' \in [by : Snapshot, at : Nat]
    BY DEF ApplyRuntime, NoState, Snapshot
  <1>2. \A s \in Snapshot : ApplySnapshot(s) =>
          /\ provider' \in Snapshot /\ driverState' \in [by : Snapshot, at : Nat]
          /\ lastRuntime' \in [provider : Snapshot, driver : BOOLEAN]
    BY <1>1 DEF ApplySnapshot
  <1>3. \A s \in Snapshot : Used(s) \in [provider : Snapshot, driver : BOOLEAN]  BY DEF Used
  <1>4. NoState \in [by : Snapshot, at : Nat] /\ Nobody \in Snapshot  BY DEF NoState, Snapshot
  <1>5. ASSUME NEW r \in Request, Begin(r) PROVE ModelTyped'
    BY <1>5 DEF Begin, model, ask
  <1>6. ASSUME NEW r \in Request, Prepare(r) PROVE ModelTyped'
    BY <1>1, <1>6 DEF Prepare, ask, run
  <1>7. ASSUME NEW r \in Request, Enter(r) \/ Refresh(r) \/ RefreshForBatch(r) PROVE ModelTyped'
    <2>1. UNCHANGED <<driverState, provider>> \/ ApplyRuntime(runtime[r])
      BY <1>7 DEF Enter, Refresh, RefreshForBatch
    <2>2. UNCHANGED <<lastRuntime, pendingSnapshot, configured, runtime, taken>>
      BY <1>7 DEF Enter, Refresh, RefreshForBatch, ask, run
    <2> QED  BY <1>1, <2>1, <2>2
  <1>8. ASSUME NEW r \in Request, StartRound(r) PROVE ModelTyped'
    <2>1. UNCHANGED <<configured, runtime>>  BY <1>8 DEF StartRound
    <2>2. \/ UNCHANGED <<driverState, provider, lastRuntime>>
          \/ ApplySnapshot(pendingSnapshot)
      BY <1>8 DEF StartRound, model
    <2>3. pendingSnapshot' \in {pendingSnapshot, Nobody} /\ taken' \in [Request -> Snapshot]
      BY <1>8 DEF StartRound
    <2> QED  BY <1>2, <1>4, <2>1, <2>2, <2>3
  <1>9. ASSUME NEW r \in Request, Answer(r) PROVE ModelTyped'
    <2>1. UNCHANGED <<provider, pendingSnapshot, configured, runtime, taken>>
      BY <1>9 DEF Answer, ask
    <2>2. lastRuntime' \in {lastRuntime, Used(runtime[r])}  BY <1>9 DEF Answer
    <2>3. driverState' \in {driverState, NoState, [by |-> runtime[r], at |-> Len(turns) + 1]}
      BY <1>9 DEF Answer
    <2>4. [by |-> runtime[r], at |-> Len(turns) + 1] \in [by : Snapshot, at : Nat]
      BY DEF TextTyped
    <2> QED  BY <1>3, <1>4, <2>1, <2>2, <2>3, <2>4
  <1>10. ASSUME NEW r \in Request, Settle(r) \/ Batch(r) PROVE ModelTyped'
    <2>1. driverState' \in {driverState, NoState}  BY <1>10 DEF Settle, Batch, CloseToolCalls
    <2>2. UNCHANGED <<provider, lastRuntime, pendingSnapshot, configured, runtime, taken>>
      BY <1>10 DEF Settle, Batch, ask
    <2> QED  BY <1>4, <2>1, <2>2
  <1>11. ASSUME NEW a \in Request \cup Rotator \cup Compactor, Release(a) PROVE ModelTyped'
    BY <1>4, <1>11 DEF Release, Forget, model, ask
  <1>12. ASSUME NEW p \in Applier, SnapshotLook(p) PROVE ModelTyped'
    BY <1>12 DEF SnapshotLook, Snapshot, model, run
  <1>13. ASSUME NEW p \in Applier, SnapshotApply(p) PROVE ModelTyped'
    <2>1. p \in Snapshot  BY DEF Snapshot
    <2> QED  BY <1>2, <1>13, <2>1 DEF SnapshotApply, model, run
  <1>14. ASSUME NEW m \in Catalog, CatalogChanged(m) PROVE ModelTyped'
    BY <1>1, <1>14 DEF CatalogChanged, ask, run
  <1>15. ASSUME NEW n \in Rotator, Rotate(n) PROVE ModelTyped'
    BY <1>4, <1>15 DEF Rotate, ask, run
  <1>16. ASSUME NEW c \in Compactor, CompactBegin(c) PROVE ModelTyped'
    BY <1>16 DEF CompactBegin, model, ask
  <1>17. ASSUME NEW c \in Compactor, CompactPlan(c) PROVE ModelTyped'
    BY <1>1, <1>3, <1>17 DEF CompactPlan, model, ask, run
  <1>18. ASSUME NEW c \in Compactor, CompactCommit(c) PROVE ModelTyped'
    BY <1>3, <1>4, <1>18 DEF CompactCommit, ask, run
  <1>19. ASSUME NEW i \in Isolated, Fork(i) PROVE ModelTyped'
    BY <1>19 DEF Fork, model, ask
  <1>20. ASSUME NEW i \in Isolated, Adopt(i) PROVE ModelTyped'
    BY <1>3, <1>4, <1>20 DEF Adopt, model, ask, run
  <1>21. \/ UNCHANGED <<model, pendingSnapshot, configured, runtime, taken>>
         \/ \E r \in Request : Begin(r) \/ Prepare(r) \/ Enter(r) \/ StartRound(r) \/ Refresh(r)
                             \/ Answer(r) \/ Settle(r) \/ RefreshForBatch(r) \/ Batch(r)
         \/ \E n \in Rotator : Rotate(n)
         \/ \E c \in Compactor : CompactStep(c)
         \/ \E a \in Request \cup Rotator \cup Compactor : Release(a)
         \/ \E p \in Applier : SnapshotLook(p) \/ SnapshotApply(p)
         \/ \E m \in Catalog : CatalogChanged(m)
         \/ \E i \in Isolated : Fork(i) \/ Adopt(i)
    BY DEF Next, RunStep, UserCancels, RotateStep, Attach, Finish, TryAcquire, GraceEnds,
       StopLook, StopTell, StopCancel, Finished, vars, ask, run
  <1>22. CASE UNCHANGED <<model, pendingSnapshot, configured, runtime, taken>>
    BY <1>22 DEF model
  <1> HIDE DEF ModelTyped
  <1> QED
    BY <1>5, <1>6, <1>7, <1>8, <1>9, <1>10, <1>11, <1>12, <1>13, <1>14, <1>15, <1>16, <1>17,
       <1>18, <1>19, <1>20, <1>21, <1>22 DEF CompactStep

LEMMA RunStaysTyped == ASSUME PlacesTyped, RunTyped, Next PROVE RunTyped'
  <1> USE DEF RunTyped
  <1>1. ASSUME NEW r \in Request,
               StartRound(r) \/ Refresh(r) \/ Answer(r) \/ Settle(r) \/ Batch(r) \/ Finish(r)
        PROVE  RunTyped'
    <2>1. UNCHANGED cancelledBy /\ stopReason' \in {stopReason, Nobody}
      BY <1>1 DEF StartRound, Refresh, Answer, Settle, Batch, Finish, ask
    <2>2. round' \in [Request -> 0..MaxRounds]
      <3>1. round' = round \/ (round[r] < MaxRounds /\ round' = [round EXCEPT ![r] = @ + 1])
        BY <1>1 DEF StartRound, MoreRounds, Refresh, Answer, Settle, Batch, Finish
      <3> QED  BY <3>1, ConversationAssumption
    <2>3. report' \in [Request -> Outcome]
      <3>1. report' = report \/ \E outcome \in Outcome : report' = [report EXCEPT ![r] = outcome]
        BY <1>1 DEF StartRound, Refresh, Answer, Settle, Batch, Finish, Stop, Outcome
      <3> QED  BY <3>1
    <2> QED  BY <2>1, <2>2, <2>3
  <1>2. ASSUME NEW a \in Request \cup Rotator \cup Compactor, Release(a) PROVE RunTyped'
    BY <1>2, ConversationAssumption DEF Release, Forget, Outcome, ask
  <1>3. \A r \in Request \cup {Nobody} \cup Nat, who \in Stopper \cup Rotator \cup {User} :
          CancelContext(r, who) => cancelledBy' \in [Request -> SUBSET (Stopper \cup Rotator \cup {User})]
    BY DEF CancelContext
  <1>4. ASSUME NEW r \in Request, UserCancels(r) PROVE RunTyped'
    BY <1>3, <1>4 DEF UserCancels, ask
  <1>5. ASSUME NEW n \in Rotator, GraceEnds(n) PROVE RunTyped'
    BY <1>3, <1>5 DEF GraceEnds, Overrun, ask, PlacesTyped
  <1>6. ASSUME NEW s \in Stopper, StopTell(s) PROVE RunTyped'
    BY <1>6 DEF StopTell, run
  <1>7. ASSUME NEW s \in Stopper, StopCancel(s) PROVE RunTyped'
    BY <1>7 DEF StopCancel, CancelContext, ask
  <1>8. \/ UNCHANGED <<stopReason, round, report, cancelledBy>>
        \/ \E r \in Request : StartRound(r) \/ Refresh(r) \/ Answer(r) \/ Settle(r) \/ Batch(r)
                            \/ Finish(r) \/ UserCancels(r)
        \/ \E n \in Rotator : GraceEnds(n)
        \/ \E a \in Request \cup Rotator \cup Compactor : Release(a)
        \/ \E s \in Stopper : StopTell(s) \/ StopCancel(s)
    BY DEF Next, RunStep, RotateStep, CompactStep, Begin, Attach, Prepare, Enter, RefreshForBatch,
       TryAcquire, Rotate, CompactBegin, CompactPlan, CompactCommit, StopLook, SnapshotLook,
       SnapshotApply, CatalogChanged, Fork, Adopt, Finished, vars, ask, run
  <1> HIDE DEF RunTyped
  <1>9. CASE UNCHANGED <<stopReason, round, report, cancelledBy>>  BY <1>9 DEF RunTyped
  <1> QED  BY <1>1, <1>2, <1>4, <1>5, <1>6, <1>7, <1>8, <1>9

\* Every variable keeps its type, for any calls of the conversation.
THEOREM ConversationTyped == Spec => []TypeOK
  <1>1. TypeOK <=> PlacesTyped /\ TextTyped /\ ModelTyped /\ RunTyped
    BY DEF TypeOK, PlacesTyped, TextTyped, ModelTyped, RunTyped
  <1>2. Init => TypeOK
    <2> SUFFICES ASSUME Init PROVE TypeOK  OBVIOUS
    <2> USE DEF Init
    <2>1. PlacesTyped  BY DEF PlacesTyped, Stage
    <2>2. TextTyped  BY DEF TextTyped
    <2>3. ModelTyped  BY DEF ModelTyped, NoState, Snapshot
    <2>4. RunTyped  BY ConversationAssumption DEF RunTyped, Outcome
    <2> QED  BY <1>1, <2>1, <2>2, <2>3, <2>4
  <1>3. TypeOK /\ [Next]_vars => TypeOK'
    <2> SUFFICES ASSUME TypeOK, [Next]_vars PROVE TypeOK'  OBVIOUS
    <2>1. CASE Next
      <3>1. PlacesTyped' /\ TextTyped' /\ ModelTyped' /\ RunTyped'
        BY <1>1, <2>1, PlacesStayTyped, TextStaysTyped, ModelStaysTyped, RunStaysTyped
      <3> QED  BY <3>1 DEF TypeOK, PlacesTyped, TextTyped, ModelTyped, RunTyped
    <2>2. CASE UNCHANGED vars
      BY <2>2 DEF TypeOK, vars, gate, text, model, ask, run
    <2> QED  BY <2>1, <2>2
  <1> QED  BY <1>2, <1>3, PTL DEF Spec
-----------------------------------------------------------------------------
(* The remote state *)

\* A call that writes turns which do not end an answer keeps the remote state current.
LEMMA WriteKeepsState ==
  ASSUME TypeOK, RemoteStateIsCurrent, NEW a \in Request, NEW kind \in {"user", "results"},
         Write(a, <<kind>>), driverState' \in {driverState, NoState}
  PROVE  RemoteStateIsCurrent'
  <1>1. CASE driverState' = NoState  BY <1>1 DEF RemoteStateIsCurrent, NoState
  <1>2. CASE driverState' = driverState /\ driverState # NoState
    <2>1. kind \in Kind  BY DEF Kind
    <2>2. /\ turns \in Seq(Turn) /\ turns' \in Seq(Turn) /\ Len(turns') = Len(turns) + 1
          /\ \A k \in 1..Len(turns) : turns'[k] = turns[k]
          /\ turns'[Len(turns) + 1] = [by |-> a, kind |-> kind]
      BY <2>1, WriteOne DEF TypeOK
    <2> DEFINE n == Len(turns) m == Len(turns') at == driverState.at
    <2>3. n \in Nat /\ m = n + 1 /\ DOMAIN turns = 1..n /\ DOMAIN turns' = 1..m  BY <2>2
    <2>4. /\ at \in 1..n /\ turns[at].kind \in {"answer", "calls"}
          /\ \A i \in at + 1..n : turns[i].kind \in {"user", "results"} /\ turns[i].by \in Request
      BY <1>2, <2>3 DEF RemoteStateIsCurrent
    <2>5. turns'[m].by = a /\ turns'[m].kind = kind  BY <2>2
    <2> HIDE DEF n, m
    <2>6. at \in 1..m /\ turns'[at].kind \in {"answer", "calls"}
      BY <2>2, <2>3, <2>4 DEF n
    <2>7. \A i \in at + 1..m : turns'[i].kind \in {"user", "results"} /\ turns'[i].by \in Request
      <3> TAKE i \in at + 1..m
      <3>1. CASE i = m  BY <2>5, <3>1
      <3>2. CASE i # m
        <4>1. i \in at + 1..n /\ i \in 1..n  BY <2>3, <2>4, <3>2
        <4> QED  BY <2>2, <2>4, <4>1 DEF n
      <3> QED  BY <3>1, <3>2
    <2> QED  BY <1>2, <2>3, <2>6, <2>7 DEF RemoteStateIsCurrent, m
  <1> QED  BY <1>1, <1>2

LEMMA QuietKeepsState ==
  ASSUME RemoteStateIsCurrent, UNCHANGED turns, driverState' \in {driverState, NoState}
  PROVE  RemoteStateIsCurrent'
  BY DEF RemoteStateIsCurrent, NoState

LEMMA StateStaysCurrent ==
  ASSUME TypeOK, RemoteStateIsCurrent, Next PROVE RemoteStateIsCurrent'
  <1>1. ASSUME NEW s, ApplyRuntime(s) PROVE driverState' \in {driverState, NoState}
    BY <1>1 DEF ApplyRuntime
  <1>2. ASSUME NEW r \in Request, Prepare(r) PROVE RemoteStateIsCurrent'
    <2>1. driverState' \in {driverState, NoState}  BY <1>1, <1>2 DEF Prepare
    <2>2. UNCHANGED turns \/ Write(r, <<"user">>)  BY <1>2 DEF Prepare
    <2> QED  BY <2>1, <2>2, QuietKeepsState, WriteKeepsState
  <1>3. ASSUME NEW r \in Request, Answer(r) PROVE RemoteStateIsCurrent'
    <2>1. CASE UNCHANGED turns /\ driverState' \in {driverState, NoState}
      BY <2>1, QuietKeepsState
    <2>2. ASSUME NEW kind \in {"answer", "calls"}, Write(r, <<kind>>),
                 driverState' \in {NoState, [by |-> runtime[r], at |-> Len(turns) + 1]}
          PROVE  RemoteStateIsCurrent'
      <3>1. kind \in Kind  BY DEF Kind
      <3>2. /\ turns \in Seq(Turn) /\ turns' \in Seq(Turn) /\ Len(turns') = Len(turns) + 1
            /\ turns'[Len(turns) + 1] = [by |-> r, kind |-> kind]
        BY <2>2, <3>1, WriteOne DEF TypeOK
      <3>3. Len(turns) + 1 \in DOMAIN turns' /\ Len(turns) + 1 + 1..Len(turns') = {}
        BY <3>2
      <3>4. turns'[Len(turns) + 1].kind = kind  BY <3>2
      <3>5. driverState' # NoState => driverState'.at = Len(turns) + 1  BY <2>2
      <3> QED  BY <3>3, <3>4, <3>5 DEF RemoteStateIsCurrent, NoState
    <2> QED  BY <1>3, <2>1, <2>2 DEF Answer
  <1>4. ASSUME NEW r \in Request, Settle(r) PROVE RemoteStateIsCurrent'
    <2>1. driverState' = NoState \/ UNCHANGED <<turns, driverState>>
      BY <1>4 DEF Settle, CloseToolCalls
    <2> QED  BY <2>1, QuietKeepsState DEF RemoteStateIsCurrent, NoState
  <1>5. ASSUME NEW r \in Request, Batch(r) PROVE RemoteStateIsCurrent'
    <2>1. driverState' = NoState \/ (Write(r, <<"results">>) /\ UNCHANGED driverState)
      BY <1>5 DEF Batch
    <2> QED  BY <2>1, WriteKeepsState DEF RemoteStateIsCurrent, NoState
  <1>6. ASSUME NEW n \in Rotator, Rotate(n) PROVE RemoteStateIsCurrent'
    BY <1>6 DEF Rotate, RemoteStateIsCurrent, NoState
  <1>7. ASSUME NEW i \in Isolated, Adopt(i) PROVE RemoteStateIsCurrent'
    <2>1. driverState' = NoState \/ UNCHANGED <<turns, driverState>>  BY <1>7 DEF Adopt, model
    <2> QED  BY <2>1, QuietKeepsState DEF RemoteStateIsCurrent, NoState
  <1>8. \/ UNCHANGED turns /\ driverState' \in {driverState, NoState}
        \/ \E r \in Request : Prepare(r) \/ Answer(r) \/ Settle(r) \/ Batch(r)
        \/ \E n \in Rotator : Rotate(n)
        \/ \E i \in Isolated : Adopt(i)
    BY DEF Next, RunStep, UserCancels, RotateStep, CompactStep, Begin, Attach, Enter, StartRound,
       Refresh, RefreshForBatch, Finish, TryAcquire, GraceEnds, CompactBegin, CompactPlan,
       CompactCommit, Release, StopLook, StopTell, StopCancel, SnapshotLook, SnapshotApply,
       CatalogChanged, Fork, Finished, ApplySnapshot, ApplyRuntime, vars, text, model
  <1> QED  BY <1>2, <1>3, <1>4, <1>5, <1>6, <1>7, <1>8, QuietKeepsState

\* A remote driver state is never sent after the transcript has gone on without it: not
\* after a call was closed unrun, an isolated run was adopted or the session rotated.
THEOREM RemoteStateStaysCurrent == Spec => []RemoteStateIsCurrent
  <1>1. Init => RemoteStateIsCurrent  BY DEF Init, RemoteStateIsCurrent
  <1>2. TypeOK /\ RemoteStateIsCurrent /\ [Next]_vars => RemoteStateIsCurrent'
    <2> SUFFICES ASSUME TypeOK, RemoteStateIsCurrent, [Next]_vars PROVE RemoteStateIsCurrent'
      OBVIOUS
    <2>1. CASE UNCHANGED vars  BY <2>1, QuietKeepsState DEF vars, text, model
    <2> QED  BY <2>1, StateStaysCurrent
  <1> QED  BY <1>1, <1>2, ConversationTyped, PTL DEF Spec
-----------------------------------------------------------------------------
(* Stops *)

Early == {"idle", "claimed", "attached", "prepared"}
Unfinished == Running \ {"leaving"}

\* RequestStop aims at a request whose cancel function is registered, and so does
\* whoever reads the gate.
Aimed ==
  /\ attached # Nobody => pc[attached] \notin {"idle", "claimed"}
  /\ \A s \in Stopper : pc[s] \in {"tell", "cancel"} =>
       target[s] \in Request /\ pc[target[s]] \notin {"idle", "claimed"}

\* As long as the request has not finished, the reason is there before the cancel
\* is, and stays.
Told ==
  /\ \A s \in Stopper : pc[s] = "cancel" /\ pc[target[s]] \in Unfinished => stopReason # Nobody
  /\ \A r \in Request :
       pc[r] \in Unfinished /\ cancelledBy[r] \cap Stopper # {} => stopReason # Nobody

\* A request reports nothing before it has had a round.
Fresh ==
  \A r \in Request :
    /\ pc[r] \in Early => report[r] = "none"
    /\ pc[r] = "idle" => cancelledBy[r] = {}

StopInv == Aimed /\ Told /\ Fresh /\ StopIsExplained

\* A request that moves on and does not finish.
LEMMA MoveKeepsStops ==
  ASSUME TypeOK, StopInv, NEW r \in Request, NEW stage \in Running, pc[r] \in Unfinished,
         Go(r, stage), stage \in Early => pc[r] \in Early, stage # "claimed",
         stage \in Early \cup {"leaving"} => pc[r] \in Early /\ report'[r] = report[r],
         \A q \in Request \ {r} : report'[q] = report[q],
         UNCHANGED <<attached, target, stopReason, cancelledBy>>
  PROVE  StopInv'
  <1> USE DEF TypeOK, Go
  <1>1. r \in Actor /\ Request \subseteq Actor /\ Stopper \subseteq Actor /\ r \notin Stopper
        /\ Nobody \notin Request
    BY ConversationAssumption DEF Actor
  <1>2. pc'[r] = stage /\ \A a \in Actor \ {r} : pc'[a] = pc[a]  BY <1>1
  <1>3. stage # "idle" /\ stage # "done"  BY DEF Running
  <1>4. Aimed'  BY <1>1, <1>2, <1>3 DEF StopInv, Aimed
  <1>5. Told'  BY <1>1, <1>2 DEF StopInv, Told, Aimed, Unfinished
  <1>6. Fresh'
    <2>1. ASSUME NEW q \in Request
          PROVE  (pc'[q] \in Early => report'[q] = "none") /\ (pc'[q] = "idle" => cancelledBy'[q] = {})
      BY <1>1, <1>2, <1>3 DEF StopInv, Fresh
    <2> QED  BY <2>1 DEF Fresh
  <1>7. StopIsExplained'
    <2>1. stage = "leaving" => report'[r] = "none"  BY DEF StopInv, Fresh
    <2> QED  BY <1>1, <1>2, <2>1 DEF StopInv, StopIsExplained, At
  <1> QED  BY <1>4, <1>5, <1>6, <1>7 DEF StopInv

\* Whoever is no request and no stopper.
LEMMA OthersKeepStops ==
  ASSUME TypeOK, StopInv, NEW a \in Actor \ (Request \cup Stopper), NEW stage, Go(a, stage),
         attached' \in {attached, Nobody}, \A s \in Stopper : target'[s] = target[s],
         UNCHANGED <<stopReason, report>>,
         \A r \in Request : cancelledBy'[r] \cap Stopper = cancelledBy[r] \cap Stopper
                         /\ (pc[r] = "idle" => cancelledBy'[r] = cancelledBy[r])
  PROVE  StopInv'
  <1> USE DEF TypeOK, Go
  <1>1. Request \subseteq Actor /\ Stopper \subseteq Actor /\ Nobody \notin Request
    BY ConversationAssumption DEF Actor
  <1>2. \A b \in Request \cup Stopper : pc'[b] = pc[b]  BY <1>1
  <1>3. Aimed'  BY <1>1, <1>2 DEF StopInv, Aimed
  <1>4. Told'  BY <1>1, <1>2 DEF StopInv, Told, Aimed
  <1>5. Fresh'  BY <1>1, <1>2 DEF StopInv, Fresh
  <1>6. StopIsExplained'  BY <1>1, <1>2 DEF StopInv, StopIsExplained, At
  <1> QED  BY <1>3, <1>4, <1>5, <1>6 DEF StopInv

LEMMA RunKeepsStops ==
  ASSUME TypeOK, Inv, StopInv, NEW r \in Request, RunStep(r)
  PROVE  StopInv'
  <1>1. r \in Actor /\ Request \subseteq Actor /\ Stopper \subseteq Actor /\ r \notin Stopper
        /\ Nobody \notin Request
    BY ConversationAssumption DEF Actor
  <1>2. ASSUME NEW stage, Go(r, stage)
        PROVE  pc'[r] = stage /\ \A a \in Actor \ {r} : pc'[a] = pc[a]
    BY <1>1, <1>2 DEF TypeOK, Go
  <1>3. CASE Begin(r)
    <2>1. pc[r] = "idle" /\ pc'[r] \in {"claimed", "done"} /\ \A a \in Actor \ {r} : pc'[a] = pc[a]
      BY <1>2, <1>3 DEF Begin, At
    <2>2. attached' \in {attached, Nobody} /\ UNCHANGED <<target, stopReason, report, cancelledBy>>
      BY <1>3 DEF Begin, Claim, gate, ask
    <2>3. Aimed'  BY <1>1, <2>1, <2>2 DEF StopInv, Aimed, TypeOK
    <2>4. Told'  BY <1>1, <2>1, <2>2 DEF StopInv, Told, Aimed, Fresh
    <2>5. Fresh'  BY <1>1, <2>1, <2>2 DEF StopInv, Fresh, Early
    <2>6. StopIsExplained'  BY <1>1, <2>1, <2>2 DEF StopInv, StopIsExplained, At
    <2> QED  BY <2>3, <2>4, <2>5, <2>6 DEF StopInv
  <1>4. CASE Attach(r)
    <2>1. pc[r] = "claimed" /\ pc'[r] = "attached" /\ \A a \in Actor \ {r} : pc'[a] = pc[a]
      BY <1>2, <1>4 DEF Attach, At
    <2>2. attached' = r /\ UNCHANGED <<target, stopReason, report, cancelledBy>>
      BY <1>4 DEF Attach, ask, run
    <2>3. Aimed'  BY <1>1, <2>1, <2>2 DEF StopInv, Aimed
    <2>4. Told'  BY <1>1, <2>1, <2>2 DEF StopInv, Told, Aimed, Unfinished, Running
    <2>5. Fresh'  BY <1>1, <2>1, <2>2 DEF StopInv, Fresh, Early
    <2>6. StopIsExplained'  BY <1>1, <2>1, <2>2 DEF StopInv, StopIsExplained, At
    <2> QED  BY <2>3, <2>4, <2>5, <2>6 DEF StopInv
  <1>5. CASE Prepare(r) \/ Enter(r)
    <2>1. /\ pc[r] \in {"attached", "prepared"} /\ UNCHANGED <<attached, target, stopReason, report, cancelledBy>>
          /\ \E stage \in {"leaving", "prepared", "round"} : Go(r, stage)
      BY <1>5 DEF Prepare, Enter, At, gate, ask, run
    <2> QED  BY <2>1, MoveKeepsStops DEF Early, Unfinished, Running
  <1>6. CASE StartRound(r) \/ Refresh(r) \/ Answer(r) \/ Settle(r) \/ RefreshForBatch(r) \/ Batch(r)
    <2>1. pc[r] \in {"round", "refresh", "calling", "tool_use", "ended", "batch"}
      BY <1>6 DEF StartRound, Refresh, Answer, Settle, RefreshForBatch, Batch, At
    <2>2. UNCHANGED <<attached, target, stopReason, cancelledBy>>
      BY <1>6 DEF StartRound, Refresh, Answer, Settle, RefreshForBatch, Batch, gate, ask, run
    <2>3. \A q \in Request \ {r} : report'[q] = report[q]
      BY <1>6 DEF StartRound, Refresh, Answer, Settle, RefreshForBatch, Batch, Stop, run, TypeOK
    <2>4. \E stage \in {"round", "refresh", "calling", "tool_use", "ended", "batch", "finish"} : Go(r, stage)
      BY <1>6 DEF StartRound, Refresh, Answer, Settle, RefreshForBatch, Batch, Stop
    <2> QED  BY <2>1, <2>2, <2>3, <2>4, MoveKeepsStops DEF Early, Unfinished, Running
  <1>7. CASE Finish(r)
    <2>1. pc[r] = "finish" /\ pc'[r] = "leaving" /\ \A a \in Actor \ {r} : pc'[a] = pc[a]
      BY <1>2, <1>7 DEF Finish, At
    <2>2. UNCHANGED <<attached, target, cancelledBy>>
      BY <1>7 DEF Finish, gate, run
    <2>3. \A q \in Request \ {r} : pc[q] \notin Running
      BY <2>1 DEF Inv, OneWriter, Writers, Running
    <2>4. /\ \A q \in Request \ {r} : report'[q] = report[q]
          /\ report'[r] \in {"cancelled", "aborted"} => stopReason = Nobody
      BY <1>7 DEF Finish, TypeOK, PolicyEnds
    <2>5. Aimed'  BY <1>1, <2>1, <2>2 DEF StopInv, Aimed, TypeOK
    <2>6. Told'  BY <1>1, <2>1, <2>2, <2>3 DEF StopInv, Told, Aimed, Unfinished
    <2>7. Fresh'  BY <1>1, <2>1, <2>2, <2>4 DEF StopInv, Fresh, Early
    <2>8. StopIsExplained'
      BY <1>1, <2>1, <2>2, <2>4 DEF StopInv, Told, StopIsExplained, At, Unfinished, Running
    <2> QED  BY <2>5, <2>6, <2>7, <2>8 DEF StopInv
  <1> QED  BY <1>3, <1>4, <1>5, <1>6, <1>7 DEF RunStep

LEMMA CancelKeepsStops ==
  ASSUME TypeOK, StopInv,
         \/ \E r \in Request : UserCancels(r)
         \/ \E s \in Stopper : StopLook(s) \/ StopTell(s) \/ StopCancel(s)
  PROVE  StopInv'
  <1>1. Request \subseteq Actor /\ Stopper \subseteq Actor /\ Stopper \cap Request = {}
        /\ Nobody \notin Request /\ Nobody \notin Stopper /\ User \notin Stopper
    BY ConversationAssumption DEF Actor
  <1>2. ASSUME NEW r \in Request, UserCancels(r) PROVE StopInv'
    <2>1. UNCHANGED <<pc, attached, target, stopReason, report>>
      BY <1>2 DEF UserCancels, gate, ask
    <2>2. cancelledBy' = cancelledBy \/ cancelledBy' = [cancelledBy EXCEPT ![r] = @ \cup {User}]
      BY <1>2 DEF UserCancels, CancelContext
    <2>3. \A q \in Request : cancelledBy'[q] \cap Stopper = cancelledBy[q] \cap Stopper
      <3> TAKE q \in Request
      <3>1. cancelledBy'[q] = cancelledBy[q] \/ cancelledBy'[q] = cancelledBy[q] \cup {User}
        BY <2>2 DEF TypeOK
      <3> QED  BY <1>1, <3>1
    <2>4. pc[r] # "idle"  BY <1>2 DEF UserCancels, Running
    <2>5. Aimed' /\ Told' /\ StopIsExplained'
      BY <2>1, <2>3 DEF StopInv, Aimed, Told, StopIsExplained, At
    <2>6. Fresh'  BY <2>1, <2>2, <2>4 DEF StopInv, Fresh, TypeOK
    <2> QED  BY <2>5, <2>6 DEF StopInv
  <1>3. ASSUME NEW s \in Stopper, NEW stage, Go(s, stage)
        PROVE  /\ \A r \in Request : pc'[r] = pc[r]
               /\ pc'[s] = stage /\ \A u \in Stopper \ {s} : pc'[u] = pc[u]
    BY <1>1, <1>3 DEF Go, TypeOK
  <1>4. ASSUME NEW s \in Stopper, StopLook(s) PROVE StopInv'
    <2>1. UNCHANGED <<attached, stopReason, report, cancelledBy>>
      BY <1>4 DEF StopLook, gate, run
    <2>2. /\ pc'[s] = "tell" => attached # Nobody
          /\ pc'[s] # "cancel"
          /\ \A r \in Request : pc'[r] = pc[r]
          /\ \A u \in Stopper \ {s} : pc'[u] = pc[u]
      <3>1. \E stage \in {"tell", "done"} : Go(s, stage) /\ (stage = "tell" => attached # Nobody)
        BY <1>4 DEF StopLook
      <3> QED  BY <1>3, <3>1
    <2>3. target'[s] = attached /\ \A u \in Stopper \ {s} : target'[u] = target[u]
      BY <1>4 DEF StopLook, TypeOK
    <2>4. attached \in Request \cup {Nobody}  BY DEF TypeOK
    <2>5. Aimed'
      BY <1>1, <2>1, <2>2, <2>3, <2>4 DEF StopInv, Aimed
    <2>6. Told'  BY <1>1, <2>1, <2>2, <2>3 DEF StopInv, Told, Aimed
    <2>7. Fresh' /\ StopIsExplained'
      BY <2>1, <2>2 DEF StopInv, Fresh, StopIsExplained, At
    <2> QED  BY <2>5, <2>6, <2>7 DEF StopInv
  <1>5. ASSUME NEW s \in Stopper, StopTell(s) PROVE StopInv'
    <2>1. pc[s] = "tell" /\ Go(s, "cancel") /\ stopReason' = s
          /\ UNCHANGED <<attached, target, report, cancelledBy>>
      BY <1>5 DEF StopTell, At, gate, run
    <2>2. pc'[s] = "cancel" /\ (\A r \in Request : pc'[r] = pc[r])
          /\ (\A u \in Stopper \ {s} : pc'[u] = pc[u])
      BY <1>3, <2>1
    <2>3. Aimed'  BY <1>1, <2>1, <2>2 DEF StopInv, Aimed, TypeOK
    <2>4. Told'  BY <1>1, <2>1 DEF Told
    <2>5. Fresh' /\ StopIsExplained'
      BY <2>1, <2>2 DEF StopInv, Fresh, StopIsExplained, At
    <2> QED  BY <2>3, <2>4, <2>5 DEF StopInv
  <1>6. ASSUME NEW s \in Stopper, StopCancel(s) PROVE StopInv'
    <2>1. pc[s] = "cancel" /\ Go(s, "done") /\ CancelContext(target[s], s)
          /\ UNCHANGED <<attached, target, stopReason, report>>
      BY <1>6 DEF StopCancel, At, gate, ask
    <2>2. pc'[s] = "done" /\ (\A r \in Request : pc'[r] = pc[r])
          /\ (\A u \in Stopper \ {s} : pc'[u] = pc[u])
      BY <1>3, <2>1
    <2>3. /\ target[s] \in Request
          /\ pc[target[s]] \in Unfinished => stopReason # Nobody
      BY <2>1 DEF StopInv, Aimed, Told
    <2>4. \A r \in Request : cancelledBy'[r] # cancelledBy[r] => r = target[s] /\ pc[r] \in Unfinished
      BY <2>1 DEF CancelContext, TypeOK, Unfinished
    <2>5. Aimed'  BY <1>1, <2>1, <2>2 DEF StopInv, Aimed, TypeOK
    <2>6. Told'
      BY <1>1, <2>1, <2>2, <2>3, <2>4 DEF StopInv, Told, Aimed
    <2>7. Fresh' /\ StopIsExplained'
      BY <2>1, <2>2, <2>4 DEF StopInv, Fresh, StopIsExplained, At, Unfinished, Running
    <2> QED  BY <2>5, <2>6, <2>7 DEF StopInv
  <1> QED  BY <1>2, <1>4, <1>5, <1>6

LEMMA ReleaseKeepsStops ==
  ASSUME TypeOK, StopInv, NEW a \in Request \cup Rotator \cup Compactor, Release(a)
  PROVE  StopInv'
  <1>1. Request \subseteq Actor /\ Stopper \subseteq Actor /\ a \in Actor /\ a \notin Stopper
    BY ConversationAssumption DEF Actor
  <1>2. pc'[a] = "done" /\ \A b \in Actor \ {a} : pc'[b] = pc[b]
    BY <1>1 DEF Release, Go, TypeOK
  <1>3. attached' = Nobody /\ UNCHANGED <<target, stopReason>>  BY DEF Release, FreeGate, ask
  <1>4. \A r \in Request \ {a} : report'[r] = report[r] /\ cancelledBy'[r] = cancelledBy[r]
    BY DEF Release, Forget, TypeOK
  <1>5. Aimed'  BY <1>1, <1>2, <1>3 DEF StopInv, Aimed
  <1>6. Told'  BY <1>1, <1>2, <1>3, <1>4 DEF StopInv, Told, Aimed, Unfinished, Running
  <1>7. Fresh'  BY <1>1, <1>2, <1>4 DEF StopInv, Fresh, Early
  <1>8. StopIsExplained'  BY <1>1, <1>2, <1>4 DEF StopInv, StopIsExplained, At
  <1> QED  BY <1>5, <1>6, <1>7, <1>8 DEF StopInv

LEMMA BystandersKeepStops ==
  ASSUME TypeOK, StopInv,
         \/ \E n \in Rotator : RotateStep(n)
         \/ \E c \in Compactor : CompactStep(c)
         \/ \E p \in Applier : SnapshotLook(p) \/ SnapshotApply(p)
         \/ \E m \in Catalog : CatalogChanged(m)
         \/ \E i \in Isolated : Fork(i) \/ Adopt(i)
  PROVE  StopInv'
  <1>1. Rotator \cup Compactor \cup Applier \cup Catalog \cup Isolated \subseteq Actor \ (Request \cup Stopper)
        /\ Stopper \cap (Rotator \cup Applier) = {}
    BY ConversationAssumption DEF Actor
  <1>2. ASSUME NEW n \in Rotator, TryAcquire(n) \/ Rotate(n) PROVE StopInv'
    <2>1. \E stage : Go(n, stage)  BY <1>2 DEF TryAcquire, Acquire, Rotate
    <2>2. attached' \in {attached, Nobody} /\ UNCHANGED <<stopReason, report, cancelledBy>>
      BY <1>2 DEF TryAcquire, Acquire, Rotate, Claim, gate, ask, run
    <2>3. \A s \in Stopper : target'[s] = target[s]
      BY <1>1, <1>2 DEF TryAcquire, Acquire, Rotate, ask, TypeOK
    <2> QED  BY <1>1, <2>1, <2>2, <2>3, OthersKeepStops
  <1>3. ASSUME NEW n \in Rotator, GraceEnds(n) PROVE StopInv'
    <2>1. Go(n, "overrun") /\ UNCHANGED <<attached, target, stopReason, report>>
      BY <1>3 DEF GraceEnds, gate, ask
    <2>2. \/ cancelledBy' = cancelledBy
          \/ /\ attached \in Request /\ pc[attached] \in Running
             /\ cancelledBy' = [cancelledBy EXCEPT ![attached] = @ \cup {n}]
      BY <1>3 DEF GraceEnds, Overrun, CancelContext
    <2>3. ASSUME NEW r \in Request
          PROVE  /\ cancelledBy'[r] \cap Stopper = cancelledBy[r] \cap Stopper
                 /\ pc[r] = "idle" => cancelledBy'[r] = cancelledBy[r]
      <3>1. \/ cancelledBy'[r] = cancelledBy[r]
            \/ cancelledBy'[r] = cancelledBy[r] \cup {n} /\ pc[r] \in Running
        BY <2>2 DEF TypeOK
      <3> QED  BY <1>1, <3>1 DEF Running
    <2> QED  BY <1>1, <2>1, <2>3, OthersKeepStops
  <1>4. ASSUME NEW c \in Compactor, CompactStep(c) PROVE StopInv'
    <2>1. \E stage : Go(c, stage)
      BY <1>4 DEF CompactStep, CompactBegin, CompactPlan, CompactCommit
    <2>2. attached' \in {attached, Nobody} /\ UNCHANGED <<target, stopReason, report, cancelledBy>>
      BY <1>4 DEF CompactStep, CompactBegin, CompactPlan, CompactCommit, Claim, gate, ask, run
    <2> QED  BY <1>1, <2>1, <2>2, OthersKeepStops
  <1>5. ASSUME NEW p \in Applier, SnapshotLook(p) \/ SnapshotApply(p) PROVE StopInv'
    <2>1. \E stage : Go(p, stage)  BY <1>5 DEF SnapshotLook, SnapshotApply
    <2>2. UNCHANGED <<attached, stopReason, report, cancelledBy>>
      BY <1>5 DEF SnapshotLook, SnapshotApply, gate, run
    <2>3. \A s \in Stopper : target'[s] = target[s]
      BY <1>1, <1>5 DEF SnapshotLook, SnapshotApply, TypeOK
    <2> QED  BY <1>1, <2>1, <2>2, <2>3, OthersKeepStops
  <1>6. ASSUME NEW a \in Catalog \cup Isolated, CatalogChanged(a) \/ Fork(a) \/ Adopt(a)
        PROVE  StopInv'
    <2>1. \E stage : Go(a, stage)  BY <1>6 DEF CatalogChanged, Fork, Adopt
    <2>2. UNCHANGED <<attached, target, stopReason, report, cancelledBy>>
      BY <1>6 DEF CatalogChanged, Fork, Adopt, gate, ask, run
    <2> QED  BY <1>1, <2>1, <2>2, OthersKeepStops
  <1> QED  BY <1>2, <1>3, <1>4, <1>5, <1>6 DEF RotateStep

\* A request that RequestStop cancelled before it finished reports that a safety
\* setting was narrowed, whatever other requests, stops and cancellations there are:
\* the reason that finish takes is there before the cancel is.
THEOREM StopsAreExplained == Spec => []StopIsExplained
  <1>1. Init => StopInv
    BY ConversationAssumption
    DEF Init, StopInv, Aimed, Told, Fresh, StopIsExplained, At, Unfinished, Running, Actor
  <1>2. TypeOK /\ Inv /\ StopInv /\ [Next]_vars => StopInv'
    <2> SUFFICES ASSUME TypeOK, Inv, StopInv, [Next]_vars PROVE StopInv'  OBVIOUS
    <2>1. CASE UNCHANGED vars
      BY <2>1 DEF vars, gate, ask, run, StopInv, Aimed, Told, Fresh, StopIsExplained, At
    <2>2. CASE Finished  BY <2>1, <2>2 DEF Finished
    <2> QED
      BY <2>1, <2>2, RunKeepsStops, CancelKeepsStops, ReleaseKeepsStops, BystandersKeepStops DEF Next
  <1>3. StopInv => StopIsExplained  BY DEF StopInv
  <1> QED  BY <1>1, <1>2, <1>3, ConversationTyped, GateHolds, PTL DEF Spec
-----------------------------------------------------------------------------
(* The transcripts *)

Before  == {"idle", "claimed", "attached"}
Calling == {"tool_use", "ended", "batch"}
Answers == {"results", "partial", "unrun"}

LaterBy(T, i) == {j \in i + 1..Len(T) : T[j].by = T[i].by}
AnsweredIn(T, i) ==
  \E j \in LaterBy(T, i) : T[j].kind \in Answers /\ \A k \in LaterBy(T, i) : j <= k

\* The calls of closed sessions are answered, and of the others only those of a
\* request on its way to its batch are not.
ClosedAnswered ==
  \A s \in DOMAIN closed : \A i \in DOMAIN closed[s] :
    closed[s][i].kind = "calls" => AnsweredIn(closed[s], i)
OpenCalls ==
  \A i \in DOMAIN turns : turns[i].kind = "calls" /\ ~AnsweredIn(turns, i) =>
    /\ LaterBy(turns, i) = {} /\ turns[i].by \in Request
    /\ pc[turns[i].by] \in Calling /\ pendingCalls = "open"

\* Who wrote in a closed session will not write again; who wrote in this one has
\* begun, and nobody but isolated runs has written since, as long as it runs.
Gone ==
  \A s \in DOMAIN closed : \A i \in DOMAIN closed[s] :
    closed[s][i].by \in Request => pc[closed[s][i].by] \notin Running \cup {"idle"}
Begun == \A i \in DOMAIN turns : turns[i].by \in Request => pc[turns[i].by] \notin Before
Alone ==
  \A i \in DOMAIN turns : turns[i].by \in Request /\ pc[turns[i].by] \in Running =>
    \A k \in i..Len(turns) : turns[k].by \in {turns[i].by} \cup Isolated

\* The parts of RequestKeepsItsSession: two closed sessions, one of them, this one.
KeptInClosed ==
  \A s, t \in DOMAIN closed : \A i \in DOMAIN closed[s], j \in DOMAIN closed[t] :
    closed[s][i].by = closed[t][j].by /\ closed[s][i].by \in Request =>
      s = t /\ \A k \in i..j : closed[s][k].by \in {closed[s][i].by} \cup Isolated
KeptAcross ==
  \A s \in DOMAIN closed : \A i \in DOMAIN closed[s], j \in DOMAIN turns :
    closed[s][i].by \in Request => closed[s][i].by # turns[j].by
KeptInTurns ==
  \A i, j \in DOMAIN turns : turns[i].by = turns[j].by /\ turns[i].by \in Request =>
    \A k \in i..j : turns[k].by \in {turns[i].by} \cup Isolated

TextInv ==
  /\ ClosedAnswered /\ OpenCalls /\ Gone /\ Begun /\ Alone
  /\ KeptInClosed /\ KeptAcross /\ KeptInTurns

\* What an answered or a last call is when turns are appended.
LEMMA AppendedTurns ==
  ASSUME NEW T \in Seq(Turn), NEW U \in Seq(Turn), Len(T) <= Len(U),
         \A k \in 1..Len(T) : U[k] = T[k], NEW i \in 1..Len(T)
  PROVE  /\ AnsweredIn(T, i) => AnsweredIn(U, i)
         /\ (\A k \in Len(T) + 1..Len(U) : U[k].by # T[i].by) => LaterBy(U, i) = LaterBy(T, i)
         /\ /\ LaterBy(T, i) = {} /\ Len(T) < Len(U)
            /\ U[Len(T) + 1].by = T[i].by /\ U[Len(T) + 1].kind \in Answers
            => AnsweredIn(U, i)
  <1> DEFINE n == Len(T) m == Len(U)
  <1>1. n \in Nat /\ m \in Nat /\ n <= m /\ i \in 1..n /\ U[i] = T[i]  OBVIOUS
  <1>2. \A j \in i + 1..n : U[j] = T[j]  BY <1>1
  <1>3. \A j \in LaterBy(T, i) : j \in LaterBy(U, i)  BY <1>1, <1>2 DEF LaterBy
  <1>4. \A j \in LaterBy(U, i) : j \in LaterBy(T, i) \/ j \in n + 1..m
    BY <1>1, <1>2 DEF LaterBy
  <1>5. AnsweredIn(T, i) => AnsweredIn(U, i)
    <2> SUFFICES ASSUME AnsweredIn(T, i) PROVE AnsweredIn(U, i)  OBVIOUS
    <2>1. PICK j \in LaterBy(T, i) : T[j].kind \in Answers /\ \A k \in LaterBy(T, i) : j <= k
      BY DEF AnsweredIn
    <2>2. j \in i + 1..n  BY <2>1 DEF LaterBy
    <2>3. U[j].kind \in Answers  BY <1>2, <2>1, <2>2
    <2>4. \A k \in LaterBy(U, i) : j <= k  BY <1>1, <1>4, <2>1, <2>2
    <2> QED  BY <1>3, <2>1, <2>3, <2>4 DEF AnsweredIn
  <1>6. ASSUME \A k \in n + 1..m : U[k].by # T[i].by PROVE LaterBy(U, i) = LaterBy(T, i)
    <2>1. \A j \in LaterBy(U, i) : U[j].by = T[i].by  BY <1>1 DEF LaterBy
    <2>2. \A j \in LaterBy(U, i) : j \in LaterBy(T, i)  BY <1>4, <1>6, <2>1
    <2> QED  BY <1>3, <2>2
  <1>7. ASSUME LaterBy(T, i) = {}, n < m, U[n + 1].by = T[i].by, U[n + 1].kind \in Answers
        PROVE  AnsweredIn(U, i)
    <2>1. n + 1 \in LaterBy(U, i)  BY <1>1, <1>7 DEF LaterBy
    <2>2. \A k \in LaterBy(U, i) : n + 1 <= k  BY <1>1, <1>4, <1>7
    <2> QED  BY <1>7, <2>1, <2>2 DEF AnsweredIn
  <1> QED  BY <1>5, <1>6, <1>7

\* Requests go through their stages in order.
Forward(r) ==
  /\ pc'[r] \in Before => pc[r] \in Before
  /\ pc'[r] \in Running => pc[r] \in Running \cup {"idle"}

LEMMA QuietKeepsText ==
  ASSUME TypeOK, TextInv, UNCHANGED <<turns, closed>>,
         \A r \in Request : Forward(r),
         \A r \in Request : pc[r] \in Calling /\ pendingCalls = "open" =>
                           pc'[r] \in Calling /\ pendingCalls' = "open"
  PROVE  TextInv'
  <1> USE DEF TextInv
  <1>1. ClosedAnswered' /\ KeptInClosed' /\ KeptAcross' /\ KeptInTurns'
    BY DEF ClosedAnswered, KeptInClosed, KeptAcross, KeptInTurns
  <1>2. OpenCalls'  BY DEF OpenCalls
  <1>3. Gone'  BY DEF Gone, Forward, Before, Running
  <1>4. Begun'  BY DEF Begun, Forward
  <1>5. Alone'  BY DEF Alone, Begun, Forward, Before
  <1> QED  BY <1>1, <1>2, <1>3, <1>4, <1>5

LEMMA RequestWrites ==
  ASSUME TypeOK, Inv, TextInv, NEW r \in Request, NEW kind \in Kind, NEW stage \in Running \ Before,
         pc[r] \in Running, Write(r, <<kind>>), UNCHANGED closed, Go(r, stage),
         kind = "calls" => stage \in Calling /\ pendingCalls' = "open",
         pc[r] \notin Calling \/ kind \in Answers
  PROVE  TextInv'
  <1> DEFINE n == Len(turns)
  <1>1. /\ turns \in Seq(Turn) /\ turns' \in Seq(Turn) /\ Len(turns') = n + 1
        /\ \A k \in 1..n : turns'[k] = turns[k]
        /\ turns'[n + 1] = [by |-> r, kind |-> kind]
    BY WriteOne DEF TypeOK
  <1>2. /\ n \in Nat /\ DOMAIN turns = 1..n /\ DOMAIN turns' = 1..n + 1
        /\ turns'[n + 1].by = r /\ turns'[n + 1].kind = kind
    BY <1>1
  <1>3. r \in Actor /\ Request \subseteq Actor  BY DEF Actor
  <1>4. pc'[r] = stage /\ \A q \in Request \ {r} : pc'[q] = pc[q]
    BY <1>3 DEF Go, TypeOK
  <1>5. \A q \in Request : pc[q] \in Running => q = r  BY DEF Inv, OneWriter, Writers
  <1>6. Calling \subseteq Running  BY DEF Calling, Running
  <1> HIDE DEF n
  <1> USE DEF TextInv
  <1>7. ClosedAnswered' /\ KeptInClosed'  BY DEF ClosedAnswered, KeptInClosed
  <1>8. OpenCalls'
    <2> SUFFICES ASSUME NEW i \in 1..n + 1, turns'[i].kind = "calls", ~AnsweredIn(turns', i)
                 PROVE  /\ LaterBy(turns', i) = {} /\ turns'[i].by \in Request
                        /\ pc'[turns'[i].by] \in Calling /\ pendingCalls' = "open"
      BY <1>2 DEF OpenCalls, AnsweredIn, LaterBy
    <2>1. CASE i = n + 1
      <3>1. LaterBy(turns', i) = {}  BY <1>1, <1>2, <2>1 DEF LaterBy
      <3> QED  BY <1>2, <1>4, <2>1, <3>1
    <2>2. CASE i \in 1..n
      <3>0. AnsweredIn(turns, i) => AnsweredIn(turns', i)
        BY SMTT(30), <1>1, <1>2, <2>2, AppendedTurns DEF n
      <3>1. ~AnsweredIn(turns, i)  BY <3>0
      <3>2. turns[i].kind = "calls"  BY <1>1, <2>2
      <3>3. LaterBy(turns, i) = {} /\ turns[i].by \in Request /\ pc[turns[i].by] \in Calling
        BY <1>2, <2>2, <3>1, <3>2 DEF OpenCalls
      <3>4. turns[i].by = r /\ kind \in Answers  BY <1>5, <1>6, <3>3
      <3>5. n < Len(turns') /\ n <= Len(turns')  BY <1>1, <1>2
      <3>6. AnsweredIn(turns', i)
        BY <1>1, <1>2, <2>2, <3>3, <3>4, <3>5, AppendedTurns DEF n
      <3> QED  BY <3>6
    <2> QED  BY <1>2, <2>1, <2>2
  <1>9. Gone'  BY <1>4 DEF Gone
  <1>10. Begun'
    <2>1. ASSUME NEW i \in 1..n + 1, turns'[i].by \in Request PROVE pc'[turns'[i].by] \notin Before
      <3>1. CASE i = n + 1  BY <1>2, <1>4, <3>1
      <3>2. CASE i \in 1..n  BY <1>1, <1>2, <1>4, <2>1, <3>2 DEF Begun
      <3> QED  BY <1>2, <3>1, <3>2
    <2> QED  BY <1>2, <2>1 DEF Begun
  <1>11. \A i \in 1..n + 1 : turns'[i].by = r =>
           \A k \in i..n + 1 : turns'[k].by \in {r} \cup Isolated
    <2> SUFFICES ASSUME NEW i \in 1..n + 1, turns'[i].by = r, NEW k \in i..n + 1
                 PROVE  turns'[k].by \in {r} \cup Isolated
      OBVIOUS
    <2>1. CASE k = n + 1  BY <1>2, <2>1
    <2>2. CASE k \in 1..n
      <3>1. i \in 1..n /\ k \in i..n  BY <1>2, <2>2
      <3>2. turns[i].by = r  BY <1>1, <3>1
      <3>3. turns[k].by \in {r} \cup Isolated  BY <1>2, <3>1, <3>2 DEF Alone, n
      <3> QED  BY <1>1, <2>2, <3>3
    <2> QED  BY <1>2, <2>1, <2>2
  <1>12. Alone'
    <2>1. \A q \in Request : pc'[q] \in Running => q = r  BY <1>4, <1>5
    <2> QED  BY <1>1, <1>2, <1>11, <2>1 DEF Alone
  <1>13. KeptAcross'
    <2> SUFFICES ASSUME NEW s \in DOMAIN closed, NEW i \in DOMAIN closed[s], NEW j \in 1..n + 1,
                        closed[s][i].by \in Request
                 PROVE  closed[s][i].by # turns'[j].by
      BY <1>2 DEF KeptAcross
    <2>1. CASE j = n + 1  BY <1>2, <2>1 DEF Gone
    <2>2. CASE j \in 1..n  BY <1>1, <1>2, <2>2 DEF KeptAcross
    <2> QED  BY <1>2, <2>1, <2>2
  <1>14. KeptInTurns'
    <2> SUFFICES ASSUME NEW i \in 1..n + 1, NEW j \in 1..n + 1, turns'[i].by = turns'[j].by,
                        turns'[i].by \in Request, NEW k \in i..j
                 PROVE  turns'[k].by \in {turns'[i].by} \cup Isolated
      BY <1>2 DEF KeptInTurns
    <2>1. CASE j = n + 1  BY <1>2, <1>11, <2>1
    <2>2. CASE j \in 1..n
      <3>1. i \in 1..n /\ k \in 1..n  BY <1>2, <2>2
      <3>2. turns'[i] = turns[i] /\ turns'[j] = turns[j] /\ turns'[k] = turns[k]
        BY <1>1, <2>2, <3>1
      <3> QED  BY <1>2, <2>2, <3>1, <3>2 DEF KeptInTurns
    <2> QED  BY <1>2, <2>1, <2>2
  <1> QED  BY <1>7, <1>8, <1>9, <1>10, <1>12, <1>13, <1>14
\* The turns of an isolated run, its calls closed, come in whole.
LEMMA AdoptKeepsText ==
  ASSUME TypeOK, TextInv, NEW a \in Isolated, Adopt(a)
  PROVE  TextInv'
  <1>1. Request \subseteq Actor /\ a \in Actor /\ a \notin Request
    BY ConversationAssumption DEF Actor
  <1>2. UNCHANGED <<closed, pendingCalls>> /\ \A r \in Request : pc'[r] = pc[r]
    BY <1>1 DEF Adopt, Go, TypeOK
  <1>3. CASE UNCHANGED turns
    BY <1>2, <1>3, QuietKeepsText DEF Forward, Running
  <1>4. ASSUME NEW kinds \in {<<"user", "answer">>, <<"user", "calls", "unrun">>}, Write(a, kinds)
        PROVE  TextInv'
    <2> DEFINE n == Len(turns) m == Len(turns')
    <2>1. kinds \in Seq(Kind)
      <3>1. {"user", "answer", "calls", "unrun"} \subseteq Kind  BY DEF Kind
      <3>2. \A x, y, z \in Kind : <<x, y>> \in Seq(Kind) /\ <<x, y, z>> \in Seq(Kind)  OBVIOUS
      <3> QED  BY <3>1, <3>2
    <2>2. /\ turns \in Seq(Turn) /\ turns' \in Seq(Turn) /\ m = n + Len(kinds)
          /\ \A k \in 1..n : turns'[k] = turns[k]
          /\ \A k \in 1..Len(kinds) : turns'[n + k] = [by |-> a, kind |-> kinds[k]]
      BY <1>4, <2>1, WriteAppends DEF TypeOK
    <2>3. /\ Len(kinds) \in {2, 3}
          /\ \A k \in 1..Len(kinds) : kinds[k] = "calls" => k = 2 /\ Len(kinds) = 3 /\ kinds[3] = "unrun"
      OBVIOUS
    <2>4. n \in Nat /\ m \in Nat /\ n < m /\ n <= m /\ DOMAIN turns = 1..n /\ DOMAIN turns' = 1..m
      BY <2>2, <2>3
    <2>5. \A k \in n + 1..m : turns'[k].by = a /\ turns'[k].kind = kinds[k - n]
      <3> TAKE k \in n + 1..m
      <3>1. k - n \in 1..Len(kinds) /\ n + (k - n) = k  BY <2>2, <2>3, <2>4
      <3>2. turns'[n + (k - n)] = [by |-> a, kind |-> kinds[k - n]]  BY <2>2, <3>1
      <3>3. turns'[k] = [by |-> a, kind |-> kinds[k - n]]  BY <3>1, <3>2
      <3> QED  BY <3>3
    <2> HIDE DEF n, m
    <2> USE DEF TextInv
    <2>6. ClosedAnswered' /\ KeptInClosed'  BY <1>2 DEF ClosedAnswered, KeptInClosed
    <2>7. Gone'  BY <1>2 DEF Gone
    <2>8. Begun'
      <3>1. ASSUME NEW i \in 1..m, turns'[i].by \in Request PROVE pc'[turns'[i].by] \notin Before
        <4>1. i \in 1..n  BY <1>1, <2>4, <2>5, <3>1
        <4> QED  BY <1>2, <2>2, <2>4, <3>1, <4>1 DEF Begun
      <3> QED  BY <2>4, <3>1 DEF Begun
    <2>9. Alone'
      <3> SUFFICES ASSUME NEW i \in 1..m, turns'[i].by \in Request, pc'[turns'[i].by] \in Running,
                          NEW k \in i..m
                   PROVE  turns'[k].by \in {turns'[i].by} \cup Isolated
        BY <2>4 DEF Alone, m
      <3>1. i \in 1..n  BY <1>1, <2>4, <2>5
      <3>2. CASE k \in n + 1..m  BY <2>5, <3>2
      <3>3. CASE k \in 1..n
        <4>1. k \in i..n /\ turns'[k] = turns[k] /\ turns'[i] = turns[i]  BY <2>2, <2>4, <3>1, <3>3
        <4> QED  BY <1>2, <2>4, <3>1, <4>1 DEF Alone, n
      <3> QED  BY <2>4, <3>1, <3>2, <3>3
    <2>10. KeptAcross'
      <3> SUFFICES ASSUME NEW s \in DOMAIN closed, NEW i \in DOMAIN closed[s], NEW j \in 1..m,
                          closed[s][i].by \in Request
                   PROVE  closed[s][i].by # turns'[j].by
        BY <1>2, <2>4 DEF KeptAcross
      <3>1. CASE j \in n + 1..m  BY <1>1, <2>5, <3>1
      <3>2. CASE j \in 1..n
        <4>1. turns'[j] = turns[j] /\ j \in DOMAIN turns  BY <2>2, <2>4, <3>2
        <4>2. closed[s][i].by # turns[j].by  BY <4>1 DEF KeptAcross
        <4> QED  BY <4>1, <4>2
      <3> QED  BY <2>4, <3>1, <3>2
    <2>11. KeptInTurns'
      <3> SUFFICES ASSUME NEW i \in 1..m, NEW j \in 1..m, turns'[i].by = turns'[j].by,
                          turns'[i].by \in Request, NEW k \in i..j
                   PROVE  turns'[k].by \in {turns'[i].by} \cup Isolated
        BY <2>4 DEF KeptInTurns
      <3>1. i \in 1..n /\ j \in 1..n  BY <1>1, <2>4, <2>5
      <3>2. k \in 1..n  BY <2>4, <3>1
      <3>3. turns'[i] = turns[i] /\ turns'[j] = turns[j] /\ turns'[k] = turns[k]
        BY <2>2, <3>1, <3>2
      <3> QED  BY <2>4, <3>1, <3>3 DEF KeptInTurns
    <2>12. OpenCalls'
      <3> SUFFICES ASSUME NEW i \in 1..m, turns'[i].kind = "calls", ~AnsweredIn(turns', i)
                   PROVE  /\ LaterBy(turns', i) = {} /\ turns'[i].by \in Request
                          /\ pc'[turns'[i].by] \in Calling /\ pendingCalls' = "open"
        BY <2>4 DEF OpenCalls, AnsweredIn, LaterBy
      <3>1. CASE i \in n + 1..m
        <4>1. i - n \in 1..Len(kinds) /\ kinds[i - n] = "calls"  BY <2>2, <2>3, <2>4, <2>5, <3>1
        <4>2. i = n + 2 /\ Len(kinds) = 3 /\ kinds[3] = "unrun" /\ m = n + 3
          <5>1. i - n = 2 /\ Len(kinds) = 3 /\ kinds[3] = "unrun"  BY <2>3, <4>1
          <5> QED  BY <2>2, <2>4, <5>1
        <4>3. i + 1..m = {m} /\ m \in n + 1..m /\ m - n = 3  BY <2>4, <4>2
        <4>4. turns'[m].by = a /\ turns'[i].by = a /\ turns'[m].kind = "unrun"
          BY <2>5, <3>1, <4>2, <4>3
        <4>5. LaterBy(turns', i) = {m}  BY <4>3, <4>4 DEF LaterBy, m
        <4> QED  BY <2>4, <4>4, <4>5 DEF AnsweredIn, Answers
      <3>2. CASE i \in 1..n
        <4>1. ~AnsweredIn(turns, i)  BY <2>2, <2>4, <3>2, AppendedTurns DEF n, m
        <4>2. turns'[i] = turns[i]  BY <2>2, <3>2
        <4>3. /\ LaterBy(turns, i) = {} /\ turns[i].by \in Request
              /\ pc[turns[i].by] \in Calling /\ pendingCalls = "open"
          BY <2>4, <3>2, <4>1, <4>2 DEF OpenCalls
        <4>4. \A k \in n + 1..m : turns'[k].by # turns[i].by  BY <1>1, <2>5, <4>3
        <4>5. LaterBy(turns', i) = {}
          BY <2>2, <2>4, <3>2, <4>3, <4>4, AppendedTurns DEF n, m
        <4> QED  BY <1>2, <4>2, <4>3, <4>5
      <3> QED  BY <2>4, <3>1, <3>2
    <2> QED  BY <2>6, <2>7, <2>8, <2>9, <2>10, <2>11, <2>12
  <1> QED  BY <1>3, <1>4 DEF Adopt

\* A rotation holds the gate: no request is running, and every call is answered.
LEMMA RotateKeepsText ==
  ASSUME TypeOK, Inv, TextInv, NEW a \in Rotator, Rotate(a)
  PROVE  TextInv'
  <1>1. Request \subseteq Actor /\ a \in Actor /\ a \notin Request
    BY ConversationAssumption DEF Actor
  <1>2. \A r \in Request : pc'[r] = pc[r]  BY <1>1 DEF Rotate, Go, TypeOK
  <1>3. \A r \in Request : pc[r] \notin Running
    BY <1>1 DEF Rotate, At, Inv, OneWriter, Writers, Claiming
  <1>4. closed \in Seq(Seq(Turn)) /\ turns \in Seq(Turn)  BY DEF TypeOK
  <1> DEFINE m == Len(closed)
  <1>5. turns' = <<>> /\ closed' = Append(closed, turns)  BY DEF Rotate
  <1>6. /\ m \in Nat /\ DOMAIN closed = 1..m /\ DOMAIN closed' = 1..m + 1
        /\ closed'[m + 1] = turns /\ \A s \in 1..m : closed'[s] = closed[s]
    BY <1>4, <1>5
  <1>7. DOMAIN turns' = {}  BY <1>5
  <1> HIDE DEF m
  <1> USE DEF TextInv
  <1>8. \A i \in DOMAIN turns : turns[i].kind = "calls" => AnsweredIn(turns, i)
    BY <1>3 DEF OpenCalls, Calling, Running
  <1>9. ClosedAnswered'
    <2>1. ASSUME NEW s \in 1..m + 1, NEW i \in DOMAIN closed'[s], closed'[s][i].kind = "calls"
          PROVE  AnsweredIn(closed'[s], i)
      <3>1. CASE s = m + 1  BY <1>6, <1>8, <2>1, <3>1
      <3>2. CASE s \in 1..m  BY <1>6, <2>1, <3>2 DEF ClosedAnswered
      <3> QED  BY <1>6, <3>1, <3>2
    <2> QED  BY <1>6, <2>1 DEF ClosedAnswered, AnsweredIn, LaterBy
  <1>10. Gone'
    <2>1. ASSUME NEW s \in 1..m + 1, NEW i \in DOMAIN closed'[s], closed'[s][i].by \in Request
          PROVE  pc'[closed'[s][i].by] \notin Running \cup {"idle"}
      <3>1. CASE s = m + 1  BY <1>2, <1>3, <1>6, <2>1, <3>1 DEF Begun, Before
      <3>2. CASE s \in 1..m  BY <1>2, <1>6, <2>1, <3>2 DEF Gone
      <3> QED  BY <1>6, <3>1, <3>2
    <2> QED  BY <1>6, <2>1 DEF Gone
  <1>11. KeptInClosed'
    <2>1. ASSUME NEW s \in 1..m + 1, NEW t \in 1..m + 1,
                 NEW i \in DOMAIN closed'[s], NEW j \in DOMAIN closed'[t],
                 closed'[s][i].by = closed'[t][j].by, closed'[s][i].by \in Request
          PROVE  s = t /\ \A k \in i..j : closed'[s][k].by \in {closed'[s][i].by} \cup Isolated
      <3>1. CASE s = m + 1 /\ t = m + 1  BY <1>6, <2>1, <3>1 DEF KeptInTurns
      <3>2. CASE s \in 1..m /\ t \in 1..m  BY <1>6, <2>1, <3>2 DEF KeptInClosed
      <3>3. CASE s \in 1..m /\ t = m + 1  BY <1>6, <2>1, <3>3 DEF KeptAcross
      <3>4. CASE s = m + 1 /\ t \in 1..m  BY <1>6, <2>1, <3>4 DEF KeptAcross
      <3> QED  BY <1>6, <3>1, <3>2, <3>3, <3>4
    <2> QED  BY <1>6, <2>1 DEF KeptInClosed
  <1>12. OpenCalls' /\ Begun' /\ Alone' /\ KeptAcross' /\ KeptInTurns'
    BY <1>7 DEF OpenCalls, Begun, Alone, KeptAcross, KeptInTurns
  <1> QED  BY <1>9, <1>10, <1>11, <1>12

\* A running request that writes nothing.
LEMMA RequestQuiet ==
  ASSUME TypeOK, Inv, TextInv, NEW r \in Request, pc[r] \in Running, NEW stage \in Running,
         Go(r, stage), stage \in Before => pc[r] \in Before, UNCHANGED <<turns, closed>>,
         pc[r] \in Calling /\ pendingCalls = "open" => stage \in Calling /\ pendingCalls' = "open"
  PROVE  TextInv'
  <1>1. r \in Actor /\ Request \subseteq Actor  BY DEF Actor
  <1>2. pc'[r] = stage /\ \A q \in Request \ {r} : pc'[q] = pc[q]  BY <1>1 DEF Go, TypeOK
  <1>3. \A q \in Request : pc[q] \in Running => q = r  BY DEF Inv, OneWriter, Writers
  <1>4. Calling \subseteq Running  BY DEF Calling, Running
  <1>5. \A q \in Request : Forward(q)  BY <1>2 DEF Forward
  <1>6. \A q \in Request : pc[q] \in Calling /\ pendingCalls = "open" =>
                         pc'[q] \in Calling /\ pendingCalls' = "open"
    BY <1>2, <1>3, <1>4
  <1> QED  BY <1>5, <1>6, QuietKeepsText

LEMMA RunKeepsText ==
  ASSUME TypeOK, Inv, TextInv, NEW r \in Request, RunStep(r)
  PROVE  TextInv'
  <1>1. /\ {"prepared", "round", "tool_use", "ended", "finish"} \subseteq Running \ Before
        /\ {"attached", "refresh", "calling", "batch", "leaving"} \subseteq Running
        /\ {"refresh", "calling", "batch", "leaving"} \cap Before = {}
        /\ {"user", "answer", "calls"} \cup Answers \subseteq Kind
    BY DEF Running, Before, Answers, Kind
  <1>2. CASE Begin(r)
    <2>1. pc[r] = "idle" /\ UNCHANGED <<turns, closed, pendingCalls>>
          /\ \E stage \in {"done", "claimed"} : Go(r, stage)
      BY <1>2 DEF Begin, At, text
    <2>2. \A q \in Request : q = r \/ pc'[q] = pc[q]  BY <2>1 DEF Go, TypeOK, Actor
    <2>3. pc'[r] \in {"done", "claimed"}  BY <2>1 DEF Go, TypeOK, Actor
    <2>4. \A q \in Request : Forward(q)  BY <2>1, <2>2, <2>3 DEF Forward, Before, Running
    <2>5. pc[r] \notin Calling  BY <2>1 DEF Calling
    <2> QED  BY <2>1, <2>2, <2>4, <2>5, QuietKeepsText
  <1>3. CASE Attach(r)
    BY <1>1, <1>3, RequestQuiet DEF Attach, At, text, Before, Calling, Running
  <1>4. CASE Prepare(r)
    <2>1. pc[r] = "attached" /\ UNCHANGED closed  BY <1>4 DEF Prepare, At
    <2>2. CASE Go(r, "leaving") /\ UNCHANGED turns
      BY <1>1, <2>1, <2>2, RequestQuiet DEF Calling
    <2>3. CASE Go(r, "prepared") /\ Write(r, <<"user">>)
      BY <1>1, <2>1, <2>3, RequestWrites DEF Calling
    <2> QED  BY <1>4, <2>2, <2>3 DEF Prepare
  <1>5. CASE Enter(r)
    <2>1. pc[r] = "prepared" /\ UNCHANGED <<turns, closed>>  BY <1>5 DEF Enter, At, text
    <2>2. \E stage \in {"leaving", "round"} : Go(r, stage)  BY <1>5 DEF Enter
    <2> QED  BY <1>1, <2>1, <2>2, RequestQuiet DEF Calling
  <1>6. CASE StartRound(r) \/ Refresh(r)
    <2>1. pc[r] \in {"round", "refresh"} /\ UNCHANGED <<turns, closed>>
      BY <1>6 DEF StartRound, Refresh, At, text
    <2>2. \E stage \in {"finish", "refresh", "calling"} : Go(r, stage)
      BY <1>6 DEF StartRound, Refresh, Stop
    <2> QED  BY <1>1, <2>1, <2>2, RequestQuiet DEF Calling
  <1>7. CASE Answer(r)
    <2>1. pc[r] = "calling" /\ UNCHANGED closed  BY <1>7 DEF Answer, At
    <2>2. CASE Go(r, "finish") /\ UNCHANGED turns
      BY <1>1, <2>1, <2>2, RequestQuiet DEF Calling
    <2>3. ASSUME NEW kind \in {"answer", "calls"}, NEW stage \in {"tool_use", "ended"},
                 Write(r, <<kind>>), Go(r, stage), kind = "calls" => pendingCalls' = "open"
          PROVE  TextInv'
      BY <1>1, <2>1, <2>3, RequestWrites DEF Calling
    <2> QED  BY <1>7, <2>2, <2>3 DEF Answer, Stop
  <1>8. CASE Settle(r)
    <2>1. pc[r] \in {"tool_use", "ended"} /\ UNCHANGED closed /\ Go(r, "finish")
      BY <1>8 DEF Settle, Stop
    <2>2. CASE pendingCalls = "open"
      <3>1. Write(r, <<"unrun">>)  BY <1>8, <2>2 DEF Settle, CloseToolCalls
      <3>2. "unrun" \in Answers  BY DEF Answers
      <3> QED  BY <1>1, <2>1, <3>1, <3>2, RequestWrites
    <2>3. CASE pendingCalls # "open"
      <3>1. UNCHANGED turns  BY <1>8, <2>3 DEF Settle, CloseToolCalls
      <3> QED  BY <1>1, <2>1, <2>3, <3>1, RequestQuiet
    <2> QED  BY <2>2, <2>3
  <1>9. CASE RefreshForBatch(r)
    <2>1. /\ pc[r] = "tool_use" /\ Go(r, "batch") /\ "batch" \in Calling
          /\ UNCHANGED <<turns, closed, pendingCalls>>
      BY <1>9 DEF RefreshForBatch, At, Calling, text
    <2> QED  BY <1>1, <2>1, RequestQuiet
  <1>10. CASE Batch(r)
    <2>1. pc[r] = "batch" /\ UNCHANGED closed  BY <1>10 DEF Batch, At
    <2>2. \E kind \in {"results", "partial"}, stage \in {"round", "finish"} :
            Write(r, <<kind>>) /\ Go(r, stage)
      BY <1>10 DEF Batch, Stop
    <2>3. {"results", "partial"} \subseteq Answers  BY DEF Answers
    <2> QED  BY <1>1, <2>1, <2>2, <2>3, RequestWrites
  <1>11. CASE Finish(r)
    <2>1. pc[r] = "finish" /\ Go(r, "leaving") /\ UNCHANGED <<turns, closed>>
      BY <1>11 DEF Finish, At
    <2> QED  BY <1>1, <2>1, RequestQuiet DEF Calling
  <1> QED
    BY <1>2, <1>3, <1>4, <1>5, <1>6, <1>7, <1>8, <1>9, <1>10, <1>11 DEF RunStep

LEMMA OthersKeepText ==
  ASSUME TypeOK, Inv, TextInv,
         \/ UNCHANGED vars
         \/ \E r \in Request : UserCancels(r)
         \/ \E n \in Rotator : TryAcquire(n) \/ GraceEnds(n)
         \/ \E c \in Compactor : CompactStep(c)
         \/ \E a \in Request \cup Rotator \cup Compactor : Release(a)
         \/ \E s \in Stopper : StopLook(s) \/ StopTell(s) \/ StopCancel(s)
         \/ \E p \in Applier : SnapshotLook(p) \/ SnapshotApply(p)
         \/ \E m \in Catalog : CatalogChanged(m)
         \/ \E i \in Isolated : Fork(i)
  PROVE  TextInv'
  <1>1. Request \cap (Rotator \cup Compactor \cup Stopper \cup Applier \cup Catalog \cup Isolated) = {}
    BY ConversationAssumption
  <1>2. UNCHANGED <<turns, closed, pendingCalls>>
    BY DEF vars, text, UserCancels, TryAcquire, GraceEnds, CompactStep, CompactBegin, CompactPlan,
       CompactCommit, Release, StopLook, StopTell, StopCancel, SnapshotLook, SnapshotApply,
       CatalogChanged, Fork
  <1>3. \A r \in Request : pc'[r] = pc[r] \/ (pc[r] \in {"leaving", "release"} /\ pc'[r] = "done")
    <2>1. CASE UNCHANGED pc  BY <2>1
    <2>2. ASSUME NEW a \in Request \cup Rotator \cup Compactor, Release(a)
          PROVE  \A r \in Request : pc'[r] = pc[r] \/ (pc[r] \in {"leaving", "release"} /\ pc'[r] = "done")
      BY <2>2 DEF Release, Go, TypeOK, Actor
    <2>3. ASSUME NEW a \in Actor \ Request, NEW stage, Go(a, stage)
          PROVE  \A r \in Request : pc'[r] = pc[r]
      BY <2>3 DEF Go, TypeOK, Actor
    <2>4. \/ UNCHANGED pc
          \/ \E a \in Request \cup Rotator \cup Compactor : Release(a)
          \/ \E a \in Actor \ Request : \E stage : Go(a, stage)
      BY <1>1 DEF Actor, vars, UserCancels, TryAcquire, Acquire, GraceEnds, CompactStep,
         CompactBegin, CompactPlan, CompactCommit, StopLook, StopTell, StopCancel, SnapshotLook,
         SnapshotApply, CatalogChanged, Fork
    <2> QED  BY <2>1, <2>2, <2>3, <2>4
  <1>4. \A r \in Request : Forward(r)  BY <1>3 DEF Forward, Before, Running
  <1>5. \A r \in Request : pc[r] \in Calling => pc'[r] \in Calling  BY <1>3 DEF Calling
  <1> QED  BY <1>2, <1>4, <1>5, QuietKeepsText

LEMMA TextHolds == Spec => []TextInv
  <1>1. Init => TextInv
    BY DEF Init, TextInv, ClosedAnswered, OpenCalls, Gone, Begun, Alone, KeptInClosed, KeptAcross,
       KeptInTurns
  <1>2. TypeOK /\ Inv /\ TextInv /\ [Next]_vars => TextInv'
    <2> SUFFICES ASSUME TypeOK, Inv, TextInv, [Next]_vars PROVE TextInv'  OBVIOUS
    <2> QED
      BY RunKeepsText, AdoptKeepsText, RotateKeepsText, OthersKeepText
      DEF Next, RotateStep, Finished
  <1> QED  BY <1>1, <1>2, ConversationTyped, GateHolds, PTL DEF Spec

\* On every exit path of Run the calls of a response are answered before the request
\* leaves: no committed call is left dangling, in this session or in a closed one.
THEOREM CallsGetClosed == Spec => []CallsAreClosed
  <1>1. TypeOK /\ TextInv => CallsAreClosed
    <2> SUFFICES ASSUME TypeOK, TextInv PROVE CallsAreClosed  OBVIOUS
    <2> DEFINE m == Len(closed)
    <2>1. closed \in Seq(Seq(Turn)) /\ turns \in Seq(Turn)  BY DEF TypeOK
    <2>2. /\ m \in Nat /\ DOMAIN closed = 1..m /\ DOMAIN Transcripts = 1..m + 1 /\ Len(Transcripts) = m + 1
          /\ Transcripts[m + 1] = turns /\ \A s \in 1..m : Transcripts[s] = closed[s]
      BY <2>1 DEF Transcripts
    <2> HIDE DEF m
    <2>3. ASSUME NEW s \in 1..m + 1, NEW i \in DOMAIN Transcripts[s],
                 Transcripts[s][i].kind = "calls", ~AnsweredIn(Transcripts[s], i)
          PROVE  /\ s = m + 1 /\ LaterBy(turns, i) = {}
                 /\ pc[turns[i].by] \in Calling /\ pendingCalls = "open"
      <3>1. CASE s = m + 1  BY <2>2, <2>3, <3>1 DEF TextInv, OpenCalls
      <3>2. CASE s \in 1..m  BY <2>2, <2>3, <3>2 DEF TextInv, ClosedAnswered
      <3> QED  BY <2>2, <3>1, <3>2
    <2> QED  BY <2>2, <2>3 DEF CallsAreClosed, AnsweredIn, LaterBy, Answers, Calling
  <1> QED  BY <1>1, TextHolds, ConversationTyped, PTL

\* The turns of one request stay in one session, in one piece, whatever rotations,
\* compactions and other requests are asked for while it runs.
THEOREM RequestsKeepTheirSession == Spec => []RequestKeepsItsSession
  <1>1. TypeOK /\ TextInv => RequestKeepsItsSession
    <2> SUFFICES ASSUME TypeOK, TextInv PROVE RequestKeepsItsSession  OBVIOUS
    <2> DEFINE m == Len(closed)
    <2>1. closed \in Seq(Seq(Turn)) /\ turns \in Seq(Turn)  BY DEF TypeOK
    <2>2. /\ m \in Nat /\ DOMAIN closed = 1..m /\ DOMAIN Transcripts = 1..m + 1
          /\ Transcripts[m + 1] = turns /\ \A s \in 1..m : Transcripts[s] = closed[s]
      BY <2>1 DEF Transcripts
    <2> HIDE DEF m
    <2> USE DEF TextInv
    <2>3. ASSUME NEW s \in 1..m + 1, NEW t \in 1..m + 1,
                 NEW i \in DOMAIN Transcripts[s], NEW j \in DOMAIN Transcripts[t],
                 Transcripts[s][i].by = Transcripts[t][j].by, Transcripts[s][i].by \in Request
          PROVE  s = t /\ \A k \in i..j : Transcripts[s][k].by \in {Transcripts[s][i].by} \cup Isolated
      <3>1. CASE s = m + 1 /\ t = m + 1  BY <2>2, <2>3, <3>1 DEF KeptInTurns
      <3>2. CASE s \in 1..m /\ t \in 1..m  BY <2>2, <2>3, <3>2 DEF KeptInClosed
      <3>3. CASE s \in 1..m /\ t = m + 1  BY <2>2, <2>3, <3>3 DEF KeptAcross
      <3>4. CASE s = m + 1 /\ t \in 1..m  BY <2>2, <2>3, <3>4 DEF KeptAcross
      <3> QED  BY <2>2, <3>1, <3>2, <3>3, <3>4
    <2> QED  BY <2>2, <2>3 DEF RequestKeepsItsSession
  <1> QED  BY <1>1, TextHolds, ConversationTyped, PTL

\* However a request ends, beside any other calls, it leaves the conversation in order:
\* its calls closed, the remote state usable or gone, its turns together, a stop explained.
THEOREM EveryRequestEndsInOrder == Spec => []RequestsEndInOrder
  <1>1. CallsAreClosed /\ RemoteStateIsCurrent /\ RequestKeepsItsSession /\ StopIsExplained
          => RequestsEndInOrder
    BY DEF RequestsEndInOrder
  <1> QED
    BY <1>1, CallsGetClosed, RemoteStateStaysCurrent, RequestsKeepTheirSession, StopsAreExplained, PTL
=============================================================================
