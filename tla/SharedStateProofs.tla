--------------------------- MODULE SharedStateProofs ---------------------------
(***************************************************************************)
(* Proofs about three things that those who work at the same time share: the*)
(* coordinator of all tool calls (ResourceCoordinator), for any set of      *)
(* callers, workspace and submitted specs; the limits of models             *)
(* (LimitResolver), for any requests, models, windows, tiers and terms; and *)
(* the budget, the names and the result of the queries of a web call        *)
(* (WebTools), for any setups and responses.                                *)
(***************************************************************************)
EXTENDS ResourceCoordinator, LimitResolver, WebTools, FiniteSetTheorems, WellFoundedInduction, TLAPS

-----------------------------------------------------------------------------
(***************************************************************************)
(* The coordinator: what may run together, and that no wakeup is lost.      *)
(***************************************************************************)

\* The order of two specs does not matter to their conflict.
LEMMA ConflictsSymmetric ==
  ASSUME NEW l, NEW r, IsNormal(l), IsNormal(r), Conflicts(l, r)
  PROVE  Conflicts(r, l)
<1>1. CASE l.mode = "exclusive" \/ r.mode = "exclusive"
  BY <1>1 DEF Conflicts
<1>2. CASE ~(l.mode = "exclusive" \/ r.mode = "exclusive")
  <2>1. PICK first \in l.claims, second \in r.claims :
          (first.access = "write" \/ second.access = "write") /\ Overlap(first, second)
    BY <1>2 DEF Conflicts
  <2>2. l.mode = "claimed" /\ r.mode = "claimed"
    BY <1>2 DEF Conflicts
  <2>3. Readable(first) /\ Readable(second)
    BY <2>1, <2>2 DEF IsNormal, Exclusive, Shared
  <2>4. Overlap(second, first)
    BY <2>1, <2>3 DEF Overlap, Readable
  <2> QED
    BY <2>1, <2>2, <2>4 DEF Conflicts
<1> QED
  BY <1>1, <1>2

\* Two trees that contain one path contain one another, one way or the other.
LEMMA TreesNest ==
  ASSUME NEW s \in Seq(Name), NEW t \in Seq(Name), NEW p \in Seq(Name),
         TreeContains(s, p), TreeContains(t, p)
  PROVE  TreeContains(s, t) \/ TreeContains(t, s)
<1>1. Len(s) \in Nat /\ Len(t) \in Nat /\ Len(p) \in Nat /\ Len(s) <= Len(p) /\ Len(t) <= Len(p)
  BY DEF TreeContains, IsPrefix
<1>2. \A i \in 1..Len(s) : s[i] = p[i]
  BY <1>1 DEF TreeContains, IsPrefix
<1>3. \A i \in 1..Len(t) : t[i] = p[i]
  BY <1>1 DEF TreeContains, IsPrefix
<1>4. CASE Len(s) <= Len(t)
  <2>1. SubSeq(s, 1, Len(s)) = SubSeq(t, 1, Len(s))
    BY <1>1, <1>2, <1>3, <1>4
  <2> QED
    BY <1>4, <2>1 DEF TreeContains, IsPrefix
<1>5. CASE Len(t) <= Len(s)
  <2>1. SubSeq(t, 1, Len(t)) = SubSeq(s, 1, Len(t))
    BY <1>1, <1>2, <1>3, <1>5
  <2> QED
    BY <1>5, <2>1 DEF TreeContains, IsPrefix
<1> QED
  BY <1>1, <1>4, <1>5

\* Normalisation only lets specs into the queue that the coordinator can read.
LEMMA NormalisedIsNormal ==
  ASSUME NEW submitted \in Submitted
  PROVE  IsNormal(Normalised(submitted))
<1>1. CASE submitted.mode = "shared"
  BY <1>1 DEF Normalised, IsNormal
<1>2. CASE submitted.mode = "claimed" /\ submitted.claims # {}
           /\ \A claim \in submitted.claims : Readable(claim)
  BY <1>2, CoordinatorAssumption DEF Normalised, IsNormal, CoordinatorAssumption
<1>3. CASE submitted.mode # "shared" /\ ~(submitted.mode = "claimed" /\ submitted.claims # {}
           /\ \A claim \in submitted.claims : Readable(claim))
  BY <1>3 DEF Normalised, IsNormal
<1> QED
  BY <1>1, <1>2, <1>3

\* Two calls that may meet on a path, one of them writing it, conflict.
LEMMA RaceConflicts ==
  ASSUME NEW l, NEW r, IsNormal(l), IsNormal(r), NEW p \in Writes(l) \cap Touches(r)
  PROVE  Conflicts(l, r)
<1>1. CASE l.mode = "exclusive" \/ r.mode = "exclusive"
  BY <1>1 DEF Conflicts
<1>2. CASE ~(l.mode = "exclusive" \/ r.mode = "exclusive")
  <2>1. p \in Seq(Name)
    BY CoordinatorAssumption DEF Writes, CoordinatorAssumption
  <2>2. PICK first \in l.claims : first.access = "write" /\ Covers(first, p)
    BY <1>2 DEF Writes
  <2>3. PICK second \in r.claims : Covers(second, p)
    BY <1>2 DEF Touches
  <2>4. l.mode = "claimed" /\ r.mode = "claimed"
    BY <1>2, <2>2, <2>3 DEF IsNormal, Exclusive, Shared
  <2>5. /\ Readable(first) /\ first.path \in Seq(Name)
        /\ Readable(second) /\ second.path \in Seq(Name)
    BY <2>2, <2>3, <2>4 DEF IsNormal, Exclusive, Shared
  <2>6. TreeContains(p, p)
    BY <2>1 DEF TreeContains, IsPrefix
  <2>7. Overlap(first, second)
    BY <2>1, <2>2, <2>3, <2>5, <2>6, TreesNest DEF Overlap, Covers, Readable
  <2> QED
    BY <2>2, <2>4, <2>7 DEF Conflicts
<1> QED
  BY <1>1, <1>2
-----------------------------------------------------------------------------
(* The queue *)

\* What removing one element does to a sequence.
LEMMA Removal ==
  ASSUME NEW S, NEW s \in Seq(S), NEW i \in 1..Len(s)
  PROVE /\ RemoveAt(s, i) \in Seq(S)
        /\ Len(RemoveAt(s, i)) = Len(s) - 1
        /\ \A j \in 1..(i - 1) : RemoveAt(s, i)[j] = s[j]
        /\ \A j \in i..(Len(s) - 1) : RemoveAt(s, i)[j] = s[j + 1]
<1> DEFINE l == SubSeq(s, 1, i - 1)
           r == SubSeq(s, i + 1, Len(s))
<1>1. l \in Seq(S) /\ Len(l) = i - 1 /\ \A j \in 1..(i - 1) : l[j] = s[j]
  OBVIOUS
<1>2. r \in Seq(S) /\ Len(r) = Len(s) - i /\ \A j \in 1..(Len(s) - i) : r[j] = s[i + j]
  OBVIOUS
<1>3. RemoveAt(s, i) = l \o r
  BY DEF RemoveAt
<1> HIDE DEF l, r
<1>4. /\ l \o r \in Seq(S) /\ Len(l \o r) = Len(l) + Len(r)
      /\ \A j \in 1..Len(l) : (l \o r)[j] = l[j]
      /\ \A j \in 1..Len(r) : (l \o r)[Len(l) + j] = r[j]
  <2>1. l \in Seq(S) /\ r \in Seq(S)
    BY <1>1, <1>2
  <2> QED
    BY ONLY <2>1
<1>5. \A j \in i..(Len(s) - 1) : (l \o r)[j] = s[j + 1]
  <2> SUFFICES ASSUME NEW j \in i..(Len(s) - 1) PROVE (l \o r)[j] = s[j + 1]
    OBVIOUS
  <2>1. j - (i - 1) \in 1..(Len(s) - i) /\ (i - 1) + (j - (i - 1)) = j
    OBVIOUS
  <2> DEFINE k == j - (i - 1)
  <2>2. k \in 1..(Len(s) - i) /\ (i - 1) + k = j /\ i + k = j + 1
    BY <2>1
  <2> HIDE DEF k
  <2>3. k \in 1..Len(r) /\ Len(l) + k = j
    BY <1>1, <1>2, <2>2
  <2>4. (l \o r)[j] = r[k]
    BY <1>4, <2>3
  <2>5. r[k] = s[i + k]
    BY <1>2, <2>2
  <2> QED
    BY <2>2, <2>4, <2>5
<1> QED
  BY <1>1, <1>2, <1>3, <1>4, <1>5

Exclusion == \A c, d \in Holders : c # d => ~Conflicts(spec[c], spec[d])

\* Whoever is ahead of a waiting caller stands before it in the queue.
AheadIsBefore ==
  /\ \A c \in Caller : ahead[c] \subseteq Waiting
  /\ \A c \in Waiting : \A w \in ahead[c] :
       \E i, j \in DOMAIN waiters : i < j /\ waiters[i] = w /\ waiters[j] = c

Inv == CoordinatorTypeOK /\ QueueIsWaiting /\ Exclusion /\ AheadIsBefore /\ NoOvertaking /\ NoLostWakeup

\* A caller that leaves the queue takes nobody else's place.
LEMMA Departure ==
  ASSUME CoordinatorTypeOK, QueueIsWaiting, NEW c \in Waiting
  PROVE  /\ WaitersWithout(c) \in Seq(Caller)
         /\ {WaitersWithout(c)[i] : i \in DOMAIN WaitersWithout(c)} = Waiting \ {c}
         /\ \A i, j \in DOMAIN WaitersWithout(c) :
              WaitersWithout(c)[i] = WaitersWithout(c)[j] => i = j
         /\ \A i, j \in DOMAIN waiters : i < j /\ waiters[i] # c /\ waiters[j] # c =>
              \E k, m \in DOMAIN WaitersWithout(c) :
                 k < m /\ WaitersWithout(c)[k] = waiters[i] /\ WaitersWithout(c)[m] = waiters[j]
<1> DEFINE rest == WaitersWithout(c)
           n == Len(waiters)
           p == Place(c)
<1>1. waiters \in Seq(Caller) /\ n \in Nat /\ DOMAIN waiters = 1..n
  BY DEF CoordinatorTypeOK
<1>2. p \in 1..n /\ waiters[p] = c
  <2>1. \E i \in DOMAIN waiters : waiters[i] = c
    BY DEF QueueIsWaiting
  <2> QED
    BY <1>1, <2>1 DEF Place
<1>3. /\ rest \in Seq(Caller) /\ Len(rest) = n - 1
      /\ \A j \in 1..(p - 1) : rest[j] = waiters[j]
      /\ \A j \in p..(n - 1) : rest[j] = waiters[j + 1]
  <2>1. rest = RemoveAt(waiters, p)
    BY DEF WaitersWithout
  <2> HIDE DEF rest, p, n
  <2>2. p \in 1..Len(waiters)
    BY <1>2 DEF n
  <2> QED
    BY <1>1, <2>1, <2>2, Removal DEF n
<1> HIDE DEF rest, p, n
<1>4. DOMAIN rest = 1..(n - 1)
  BY <1>1, <1>3
<1> DEFINE old(j) == IF j < p THEN j ELSE j + 1
           now(i) == IF i < p THEN i ELSE i - 1
<1>5. \A j \in 1..(n - 1) : old(j) \in 1..n /\ old(j) # p /\ rest[j] = waiters[old(j)]
  BY <1>1, <1>2, <1>3
<1>6. \A i \in 1..n : i # p => now(i) \in 1..(n - 1) /\ rest[now(i)] = waiters[i]
  <2> SUFFICES ASSUME NEW i \in 1..n, i # p PROVE now(i) \in 1..(n - 1) /\ rest[now(i)] = waiters[i]
    OBVIOUS
  <2>1. CASE i < p
    BY <1>1, <1>2, <1>3, <2>1
  <2>2. CASE i > p
    <3>1. i - 1 \in p..(n - 1) /\ (i - 1) + 1 = i /\ now(i) = i - 1
      BY <1>1, <1>2, <2>2
    <3> QED
      BY <1>3, <1>1, <1>2, <3>1
  <2> QED
    BY <2>1, <2>2, <1>1, <1>2
<1>7. \A i, j \in 1..n : waiters[i] = waiters[j] => i = j
  BY <1>1 DEF QueueIsWaiting
<1>8. {rest[i] : i \in DOMAIN rest} = Waiting \ {c}
  <2>1. ASSUME NEW j \in 1..(n - 1) PROVE rest[j] \in Waiting \ {c}
    <3>1. old(j) \in 1..n /\ old(j) # p /\ rest[j] = waiters[old(j)]
      BY <1>5
    <3>2. waiters[old(j)] # c
      BY <1>2, <1>7, <3>1
    <3> QED
      BY <1>1, <3>1, <3>2 DEF QueueIsWaiting
  <2>2. ASSUME NEW w \in Waiting \ {c} PROVE \E j \in 1..(n - 1) : rest[j] = w
    <3>1. PICK i \in 1..n : waiters[i] = w
      BY <1>1 DEF QueueIsWaiting
    <3> QED
      BY <1>2, <1>6, <3>1
  <2> QED
    BY <1>4, <2>1, <2>2
<1>9. \A i, j \in 1..(n - 1) : rest[i] = rest[j] => i = j
  <2> SUFFICES ASSUME NEW i \in 1..(n - 1), NEW j \in 1..(n - 1), rest[i] = rest[j]
               PROVE  i = j
    OBVIOUS
  <2>1. old(i) = old(j)
    BY <1>5, <1>7
  <2> QED
    BY <1>1, <1>2, <2>1
<1>10. ASSUME NEW i \in 1..n, NEW j \in 1..n, i < j, waiters[i] # c, waiters[j] # c
       PROVE  \E k, m \in 1..(n - 1) : k < m /\ rest[k] = waiters[i] /\ rest[m] = waiters[j]
  <2>1. i # p /\ j # p
    BY <1>2, <1>10
  <2>2. now(i) < now(j)
    BY <1>1, <1>2, <1>10, <2>1
  <2> QED
    BY <1>6, <2>1, <2>2
<1> QED
  BY SMTT(30), <1>1, <1>3, <1>4, <1>8, <1>9, <1>10 DEF rest
-----------------------------------------------------------------------------
(* The inductive invariant *)

LEMMA InvInit == CoordinatorInit => Inv
  BY DEF CoordinatorInit, Inv, CoordinatorTypeOK, IsNormal, QueueIsWaiting, Exclusion, AheadIsBefore, NoOvertaking,
         NoLostWakeup, Holders, Waiting

\* A caller that was granted its claim conflicts with no holder, before or after.
LEMMA GrantExcludes ==
  ASSUME Inv, NEW c \in Caller, NEW s, IsNormal(s), NEW queue, Grantable(c, s, queue),
         c \notin Holders, Holders' = Holders \cup {c},
         spec'[c] = s, \A d \in Caller : d # c => spec'[d] = spec[d]
  PROVE  Exclusion'
<1> SUFFICES ASSUME NEW d \in Holders', NEW e \in Holders', d # e
             PROVE  ~Conflicts(spec'[d], spec'[e])
  BY DEF Exclusion
<1>1. spec'[c] = s /\ \A h \in Holders : spec'[h] = spec[h] /\ IsNormal(spec[h])
  BY DEF Inv, CoordinatorTypeOK, Holders
<1>2. \A h \in Holders : ~Conflicts(s, spec[h]) /\ ~Conflicts(spec[h], s)
  BY <1>1, ConflictsSymmetric DEF Grantable
<1> QED
  BY <1>1, <1>2 DEF Inv, Exclusion

LEMMA ArriveInv ==
  ASSUME Inv, NEW c \in Caller, NEW submitted \in Submitted, Arrive(c, submitted)
  PROVE  Inv'
<1> DEFINE s == Normalised(submitted)
           queue == Append(waiters, c)
           n == Len(waiters)
<1>1. /\ waiters \in Seq(Caller) /\ n \in Nat /\ DOMAIN waiters = 1..n
      /\ queue \in Seq(Caller) /\ Len(queue) = n + 1 /\ DOMAIN queue = 1..(n + 1)
      /\ queue[n + 1] = c /\ \A i \in 1..n : queue[i] = waiters[i]
  BY DEF Inv, CoordinatorTypeOK
<1>2. IsNormal(s)
  BY NormalisedIsNormal
<1>3. /\ standing[c] = "idle" /\ spec' = [spec EXCEPT ![c] = s] /\ ahead' = [ahead EXCEPT ![c] = Waiting]
      /\ contextDone' = contextDone /\ c \notin Waiting /\ c \notin Holders
  BY DEF Arrive, Waiting, Holders
<1>4. spec'[c] = s /\ \A d \in Caller : d # c => spec'[d] = spec[d]
  BY <1>3 DEF Inv, CoordinatorTypeOK
<1>5. Waiting = {waiters[i] : i \in 1..n}
  BY <1>1 DEF Inv, QueueIsWaiting
<1> HIDE DEF s, queue
<1>6. CASE Grantable(c, s, queue)
  <2>1. /\ standing' = [standing EXCEPT ![c] = "holding"] /\ waiters' = waiters
        /\ woken' = (woken \cup Waiting) \ {c}
    BY <1>6 DEF Arrive, SignalOthers, s, queue
  <2>2. Holders' = Holders \cup {c} /\ Waiting' = Waiting
    BY <1>3, <2>1 DEF Holders, Waiting, Inv, CoordinatorTypeOK
  <2>3. CoordinatorTypeOK'
    BY <1>2, <1>3, <1>4, <2>1 DEF Inv, CoordinatorTypeOK, Waiting
  <2>4. Exclusion'
    BY <1>2, <1>3, <1>4, <1>6, <2>2, GrantExcludes
  <2>5. QueueIsWaiting' /\ AheadIsBefore'
    BY <1>3, <2>1, <2>2 DEF Inv, CoordinatorTypeOK, QueueIsWaiting, AheadIsBefore, Waiting
  <2>6. NoOvertaking'
    <3>1. \A w \in Waiting : ~Conflicts(s, spec[w])
      BY <1>1, <1>5, <1>6 DEF Grantable
    <3>2. ahead'[c] = Waiting /\ \A h \in Holders : h # c /\ ahead'[h] = ahead[h]
      BY <1>3 DEF Inv, CoordinatorTypeOK, Holders
    <3>3. \A h \in Holders : \A w \in ahead[h] : w # c /\ w \in Caller
      BY <1>3 DEF Inv, AheadIsBefore, Holders, Waiting
    <3>4. \A w \in Waiting : w # c /\ w \in Caller
      BY <1>3 DEF Waiting
    <3>5. \A w \in ahead'[c] : ~Conflicts(spec'[c], spec'[w])
      BY <1>4, <3>1, <3>2, <3>4
    <3>6. \A h \in Holders : \A w \in ahead'[h] : ~Conflicts(spec'[h], spec'[w])
      BY <1>4, <3>2, <3>3 DEF Inv, NoOvertaking, Holders
    <3> QED
      BY <2>2, <3>5, <3>6 DEF NoOvertaking
  <2>7. NoLostWakeup'
    BY <1>3, <2>1, <2>2 DEF NoLostWakeup
  <2> QED
    BY <2>3, <2>4, <2>5, <2>6, <2>7 DEF Inv
<1>7. CASE ~Grantable(c, s, queue)
  <2>1. standing' = [standing EXCEPT ![c] = "waiting"] /\ waiters' = queue /\ woken' = woken
    BY <1>7 DEF Arrive, s, queue
  <2>2. Holders' = Holders /\ Waiting' = Waiting \cup {c}
    BY <1>3, <2>1 DEF Holders, Waiting, Inv, CoordinatorTypeOK
  <2>3. CoordinatorTypeOK'
    BY <1>1, <1>2, <1>3, <1>4, <2>1 DEF Inv, CoordinatorTypeOK, Waiting
  <2>4. Exclusion'
    BY <1>3, <1>4, <2>2 DEF Inv, Exclusion, Holders
  <2>5. QueueIsWaiting'
    <3>1. {queue[i] : i \in DOMAIN queue} = Waiting \cup {c}
      BY <1>1, <1>5
    <3>2. \A i, j \in DOMAIN queue : queue[i] = queue[j] => i = j
      <4>1. \A i \in 1..n : queue[i] # c
        BY <1>1, <1>3, <1>5
      <4>2. \A i, j \in 1..n : queue[i] = queue[j] => i = j
        BY <1>1 DEF Inv, QueueIsWaiting
      <4>3. \A i \in DOMAIN queue : i \in 1..n \/ i = n + 1
        BY <1>1
      <4> QED
        BY <1>1, <4>1, <4>2, <4>3
    <3> QED
      BY <2>1, <2>2, <3>1, <3>2 DEF QueueIsWaiting
  <2>6. AheadIsBefore'
    <3>1. ahead'[c] = Waiting /\ \A d \in Caller : d # c => ahead'[d] = ahead[d]
      BY <1>3 DEF Inv, CoordinatorTypeOK
    <3>2. \A d \in Caller : ahead'[d] \subseteq Waiting'
      BY <2>2, <3>1 DEF Inv, AheadIsBefore
    <3>3. ASSUME NEW d \in Waiting', NEW w \in ahead'[d]
          PROVE  \E i, j \in DOMAIN queue : i < j /\ queue[i] = w /\ queue[j] = d
      <4>1. CASE d = c
        <5>1. PICK i \in 1..n : waiters[i] = w
          BY <1>5, <3>1, <3>3, <4>1
        <5> QED
          BY <1>1, <4>1, <5>1
      <4>2. CASE d # c
        <5>1. d \in Waiting /\ d \in Caller /\ w \in ahead[d]
          BY <2>2, <3>1, <3>3, <4>2 DEF Waiting
        <5>2. PICK i \in 1..n, j \in 1..n : i < j /\ waiters[i] = w /\ waiters[j] = d
          BY <1>1, <5>1 DEF Inv, AheadIsBefore
        <5> QED
          BY <1>1, <5>2
      <4> QED
        BY <4>1, <4>2
    <3> QED
      BY <2>1, <3>2, <3>3 DEF AheadIsBefore
  <2>7. NoOvertaking'
    <3>1. \A h \in Holders : \A w \in ahead[h] : h # c /\ w # c /\ w \in Caller /\ h \in Caller
      BY <1>3 DEF Inv, AheadIsBefore, Holders, Waiting
    <3>2. \A h \in Holders : ahead'[h] = ahead[h]
      BY <1>3 DEF Inv, CoordinatorTypeOK, Holders
    <3> QED
      BY <1>4, <2>2, <3>1, <3>2 DEF Inv, NoOvertaking
  <2>8. NoLostWakeup'
    <3> SUFFICES ASSUME NEW d \in Waiting' \ woken'
                 PROVE  ~Grantable(d, spec[d], waiters)' 
      BY DEF NoLostWakeup
    <3>0. /\ Grantable(d, spec[d], waiters)' =
               (/\ \A h \in Holders : ~Conflicts(spec'[d], spec'[h])
                /\ \A i, j \in DOMAIN queue :
                     queue[i] = d /\ j < i => ~Conflicts(spec'[d], spec'[queue[j]]))
          /\ \A h \in Holders : spec'[h] = spec[h]
          /\ \A i \in 1..n : queue[i] # c /\ queue[i] \in Caller /\ spec'[queue[i]] = spec[queue[i]]
      <4>1. \A h \in Holders : h # c /\ h \in Caller
        BY <1>3 DEF Holders
      <4>2. \A i \in 1..n : queue[i] # c /\ queue[i] \in Caller
        BY <1>1, <1>3, <1>5
      <4> QED
        BY <1>4, <2>1, <2>2, <4>1, <4>2 DEF Grantable
    <3>1. CASE d = c
      BY <1>1, <1>4, <1>7, <3>0, <3>1 DEF Grantable
    <3>2. CASE d # c
      <4>1. d \in Waiting /\ d \notin woken /\ d \in Caller
        BY <2>1, <2>2, <3>2 DEF Waiting
      <4>2. ~Grantable(d, spec[d], waiters)
        BY <4>1 DEF Inv, NoLostWakeup
      <4> QED
        BY <1>1, <1>4, <3>0, <3>2, <4>1, <4>2 DEF Grantable
    <3> QED
      BY <3>1, <3>2
  <2> QED
    BY <2>3, <2>4, <2>5, <2>6, <2>7, <2>8 DEF Inv
<1> QED
  BY <1>6, <1>7

\* Leaving the queue, with or without a claim, disturbs nobody who stays.
LEMMA DequeueInv ==
  ASSUME Inv, NEW c \in Waiting, NEW next \in {"idle", "holding"}, Dequeue(c, next),
         next = "holding" => Grantable(c, spec[c], waiters)
  PROVE  Inv'
<1>1. /\ standing' = [standing EXCEPT ![c] = next] /\ waiters' = WaitersWithout(c)
      /\ woken' = (woken \cup Waiting) \ {c}
      /\ ahead' = [d \in Caller |-> ahead[d] \ {c}]
      /\ spec' = spec /\ contextDone' = contextDone /\ c \in Caller
  BY DEF Dequeue, SignalOthers, Waiting
<1>2. Waiting' = Waiting \ {c} /\ Holders' = IF next = "holding" THEN Holders \cup {c} ELSE Holders
  BY <1>1 DEF Waiting, Holders, Inv, CoordinatorTypeOK
<1>3. CoordinatorTypeOK'
  BY <1>1, Departure DEF Inv, CoordinatorTypeOK, Waiting
<1>4. QueueIsWaiting'
  BY <1>1, <1>2, Departure DEF Inv, QueueIsWaiting
<1>5. Exclusion'
  <2>1. CASE next = "holding"
    <3>1. IsNormal(spec[c]) /\ c \notin Holders
      BY <1>1 DEF Inv, CoordinatorTypeOK, Waiting, Holders
    <3> QED
      BY <1>1, <1>2, <2>1, <3>1, GrantExcludes
  <2>2. CASE next # "holding"
    BY <1>1, <1>2, <2>2 DEF Inv, Exclusion
  <2> QED
    BY <2>1, <2>2
<1>6. AheadIsBefore'
  <2>1. \A d \in Caller : ahead'[d] \subseteq Waiting'
    BY <1>1, <1>2 DEF Inv, AheadIsBefore
  <2>2. ASSUME NEW d \in Waiting', NEW w \in ahead'[d]
        PROVE  \E i, j \in DOMAIN waiters' : i < j /\ waiters'[i] = w /\ waiters'[j] = d
    <3>1. d \in Waiting /\ d # c /\ w \in ahead[d] /\ w # c
      BY <1>1, <1>2, <2>2 DEF Waiting
    <3>2. PICK i \in DOMAIN waiters, j \in DOMAIN waiters : i < j /\ waiters[i] = w /\ waiters[j] = d
      BY <3>1 DEF Inv, AheadIsBefore
    <3> QED
      BY <1>1, <3>1, <3>2, Departure DEF Inv
  <2> QED
    BY <2>1, <2>2 DEF AheadIsBefore
<1>7. NoOvertaking'
  <2>1. \A h \in Holders : \A w \in ahead'[h] : ~Conflicts(spec[h], spec[w])
    BY <1>1 DEF Inv, NoOvertaking, Holders
  <2>2. ASSUME next = "holding", NEW w \in ahead'[c] PROVE ~Conflicts(spec[c], spec[w])
    <3>1. w \in ahead[c]
      BY <1>1, <2>2
    <3>2. PICK i \in DOMAIN waiters, j \in DOMAIN waiters : i < j /\ waiters[i] = w /\ waiters[j] = c
      BY <3>1 DEF Inv, AheadIsBefore
    <3> QED
      BY <2>2, <3>2 DEF Grantable
  <2> QED
    BY <1>1, <1>2, <2>1, <2>2 DEF NoOvertaking
<1>8. NoLostWakeup'
  BY <1>1, <1>2 DEF NoLostWakeup
<1> QED
  BY <1>3, <1>4, <1>5, <1>6, <1>7, <1>8 DEF Inv

LEMMA InvStep == Inv /\ [CoordinatorNext]_coordinatorVars => Inv'
<1> SUFFICES ASSUME Inv, [CoordinatorNext]_coordinatorVars PROVE Inv'
  OBVIOUS
<1>1. ASSUME NEW c \in Caller, NEW s \in Submitted, Arrive(c, s) PROVE Inv'
  BY <1>1, ArriveInv
<1>2. ASSUME NEW c \in Caller, LookAgain(c) PROVE Inv'
  <2>1. c \in Waiting
    BY <1>2 DEF LookAgain, Waiting
  <2>2. CASE Grantable(c, spec[c], waiters)
    <3>1. Dequeue(c, IF c \in contextDone THEN "idle" ELSE "holding")
      BY <1>2, <2>2 DEF LookAgain
    <3> QED
      BY <2>1, <2>2, <3>1, DequeueInv
  <2>3. CASE ~Grantable(c, spec[c], waiters)
    <3>1. woken' = woken \ {c} /\ UNCHANGED <<standing, spec, waiters, contextDone, ahead>>
      BY <1>2, <2>3 DEF LookAgain
    <3>2. Holders' = Holders /\ Waiting' = Waiting
      BY <3>1 DEF Holders, Waiting
    <3>3. CoordinatorTypeOK' /\ QueueIsWaiting' /\ Exclusion' /\ AheadIsBefore' /\ NoOvertaking'
      BY <3>1, <3>2 DEF Inv, CoordinatorTypeOK, QueueIsWaiting, Exclusion, AheadIsBefore, NoOvertaking
    <3>4. NoLostWakeup'
      BY <2>3, <3>1, <3>2 DEF Inv, NoLostWakeup, Grantable
    <3> QED
      BY <3>3, <3>4 DEF Inv
  <2> QED
    BY <2>2, <2>3
<1>3. ASSUME NEW c \in Caller, GiveUp(c) PROVE Inv'
  BY <1>3, DequeueInv DEF GiveUp, Waiting
<1>4. ASSUME NEW c \in Caller, ReleaseClaim(c) PROVE Inv'
  <2>1. /\ standing' = [standing EXCEPT ![c] = "idle"] /\ woken' = (woken \cup Waiting) \ {c}
        /\ UNCHANGED <<spec, waiters, contextDone, ahead>> /\ standing[c] = "holding"
    BY <1>4 DEF ReleaseClaim, SignalOthers
  <2>2. Holders' = Holders \ {c} /\ Waiting' = Waiting /\ c \notin Waiting
    BY <2>1 DEF Holders, Waiting, Inv, CoordinatorTypeOK
  <2>3. CoordinatorTypeOK' /\ QueueIsWaiting' /\ Exclusion' /\ AheadIsBefore' /\ NoOvertaking'
    BY <2>1, <2>2 DEF Inv, CoordinatorTypeOK, QueueIsWaiting, Exclusion, AheadIsBefore, NoOvertaking, Waiting
  <2>4. NoLostWakeup'
    BY <2>1, <2>2 DEF NoLostWakeup
  <2> QED
    BY <2>3, <2>4 DEF Inv
<1>5. ASSUME NEW c \in Caller, ContextEnds(c) \/ NextCall(c) PROVE Inv'
  <2>1. UNCHANGED <<standing, spec, waiters, woken, ahead>> /\ contextDone' \subseteq Caller
    BY <1>5 DEF ContextEnds, NextCall, Inv, CoordinatorTypeOK
  <2>2. Holders' = Holders /\ Waiting' = Waiting
    BY <2>1 DEF Holders, Waiting
  <2> QED
    BY <2>1, <2>2 DEF Inv, CoordinatorTypeOK, QueueIsWaiting, Exclusion, AheadIsBefore, NoOvertaking,
                      NoLostWakeup, Grantable
<1>6. CASE UNCHANGED coordinatorVars
  BY <1>6 DEF coordinatorVars, Inv, CoordinatorTypeOK, QueueIsWaiting, Exclusion, AheadIsBefore, NoOvertaking,
              NoLostWakeup, Grantable, Holders, Waiting
<1> QED
  BY <1>1, <1>2, <1>3, <1>4, <1>5, <1>6 DEF CoordinatorNext
-----------------------------------------------------------------------------
(* Theorems *)

\* No call that may write a path runs beside another call that may touch it:
\* the overlap test of two claims misses no file they have in common.
THEOREM NoRaceHolds == CoordinatorSpec => []NoRace
<1>1. Inv => NoRace
  <2> SUFFICES ASSUME Inv, NEW c \in Holders, NEW d \in Holders, c # d,
                      NEW p \in Writes(spec[c]) \cap Touches(spec[d])
               PROVE  FALSE
    BY DEF NoRace
  <2>1. IsNormal(spec[c]) /\ IsNormal(spec[d])
    BY DEF Inv, CoordinatorTypeOK, Holders
  <2>2. Conflicts(spec[c], spec[d])
    BY <2>1, RaceConflicts
  <2> QED
    BY <2>2 DEF Inv, Exclusion
<1> QED
  BY <1>1, InvInit, InvStep, PTL DEF CoordinatorSpec

\* A call that declared nothing the coordinator can read runs alone.
THEOREM ExclusiveHolds == CoordinatorSpec => []ExclusiveRunsAlone
<1>1. Inv => ExclusiveRunsAlone
  BY DEF Inv, Exclusion, ExclusiveRunsAlone, Conflicts
<1> QED
  BY <1>1, InvInit, InvStep, PTL DEF CoordinatorSpec

\* Cancelled and granted calls leave the queue, and nobody else does.
THEOREM QueueHolds == CoordinatorSpec => []QueueIsWaiting
<1>1. Inv => QueueIsWaiting
  BY DEF Inv
<1> QED
  BY <1>1, InvInit, InvStep, PTL DEF CoordinatorSpec

\* A conflicting call that arrived first is served first.
THEOREM PriorityHolds == CoordinatorSpec => []NoOvertaking
<1>1. Inv => NoOvertaking
  BY DEF Inv
<1> QED
  BY <1>1, InvInit, InvStep, PTL DEF CoordinatorSpec

\* Closing one channel per change is enough: a caller that could be served has
\* been told to look.
THEOREM WakeupHolds == CoordinatorSpec => []NoLostWakeup
<1>1. Inv => NoLostWakeup
  BY DEF Inv
<1> QED
  BY <1>1, InvInit, InvStep, PTL DEF CoordinatorSpec

-----------------------------------------------------------------------------
(* Finite sets *)

\* A nonempty set of numbers has a least one.
LEMMA LeastExists ==
  ASSUME NEW S, S \subseteq Nat, S # {}
  PROVE  \E d \in S : \A e \in S : d <= e
<1>1. PICK d \in S : \A e \in S : ~ (<<e, d>> \in OpToRel(<, Nat))
  BY NatLessThanWellFounded, WFMin
<1>2. \A e \in S : d <= e
  <2>1. ASSUME NEW e \in S PROVE d <= e
    <3>1. ~ (e < d)
      BY <1>1 DEF OpToRel
    <3> QED
      BY <3>1
  <2> QED
    BY <2>1
<1> QED
  BY <1>2

\* The image of a finite set is finite.
LEMMA FiniteImage ==
  ASSUME NEW S, IsFiniteSet(S), NEW f
  PROVE  IsFiniteSet({f[x] : x \in S})
<1> DEFINE T == {f[x] : x \in S}
           g == [x \in S |-> f[x]]
<1>1. g \in [S -> T] /\ \A t \in T : \E x \in S : g[x] = t
  OBVIOUS
<1>2. g \in Surjection(S, T)
  BY <1>1 DEF Surjection
<1> QED
  BY <1>2, FS_Surjection

-----------------------------------------------------------------------------
(***************************************************************************)
(* The limits of models: the places of discovery, the entries in memory and *)
(* in the file, and what a refusal taught.                                  *)
(***************************************************************************)
Sources == {None, "endpoint", "catalog", "overflow", "fallback"}
LimitEntry ==
  [win : Nat, src : Sources, deg : Nat, at : Nat, exp : Nat, stale : Nat, neg : BOOLEAN]
Asking == {"discover", "catalog", "fetch", "store"}
Request ==
  [pc : Asking \cup {"idle", "resolve", "wait", "generate"}, model : Models \cup {None},
   win : Nat, src : Sources, deg : Nat, age : Int, asked : BOOLEAN, attempt : Nat, tried : Nat,
   stale : LimitEntry, found : LimitEntry, cancelled : BOOLEAN]

LimitsTypeOK ==
  /\ cache \in [Models -> LimitEntry] /\ disk \in [Models -> LimitEntry]
  /\ learned \in [Models -> LimitEntry]
  /\ loaded \in BOOLEAN /\ clock \in Nat
  /\ inflight \in [Models -> Requests \cup {None}]
  /\ reqs \in [Requests -> Request]

\* For how long an entry is fresh, and until when it may be used for want of a better one.
Term(src) == IF src = "fallback" THEN TTL.negative ELSE TtlFor(src)
EntryOK(e) ==
  /\ e.exp <= e.at + Term(e.src)
  /\ e.src = "fallback" => e.neg
  /\ ~e.neg => e.stale <= e.at + (IF e.src = "overflow" THEN TTL.learned ELSE TTL.stale)
  /\ e.src = "overflow" => e.exp = e.at + TTL.learned
EntriesOK == \A m \in Models : EntryOK(cache[m]) /\ EntryOK(disk[m])

\* The limit a request works with.
IsCurrent(r) ==
  (r.pc = "generate" /\ r.attempt = 0) =>
     CASE r.src = "fallback" -> r.age < TTL.negative
       [] r.src = "overflow" -> r.age < TTL.learned
       [] OTHER -> r.age < TtlFor(r.src) \/ (r.asked /\ r.age < TTL.stale)
Shrinks(r) ==
  (r.pc = "generate" /\ r.attempt > 0 /\ Configured[r.model] = 0 /\ r.tried > LastTier)
    => r.win < r.tried

\* What is so of a request wherever it is: the place it takes or waits for, and what it
\* has found, which it records before time goes on.
RequestFits(q, r) ==
  /\ r.pc # "idle" => r.model \in Models
  /\ r.pc \in Asking => inflight[r.model] = q /\ r.asked
  /\ r.pc = "wait" => inflight[r.model] # None
  /\ ~loaded => r.pc \in {"idle", "resolve"}
  /\ EntryOK(r.stale)
  /\ r.pc # "store" => r.found.win = 0
  /\ r.found.win > 0 => r.found.at = clock /\ r.found.src \in {"endpoint", "catalog"}
  /\ IsCurrent(r) /\ Shrinks(r)
RequestsFit == \A q \in Requests : RequestFits(q, reqs[q])
PlacesAreTaken ==
  \A m \in Models : inflight[m] # None =>
    reqs[inflight[m]].pc \in Asking /\ reqs[inflight[m]].model = m

\* While what was learned is good, nobody discovers that model, and the entry in use
\* is the one that was learned.
Known == IF loaded THEN cache ELSE disk
LearnedIsKnown ==
  \A m \in Models : learned[m].exp > clock =>
    /\ inflight[m] = None
    /\ learned[m].src = "overflow" /\ learned[m].exp = learned[m].at + TTL.learned
    /\ Same(Known[m], learned[m])

LimitsInv == LimitsTypeOK /\ EntriesOK /\ RequestsFit /\ PlacesAreTaken /\ LearnedIsKnown

-----------------------------------------------------------------------------
(* Data *)

LEMMA LeastOf ==
  ASSUME NEW S, S \subseteq Nat, S # {}
  PROVE  Min(S) \in S
<1>1. PICK d \in S : \A e \in S : d <= e
  BY LeastExists
<1> QED
  BY <1>1 DEF Min

\* The terms are positive.
LEMMA TermsArePositive ==
  /\ \A src : TtlFor(src) \in Nat \ {0} /\ Term(src) \in Nat \ {0}
  /\ TTL.endpoint \in Nat \ {0} /\ TTL.catalog \in Nat \ {0} /\ TTL.learned \in Nat \ {0}
  /\ TTL.negative \in Nat \ {0} /\ TTL.stale \in Nat \ {0}
<1>1. /\ TTL.endpoint \in Nat \ {0} /\ TTL.catalog \in Nat \ {0} /\ TTL.learned \in Nat \ {0}
      /\ TTL.negative \in Nat \ {0} /\ TTL.stale \in Nat \ {0}
  BY LimitsAssumption
<1> QED
  BY <1>1 DEF TtlFor, Term

LEMMA NoEntryIsOK == NoEntry \in LimitEntry /\ EntryOK(NoEntry) /\ NoEntry.win = 0 /\ NoEntry.exp = 0
BY TermsArePositive DEF NoEntry, LimitEntry, Sources, EntryOK, Term, TtlFor, None

LEMMA IdleIsARequest == IdleReq \in Request
BY NoEntryIsOK DEF IdleReq, Request, Sources, None

LEMMA TiersArePositive ==
  /\ Len(Tiers) \in Nat \ {0}
  /\ \A i \in 1..Len(Tiers) : Tiers[i] \in Nat \ {0}
  /\ LastTier \in Nat /\ Tiers[1] \in Nat
  /\ \A w \in Nat : NextTier(w) \in Nat /\ (w > LastTier => NextTier(w) < w)
<1>1. /\ Len(Tiers) \in Nat \ {0}
      /\ \A i \in 1..Len(Tiers) : Tiers[i] \in Nat \ {0}
  BY LimitsAssumption
<1>2. LastTier \in Nat /\ Tiers[1] \in Nat
  BY <1>1 DEF LastTier
<1>3. ASSUME NEW w \in Nat PROVE NextTier(w) \in Nat /\ (w > LastTier => NextTier(w) < w)
  <2> DEFINE lower == {i \in 1..Len(Tiers) : Tiers[i] < w}
  <2>1. lower # {} => Min(lower) \in lower
    BY LeastOf
  <2>2. w > LastTier => Len(Tiers) \in lower
    BY <1>1 DEF LastTier
  <2>3. NextTier(w) = IF lower = {} THEN LastTier ELSE Tiers[Min(lower)]
    BY DEF NextTier
  <2> QED
    BY <2>1, <2>2, <2>3, <1>1, <1>2
<1> QED
  BY <1>1, <1>2, <1>3

\* What may remain of the entries: each as it was, or none.
LEMMA PruningKeeps ==
  ASSUME NEW entries \in [Models -> LimitEntry], NEW kept \in Prunings(entries)
  PROVE  /\ kept \in [Models -> LimitEntry]
         /\ \A m \in Models : kept[m] = entries[m] \/ kept[m] = NoEntry
<1>1. kept = entries \/ \E k \in SUBSET Models : kept = [m \in Models |-> IF m \in k THEN entries[m] ELSE NoEntry]
  <2> DEFINE full == {m \in Models : entries[m].win > 0}
  <2>1. CASE Cardinality(full) <= MaxEntries
    BY <2>1 DEF Prunings
  <2>2. CASE ~ (Cardinality(full) <= MaxEntries)
    <3> DEFINE sets == {k \in kSubset(MaxEntries, full) : \A x \in full \ k, y \in k : entries[x].at <= entries[y].at}
    <3>1. Prunings(entries) = {[m \in Models |-> IF m \in k THEN entries[m] ELSE NoEntry] : k \in sets}
      BY <2>2 DEF Prunings
    <3>2. sets \subseteq SUBSET Models
      BY DEF kSubset
    <3> HIDE DEF sets
    <3> QED
      BY <3>1, <3>2
  <2> QED
    BY <2>1, <2>2
<1> QED
  BY <1>1, NoEntryIsOK

\* A request that has its limit.
LEMMA LimitedRequest ==
  ASSUME NEW r \in Request, r.model \in Models, NEW e \in LimitEntry, clock \in Nat
  PROVE  LET w == WithLimits(r, e)
         IN  /\ w \in Request
             /\ w.pc = "generate" /\ w.model = r.model /\ w.src = e.src /\ w.deg = e.deg
             /\ w.age = clock - e.at /\ w.asked = r.asked /\ w.attempt = 0 /\ w.tried = 0
             /\ w.stale = NoEntry /\ w.found = NoEntry /\ ~w.cancelled
             /\ w.win = IF Configured[r.model] > 0 THEN Configured[r.model] ELSE e.win
<1>1. Configured[r.model] \in Nat
  BY LimitsAssumption
<1>2. /\ e.src \in Sources /\ e.deg \in Nat /\ e.at \in Nat /\ e.win \in Nat /\ r.asked \in BOOLEAN
  BY DEF LimitEntry, Request
<1> DEFINE win == IF Configured[r.model] > 0 THEN Configured[r.model] ELSE e.win
           age == clock - e.at
           full == [pc |-> "generate", model |-> r.model, win |-> win, src |-> e.src, deg |-> e.deg,
                    age |-> age, asked |-> r.asked, attempt |-> 0, tried |-> 0,
                    stale |-> NoEntry, found |-> NoEntry, cancelled |-> FALSE]
<1>3. win \in Nat /\ age \in Int
  BY <1>1, <1>2
<1>4. WithLimits(r, e) = [IdleReq EXCEPT !.pc = "generate", !.model = r.model, !.src = e.src, !.deg = e.deg,
                          !.age = age, !.asked = r.asked, !.win = win]
  BY DEF WithLimits
<1> HIDE DEF win, age
<1>5. WithLimits(r, e) = full
  BY <1>4 DEF IdleReq
<1>6. full \in Request
  BY <1>2, <1>3, NoEntryIsOK DEF Request
<1> QED
  BY <1>5, <1>6 DEF win, age

\* What a discovery records is good for its term, and is what the request starts with.
LEMMA EntryIsGood ==
  ASSUME NEW r \in Request, clock \in Nat, EntryOK(r.stale),
         r.found.win > 0 => r.found.at = clock /\ r.found.src \in {"endpoint", "catalog"}
  PROVE  /\ EntryFor(r) \in LimitEntry /\ EntryOK(EntryFor(r))
         /\ LET e == EntryFor(r)
            IN CASE e.src = "fallback" -> clock - e.at < TTL.negative
                 [] e.src = "overflow" -> clock - e.at < TTL.learned
                 [] OTHER -> clock - e.at < TtlFor(e.src) \/ clock - e.at < TTL.stale
<1> USE TermsArePositive
<1>1. r.found \in LimitEntry /\ r.stale \in LimitEntry
  BY DEF Request
<1>2. CASE r.found.win > 0
  <2> DEFINE f == r.found
  <2>1. EntryFor(r) = [f EXCEPT !.exp = clock + TtlFor(f.src), !.stale = clock + TTL.stale]
    BY <1>2 DEF EntryFor, FoundEntry
  <2>2. TtlFor(f.src) \in Nat \ {0} /\ f.at = clock /\ f.src \in {"endpoint", "catalog"}
    BY <1>2
  <2> DEFINE exp == clock + TtlFor(f.src)
             stale == clock + TTL.stale
  <2>3. exp \in Nat /\ stale \in Nat
    BY <2>2
  <2>4. EntryFor(r) = [f EXCEPT !.exp = exp, !.stale = stale]
    BY <2>1
  <2> HIDE DEF exp, stale
  <2>5. /\ EntryFor(r) \in LimitEntry
        /\ EntryFor(r).exp = exp /\ EntryFor(r).stale = stale
        /\ EntryFor(r).src = f.src /\ EntryFor(r).at = f.at
    BY <1>1, <2>3, <2>4 DEF LimitEntry
  <2>6. EntryOK(EntryFor(r))
    BY <2>2, <2>5 DEF EntryOK, Term, exp, stale
  <2>7. clock - EntryFor(r).at = 0 /\ EntryFor(r).src \in {"endpoint", "catalog"}
    BY <2>2, <2>5
  <2> QED
    BY <2>2, <2>5, <2>6, <2>7
<1>3. CASE ~ (r.found.win > 0) /\ r.stale.win > 0 /\ clock < r.stale.stale /\ ~r.stale.neg
  <2>1. EntryFor(r) = r.stale
    BY <1>3 DEF EntryFor
  <2> QED
    BY <1>1, <1>3, <2>1 DEF LimitEntry, EntryOK
<1>4. CASE ~ (r.found.win > 0) /\ ~ (r.stale.win > 0 /\ clock < r.stale.stale /\ ~r.stale.neg)
  <2>1. EntryFor(r) = FallbackEntry
    BY <1>4 DEF EntryFor
  <2>2. FallbackEntry \in LimitEntry
    BY TiersArePositive DEF FallbackEntry, LimitEntry, Sources
  <2>3. /\ FallbackEntry.src = "fallback" /\ FallbackEntry.at = clock /\ FallbackEntry.neg
        /\ FallbackEntry.exp = clock + TTL.negative
    BY DEF FallbackEntry
  <2>4. EntryOK(FallbackEntry)
    BY <2>3 DEF EntryOK, Term
  <2> QED
    BY <2>1, <2>2, <2>3, <2>4
<1> QED
  BY <1>2, <1>3, <1>4

-----------------------------------------------------------------------------
(* The steps *)

LEMMA LimitsStart == LimitsInit => LimitsInv
<1> SUFFICES ASSUME LimitsInit PROVE LimitsInv
  OBVIOUS
<1> USE NoEntryIsOK
<1>1. PICK m \in Models, win \in Windows :
        disk \in {Empty, [Empty EXCEPT ![m] =
         [win |-> win, src |-> "endpoint", deg |-> 0, at |-> 0,
          exp |-> TTL.endpoint, stale |-> TTL.stale, neg |-> FALSE]]}
  BY DEF LimitsInit
<1> DEFINE left == [win |-> win, src |-> "endpoint", deg |-> 0, at |-> 0,
                    exp |-> TTL.endpoint, stale |-> TTL.stale, neg |-> FALSE]
<1>2. left \in LimitEntry
  BY TermsArePositive, LimitsAssumption DEF LimitEntry, Sources
<1>3. left.src = "endpoint" /\ left.at = 0 /\ left.exp = TTL.endpoint /\ left.stale = TTL.stale /\ ~left.neg
  OBVIOUS
<1>4. EntryOK(left)
  BY <1>3, TermsArePositive DEF EntryOK, Term, TtlFor
<1> HIDE DEF left
<1>5. disk \in [Models -> LimitEntry] /\ \A k \in Models : EntryOK(disk[k])
  BY <1>1, <1>2, <1>4 DEF Empty, left
<1>6. cache \in [Models -> LimitEntry] /\ \A k \in Models : cache[k] = NoEntry /\ learned[k] = NoEntry /\ inflight[k] = None
  BY DEF LimitsInit, Empty
<1>7. LimitsTypeOK
  BY <1>5, IdleIsARequest DEF LimitsInit, LimitsTypeOK, Empty
<1>8. RequestsFit
  <2>1. \A q \in Requests : reqs[q] = IdleReq
    BY DEF LimitsInit
  <2>2. IdleReq.pc = "idle" /\ IdleReq.stale = NoEntry /\ IdleReq.found = NoEntry
    BY DEF IdleReq
  <2> QED
    BY <2>1, <2>2 DEF RequestsFit, RequestFits, Asking, IsCurrent, Shrinks
<1>9. clock = 0
  BY DEF LimitsInit
<1> QED
  BY <1>5, <1>6, <1>7, <1>8, <1>9 DEF LimitsInv, EntriesOK, PlacesAreTaken, LearnedIsKnown

\* A step of one request that leaves the places of discovery alone.
LEMMA OneMoves ==
  ASSUME LimitsInv, NEW q \in Requests,
         reqs' = [reqs EXCEPT ![q] = reqs'[q]], reqs'[q] \in Request,
         RequestFits(q, reqs[q])',
         reqs[q].pc \in Asking => reqs'[q].pc \in Asking /\ reqs'[q].model = reqs[q].model,
         \/ cache' = cache /\ loaded' = loaded
         \/ cache' = Known /\ loaded' = TRUE,
         UNCHANGED <<disk, inflight, clock, learned>>
  PROVE  LimitsInv'
<1>1. Known' = Known
  BY DEF Known
<1>2. cache' \in [Models -> LimitEntry] /\ \A m \in Models : EntryOK(cache'[m])
  BY DEF LimitsInv, LimitsTypeOK, EntriesOK, Known
<1>3. LimitsTypeOK' /\ EntriesOK'
  <2>1. reqs' \in [Requests -> Request] /\ loaded' \in BOOLEAN
    BY DEF LimitsInv, LimitsTypeOK
  <2> QED
    BY <1>2, <2>1 DEF LimitsInv, LimitsTypeOK, EntriesOK
<1>4. \A p \in Requests : p # q => reqs'[p] = reqs[p]
  BY DEF LimitsInv, LimitsTypeOK
<1>5. RequestsFit'
  <2> SUFFICES ASSUME NEW p \in Requests PROVE RequestFits(p, reqs[p])'
    BY DEF RequestsFit
  <2>1. CASE p = q
    BY <2>1
  <2>2. CASE p # q
    <3>1. RequestFits(p, reqs[p])
      BY DEF LimitsInv, RequestsFit
    <3>2. ~loaded' => ~loaded
      BY DEF LimitsInv, LimitsTypeOK
    <3> QED
      BY <3>1, <3>2, <2>2, <1>4 DEF RequestFits
  <2> QED
    BY <2>1, <2>2
<1>6. PlacesAreTaken'
  BY <1>4, LimitsAssumption DEF LimitsInv, PlacesAreTaken, LimitsTypeOK, None
<1>7. LearnedIsKnown'
  BY <1>1 DEF LimitsInv, LearnedIsKnown
<1> QED
  BY <1>3, <1>5, <1>6, <1>7 DEF LimitsInv

\* A request that ends, whatever it was waiting for.
LEMMA OneEnds ==
  ASSUME LimitsInv, NEW q \in Requests, reqs[q].pc \notin Asking,
         reqs' = [reqs EXCEPT ![q] = IdleReq],
         UNCHANGED <<cache, disk, loaded, inflight, clock, learned>>
  PROVE  LimitsInv'
<1>1. reqs'[q] = IdleReq
  BY DEF LimitsInv, LimitsTypeOK
<1>2. IdleReq.pc = "idle" /\ IdleReq.stale = NoEntry /\ IdleReq.found = NoEntry
  BY DEF IdleReq
<1>3. RequestFits(q, reqs[q])'
  BY <1>1, <1>2, NoEntryIsOK DEF RequestFits, Asking, IsCurrent, Shrinks
<1> QED
  BY <1>1, <1>3, IdleIsARequest, OneMoves

\* A discovery that goes on, with what it has found.
LEMMA OneAsks ==
  ASSUME LimitsInv, NEW q \in Requests, reqs[q].pc \in Asking \ {"store"},
         NEW pc \in Asking, NEW found \in LimitEntry, found.win > 0 => pc = "store",
         found.win > 0 => found.at = clock /\ found.src \in {"endpoint", "catalog"},
         reqs' = [reqs EXCEPT ![q] = [[reqs[q] EXCEPT !.pc = pc] EXCEPT !.found = found]],
         UNCHANGED <<cache, disk, loaded, inflight, clock, learned>>
  PROVE  LimitsInv'
<1> DEFINE r == reqs[q]
           new == [[r EXCEPT !.pc = pc] EXCEPT !.found = found]
<1>1. r \in Request
  BY DEF LimitsInv, LimitsTypeOK
<1>2. new \in Request
  BY <1>1 DEF Request
<1>3. new.pc = pc /\ new.found = found /\ new.model = r.model /\ new.asked = r.asked /\ new.stale = r.stale
  BY <1>1 DEF Request
<1>4. reqs'[q] = new
  BY DEF LimitsInv, LimitsTypeOK
<1>5. RequestFits(q, r)
  BY DEF LimitsInv, RequestsFit
<1> HIDE DEF new
<1>6. RequestFits(q, reqs[q])'
  <2>1. pc \notin {"idle", "resolve", "wait", "generate"} /\ r.pc \notin {"idle", "resolve", "wait", "generate"}
    BY DEF Asking
  <2>2. IsCurrent(new) /\ Shrinks(new)
    BY <1>3, <2>1 DEF IsCurrent, Shrinks
  <2>3. r.model \in Models /\ inflight[r.model] = q /\ r.asked /\ loaded /\ EntryOK(r.stale)
    BY <1>5, <2>1 DEF RequestFits
  <2>4. new.model \in Models /\ inflight'[new.model] = q /\ new.asked /\ loaded' /\ EntryOK(new.stale)
    BY <1>3, <2>3
  <2>5. /\ new.pc \in Asking /\ new.pc # "wait"
        /\ new.pc # "store" => new.found.win = 0
        /\ new.found.win > 0 => new.found.at = clock' /\ new.found.src \in {"endpoint", "catalog"}
    <3>1. found.win \in Nat
      BY DEF LimitEntry
    <3> QED
      BY <1>3, <2>1, <3>1
  <2> QED
    BY <1>4, <2>2, <2>4, <2>5 DEF RequestFits
<1>7. reqs' = [reqs EXCEPT ![q] = reqs'[q]]
  BY <1>4 DEF new
<1> QED
  BY <1>2, <1>3, <1>4, <1>6, <1>7, OneMoves

\* It has found nothing yet while it asks.
LEMMA NothingYet ==
  ASSUME LimitsInv, NEW q \in Requests, reqs[q].pc # "store"
  PROVE  /\ reqs[q] \in Request /\ reqs[q].found \in LimitEntry /\ ~ (reqs[q].found.win > 0)
         /\ reqs[q] = [reqs[q] EXCEPT !.found = reqs[q].found]
<1>1. reqs[q] \in Request /\ RequestFits(q, reqs[q])
  BY DEF LimitsInv, LimitsTypeOK, RequestsFit
<1> QED
  BY <1>1 DEF RequestFits, Request

\* A discovery that goes on without.
LEMMA OneGoesOn ==
  ASSUME LimitsInv, NEW q \in Requests, reqs[q].pc \in Asking \ {"store"},
         NEW pc \in Asking, reqs' = [reqs EXCEPT ![q].pc = pc],
         UNCHANGED <<cache, disk, loaded, inflight, clock, learned>>
  PROVE  LimitsInv'
<1>1. PICK r \in Request : r = reqs[q]
  BY NothingYet
<1>2. PICK found \in LimitEntry : found = r.found /\ ~ (found.win > 0)
  BY <1>1, NothingYet
<1>3. [r EXCEPT !.pc = pc] = [[r EXCEPT !.pc = pc] EXCEPT !.found = found]
  BY <1>1, <1>2 DEF Request
<1>4. reqs' = [reqs EXCEPT ![q] = [r EXCEPT !.pc = pc]]
  BY <1>1
<1>5. reqs' = [reqs EXCEPT ![q] = [[reqs[q] EXCEPT !.pc = pc] EXCEPT !.found = found]]
  BY <1>1, <1>3, <1>4
<1> QED
  BY <1>2, <1>5, OneAsks

LEMMA AnswerIsAnEntry ==
  ASSUME clock \in Nat, NEW win \in Nat, NEW src \in {"endpoint", "catalog"}
  PROVE  /\ Answer(win, src) \in LimitEntry
         /\ Answer(win, src).at = clock /\ Answer(win, src).src = src
BY NoEntryIsOK DEF Answer, LimitEntry, Sources, NoEntry

LEMMA ProbedIsAWindow ==
  ASSUME NEW m, NEW answers \in [1..4 -> Windows \cup {0}]
  PROVE  Probed(m, answers) \in Nat
<1> DEFINE known == {i \in 1..4 : answers[i] > 0 /\ (i = 1 \/ m \in IsLocal)}
<1>1. known # {} => Min(known) \in known
  BY LeastOf
<1>2. Probed(m, answers) = IF known = {} THEN 0 ELSE answers[Min(known)]
  BY DEF Probed
<1>3. Windows \cup {0} \subseteq Nat
  BY LimitsAssumption
<1>4. \A i \in 1..4 : answers[i] \in Nat
  BY <1>3
<1> QED
  BY <1>1, <1>2, <1>4

LEMMA BeginKeeps ==
  ASSUME LimitsInv, NEW q \in Requests, NEW m \in Models, Begin(q, m)
  PROVE  LimitsInv'
<1> DEFINE new == [IdleReq EXCEPT !.pc = "resolve", !.model = m]
<1>1. /\ new.pc = "resolve" /\ new.model = m /\ new.stale = NoEntry /\ new.found = NoEntry
      /\ new \in Request
  BY IdleIsARequest DEF Request, IdleReq
<1>2. reqs'[q] = new /\ reqs' = [reqs EXCEPT ![q] = reqs'[q]]
  BY DEF LimitsInv, LimitsTypeOK, Begin
<1> HIDE DEF new
<1>3. RequestFits(q, reqs[q])'
  BY <1>1, <1>2, NoEntryIsOK DEF RequestFits, Asking, IsCurrent, Shrinks
<1>4. reqs[q].pc \notin Asking
  BY DEF Begin, Asking
<1> QED
  BY <1>1, <1>2, <1>3, <1>4, OneMoves DEF Begin

LEMMA WaitCancelledKeeps ==
  ASSUME LimitsInv, NEW q \in Requests, WaitCancelled(q)
  PROVE  LimitsInv'
BY OneEnds DEF WaitCancelled, Asking

LEMMA GenerateEndsKeeps ==
  ASSUME LimitsInv, NEW q \in Requests, GenerateEnds(q)
  PROVE  LimitsInv'
BY OneEnds DEF GenerateEnds, Asking

LEMMA AskEndpointKeeps ==
  ASSUME LimitsInv, NEW q \in Requests, AskEndpoint(q)
  PROVE  LimitsInv'
<1>1. PICK answers \in [1..4 -> Windows \cup {0}] :
         LET win == Probed(reqs[q].model, answers) IN
         IF win > 0
         THEN reqs' = [reqs EXCEPT ![q].pc = "store", ![q].found = Answer(win, "endpoint")]
         ELSE reqs' = [reqs EXCEPT ![q].pc = "catalog"]
  BY DEF AskEndpoint
<1> DEFINE win == Probed(reqs[q].model, answers)
<1>2. win \in Nat
  BY ProbedIsAWindow
<1> HIDE DEF win
<1>3. reqs[q].pc = "discover" /\ UNCHANGED <<cache, disk, loaded, inflight, clock, learned>> /\ clock \in Nat
  BY DEF AskEndpoint, LimitsInv, LimitsTypeOK
<1>4. reqs \in [Requests -> Request]
  BY DEF LimitsInv, LimitsTypeOK
<1>5. CASE win > 0
  <2>1. PICK e \in LimitEntry : e = Answer(win, "endpoint")
    BY <1>2, <1>3, AnswerIsAnEntry
  <2>2. e.at = clock /\ e.src = "endpoint"
    BY <1>2, <1>3, <2>1, AnswerIsAnEntry
  <2>3. reqs' = [reqs EXCEPT ![q].pc = "store", ![q].found = e]
    BY <1>1, <1>5, <2>1 DEF win
  <2>4. reqs' = [reqs EXCEPT ![q] = [[reqs[q] EXCEPT !.pc = "store"] EXCEPT !.found = e]]
    BY <1>4, <2>3
  <2> QED
    BY <1>3, <2>2, <2>4, OneAsks DEF Asking
<1>6. CASE ~ (win > 0)
  <2>1. reqs' = [reqs EXCEPT ![q].pc = "catalog"]
    BY <1>1, <1>6 DEF win
  <2> QED
    BY <1>3, <2>1, OneGoesOn DEF Asking
<1> QED
  BY <1>5, <1>6

LEMMA AskNobodyKeeps ==
  ASSUME LimitsInv, NEW q \in Requests, AskNobody(q)
  PROVE  LimitsInv'
BY OneGoesOn DEF AskNobody, Asking

LEMMA InCatalogIsAnEntry ==
  ASSUME clock \in Nat, NEW m
  PROVE  /\ InCatalog(m) \in LimitEntry
         /\ InCatalog(m).win > 0 => InCatalog(m).at = clock /\ InCatalog(m).src = "catalog"
<1>1. CatalogWindow \in Nat
  BY LimitsAssumption
<1> QED
  BY <1>1, AnswerIsAnEntry, NoEntryIsOK DEF InCatalog

\* A discovery that ends with what the catalog says.
LEMMA OneFinds ==
  ASSUME LimitsInv, NEW q \in Requests, reqs[q].pc \in Asking \ {"store"},
         reqs' = [reqs EXCEPT ![q].pc = "store", ![q].found = InCatalog(reqs[q].model)],
         UNCHANGED <<cache, disk, loaded, inflight, clock, learned>>
  PROVE  LimitsInv'
<1>1. clock \in Nat /\ reqs \in [Requests -> Request]
  BY DEF LimitsInv, LimitsTypeOK
<1>2. PICK e \in LimitEntry : e = InCatalog(reqs[q].model)
  BY <1>1, InCatalogIsAnEntry
<1>3. e.win > 0 => e.at = clock /\ e.src = "catalog"
  BY <1>1, <1>2, InCatalogIsAnEntry
<1>4. reqs' = [reqs EXCEPT ![q].pc = "store", ![q].found = e]
  BY <1>2
<1>5. reqs' = [reqs EXCEPT ![q] = [[reqs[q] EXCEPT !.pc = "store"] EXCEPT !.found = e]]
  BY <1>1, <1>4
<1> QED
  BY <1>3, <1>5, OneAsks DEF Asking

LEMMA CatalogKeptKeeps ==
  ASSUME LimitsInv, NEW q \in Requests, CatalogKept(q)
  PROVE  LimitsInv'
BY OneFinds DEF CatalogKept, Asking

LEMMA CatalogAskedKeeps ==
  ASSUME LimitsInv, NEW q \in Requests, CatalogAsked(q)
  PROVE  LimitsInv'
BY OneGoesOn DEF CatalogAsked, Asking

LEMMA CatalogFetchedKeeps ==
  ASSUME LimitsInv, NEW q \in Requests, CatalogFetched(q)
  PROVE  LimitsInv'
<1>1. /\ reqs[q].pc \in Asking \ {"store"}
      /\ UNCHANGED <<cache, disk, loaded, inflight, clock, learned>>
      /\ \/ reqs' = [reqs EXCEPT ![q].pc = "store", ![q].found = InCatalog(reqs[q].model)]
         \/ reqs' = [reqs EXCEPT ![q].pc = "store"]
  BY DEF CatalogFetched, Asking
<1> QED
  BY <1>1, OneFinds, OneGoesOn DEF Asking

LEMMA CancelRequestKeeps ==
  ASSUME LimitsInv, NEW q \in Requests, CancelRequest(q)
  PROVE  LimitsInv'
<1> DEFINE r == reqs[q]
           new == [r EXCEPT !.cancelled = TRUE]
<1>1. r \in Request /\ RequestFits(q, r)
  BY DEF LimitsInv, LimitsTypeOK, RequestsFit
<1>2. new \in Request
  BY <1>1 DEF Request
<1>3. /\ new.pc = r.pc /\ new.found = r.found /\ new.model = r.model /\ new.asked = r.asked /\ new.stale = r.stale
      /\ new.src = r.src /\ new.age = r.age /\ new.attempt = r.attempt /\ new.tried = r.tried /\ new.win = r.win
  BY <1>1 DEF Request
<1>4. reqs'[q] = new /\ reqs' = [reqs EXCEPT ![q] = reqs'[q]]
  BY DEF LimitsInv, LimitsTypeOK, CancelRequest
<1> HIDE DEF new
<1>5. IsCurrent(new) /\ Shrinks(new)
  BY <1>1, <1>3 DEF RequestFits, IsCurrent, Shrinks
<1>6. UNCHANGED <<cache, disk, loaded, inflight, clock, learned>>
  BY DEF CancelRequest
<1>7. RequestFits(q, reqs[q])'
  BY <1>1, <1>3, <1>4, <1>5, <1>6 DEF RequestFits
<1> QED
  BY <1>2, <1>3, <1>4, <1>6, <1>7, OneMoves

\* A fresh entry is a limit to start with.
LEMMA FreshIsCurrent ==
  ASSUME NEW r \in Request, r.model \in Models, NEW e \in LimitEntry, EntryOK(e), clock \in Nat, e.exp > clock
  PROVE  IsCurrent(WithLimits(r, e))
<1>1. clock - e.at < Term(e.src)
  BY TermsArePositive DEF EntryOK, LimitEntry
<1>2. WithLimits(r, e).src = e.src /\ WithLimits(r, e).age = clock - e.at
  BY LimitedRequest
<1> QED
  BY <1>1, <1>2, TermsArePositive DEF IsCurrent, Term, TtlFor

LEMMA LookupKeeps ==
  ASSUME LimitsInv, NEW q \in Requests, Lookup(q)
  PROVE  LimitsInv'
<1> DEFINE r == reqs[q]
           m == r.model
<1>1. r \in Request /\ RequestFits(q, r) /\ r.pc = "resolve" /\ clock \in Nat
  BY DEF LimitsInv, LimitsTypeOK, RequestsFit, Lookup
<1>2. m \in Models /\ EntryOK(r.stale) /\ r.found.win = 0 /\ r.found \in LimitEntry
  BY <1>1 DEF RequestFits, Request
<1>3. Known \in [Models -> LimitEntry] /\ Known[m] \in LimitEntry /\ EntryOK(Known[m])
  BY <1>2 DEF LimitsInv, LimitsTypeOK, EntriesOK, Known
<1>4. loaded' = TRUE /\ cache' = Known /\ UNCHANGED <<disk, clock, learned>>
  BY DEF Lookup, Known
<1>5. r.pc \notin Asking
  BY <1>1 DEF Asking
<1>6. CASE /\ Known[m].exp > clock /\ reqs' = [reqs EXCEPT ![q] = WithLimits(@, Known[m])]
           /\ UNCHANGED inflight
  <2>1. PICK e \in LimitEntry : e = Known[m]
    BY <1>3
  <2>2. PICK w \in Request : w = WithLimits(r, e)
    BY <1>1, <1>2, LimitedRequest
  <2>3. /\ w.pc = "generate" /\ w.model = m /\ w.attempt = 0 /\ w.stale = NoEntry /\ w.found = NoEntry
    BY <1>1, <1>2, <2>2, LimitedRequest
  <2>4. IsCurrent(w)
    BY <1>1, <1>2, <1>3, <1>6, <2>1, <2>2, FreshIsCurrent
  <2>5. reqs'[q] = w /\ reqs' = [reqs EXCEPT ![q] = reqs'[q]]
    BY <1>6, <2>1, <2>2 DEF LimitsInv, LimitsTypeOK
  <2>6. RequestFits(q, reqs[q])'
    BY <1>2, <1>4, <2>3, <2>4, <2>5, NoEntryIsOK DEF RequestFits, Shrinks, Asking
  <2> QED
    BY <1>4, <1>5, <1>6, <2>5, <2>6, OneMoves
<1>7. CASE /\ inflight[m] # None /\ reqs' = [reqs EXCEPT ![q].pc = "wait"]
           /\ UNCHANGED inflight
  <2> DEFINE w == [r EXCEPT !.pc = "wait"]
  <2>1. w \in Request
    BY <1>1 DEF Request
  <2>2. w.pc = "wait" /\ w.model = m /\ w.stale = r.stale /\ w.found = r.found
    BY <1>1 DEF Request
  <2>3. reqs'[q] = w /\ reqs' = [reqs EXCEPT ![q] = reqs'[q]]
    BY <1>7 DEF LimitsInv, LimitsTypeOK
  <2> HIDE DEF w
  <2>4. RequestFits(q, reqs[q])'
    BY <1>2, <1>4, <1>7, <2>2, <2>3 DEF RequestFits, IsCurrent, Shrinks, Asking
  <2> QED
    BY <1>4, <1>5, <1>7, <2>1, <2>3, <2>4, OneMoves
<1>8. CASE /\ Known[m].exp <= clock /\ inflight[m] = None
           /\ inflight' = [inflight EXCEPT ![m] = q]
           /\ reqs' = [reqs EXCEPT ![q].pc = "discover", ![q].asked = TRUE, ![q].stale = Known[m]]
  <2>1. PICK e \in LimitEntry : e = Known[m] /\ EntryOK(e)
    BY <1>3
  <2> DEFINE w == [[[r EXCEPT !.pc = "discover"] EXCEPT !.asked = TRUE] EXCEPT !.stale = e]
  <2>2. w \in Request
    BY <1>1 DEF Request, Asking
  <2>3. w.pc = "discover" /\ w.model = m /\ w.stale = e /\ w.found = r.found /\ w.asked
    BY <1>1 DEF Request
  <2>4. /\ reqs'[q] = w /\ reqs' \in [Requests -> Request]
        /\ \A p \in Requests : p # q => reqs'[p] = reqs[p]
    BY <1>8, <2>1, <2>2 DEF LimitsInv, LimitsTypeOK
  <2> HIDE DEF w
  <2>5. /\ inflight' \in [Models -> Requests \cup {None}] /\ inflight'[m] = q
        /\ \A k \in Models : k # m => inflight'[k] = inflight[k]
    BY <1>2, <1>8 DEF LimitsInv, LimitsTypeOK
  <2>6. q # None
    BY LimitsAssumption DEF None
  <2>7. LimitsTypeOK' /\ EntriesOK'
    BY <1>3, <1>4, <2>4, <2>5 DEF LimitsInv, LimitsTypeOK, EntriesOK, Known
  <2>8. RequestsFit'
    <3> SUFFICES ASSUME NEW p \in Requests PROVE RequestFits(p, reqs[p])'
      BY DEF RequestsFit
    <3>1. CASE p = q
      <4>1. IsCurrent(w) /\ Shrinks(w)
        BY <2>3 DEF IsCurrent, Shrinks
      <4> QED
        BY <1>2, <1>4, <2>1, <2>3, <2>4, <2>5, <3>1, <4>1 DEF RequestFits, Asking
    <3>2. CASE p # q
      <4>1. RequestFits(p, reqs[p]) /\ p # None
        BY LimitsAssumption DEF LimitsInv, RequestsFit, None
      <4>2. reqs[p].pc \in Asking => reqs[p].model # m
        BY <1>8, <4>1 DEF RequestFits
      <4>3. reqs[p].pc \in Asking \/ reqs[p].pc = "wait" => reqs[p].model \in Models
        BY <4>1 DEF RequestFits, Asking
      <4>4. reqs[p].pc = "wait" => inflight'[reqs[p].model] # None
        BY <2>5, <2>6, <4>1, <4>3 DEF RequestFits
      <4>5. reqs[p].pc \in Asking => inflight'[reqs[p].model] = p
        BY <2>5, <4>1, <4>2, <4>3 DEF RequestFits
      <4> QED
        BY <1>4, <2>4, <3>2, <4>1, <4>4, <4>5 DEF RequestFits
    <3> QED
      BY <3>1, <3>2
  <2>9. PlacesAreTaken'
    <3> SUFFICES ASSUME NEW k \in Models, inflight'[k] # None
                 PROVE  reqs'[inflight'[k]].pc \in Asking /\ reqs'[inflight'[k]].model = k
      BY DEF PlacesAreTaken
    <3>1. CASE k = m
      BY <2>3, <2>4, <2>5, <3>1 DEF Asking
    <3>2. CASE k # m
      <4>1. inflight'[k] = inflight[k] /\ inflight[k] \in Requests
        BY <2>5, <3>2 DEF LimitsInv, LimitsTypeOK
      <4>2. reqs[inflight[k]].pc \in Asking /\ reqs[inflight[k]].model = k
        BY <4>1 DEF LimitsInv, PlacesAreTaken
      <4>3. inflight[k] # q
        BY <4>2, <1>5
      <4> QED
        BY <2>4, <4>1, <4>2, <4>3
    <3> QED
      BY <3>1, <3>2
  <2>10. LearnedIsKnown'
    <3> SUFFICES ASSUME NEW k \in Models, learned[k].exp > clock
                 PROVE  /\ inflight'[k] = None
                        /\ learned[k].src = "overflow" /\ learned[k].exp = learned[k].at + TTL.learned
                        /\ Same(Known[k], learned[k])
      BY <1>4 DEF LearnedIsKnown, Known
    <3>1. /\ inflight[k] = None /\ learned[k].src = "overflow" /\ learned[k].exp = learned[k].at + TTL.learned
          /\ Same(Known[k], learned[k])
      BY DEF LimitsInv, LearnedIsKnown
    <3>2. ASSUME k = m PROVE FALSE
      <4>1. e.src = "overflow" /\ e.at = learned[k].at
        BY <2>1, <3>1, <3>2 DEF Same
      <4>2. e.exp = learned[k].exp
        BY <2>1, <3>1, <4>1 DEF EntryOK
      <4>3. e.exp \in Nat
        BY DEF LimitEntry
      <4> QED
        BY <1>1, <1>8, <2>1, <4>2, <4>3
    <3> QED
      BY <2>5, <3>1, <3>2
  <2> QED
    BY <2>7, <2>8, <2>9, <2>10 DEF LimitsInv
<1> QED
  BY <1>6, <1>7, <1>8 DEF Lookup, Known

\* Entries that replace the ones in memory and, unless they are not saved, in the file.
LEMMA PutKeeps ==
  ASSUME LimitsInv, NEW entries \in [Models -> LimitEntry], \A m \in Models : EntryOK(entries[m]),
         NEW ghosts \in [Models -> LimitEntry], Put(entries, ghosts)
  PROVE  /\ cache' \in [Models -> LimitEntry] /\ disk' \in [Models -> LimitEntry]
         /\ learned' \in [Models -> LimitEntry]
         /\ EntriesOK'
         /\ \A m \in Models : learned'[m].exp > 0 => learned'[m] = ghosts[m] /\ cache'[m] = entries[m]
<1>1. PICK kept \in Prunings(entries) :
        /\ cache' = kept
        /\ learned' = [m \in Models |-> IF kept[m].win > 0 THEN ghosts[m] ELSE NoEntry]
        /\ disk' = kept \/ disk' = disk
  BY DEF Put
<1>2. kept \in [Models -> LimitEntry] /\ \A m \in Models : kept[m] = entries[m] \/ kept[m] = NoEntry
  BY PruningKeeps
<1>3. \A m \in Models : EntryOK(kept[m])
  BY <1>2, NoEntryIsOK
<1>4. EntriesOK'
  BY <1>1, <1>3 DEF EntriesOK, LimitsInv
<1>5. learned' \in [Models -> LimitEntry]
  BY <1>1, NoEntryIsOK
<1>6. ASSUME NEW m \in Models, learned'[m].exp > 0 PROVE learned'[m] = ghosts[m] /\ cache'[m] = entries[m]
  BY <1>1, <1>2, <1>6, NoEntryIsOK
<1> QED
  BY <1>1, <1>2, <1>4, <1>5, <1>6 DEF LimitsInv, LimitsTypeOK

\* A discovery that ends gives its place up, and the requests that wait for it try
\* for themselves.
LEMMA PlaceIsFreed ==
  ASSUME LimitsInv, NEW q \in Requests, reqs[q].pc = "store",
         inflight' = [inflight EXCEPT ![reqs[q].model] = None],
         reqs' = [Woken(reqs[q].model) EXCEPT ![q] = reqs'[q]], reqs'[q] \in Request,
         reqs'[q].pc \notin Asking, RequestFits(q, reqs[q])',
         UNCHANGED <<loaded, clock>>
  PROVE  /\ reqs' \in [Requests -> Request] /\ inflight' \in [Models -> Requests \cup {None}]
         /\ RequestsFit' /\ PlacesAreTaken'
<1> DEFINE m == reqs[q].model
<1>1. /\ reqs[q] \in Request /\ RequestFits(q, reqs[q]) /\ reqs \in [Requests -> Request]
      /\ inflight \in [Models -> Requests \cup {None}]
  BY DEF LimitsInv, LimitsTypeOK, RequestsFit
<1>2. m \in Models /\ inflight[m] = q /\ loaded
  BY <1>1 DEF RequestFits, Asking
<1>3. \A p \in Requests : p # q =>
        reqs'[p] = IF reqs[p].pc = "wait" /\ reqs[p].model = m THEN [reqs[p] EXCEPT !.pc = "resolve"] ELSE reqs[p]
  BY DEF Woken
<1>4. DOMAIN reqs' = Requests /\ reqs' = [p \in Requests |-> reqs'[p]]
  BY DEF Woken
<1>5. /\ inflight' \in [Models -> Requests \cup {None}] /\ inflight'[m] = None
      /\ \A k \in Models : k # m => inflight'[k] = inflight[k]
  BY <1>1, <1>2
<1>6. ASSUME NEW p \in Requests, p # q
      PROVE  reqs'[p] \in Request /\ RequestFits(p, reqs[p])'
  <2>1. reqs[p] \in Request /\ RequestFits(p, reqs[p])
    BY <1>1 DEF LimitsInv, RequestsFit
  <2>2. CASE reqs[p].pc = "wait" /\ reqs[p].model = m
    <3> DEFINE w == [reqs[p] EXCEPT !.pc = "resolve"]
    <3>1. reqs'[p] = w
      BY <1>3, <1>6, <2>2
    <3>2. /\ w \in Request /\ w.pc = "resolve" /\ w.model = m /\ w.stale = reqs[p].stale
          /\ w.found = reqs[p].found
      BY <2>1, <2>2 DEF Request
    <3> HIDE DEF w
    <3> QED
      BY <1>2, <2>1, <2>2, <3>1, <3>2 DEF RequestFits, IsCurrent, Shrinks, Asking
  <2>3. CASE ~ (reqs[p].pc = "wait" /\ reqs[p].model = m)
    <3>1. reqs'[p] = reqs[p]
      BY <1>3, <1>6, <2>3
    <3>2. reqs[p].pc \in Asking \/ reqs[p].pc = "wait" => reqs[p].model \in Models /\ reqs[p].model # m
      BY <1>2, <1>6, <2>1, <2>3 DEF RequestFits, Asking
    <3>3. reqs[p].pc \in Asking \/ reqs[p].pc = "wait" => inflight'[reqs[p].model] = inflight[reqs[p].model]
      BY <1>5, <3>2
    <3> QED
      BY <2>1, <3>1, <3>3 DEF RequestFits
  <2> QED
    BY <2>2, <2>3
<1>7. reqs' \in [Requests -> Request]
  BY <1>4, <1>6
<1>8. RequestsFit'
  BY <1>6 DEF RequestsFit
<1>9. PlacesAreTaken'
  <2> SUFFICES ASSUME NEW k \in Models, inflight'[k] # None
               PROVE  reqs'[inflight'[k]].pc \in Asking /\ reqs'[inflight'[k]].model = k
    BY DEF PlacesAreTaken
  <2>1. k # m /\ inflight'[k] = inflight[k] /\ inflight[k] \in Requests
    BY <1>1, <1>5
  <2>2. reqs[inflight[k]].pc \in Asking /\ reqs[inflight[k]].model = k
    BY <2>1 DEF LimitsInv, PlacesAreTaken
  <2>3. reqs'[inflight[k]] = reqs[inflight[k]]
    BY <1>3, <2>1, <2>2 DEF Asking
  <2> QED
    BY <2>1, <2>2, <2>3
<1> QED
  BY <1>5, <1>7, <1>8, <1>9

LEMMA RecordLimitKeeps ==
  ASSUME LimitsInv, NEW q \in Requests, RecordLimit(q)
  PROVE  LimitsInv'
<1> DEFINE r == reqs[q]
           m == r.model
<1>1. r \in Request /\ RequestFits(q, r) /\ r.pc = "store" /\ clock \in Nat
  BY DEF LimitsInv, LimitsTypeOK, RequestsFit, RecordLimit
<1>2. /\ m \in Models /\ loaded = TRUE /\ inflight[m] = q /\ q # None /\ EntryOK(r.stale) /\ r.asked
      /\ r.found.win > 0 => r.found.at = clock /\ r.found.src \in {"endpoint", "catalog"}
  BY <1>1, LimitsAssumption DEF RequestFits, Asking, None, LimitsInv, LimitsTypeOK
<1>3. PICK e \in LimitEntry : e = EntryFor(r)
  BY <1>1, <1>2, EntryIsGood
<1>4. EntryOK(e) /\ CASE e.src = "fallback" -> clock - e.at < TTL.negative
                      [] e.src = "overflow" -> clock - e.at < TTL.learned
                      [] OTHER -> clock - e.at < TtlFor(e.src) \/ clock - e.at < TTL.stale
  BY <1>1, <1>2, <1>3, EntryIsGood
<1>5. PICK entries \in [Models -> LimitEntry] : entries = [cache EXCEPT ![m] = e]
  BY DEF LimitsInv, LimitsTypeOK
<1>6. PICK ghosts \in [Models -> LimitEntry] : ghosts = learned
  BY DEF LimitsInv, LimitsTypeOK
<1>7. Put(entries, ghosts)
  BY <1>3, <1>5, <1>6 DEF RecordLimit
<1>8. \A k \in Models : EntryOK(entries[k])
  BY <1>4, <1>5 DEF LimitsInv, LimitsTypeOK, EntriesOK
<1>9. /\ cache' \in [Models -> LimitEntry] /\ disk' \in [Models -> LimitEntry]
      /\ learned' \in [Models -> LimitEntry] /\ EntriesOK'
      /\ \A k \in Models : learned'[k].exp > 0 => learned'[k] = ghosts[k] /\ cache'[k] = entries[k]
  BY <1>7, <1>8, PutKeeps
<1>10. PICK w \in Request : w = WithLimits(r, e)
  BY <1>1, <1>2, LimitedRequest
<1>11. /\ w.pc = "generate" /\ w.model = m /\ w.src = e.src /\ w.age = clock - e.at /\ w.asked
       /\ w.attempt = 0 /\ w.stale = NoEntry /\ w.found = NoEntry
  BY <1>1, <1>2, <1>10, LimitedRequest
<1>12. IsCurrent(w) /\ Shrinks(w)
  BY <1>4, <1>11 DEF IsCurrent, Shrinks
<1>13. /\ inflight' = [inflight EXCEPT ![m] = None] /\ UNCHANGED <<loaded, clock>>
       /\ reqs' = [Woken(m) EXCEPT ![q] = w]
  BY <1>3, <1>10 DEF RecordLimit
<1>14. reqs'[q] = w
  BY <1>13 DEF Woken
<1>15. RequestFits(q, reqs[q])'
  BY <1>2, <1>11, <1>12, <1>13, <1>14, NoEntryIsOK DEF RequestFits, Asking
<1>16. /\ reqs' \in [Requests -> Request] /\ inflight' \in [Models -> Requests \cup {None}]
       /\ RequestsFit' /\ PlacesAreTaken'
  BY <1>1, <1>11, <1>13, <1>14, <1>15, PlaceIsFreed DEF Asking
<1>17. LearnedIsKnown'
  <2> SUFFICES ASSUME NEW k \in Models, learned'[k].exp > clock
               PROVE  /\ inflight'[k] = None
                      /\ learned'[k].src = "overflow" /\ learned'[k].exp = learned'[k].at + TTL.learned
                      /\ Same(cache'[k], learned'[k])
    BY <1>2, <1>13 DEF LearnedIsKnown, Known
  <2>1. learned'[k].exp \in Nat
    BY <1>9 DEF LimitEntry
  <2>2. learned'[k] = learned[k] /\ cache'[k] = entries[k]
    BY <1>1, <1>6, <1>9, <2>1
  <2>3. /\ inflight[k] = None /\ learned[k].src = "overflow"
        /\ learned[k].exp = learned[k].at + TTL.learned /\ Same(cache[k], learned[k])
    BY <1>2, <2>2 DEF LimitsInv, LearnedIsKnown, Known
  <2>4. k # m
    BY <1>2, <2>3
  <2>5. inflight'[k] = inflight[k] /\ entries[k] = cache[k]
    BY <1>5, <1>13, <2>4 DEF LimitsInv, LimitsTypeOK
  <2> QED
    BY <2>2, <2>3, <2>5
<1> QED
  BY <1>1, <1>2, <1>9, <1>13, <1>16, <1>17 DEF LimitsInv, LimitsTypeOK

LEMMA AbandonKeeps ==
  ASSUME LimitsInv, NEW q \in Requests, Abandon(q)
  PROVE  LimitsInv'
<1> DEFINE m == reqs[q].model
<1>1. /\ reqs[q].pc = "store" /\ inflight' = [inflight EXCEPT ![m] = None]
      /\ reqs' = [Woken(m) EXCEPT ![q] = IdleReq]
      /\ UNCHANGED <<cache, disk, loaded, clock, learned>>
  BY DEF Abandon, FreePlace
<1>2. reqs'[q] = IdleReq
  BY <1>1 DEF Woken
<1>3. IdleReq.pc = "idle" /\ IdleReq.stale = NoEntry /\ IdleReq.found = NoEntry
  BY DEF IdleReq
<1>4. RequestFits(q, reqs[q])'
  BY <1>2, <1>3, NoEntryIsOK DEF RequestFits, Asking, IsCurrent, Shrinks
<1>5. /\ reqs' \in [Requests -> Request] /\ inflight' \in [Models -> Requests \cup {None}]
      /\ RequestsFit' /\ PlacesAreTaken'
  BY <1>1, <1>2, <1>3, <1>4, IdleIsARequest, PlaceIsFreed DEF Asking
<1>6. \A k \in Models : inflight[k] = None => inflight'[k] = None
  BY <1>1 DEF LimitsInv, LimitsTypeOK
<1>7. LearnedIsKnown'
  BY <1>1, <1>6 DEF LimitsInv, LearnedIsKnown, Known
<1> QED
  BY <1>1, <1>5, <1>7 DEF LimitsInv, LimitsTypeOK, EntriesOK

\* What a refusal teaches is less than what was tried, unless there is nothing less.
LEMMA LearnedIsLess ==
  ASSUME NEW win \in Nat, NEW confirmed \in Windows \cup {0}
  PROVE  LearnedWindow(win, confirmed) \in Nat /\ (win > LastTier => LearnedWindow(win, confirmed) < win)
<1>1. confirmed \in Nat
  BY LimitsAssumption
<1> QED
  BY <1>1, TiersArePositive DEF LearnedWindow

LEMMA LearnedEntryIsGood ==
  ASSUME NEW win \in Nat, NEW deg \in Nat, clock \in Nat, NEW e, e = LearnedEntry(win, deg)
  PROVE  /\ e \in LimitEntry /\ EntryOK(e) /\ e.win = win /\ e.src = "overflow" /\ e.at = clock
         /\ e.exp = clock + TTL.learned /\ e.stale = clock + TTL.learned
<1> DEFINE term == clock + TTL.learned
<1>1. term \in Nat
  BY TermsArePositive
<1>2. e = [win |-> win, src |-> "overflow", deg |-> deg, at |-> clock,
           exp |-> term, stale |-> term, neg |-> FALSE]
  BY DEF LearnedEntry
<1> HIDE DEF term
<1>3. /\ e \in LimitEntry /\ e.win = win /\ e.src = "overflow" /\ e.at = clock
      /\ e.exp = term /\ e.stale = term /\ ~e.neg
  BY <1>1, <1>2 DEF LimitEntry, Sources
<1>4. e.exp = clock + TTL.learned /\ e.stale = clock + TTL.learned
  BY <1>3 DEF term
<1>5. EntryOK(e)
  BY <1>3, <1>4, TermsArePositive DEF EntryOK, Term, TtlFor
<1> QED
  BY <1>3, <1>4, <1>5

\* A request that is tried again.
Again(w, tried, attempt) == [w EXCEPT !.tried = tried, !.attempt = attempt]
LEMMA RetriedRequest ==
  ASSUME NEW w \in Request, NEW tried \in Nat, NEW attempt \in Nat,
         NEW new, new = Again(w, tried, attempt)
  PROVE  /\ new \in Request
         /\ new.pc = w.pc /\ new.model = w.model /\ new.stale = w.stale /\ new.found = w.found
         /\ new.win = w.win /\ new.tried = tried /\ new.attempt = attempt
<1> DEFINE one == [w EXCEPT !.tried = tried]
<1>1. /\ one \in Request /\ one.pc = w.pc /\ one.model = w.model /\ one.stale = w.stale
      /\ one.found = w.found /\ one.win = w.win /\ one.tried = tried
  BY DEF Request
<1>2. new = [one EXCEPT !.attempt = attempt]
  BY DEF Again
<1> HIDE DEF one
<1> QED
  BY <1>1, <1>2 DEF Request

LEMMA LearnOverflowKeeps ==
  ASSUME LimitsInv, NEW q \in Requests, NEW confirmed \in Windows \cup {0}, LearnOverflow(q, confirmed)
  PROVE  LimitsInv'
<1> DEFINE r == reqs[q]
           m == r.model
           win == LearnedWindow(r.win, confirmed)
           deg == r.deg + 1
<1>1. r \in Request /\ RequestFits(q, r) /\ r.pc = "generate" /\ clock \in Nat
  BY DEF LimitsInv, LimitsTypeOK, RequestsFit, LearnOverflow
<1>2. /\ m \in Models /\ loaded = TRUE /\ r.win \in Nat /\ r.deg \in Nat /\ r.attempt \in Nat
  BY <1>1 DEF RequestFits, Request, LimitsInv, LimitsTypeOK
<1>3. win \in Nat /\ (r.win > LastTier => win < r.win) /\ deg \in Nat
  BY <1>2, LearnedIsLess
<1> HIDE DEF win, deg
<1>4. PICK e \in LimitEntry :
        /\ e = LearnedEntry(win, deg) /\ e.win = win /\ e.src = "overflow" /\ e.at = clock
        /\ e.exp = clock + TTL.learned /\ e.stale = clock + TTL.learned
  BY <1>1, <1>3, LearnedEntryIsGood
<1>5. EntryOK(e)
  BY <1>1, <1>3, <1>4, LearnedEntryIsGood
<1>6. [e EXCEPT !.exp = clock + TTL.learned, !.stale = clock + TTL.learned] = e
  BY <1>4 DEF LimitEntry
<1>7. /\ Put([cache EXCEPT ![m] = e], [learned EXCEPT ![m] = IF inflight[m] = None THEN e ELSE NoEntry])
      /\ reqs' = [reqs EXCEPT ![q] = [WithLimits(r, e) EXCEPT !.tried = r.win, !.attempt = r.attempt + 1]]
      /\ UNCHANGED <<loaded, inflight, clock>>
  BY <1>4, <1>6 DEF LearnOverflow, win, deg
<1>8. PICK entries \in [Models -> LimitEntry] : entries = [cache EXCEPT ![m] = e]
  BY DEF LimitsInv, LimitsTypeOK
<1>9. PICK ghosts \in [Models -> LimitEntry] :
        ghosts = [learned EXCEPT ![m] = IF inflight[m] = None THEN e ELSE NoEntry]
  BY NoEntryIsOK DEF LimitsInv, LimitsTypeOK
<1>10. \A k \in Models : EntryOK(entries[k])
  BY <1>5, <1>8 DEF LimitsInv, LimitsTypeOK, EntriesOK
<1>11. /\ cache' \in [Models -> LimitEntry] /\ disk' \in [Models -> LimitEntry]
       /\ learned' \in [Models -> LimitEntry] /\ EntriesOK'
       /\ \A k \in Models : learned'[k].exp > 0 => learned'[k] = ghosts[k] /\ cache'[k] = entries[k]
  <2>1. Put(entries, ghosts)
    BY <1>7, <1>8, <1>9
  <2> QED
    BY <1>10, <2>1, PutKeeps
<1>12. PICK w \in Request : w = WithLimits(r, e)
  BY <1>1, <1>2, LimitedRequest
<1>13. /\ w.pc = "generate" /\ w.model = m /\ w.stale = NoEntry /\ w.found = NoEntry
       /\ w.win = IF Configured[m] > 0 THEN Configured[m] ELSE e.win
  BY <1>1, <1>2, <1>12, LimitedRequest
<1>14. PICK new : new = Again(w, r.win, r.attempt + 1)
  OBVIOUS
<1>15. /\ new \in Request
       /\ new.pc = "generate" /\ new.model = m /\ new.stale = NoEntry /\ new.found = NoEntry
       /\ new.win = w.win /\ new.tried = r.win /\ new.attempt = r.attempt + 1
  <2>1. PICK tried \in Nat, attempt \in Nat : tried = r.win /\ attempt = r.attempt + 1
    BY <1>2
  <2>2. new = Again(w, tried, attempt)
    BY <1>14, <2>1
  <2>3. /\ new \in Request
        /\ new.pc = w.pc /\ new.model = w.model /\ new.stale = w.stale /\ new.found = w.found
        /\ new.win = w.win /\ new.tried = tried /\ new.attempt = attempt
    BY <2>2, RetriedRequest
  <2> QED
    BY <1>13, <2>1, <2>3
<1>16. reqs'[q] = new /\ reqs' \in [Requests -> Request] /\ \A p \in Requests : p # q => reqs'[p] = reqs[p]
  <2>1. reqs' = [reqs EXCEPT ![q] = new]
    BY <1>7, <1>12, <1>14 DEF Again
  <2> QED
    BY <1>15, <2>1 DEF LimitsInv, LimitsTypeOK
<1>17. IsCurrent(new)
  BY <1>2, <1>15 DEF IsCurrent
<1>18. Shrinks(new)
  <2>1. Configured[m] = 0 => new.win = win
    BY <1>4, <1>13, <1>15
  <2> QED
    BY <1>3, <1>15, <2>1 DEF Shrinks
<1>19. RequestsFit'
  <2> SUFFICES ASSUME NEW p \in Requests PROVE RequestFits(p, reqs[p])'
    BY DEF RequestsFit
  <2>1. CASE p = q
    <3>1. RequestFits(q, reqs[q])'
      <4>1. /\ new.pc # "store" /\ new.pc # "wait" /\ new.pc # "idle" /\ new.pc \notin Asking
            /\ loaded' = TRUE /\ new.model \in Models /\ EntryOK(new.stale) /\ new.found.win = 0
            /\ ~ (new.found.win > 0) /\ IsCurrent(new) /\ Shrinks(new)
        BY <1>2, <1>7, <1>15, <1>17, <1>18, NoEntryIsOK DEF Asking
      <4>2. reqs'[q] = new
        BY <1>16
      <4> QED
        BY <4>1, <4>2 DEF RequestFits
    <3> QED
      BY <2>1, <3>1
  <2>2. CASE p # q
    <3>1. RequestFits(p, reqs[p])
      BY DEF LimitsInv, RequestsFit
    <3> QED
      BY <1>7, <1>16, <2>2, <3>1 DEF RequestFits
  <2> QED
    BY <2>1, <2>2
<1>20. PlacesAreTaken'
  <2> SUFFICES ASSUME NEW k \in Models, inflight[k] # None
               PROVE  reqs'[inflight[k]].pc \in Asking /\ reqs'[inflight[k]].model = k
    BY <1>7 DEF PlacesAreTaken
  <2>1. inflight[k] \in Requests /\ reqs[inflight[k]].pc \in Asking /\ reqs[inflight[k]].model = k
    BY DEF LimitsInv, LimitsTypeOK, PlacesAreTaken
  <2>2. inflight[k] # q
    BY <1>1, <2>1 DEF Asking
  <2> QED
    BY <1>16, <2>1, <2>2
<1>21. LearnedIsKnown'
  <2> SUFFICES ASSUME NEW k \in Models, learned'[k].exp > clock
               PROVE  /\ inflight[k] = None
                      /\ learned'[k].src = "overflow" /\ learned'[k].exp = learned'[k].at + TTL.learned
                      /\ Same(cache'[k], learned'[k])
    BY <1>2, <1>7 DEF LearnedIsKnown, Known
  <2>1. learned'[k].exp \in Nat
    BY <1>11 DEF LimitEntry
  <2>2. learned'[k] = ghosts[k] /\ cache'[k] = entries[k] /\ ghosts[k].exp > clock
    BY <1>1, <1>11, <2>1
  <2>3. CASE k = m
    <3>1. inflight[m] = None /\ ghosts[m] = e
      BY <1>1, <1>2, <1>9, <2>2, <2>3, NoEntryIsOK DEF LimitsInv, LimitsTypeOK
    <3>2. entries[m] = e
      BY <1>2, <1>8 DEF LimitsInv, LimitsTypeOK
    <3> QED
      BY <1>4, <2>2, <2>3, <3>1, <3>2 DEF Same
  <2>4. CASE k # m
    <3>1. ghosts[k] = learned[k] /\ entries[k] = cache[k]
      BY <1>8, <1>9, <2>4 DEF LimitsInv, LimitsTypeOK
    <3>2. /\ inflight[k] = None /\ learned[k].src = "overflow"
          /\ learned[k].exp = learned[k].at + TTL.learned /\ Same(cache[k], learned[k])
      BY <1>2, <2>2, <3>1 DEF LimitsInv, LearnedIsKnown, Known
    <3> QED
      BY <2>2, <3>1, <3>2
  <2> QED
    BY <2>3, <2>4
<1> QED
  BY <1>2, <1>7, <1>11, <1>16, <1>19, <1>20, <1>21 DEF LimitsInv, LimitsTypeOK

LEMMA TickKeeps == LimitsInv /\ Tick => LimitsInv'
<1> SUFFICES ASSUME LimitsInv, Tick PROVE LimitsInv'
  OBVIOUS
<1>1. /\ clock \in Nat /\ clock' = clock + 1 /\ \A q \in Requests : reqs[q].pc # "store"
      /\ UNCHANGED <<cache, disk, loaded, inflight, reqs, learned>>
  BY DEF Tick, LimitsInv, LimitsTypeOK
<1>2. LimitsTypeOK' /\ EntriesOK' /\ PlacesAreTaken'
  BY <1>1 DEF LimitsInv, LimitsTypeOK, EntriesOK, PlacesAreTaken
<1>3. RequestsFit'
  <2> SUFFICES ASSUME NEW p \in Requests PROVE RequestFits(p, reqs[p])'
    BY DEF RequestsFit
  <2>1. RequestFits(p, reqs[p]) /\ reqs[p].pc # "store"
    BY <1>1 DEF LimitsInv, RequestsFit
  <2>2. reqs[p].found.win = 0
    BY <2>1 DEF RequestFits
  <2> QED
    BY <1>1, <2>1, <2>2 DEF RequestFits
<1>4. LearnedIsKnown'
  <2>1. \A m \in Models : learned[m].exp \in Nat
    BY DEF LimitsInv, LimitsTypeOK, LimitEntry
  <2>2. \A m \in Models : learned'[m].exp > clock' => learned[m].exp > clock
    BY <1>1, <2>1
  <2> QED
    BY <1>1, <2>2 DEF LimitsInv, LearnedIsKnown, Known
<1> QED
  BY <1>2, <1>3, <1>4 DEF LimitsInv

LEMMA RestartKeeps == LimitsInv /\ Restart => LimitsInv'
<1> SUFFICES ASSUME LimitsInv, Restart PROVE LimitsInv'
  OBVIOUS
<1> USE NoEntryIsOK
<1>1. /\ loaded' = FALSE /\ disk' = disk /\ clock' = clock
      /\ \A m \in Models : cache'[m] = NoEntry /\ inflight'[m] = None
      /\ \A q \in Requests : reqs'[q] = IdleReq
      /\ \A m \in Models : learned'[m] = IF Same(disk[m], learned[m]) THEN learned[m] ELSE NoEntry
  BY DEF Restart, Empty
<1>2. LimitsTypeOK'
  BY IdleIsARequest DEF LimitsInv, LimitsTypeOK, Restart, Empty
<1>3. EntriesOK' /\ PlacesAreTaken'
  BY <1>1 DEF LimitsInv, EntriesOK, PlacesAreTaken
<1>4. RequestsFit'
  <2>1. IdleReq.pc = "idle" /\ IdleReq.stale = NoEntry /\ IdleReq.found = NoEntry
    BY DEF IdleReq
  <2> QED
    BY <1>1, <2>1 DEF RequestsFit, RequestFits, Asking, IsCurrent, Shrinks
<1>5. LearnedIsKnown'
  <2> SUFFICES ASSUME NEW m \in Models, learned'[m].exp > clock
               PROVE  /\ learned'[m].src = "overflow" /\ learned'[m].exp = learned'[m].at + TTL.learned
                      /\ Same(disk[m], learned'[m])
    BY <1>1 DEF LearnedIsKnown, Known
  <2>1. clock \in Nat
    BY DEF LimitsInv, LimitsTypeOK
  <2>2. learned'[m] = learned[m] /\ Same(disk[m], learned[m])
    BY <1>1, <2>1
  <2> QED
    BY <2>2 DEF LimitsInv, LearnedIsKnown
<1> QED
  BY <1>2, <1>3, <1>4, <1>5 DEF LimitsInv

LEMMA LimitsStep == LimitsInv /\ [LimitsNext]_limitsVars => LimitsInv'
<1> SUFFICES ASSUME LimitsInv, [LimitsNext]_limitsVars PROVE LimitsInv'
  OBVIOUS
<1>1. CASE UNCHANGED limitsVars
  BY <1>1 DEF limitsVars, LimitsInv, LimitsTypeOK, EntriesOK, RequestsFit, RequestFits, PlacesAreTaken,
              LearnedIsKnown, Known
<1>2. ASSUME NEW q \in Requests, Works(q) PROVE LimitsInv'
  BY <1>2, LookupKeeps, WaitCancelledKeeps, AskEndpointKeeps, AskNobodyKeeps, CatalogKeptKeeps,
     CatalogAskedKeeps, CatalogFetchedKeeps, RecordLimitKeeps, AbandonKeeps DEF Works
<1> QED
  BY <1>1, <1>2, BeginKeeps, CancelRequestKeeps, GenerateEndsKeeps, LearnOverflowKeeps, TickKeeps,
     RestartKeeps DEF LimitsNext

LEMMA LimitsFollow == LimitsInv => LimitsHold
<1> SUFFICES ASSUME LimitsInv PROVE LimitsHold
  OBVIOUS
<1>1. \A q \in Requests : RequestFits(q, reqs[q])
  BY DEF LimitsInv, RequestsFit
<1>2. \A m \in Models : inflight[m] \in Requests \cup {None}
  BY DEF LimitsInv, LimitsTypeOK
<1>3. OneDiscovery
  BY <1>1, <1>2 DEF OneDiscovery, Discovering, RequestFits, LimitsInv, PlacesAreTaken, Asking
<1>4. LimitIsCurrent
  BY <1>1, Zenon DEF LimitIsCurrent, RequestFits, IsCurrent
<1>5. RecoveryShrinks
  BY <1>1 DEF RecoveryShrinks, RequestFits, Shrinks
<1>6. LearnedLasts
  BY DEF LearnedLasts, LimitsInv, LearnedIsKnown, Known, Same
<1> QED
  BY <1>3, <1>4, <1>5, <1>6 DEF LimitsHold

\* The limits a request works with are what LimitsHold says (internal/provider/metadata.go,
\* internal/agent/conversation.go): one request discovers a model at a time, no request
\* starts with a limit older than its source allows, a refused request is tried again with
\* less, and what a refusal taught lasts its term.
THEOREM LimitsAlwaysHold == LimitsSpec => []LimitsHold
<1>1. LimitsSpec => []LimitsInv
  BY LimitsStart, LimitsStep, PTL DEF LimitsSpec
<1> QED
  BY <1>1, LimitsFollow, PTL

-----------------------------------------------------------------------------
(***************************************************************************)
(* The queries of a web call: their uses, their names and their one result. *)
(***************************************************************************)

Paid(k) == {b \in through : b[1] = k}

\* Uses are what was paid: a call once for all its queries, and what the provider did. A
\* call that was refused found nothing left, and what is used up stays used up.
BudgetOK ==
  /\ uses \in [Kinds -> Nat] /\ hosted \in [Kinds -> Nat]
  /\ through = batches /\ IsFiniteSet(through)
  /\ \A k \in Kinds : uses[k] = hosted[k] + Cardinality(Paid(k)) /\ uses[k] <= MaxUses
  /\ \A b \in refused : b \notin through /\ b[1] \in Kinds /\ uses[b[1]] >= MaxUses

\* The calls of a response have names of their own.
CallsOK ==
  /\ DOMAIN calls \subseteq Nat /\ IsFiniteSet(DOMAIN calls)
  /\ \A i \in DOMAIN calls : calls[i].queries \in Nat
  /\ \A i, j \in DOMAIN calls : calls[i].id = calls[j].id => i = j

\* Executions are those of the plan, while there are any.
Running == {"approve", "run", "collapsed"}
ExpansionOK ==
  /\ phase \in Running => DOMAIN states = Executions(plan)
  /\ phase \notin Running => DOMAIN states = {}

\* A call's one result is what became of its executions.
CollapseOK ==
  phase = "collapsed" =>
    /\ \A e \in DOMAIN states : states[e] \in Terminal
    /\ \A i \in DOMAIN calls : results[i] = Aggregate(StatesOf(i))

WebInv == BudgetOK /\ CallsOK /\ ExpansionOK /\ CollapseOK

-----------------------------------------------------------------------------
(* Names *)

\* The n-th name that is free.
LEMMA AllocateIsFree ==
  ASSUME IsFiniteSet(Reserved), NEW n \in Nat \ {0}
  PROVE  Allocate(n) \notin Reserved /\ Cardinality((1..Allocate(n)) \ Reserved) = n
<1> DEFINE R == Reserved
           size == Cardinality(R)
           last == n + size
           f(k) == Cardinality((1..k) \ R)
           enough == {k \in Nat : f(k) >= n}
<1>1. size \in Nat /\ last \in Nat
  BY FS_CardinalityType
<1>2. ASSUME NEW k \in Nat
      PROVE  /\ IsFiniteSet((1..k) \ R) /\ f(k) \in Nat
             /\ f(k) >= k - size
  <2>1. IsFiniteSet(1..k) /\ Cardinality(1..k) = k
    BY FS_Interval
  <2>2. IsFiniteSet((1..k) \ R) /\ f(k) = k - Cardinality((1..k) \cap R)
    BY <2>1, FS_Difference
  <2>3. Cardinality((1..k) \cap R) <= size /\ Cardinality((1..k) \cap R) \in Nat
    BY <2>1, FS_Intersection, FS_CardinalityType
  <2> QED
    BY <1>1, <2>2, <2>3, FS_CardinalityType
<1>3. f(0) = 0
  <2>1. (1..0) \ R = {}
    OBVIOUS
  <2> QED
    BY <2>1, FS_EmptySet
<1>4. ASSUME NEW k \in Nat
      PROVE  f(k + 1) = IF k + 1 \in R THEN f(k) ELSE f(k) + 1
  <2>1. CASE k + 1 \in R
    <3>1. (1..(k + 1)) \ R = (1..k) \ R
      BY <2>1
    <3> QED
      BY <2>1, <3>1
  <2>2. CASE k + 1 \notin R
    <3>1. (1..(k + 1)) \ R = ((1..k) \ R) \cup {k + 1} /\ k + 1 \notin (1..k) \ R
      BY <2>2
    <3> QED
      BY <1>2, <2>2, <3>1, FS_AddElement
  <2> QED
    BY <2>1, <2>2
<1> HIDE DEF f
<1>5. last \in enough
  <2>1. f(last) >= last - size /\ f(last) \in Nat
    BY <1>1, <1>2
  <2> QED
    BY <1>1, <2>1
<1>6. PICK d \in enough : \A e \in enough : d <= e
  BY <1>5, LeastExists
<1>7. d \in Nat /\ f(d) >= n /\ d <= last
  BY <1>5, <1>6
<1>8. d # 0
  BY <1>3, <1>7
<1>9. d - 1 \in Nat /\ (d - 1) + 1 = d
  BY <1>7, <1>8
<1>10. ~ (f(d - 1) >= n)
  BY <1>6, <1>9
<1>11. f(d) = IF d \in R THEN f(d - 1) ELSE f(d - 1) + 1
  BY <1>4, <1>9
<1>12. f(d) = n /\ d \notin R
  <2>1. PICK before \in Nat : before = f(d - 1)
    BY <1>2, <1>9
  <2>2. ~ (before >= n) /\ (IF d \in R THEN before ELSE before + 1) >= n
    BY <1>7, <1>10, <1>11, <2>1
  <2>3. d \notin R /\ before + 1 = n
    BY <2>2
  <2> QED
    BY <1>11, <2>1, <2>3
<1>13. d \in 1..last
  BY <1>1, <1>7, <1>8
<1> DEFINE Free(id) == id \notin Reserved /\ Cardinality((1..id) \ Reserved) = n
<1>14. \E id \in 1..n + Cardinality(Reserved) : Free(id)
  BY <1>12, <1>13 DEF f
<1>15. Allocate(n) = CHOOSE id \in 1..n + Cardinality(Reserved) : Free(id)
  BY DEF Allocate
<1> HIDE DEF Free
<1>16. Free(Allocate(n))
  BY <1>14, <1>15
<1> QED
  BY <1>16 DEF Free

\* An execution is its call and a position; a call that is not expanded has one.
LEMMA ExecutionsAre ==
  ASSUME CallsOK, NEW e \in Executions(plan)
  PROVE  /\ e = <<e[1], e[2]>> /\ e[1] \in DOMAIN calls /\ e[1] \in Nat /\ e[2] \in Nat
         /\ ~Expanded(e) => e[2] = 1
<1>1. PICK i \in DOMAIN calls : \E k \in Children(i, plan) : e = <<i, k>>
  BY DEF Executions
<1>5. PICK j \in Children(i, plan) : e = <<i, j>>
  BY <1>1
<1>2. i \in Nat /\ calls[i].queries \in Nat
  BY DEF CallsOK
<1>3. CASE calls[i].tool \in Kinds /\ plan[calls[i].tool] \in {"client", "delegated"} /\ calls[i].queries > 0
  <2>1. Expanded(e)
    BY <1>5, <1>3 DEF Expanded, Local, CallOf
  <2>2. j \in 1..calls[i].queries
    BY <1>5, <1>3 DEF Children
  <2> QED
    BY <1>5, <1>2, <2>1, <2>2
<1>4. CASE ~ (calls[i].tool \in Kinds /\ plan[calls[i].tool] \in {"client", "delegated"} /\ calls[i].queries > 0)
  <2>1. j = 1
    BY <1>5, <1>4 DEF Children
  <2> QED
    BY <1>5, <1>2, <2>1
<1> QED
  BY <1>3, <1>4

LEMMA ExecutionsAreFinite ==
  ASSUME CallsOK
  PROVE  IsFiniteSet(Executions(plan)) /\ IsFiniteSet(Reserved)
<1> DEFINE of == [i \in DOMAIN calls |-> {<<i, j>> : j \in Children(i, plan)}]
<1>1. ASSUME NEW i \in DOMAIN calls PROVE IsFiniteSet(of[i])
  <2> DEFINE pair == [j \in Children(i, plan) |-> <<i, j>>]
  <2>1. IsFiniteSet(Children(i, plan))
    <3>1. PICK n \in Nat : n = calls[i].queries
      BY DEF CallsOK
    <3>2. IsFiniteSet(1..n)
      BY FS_Interval
    <3>3. IsFiniteSet({1})
      BY FS_Singleton
    <3> QED
      BY <3>1, <3>2, <3>3 DEF Children
  <2>2. of[i] = {pair[j] : j \in Children(i, plan)}
    OBVIOUS
  <2> HIDE DEF pair
  <2> QED
    BY <2>1, <2>2, FiniteImage
<1>2. Executions(plan) = UNION {of[i] : i \in DOMAIN calls}
  BY DEF Executions
<1> DEFINE id == [i \in DOMAIN calls |-> calls[i].id]
<1>3. Reserved = {id[i] : i \in DOMAIN calls}
  BY DEF Reserved
<1>4. IsFiniteSet(DOMAIN calls)
  BY DEF CallsOK
<1> HIDE DEF of, id
<1>5. IsFiniteSet({of[i] : i \in DOMAIN calls}) /\ IsFiniteSet({id[i] : i \in DOMAIN calls})
  BY <1>4, FiniteImage
<1>6. IsFiniteSet(UNION {of[i] : i \in DOMAIN calls})
  BY <1>1, <1>5, FS_UNION
<1> QED
  BY <1>2, <1>3, <1>5, <1>6

\* Executions are ordered by their calls and their positions.
LEMMA EarlierIsAnOrder ==
  ASSUME NEW a \in Nat, NEW b \in Nat, NEW c \in Nat, NEW d \in Nat, NEW x \in Nat, NEW y \in Nat
  PROVE  /\ ~Earlier(<<a, b>>, <<a, b>>)
         /\ <<a, b>> # <<c, d>> => Earlier(<<a, b>>, <<c, d>>) \/ Earlier(<<c, d>>, <<a, b>>)
         /\ Earlier(<<a, b>>, <<c, d>>) => ~Earlier(<<c, d>>, <<a, b>>)
         /\ Earlier(<<a, b>>, <<c, d>>) /\ ~Earlier(<<a, b>>, <<x, y>>) => ~Earlier(<<c, d>>, <<x, y>>)
BY DEF Earlier

\* Who comes earlier has the lower rank.
LEMMA RanksAscend ==
  ASSUME CallsOK, DOMAIN states = Executions(plan),
         NEW e \in DOMAIN states, NEW d \in DOMAIN states, Expanded(e), Expanded(d)
  PROVE  /\ Rank(e) \in Nat \ {0}
         /\ Earlier(e, d) => Rank(e) < Rank(d)
<1> DEFINE upto(x) == {y \in DOMAIN states : Expanded(y) /\ ~Earlier(x, y)}
<1>1. ASSUME NEW x \in DOMAIN states, Expanded(x)
      PROVE  IsFiniteSet(upto(x)) /\ Rank(x) = Cardinality(upto(x)) /\ x \in upto(x)
  <2>1. IsFiniteSet(upto(x))
    BY ExecutionsAreFinite, FS_Subset
  <2>2. ~Earlier(x, x)
    BY ExecutionsAre, EarlierIsAnOrder
  <2> QED
    BY <1>1, <2>1, <2>2 DEF Rank
<1> HIDE DEF upto
<1>2. Rank(e) \in Nat \ {0}
  BY <1>1, FS_CardinalityType, FS_EmptySet
<1>3. Rank(d) \in Nat
  BY <1>1, FS_CardinalityType
<1>4. ASSUME Earlier(e, d) PROVE Rank(e) < Rank(d)
  <2>1. e = <<e[1], e[2]>> /\ d = <<d[1], d[2]>> /\ e[1] \in Nat /\ e[2] \in Nat /\ d[1] \in Nat /\ d[2] \in Nat
    BY ExecutionsAre
  <2>2. upto(e) \subseteq upto(d)
    <3> SUFFICES ASSUME NEW y \in upto(e) PROVE y \in upto(d)
      OBVIOUS
    <3>1. y \in DOMAIN states /\ Expanded(y) /\ ~Earlier(e, y)
      BY DEF upto
    <3>2. y = <<y[1], y[2]>> /\ y[1] \in Nat /\ y[2] \in Nat
      BY <3>1, ExecutionsAre
    <3>3. ~Earlier(d, y)
      BY <1>4, <2>1, <3>1, <3>2, EarlierIsAnOrder
    <3> QED
      BY <3>1, <3>3 DEF upto
  <2>3. d \notin upto(e)
    BY <1>4 DEF upto
  <2>4. upto(e) # upto(d)
    BY <1>1, <2>3
  <2>5. Cardinality(upto(e)) <= Cardinality(upto(d)) /\ Cardinality(upto(e)) # Cardinality(upto(d))
    BY <1>1, <2>2, <2>4, FS_Subset
  <2> QED
    BY <1>1, <1>2, <1>3, <2>5
<1> QED
  BY <1>2, <1>4

LEMMA NamesAreApart ==
  ASSUME CallsOK, ExpansionOK
  PROVE  IdentitiesAreApart
<1> SUFFICES ASSUME NEW e \in DOMAIN states
             PROVE  /\ \A d \in DOMAIN states : d # e => ExecutionId(d) # ExecutionId(e)
                    /\ Expanded(e) => ExecutionId(e) \notin Reserved
  BY DEF IdentitiesAreApart
<1>1. DOMAIN states = Executions(plan)
  BY DEF ExpansionOK
<1>2. ASSUME NEW x \in DOMAIN states, Expanded(x)
      PROVE  /\ Rank(x) \in Nat \ {0} /\ ExecutionId(x) \notin Reserved
             /\ Cardinality((1..ExecutionId(x)) \ Reserved) = Rank(x)
  <2>1. Rank(x) \in Nat \ {0}
    BY <1>1, <1>2, RanksAscend
  <2>2. ExecutionId(x) = Allocate(Rank(x))
    BY <1>2 DEF ExecutionId
  <2> QED
    BY <1>1, <2>1, <2>2, ExecutionsAreFinite, AllocateIsFree
<1>3. ASSUME NEW x \in DOMAIN states, ~Expanded(x)
      PROVE  /\ ExecutionId(x) = calls[x[1]].id /\ ExecutionId(x) \in Reserved
             /\ x = <<x[1], 1>> /\ x[1] \in DOMAIN calls
  BY <1>1, <1>3, ExecutionsAre DEF ExecutionId, CallOf, Reserved
<1>4. ASSUME NEW d \in DOMAIN states, d # e PROVE ExecutionId(d) # ExecutionId(e)
  <2>1. CASE Expanded(d) /\ Expanded(e)
    <3>1. Earlier(e, d) \/ Earlier(d, e)
      <4>1. /\ e = <<e[1], e[2]>> /\ d = <<d[1], d[2]>>
            /\ e[1] \in Nat /\ e[2] \in Nat /\ d[1] \in Nat /\ d[2] \in Nat
        BY <1>1, ExecutionsAre
      <4> QED
        BY <1>4, <4>1, EarlierIsAnOrder
    <3>2. Rank(e) # Rank(d)
      BY <1>1, <1>2, <2>1, <3>1, RanksAscend
    <3> QED
      BY <1>2, <2>1, <3>2
  <2>2. CASE ~Expanded(d) /\ ~Expanded(e)
    <3>1. d[1] # e[1]
      BY <1>3, <1>4, <2>2
    <3> QED
      BY <1>3, <2>2, <3>1 DEF CallsOK
  <2>3. CASE Expanded(d) /\ ~Expanded(e)
    BY <1>2, <1>3, <2>3
  <2>4. CASE ~Expanded(d) /\ Expanded(e)
    BY <1>2, <1>3, <2>4
  <2> QED
    BY <2>1, <2>2, <2>3, <2>4
<1> QED
  BY <1>2, <1>4

-----------------------------------------------------------------------------
(* The result of a call *)

\* A result that is no failure is one that hides none.
LEMMA AggregateIsHonest ==
  ASSUME NEW S, S \subseteq Terminal
  PROVE  /\ Aggregate(S) = "succeeded" => S = {"succeeded"}
         /\ Aggregate(S) \in {"rejected", "not_executed"} => S \cap {"failed", "cancelled"} = {}
<1>1. IsFiniteSet(S)
  <2> DEFINE one   == {"succeeded"}
             two   == one \cup {"failed"}
             three == two \cup {"cancelled"}
             four  == three \cup {"rejected"}
             five  == four \cup {"not_executed"}
  <2>1. IsFiniteSet(one)
    BY FS_Singleton
  <2>2. S \subseteq five
    BY DEF Terminal
  <2> HIDE DEF one
  <2>3. IsFiniteSet(two)
    BY <2>1, FS_AddElement
  <2> HIDE DEF two
  <2>4. IsFiniteSet(three)
    BY <2>3, FS_AddElement
  <2> HIDE DEF three
  <2>5. IsFiniteSet(four)
    BY <2>4, FS_AddElement
  <2> HIDE DEF four
  <2>6. IsFiniteSet(five)
    BY <2>5, FS_AddElement
  <2> QED
    BY <2>2, <2>6, FS_Subset
<1>2. CASE Cardinality(S) = 1
  <2>1. PICK x : S = {x}
    BY <1>1, <1>2, FS_Singleton
  <2>2. Aggregate(S) = x
    BY <1>2, <2>1 DEF Aggregate
  <2> QED
    BY <2>1, <2>2
<1>3. CASE Cardinality(S) # 1
  BY <1>3 DEF Aggregate
<1> QED
  BY <1>2, <1>3

-----------------------------------------------------------------------------
(* The steps *)

\* Nothing is used or refused.
LEMMA BudgetStays ==
  ASSUME BudgetOK, UNCHANGED <<uses, batches, hosted, through, refused>>
  PROVE  BudgetOK'
BY DEF BudgetOK, Paid

LEMMA PaidIsFinite ==
  ASSUME BudgetOK, NEW k \in Kinds
  PROVE  IsFiniteSet(Paid(k)) /\ Cardinality(Paid(k)) \in Nat
BY FS_Subset, FS_CardinalityType DEF BudgetOK, Paid

LEMMA RecordHostedKeepsBudget ==
  ASSUME BudgetOK, RecordHosted
  PROVE  BudgetOK'
<1>1. UNCHANGED <<batches, through, refused>>
  BY DEF RecordHosted, batch
<1>2. CASE UNCHANGED <<uses, hosted>>
  BY <1>1, <1>2, BudgetStays
<1>3. ASSUME NEW k \in Kinds, NEW n \in 1..2, uses[k] + n <= MaxUses,
             uses' = [uses EXCEPT ![k] = @ + n], hosted' = [hosted EXCEPT ![k] = @ + n]
      PROVE  BudgetOK'
  <2>1. \A j \in Kinds : /\ uses[j] \in Nat /\ hosted[j] \in Nat /\ uses[j] <= MaxUses
                         /\ uses[j] = hosted[j] + Cardinality(Paid(j)) /\ Cardinality(Paid(j)) \in Nat
    BY PaidIsFinite DEF BudgetOK
  <2>2. \A j \in Kinds : Paid(j)' = Paid(j)
    BY <1>1 DEF Paid
  <2>3. \A j \in Kinds : /\ uses'[j] = IF j = k THEN uses[j] + n ELSE uses[j]
                         /\ hosted'[j] = IF j = k THEN hosted[j] + n ELSE hosted[j]
    BY <1>3 DEF BudgetOK
  <2>4. uses' \in [Kinds -> Nat] /\ hosted' \in [Kinds -> Nat]
    BY <1>3, <2>1 DEF BudgetOK
  <2>5. \A j \in Kinds : /\ uses'[j] = hosted'[j] + Cardinality(Paid(j)') /\ uses'[j] <= MaxUses
                         /\ uses'[j] >= uses[j]
    BY <1>3, <2>1, <2>2, <2>3
  <2>6. \A b \in refused : b \notin through /\ b[1] \in Kinds /\ uses'[b[1]] >= MaxUses
    BY <2>1, <2>4, <2>5, WebAssumption DEF BudgetOK
  <2> QED
    BY <1>1, <2>4, <2>5, <2>6 DEF BudgetOK
<1>4. \/ UNCHANGED <<uses, hosted>>
      \/ \E k \in Kinds, n \in 1..2 : /\ uses[k] + n <= MaxUses
                                       /\ uses' = [uses EXCEPT ![k] = @ + n] /\ hosted' = [hosted EXCEPT ![k] = @ + n]
  BY DEF RecordHosted, Record, Hosted
<1> QED
  BY <1>2, <1>3, <1>4

LEMMA ExecuteKeepsBudget ==
  ASSUME BudgetOK, Execute
  PROVE  BudgetOK'
<1>1. PICK e \in Those("started") :
       IF Expanded(e)
       THEN \/ /\ Acquire(e) /\ through' = through \cup {BatchOf(e)} /\ UNCHANGED refused
            \/ /\ BatchOf(e) \notin batches /\ uses[CallOf(e).tool] >= MaxUses
               /\ refused' = refused \cup {BatchOf(e)} /\ UNCHANGED <<uses, batches, through>>
       ELSE UNCHANGED <<uses, batches, through, refused>>
  BY DEF Execute
<1>2. hosted' = hosted
  BY DEF Execute
<1> DEFINE k == CallOf(e).tool
           b == BatchOf(e)
<1>3. CASE ~Expanded(e)
  BY <1>1, <1>2, <1>3, BudgetStays
<1>4. CASE Expanded(e)
  <2>1. k \in Kinds /\ b[1] = k
    BY <1>4 DEF Expanded, Local, BatchOf
  <2>2. \A j \in Kinds : /\ uses[j] \in Nat /\ hosted[j] \in Nat /\ uses[j] <= MaxUses
                         /\ uses[j] = hosted[j] + Cardinality(Paid(j))
                         /\ IsFiniteSet(Paid(j)) /\ Cardinality(Paid(j)) \in Nat
    BY PaidIsFinite DEF BudgetOK
  <2>3. CASE b \in batches /\ UNCHANGED <<uses, batches, refused>> /\ through' = through \cup {b}
    <3>1. through' = through
      BY <2>3 DEF BudgetOK
    <3> QED
      BY <1>2, <2>3, <3>1, BudgetStays
  <2>4. CASE /\ b \notin batches /\ uses[k] < MaxUses
             /\ uses' = [uses EXCEPT ![k] = @ + 1] /\ batches' = batches \cup {b}
             /\ through' = through \cup {b} /\ UNCHANGED refused
    <3>1. through' = batches' /\ IsFiniteSet(through') /\ b \notin through
      BY <2>4, FS_AddElement DEF BudgetOK
    <3>2. \A j \in Kinds : uses'[j] = IF j = k THEN uses[j] + 1 ELSE uses[j]
      BY <2>4 DEF BudgetOK
    <3>3. \A j \in Kinds : Paid(j)' = IF j = k THEN Paid(j) \cup {b} ELSE Paid(j)
      BY <2>1, <2>4 DEF Paid
    <3>4. b \notin Paid(k)
      BY <3>1 DEF Paid
    <3>5. Cardinality(Paid(k) \cup {b}) = Cardinality(Paid(k)) + 1
      BY <2>1, <2>2, <3>4, FS_AddElement
    <3>6. \A j \in Kinds : Cardinality(Paid(j)') = IF j = k THEN Cardinality(Paid(j)) + 1 ELSE Cardinality(Paid(j))
      BY <3>3, <3>5
    <3>7. uses' \in [Kinds -> Nat]
      BY <2>1, <2>2, <2>4 DEF BudgetOK
    <3>8. \A j \in Kinds : uses'[j] = hosted'[j] + Cardinality(Paid(j)') /\ uses'[j] <= MaxUses /\ uses'[j] >= uses[j]
      BY <1>2, <2>2, <2>4, <3>2, <3>6, WebAssumption
    <3>9. \A c \in refused : c \notin through' /\ c[1] \in Kinds /\ uses'[c[1]] >= MaxUses
      <4> SUFFICES ASSUME NEW c \in refused PROVE c \notin through' /\ c[1] \in Kinds /\ uses'[c[1]] >= MaxUses
        OBVIOUS
      <4>1. c \notin through /\ c[1] \in Kinds /\ uses[c[1]] >= MaxUses
        BY DEF BudgetOK
      <4>2. c # b
        BY <2>1, <2>2, <2>4, <4>1, WebAssumption
      <4> QED
        BY <2>2, <2>4, <3>7, <3>8, <4>1, <4>2, WebAssumption
    <3> QED
      BY <1>2, <2>4, <3>1, <3>7, <3>8, <3>9 DEF BudgetOK
  <2>5. CASE /\ b \notin batches /\ uses[k] >= MaxUses
             /\ refused' = refused \cup {b} /\ UNCHANGED <<uses, batches, through>>
    BY <1>2, <2>1, <2>5 DEF BudgetOK, Paid
  <2> QED
    BY <1>1, <1>4, <2>3, <2>4, <2>5 DEF Acquire
<1> QED
  BY <1>3, <1>4

\* What the calls, and what is made of them, rest on.
LEMMA CallsStay ==
  ASSUME CallsOK, UNCHANGED calls
  PROVE  CallsOK'
BY DEF CallsOK

\* A step before the calls of a response are expanded.
LEMMA NothingExpanded ==
  ASSUME ExpansionOK, phase \notin Running, phase' \notin Running, UNCHANGED states
  PROVE  ExpansionOK' /\ CollapseOK'
BY DEF ExpansionOK, CollapseOK, Running

\* A step of the batch.
LEMMA BatchGoesOn ==
  ASSUME ExpansionOK, phase \in Running, phase' \in {"approve", "run"},
         DOMAIN states' = DOMAIN states, UNCHANGED <<calls, plan>>
  PROVE  ExpansionOK' /\ CollapseOK'
<1>1. Executions(plan)' = Executions(plan)
  BY DEF Executions, Children
<1> QED
  BY <1>1 DEF ExpansionOK, CollapseOK, Running

LEMMA RespondKeepsCalls ==
  ASSUME CallsOK, Respond
  PROVE  CallsOK'
<1>1. PICK r \in Responses : \E ids \in [DOMAIN r -> ModelIds] :
       /\ \A i \in DOMAIN r : \A j \in DOMAIN r : i < j => ids[i] < ids[j]
       /\ \/ calls' = [i \in DOMAIN r |-> Call(r[i], ids[i])]
          \/ calls' = calls
  BY DEF Respond, turn
<1>2. PICK ids \in [DOMAIN r -> ModelIds] :
       /\ \A i \in DOMAIN r : \A j \in DOMAIN r : i < j => ids[i] < ids[j]
       /\ \/ calls' = [i \in DOMAIN r |-> Call(r[i], ids[i])]
          \/ calls' = calls
  BY <1>1
<1>3. CASE calls' = calls
  BY <1>3, CallsStay
<1>4. CASE calls' = [i \in DOMAIN r |-> Call(r[i], ids[i])]
  <2>1. r \in Seq(STRING \X Nat)
    BY WebAssumption
  <2>2. PICK n \in Nat : DOMAIN r = 1..n
    BY <2>1
  <2>3. \A i \in DOMAIN r : r[i][2] \in Nat /\ ids[i] \in Nat
    <3> SUFFICES ASSUME NEW i \in DOMAIN r PROVE r[i][2] \in Nat /\ ids[i] \in Nat
      OBVIOUS
    <3>1. r[i] \in STRING \X Nat
      BY <2>1
    <3>2. ids[i] \in ModelIds /\ ModelIds \subseteq Nat
      BY WebAssumption
    <3> QED
      BY <3>1, <3>2
  <2>4. DOMAIN calls' = 1..n /\ \A i \in 1..n : calls'[i].queries = r[i][2] /\ calls'[i].id = ids[i]
    BY <1>4, <2>2 DEF Call
  <2>5. 1..n \subseteq Nat /\ IsFiniteSet(1..n)
    BY FS_Interval
  <2>6. \A i, j \in 1..n : ids[i] = ids[j] => i = j
    <3> SUFFICES ASSUME NEW i \in 1..n, NEW j \in 1..n, i # j PROVE ids[i] # ids[j]
      OBVIOUS
    <3>1. i < j \/ j < i
      OBVIOUS
    <3>2. ids[i] < ids[j] \/ ids[j] < ids[i]
      BY <1>2, <2>2, <3>1
    <3> QED
      BY <2>2, <2>3, <3>2
  <2> QED
    BY <2>2, <2>3, <2>4, <2>5, <2>6 DEF CallsOK
<1> QED
  BY <1>2, <1>3, <1>4

LEMMA CollapseKeeps ==
  ASSUME ExpansionOK, Collapse
  PROVE  ExpansionOK' /\ CollapseOK'
<1>1. /\ phase = "run" /\ phase' = "collapsed" /\ UNCHANGED <<calls, plan, states>>
      /\ \A e \in DOMAIN states : states[e] \in Terminal
      /\ results' = [i \in DOMAIN calls |-> Aggregate(StatesOf(i))]
  BY DEF Collapse, request, turn, batch
<1>2. Executions(plan)' = Executions(plan)
  BY <1>1 DEF Executions, Children
<1>3. ExpansionOK'
  BY <1>1, <1>2 DEF ExpansionOK, Running
<1>4. \A i : StatesOf(i)' = StatesOf(i)
  BY <1>1 DEF StatesOf
<1> QED
  BY <1>1, <1>3, <1>4 DEF CollapseOK

LEMMA ExpandKeeps ==
  ASSUME ExpansionOK, Expand
  PROVE  ExpansionOK' /\ CollapseOK'
<1>1. phase = "expand" /\ UNCHANGED calls
  BY DEF Expand, turn
<1>2. CASE states' = [e \in Executions(plan') |-> "queued"] /\ phase' = "approve"
  <2>1. Executions(plan)' = Executions(plan')
    BY <1>1 DEF Executions, Children
  <2> QED
    BY <1>2, <2>1 DEF ExpansionOK, CollapseOK, Running
<1>3. CASE phase' = "done" /\ UNCHANGED states
  BY <1>1, <1>3, NothingExpanded DEF Running
<1> QED
  BY <1>2, <1>3 DEF Expand, Finish

LEMMA WebStart == WebInit => WebInv
<1> SUFFICES ASSUME WebInit PROVE WebInv
  OBVIOUS
<1>1. \A k \in Kinds : Paid(k) = {}
  BY DEF WebInit, Paid
<1>2. BudgetOK
  <2>1. /\ uses = [k \in Kinds |-> 0] /\ hosted = [k \in Kinds |-> 0]
        /\ through = {} /\ batches = {} /\ refused = {}
    BY DEF WebInit
  <2>2. \A k \in Kinds : Cardinality(Paid(k)) = 0
    BY <1>1, FS_EmptySet
  <2>3. IsFiniteSet(through)
    BY <2>1, FS_EmptySet
  <2>4. MaxUses \in Nat
    BY WebAssumption
  <2> QED
    BY <2>1, <2>2, <2>3, <2>4 DEF BudgetOK
<1>3. CallsOK
  BY FS_EmptySet DEF WebInit, CallsOK
<1>4. ExpansionOK /\ CollapseOK
  BY DEF WebInit, ExpansionOK, CollapseOK, Running, Function
<1> QED
  BY <1>2, <1>3, <1>4 DEF WebInv

LEMMA WebStep == WebInv /\ [WebNext]_webVars => WebInv'
<1> SUFFICES ASSUME WebInv, [WebNext]_webVars PROVE WebInv'
  OBVIOUS
<1> USE DEF WebInv
<1>1. BudgetOK'
  <2>1. CASE Execute
    BY <2>1, ExecuteKeepsBudget
  <2>2. CASE RecordHosted
    BY <2>2, RecordHostedKeepsBudget
  <2>3. CASE /\ ~Execute /\ ~RecordHosted
    <3>1. UNCHANGED <<uses, batches, hosted, through, refused>>
      BY <2>3 DEF WebNext, webVars, CatalogChanges, Plan, Respond, Expand, NothingToExpand, Approve, Approved,
           Start, Return, CancelRun, CutShort, Collapse, NextRound, EndRun, budget, batch
    <3> QED
      BY <3>1, BudgetStays
  <2> QED
    BY <2>1, <2>2, <2>3
<1>2. CallsOK'
  <2>1. CASE Respond
    BY <2>1, RespondKeepsCalls
  <2>2. CASE NextRound
    <3>1. calls' = <<>>
      BY <2>2 DEF NextRound
    <3> QED
      BY <3>1, FS_EmptySet DEF CallsOK
  <2>3. CASE ~Respond /\ ~NextRound
    <3>1. UNCHANGED calls
      BY <2>3 DEF WebNext, webVars, CatalogChanges, Plan, RecordHosted, Expand, NothingToExpand, Approve, Approved,
           Start, Execute, Return, CancelRun, CutShort, Collapse, EndRun, turn
    <3> QED
      BY <3>1, CallsStay
  <2> QED
    BY <2>1, <2>2, <2>3
<1>3. ExpansionOK' /\ CollapseOK'
  <2>1. CASE CatalogChanges \/ CancelRun \/ UNCHANGED webVars
    <3>1. UNCHANGED <<phase, plan, calls, states, results>>
      BY <2>1 DEF CatalogChanges, CancelRun, webVars, request, turn, batch
    <3>2. Executions(plan)' = Executions(plan) /\ \A i : StatesOf(i)' = StatesOf(i)
      BY <3>1 DEF Executions, Children, StatesOf
    <3> QED
      BY <3>1, <3>2 DEF ExpansionOK, CollapseOK
  <2>2. CASE Plan \/ Respond \/ RecordHosted \/ NothingToExpand \/ EndRun
    <3>1. phase \notin Running /\ phase' \notin Running /\ UNCHANGED states
      BY <2>2 DEF Plan, Respond, RecordHosted, NothingToExpand, EndRun, Finish, batch, Running
    <3> QED
      BY <3>1, NothingExpanded
  <2>3. CASE Expand
    BY <2>3, ExpandKeeps
  <2>4. CASE Approve \/ Approved \/ Start \/ Execute \/ Return \/ CutShort
    <3>1. UNCHANGED <<calls, plan>>
      BY <2>4 DEF Approve, Approved, Start, Execute, Return, CutShort, turn, request
    <3>2. phase \in Running /\ phase' \in {"approve", "run"}
      BY <2>4 DEF Approve, Approved, Start, Execute, Return, CutShort, Running
    <3>3. DOMAIN states' = DOMAIN states
      BY <2>4 DEF Approve, Approved, Start, Execute, Return, CutShort, Set, batch
    <3> QED
      BY <3>1, <3>2, <3>3, BatchGoesOn
  <2>5. CASE Collapse
    BY <2>5, CollapseKeeps
  <2>6. CASE NextRound
    <3>1. phase' \in {"done", "resolve"} /\ states' = Function
      BY <2>6 DEF NextRound, Finish
    <3> QED
      BY <3>1 DEF ExpansionOK, CollapseOK, Running, Function
  <2> QED
    BY <2>1, <2>2, <2>3, <2>4, <2>5, <2>6 DEF WebNext
<1> QED
  BY <1>1, <1>2, <1>3

LEMMA WebFollows == WebInv => WebToolsHold
<1> SUFFICES ASSUME WebInv PROVE WebToolsHold
  OBVIOUS
<1>1. UsesAreCalls
  BY DEF WebInv, BudgetOK, UsesAreCalls, Paid
<1>2. ResultIsHonest
  <2> SUFFICES ASSUME phase = "collapsed", NEW i \in DOMAIN calls
               PROVE  /\ results[i] = "succeeded" => StatesOf(i) = {"succeeded"}
                      /\ results[i] \in {"rejected", "not_executed"} => StatesOf(i) \cap {"failed", "cancelled"} = {}
    BY DEF ResultIsHonest
  <2>1. results[i] = Aggregate(StatesOf(i)) /\ StatesOf(i) \subseteq Terminal
    BY DEF WebInv, CollapseOK, StatesOf
  <2> QED
    BY <2>1, AggregateIsHonest
<1>3. IdentitiesAreApart
  BY NamesAreApart DEF WebInv
<1> QED
  BY <1>1, <1>2, <1>3 DEF WebToolsHold

\* A fan-out of a web call keeps the promises of WebToolsHold (internal/webtool/tool.go,
\* internal/agent/web_calls.go, web_results.go, execution.go), however its queries race and
\* whatever the model calls its calls: it is one use, its one result hides no failure, and
\* what runs at one time has names of its own.
THEOREM WebToolsAlwaysHold == WebSpec => []WebToolsHold
<1>1. WebSpec => []WebInv
  BY WebStart, WebStep, PTL DEF WebSpec
<1> QED
  BY <1>1, WebFollows, PTL
=============================================================================
