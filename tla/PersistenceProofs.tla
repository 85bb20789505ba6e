-------------------------- MODULE PersistenceProofs --------------------------
(***************************************************************************)
(* What Eylu keeps in files and reads again: the configuration, the        *)
(* installed skills, the credentials of a remote server, and the files of  *)
(* the workspace under its tools.                                          *)
(***************************************************************************)
EXTENDS ConfigStore, SkillInstall, OAuthCredentials, CodeFiles, FiniteSetTheorems, TLAPS

(***************************************************************************)
(* The configuration, for any providers, values, terminals and commands,   *)
(* any files to start with and any number of updates.  Only the highest    *)
(* layer that has a file is written, but for the flag of a server, so that *)
(* what a new store reads is decided by that file, by the entries of the   *)
(* layer below, which nobody changes, and by the layer that has the        *)
(* server, which never moves.                                              *)
(***************************************************************************)
IsRecord(doc) ==
  doc = [active |-> doc.active, providers |-> doc.providers,
         removed |-> doc.removed, server |-> doc.server]
IsPromise(p) ==
  /\ p = [providers |-> p.providers, gone |-> p.gone, active |-> p.active, server |-> p.server]
  /\ p.providers = [n \in Providers |-> p.providers[n]]
IsFiles(files) ==
  /\ DOMAIN files \subseteq Layers
  /\ \A l \in DOMAIN files : IsRecord(files[l])
IsStore(store) ==
  /\ store = [path |-> store.path, files |-> store.files, config |-> store.config]
  /\ IsFiles(store.files)
  /\ store.path \in DOMAIN store.files

ConfigTypeOK ==
  /\ IsFiles(stored)
  /\ opened = [h \in Holders |-> opened[h]]
  /\ \A h \in Holders : opened[h] # NotOpen => IsStore(opened[h])
  /\ IsPromise(promised)
  /\ overwritten \in BOOLEAN
  /\ \A j \in jobs : j.holder \in Holders /\ opened[j.holder] # NotOpen /\ j.name \in Providers

\* What a layer's file holds now, and the layer that is written.
Now(l) == IF l \in DOMAIN stored THEN stored[l] ELSE EmptyFile
Written == WritePath(stored)

\* Two files that differ in the flag of the server alone.
SameEntries(a, b) == a.active = b.active /\ a.providers = b.providers /\ a.removed = b.removed
SameServers(a, b) == a.server = "absent" <=> b.server = "absent"

\* What a store in memory has in common with the files, however old it is.
StoreFits(store) ==
  /\ store.path = Written
  /\ DOMAIN store.files = DOMAIN stored \cup {Written}
  /\ \A l \in DOMAIN store.files :
       /\ SameServers(store.files[l], Now(l))
       /\ l # Written => SameEntries(store.files[l], Now(l))
StoresFit == \A h \in Holders : opened[h] # NotOpen => StoreFits(opened[h])

\* The written file alone keeps the promises about providers.
KeptIn(doc, p) ==
  /\ p.gone \subseteq doc.removed
  /\ \A n \in Providers, f \in Fields : p.providers[n][f] # Unset =>
       n \notin doc.removed /\ Setting(doc.providers, n, f) = p.providers[n][f]
  /\ p.active # Missing => doc.active = p.active
ServerKept ==
  promised.server # "absent" =>
    \E l \in ServerSource(stored) : stored[l].server = promised.server
PromisesKept == ~overwritten => KeptIn(Now(Written), promised) /\ ServerKept

SettingsInv == ConfigTypeOK /\ StoresFit /\ PromisesKept /\ LoadsAgain

-----------------------------------------------------------------------------
(***************************************************************************)
(* Resolving.                                                              *)
(***************************************************************************)
Default == [active |-> NoProvider, providers |-> <<>>, server |-> "absent"]
Laid(cfg, files, l) == IF l \in DOMAIN files THEN Overlay(cfg, files[l]) ELSE cfg

LEMMA SameLaid ==
  ASSUME NEW c, NEW d, c.active = d.active, c.providers = d.providers,
         NEW a, NEW b, DOMAIN a = DOMAIN b, NEW l,
         l \in DOMAIN a => SameEntries(a[l], b[l])
  PROVE  /\ Laid(c, a, l).active = Laid(d, b, l).active
         /\ Laid(c, a, l).providers = Laid(d, b, l).providers
<1>1. CASE l \in DOMAIN a
  BY <1>1 DEF Laid, Overlay, SameEntries, Setting
<1>2. CASE l \notin DOMAIN a
  BY <1>2 DEF Laid
<1> QED BY <1>1, <1>2

\* Whether a configuration is valid depends on the entries alone.
LEMMA EntriesDecide ==
  ASSUME NEW a, NEW b, DOMAIN a = DOMAIN b,
         \A l \in DOMAIN a : SameEntries(a[l], b[l])
  PROVE  Valid(Resolve(a)) = Valid(Resolve(b))
<1> DEFINE A1 == Laid(Default, a, "user")
           B1 == Laid(Default, b, "user")
           A2 == Laid(A1, a, "project")
           B2 == Laid(B1, b, "project")
<1>1. A1.active = B1.active /\ A1.providers = B1.providers
  <2>1. PICK l : l = "user"
    OBVIOUS
  <2>2. CASE l \in DOMAIN a
    BY <2>1, <2>2 DEF Laid, Overlay, SameEntries, Setting
  <2>3. CASE l \notin DOMAIN a
    BY <2>1, <2>3 DEF Laid
  <2> QED BY <2>2, <2>3
<1>2. A2.active = B2.active /\ A2.providers = B2.providers
  BY <1>1, SameLaid
<1>3. Resolve(a) = Environment(A2) /\ Resolve(b) = Environment(B2)
  BY DEF Resolve, Laid, Default
<1>4. /\ A2 = [active |-> A2.active, providers |-> A2.providers, server |-> A2.server]
      /\ B2 = [active |-> B2.active, providers |-> B2.providers, server |-> B2.server]
  BY DEF Laid, Default, Overlay
<1>5. /\ Environment(A2).active = Environment(B2).active
      /\ Environment(A2).providers = Environment(B2).providers
  <2> HIDE DEF A2, B2
  <2> QED BY <1>2, <1>4 DEF Environment
<1> QED BY <1>3, <1>5 DEF Valid

\* The entries of the highest layer that has a file are the effective ones.
LEMMA WrittenDecides ==
  ASSUME ConfigTypeOK, DOMAIN stored # {}
  PROVE  \E base : Resolve(stored) = Environment(Overlay(base, stored[Written]))
<1> DEFINE U == Laid(Default, stored, "user")
<1>1. Resolve(stored) = Environment(Laid(U, stored, "project"))
  BY DEF Resolve, Laid, Default
<1>2. CASE "project" \in DOMAIN stored
  BY <1>1, <1>2 DEF Laid, Written, WritePath
<1>3. CASE "project" \notin DOMAIN stored
  <2>1. "user" \in DOMAIN stored
    BY <1>3 DEF ConfigTypeOK, IsFiles, Layers
  <2>2. Resolve(stored) = Environment(Overlay(Default, stored["user"]))
    BY <1>1, <1>3, <2>1 DEF Laid
  <2> QED BY <1>3, <2>2 DEF Written, WritePath
<1> QED BY <1>2, <1>3

-----------------------------------------------------------------------------
(***************************************************************************)
(* An update, whatever it writes.                                          *)
(***************************************************************************)
LEMMA StoreIsOpen == ASSUME NEW store, IsStore(store) PROVE store # NotOpen
BY DEF IsStore, IsFiles, Layers, NotOpen

LEMMA StoreMoves ==
  ASSUME NEW store, IsStore(store), NEW files, NEW resolved
  PROVE  [[store EXCEPT !.files = files] EXCEPT !.config = resolved]
           = [path |-> store.path, files |-> files, config |-> resolved]
<1> DEFINE read == [store EXCEPT !.files = files]
<1>1. read = [path |-> store.path, files |-> files, config |-> store.config]
  BY DEF IsStore
<1> HIDE DEF read
<1>2. [read EXCEPT !.config = resolved]
        = [path |-> store.path, files |-> files, config |-> resolved]
  BY <1>1
<1> QED BY <1>2 DEF read

Updated(h, l, doc, promise) ==
  LET files == [opened[h].files EXCEPT ![l] = doc] IN
  /\ Valid(Resolve(files))
  /\ opened' = [k \in Holders |-> opened'[k]]
  /\ opened'[h] = [path |-> opened[h].path, files |-> files, config |-> Resolve(files)]
  /\ \A k \in Holders \ {h} : opened'[k] = opened[k]
  /\ DOMAIN stored' = DOMAIN stored \cup {l}
  /\ stored'[l] = doc
  /\ \A m \in DOMAIN stored \ {l} : stored'[m] = stored[m]
  /\ Written' = Written
  /\ overwritten' \in BOOLEAN
  /\ ~overwritten' => ~overwritten /\ opened[h].files[l] = Now(l)
  /\ promised' = promise

LEMMA Updates ==
  ASSUME ConfigTypeOK, StoresFit,
         NEW h \in Holders, opened[h] # NotOpen, NEW l \in DOMAIN opened[h].files,
         NEW doc, NEW promise, Update(h, l, doc, promise)
  PROVE  Updated(h, l, doc, promise)
<1> DEFINE files == [opened[h].files EXCEPT ![l] = doc]
<1>1. Valid(Resolve(files))
  BY DEF Update, Accepts, Checked
<1>2. IsStore(opened[h]) /\ StoreFits(opened[h])
  BY DEF ConfigTypeOK, StoresFit
<1>3. opened' = [opened EXCEPT ![h] = [path |-> opened[h].path, files |-> files,
                                       config |-> Resolve(files)]]
  <2>1. opened' = [opened EXCEPT ![h] = [[opened[h] EXCEPT !.files = files]
                                            EXCEPT !.config = Resolve(files)]]
    <3> HIDE DEF files
    <3>1. opened' = [opened EXCEPT ![h].files = files, ![h].config = Resolve(files)]
      BY DEF Update, files
    <3> QED BY <3>1, <1>2 DEF ConfigTypeOK
  <2> HIDE DEF files
  <2>2. [[opened[h] EXCEPT !.files = files] EXCEPT !.config = Resolve(files)]
          = [path |-> opened[h].path, files |-> files, config |-> Resolve(files)]
    BY <1>2, StoreMoves
  <2> QED BY <2>1, <2>2
<1>4. /\ opened' = [k \in Holders |-> opened'[k]]
      /\ opened'[h] = [path |-> opened[h].path, files |-> files, config |-> Resolve(files)]
      /\ \A k \in Holders \ {h} : opened'[k] = opened[k]
  <2> HIDE DEF files
  <2> QED BY <1>3 DEF ConfigTypeOK
<1>5. /\ DOMAIN stored' = DOMAIN stored \cup {l}
      /\ stored'[l] = doc
      /\ \A m \in DOMAIN stored \ {l} : stored'[m] = stored[m]
  BY DEF Update, Saved
<1>6. Written' = Written
  BY <1>2, <1>5 DEF StoreFits, Written, WritePath, IsStore, IsFiles, Layers
<1>7. /\ overwritten' \in BOOLEAN
      /\ ~overwritten' => ~overwritten /\ opened[h].files[l] = Now(l)
  <2>1. overwritten' = (overwritten \/ opened[h].files[l] # Now(l))
    BY DEF Update, Now
  <2> QED BY <2>1
<1>8. promised' = promise
  BY DEF Update
<1> HIDE DEF files
<1> QED BY <1>1, <1>4, <1>5, <1>6, <1>7, <1>8 DEF files, Updated

\* What every update leaves as it was: the shape of the files and of the stores, what
\* the stores have in common with the files, and that the files load.
LEMMA UpdateFits ==
  ASSUME ConfigTypeOK, StoresFit, LoadsAgain, UNCHANGED env,
         NEW h \in Holders, opened[h] # NotOpen, NEW l \in DOMAIN opened[h].files,
         NEW doc, NEW promise, Update(h, l, doc, promise),
         IsRecord(doc), IsPromise(promise), SameServers(doc, opened[h].files[l]),
         l # Written => SameEntries(doc, opened[h].files[l]),
         \A j \in jobs' : j \in jobs \/ (j.holder = h /\ j.name \in Providers)
  PROVE  ConfigTypeOK' /\ StoresFit' /\ LoadsAgain'
<1> DEFINE files == [opened[h].files EXCEPT ![l] = doc]
<1>1. /\ Valid(Resolve(files))
      /\ opened' = [k \in Holders |-> opened'[k]]
      /\ opened'[h] = [path |-> opened[h].path, files |-> files, config |-> Resolve(files)]
      /\ \A k \in Holders \ {h} : opened'[k] = opened[k]
      /\ DOMAIN stored' = DOMAIN stored \cup {l}
      /\ stored'[l] = doc
      /\ \A m \in DOMAIN stored \ {l} : stored'[m] = stored[m]
      /\ Written' = Written
      /\ overwritten' \in BOOLEAN
      /\ promised' = promise
  <2>1. Updated(h, l, doc, promise)
    BY Updates
  <2> QED BY <2>1 DEF Updated
<1>2. IsStore(opened[h]) /\ StoreFits(opened[h])
  BY DEF ConfigTypeOK, StoresFit
<1>3. /\ DOMAIN files = DOMAIN opened[h].files
      /\ files[l] = doc
      /\ \A m \in DOMAIN files \ {l} : files[m] = opened[h].files[m]
  OBVIOUS
<1>f. IsFiles(files)
  BY <1>2, <1>3 DEF IsStore, IsFiles
<1> HIDE DEF files
<1>4. IsFiles(stored')
  BY <1>1, <1>2 DEF IsFiles, ConfigTypeOK, IsStore
<1>5. ASSUME NEW k \in Holders, opened'[k] # NotOpen PROVE IsStore(opened'[k])
  <2>1. CASE k = h
    <3>1. /\ opened'[h].path = opened[h].path
          /\ opened'[h].files = files
          /\ opened'[h].config = Resolve(files)
      BY <1>1
    <3> QED BY <2>1, <3>1, <1>1, <1>2, <1>3, <1>f DEF IsStore
  <2>2. CASE k # h
    BY <2>2, <1>1, <1>5 DEF ConfigTypeOK
  <2> QED BY <2>1, <2>2
<1>6. opened'[h] # NotOpen
  <2>1. opened'[h].path = opened[h].path
    BY <1>1
  <2> QED BY <2>1, <1>2 DEF IsStore, IsFiles, Layers, NotOpen
<1>7. ASSUME NEW j \in jobs'
      PROVE  j.holder \in Holders /\ opened'[j.holder] # NotOpen /\ j.name \in Providers
  BY <1>1, <1>6 DEF ConfigTypeOK
<1>8. ConfigTypeOK'
  BY <1>1, <1>4, <1>5, <1>7 DEF ConfigTypeOK
<1>9. StoresFit'
  <2>1. ASSUME NEW k \in Holders, opened'[k] # NotOpen PROVE StoreFits(opened[k])'
    <3>1. opened[k] # NotOpen /\ StoreFits(opened[k])
      BY <1>1, <1>2, <2>1 DEF StoresFit
    <3>2. opened'[k].path = Written'
      BY <1>1, <3>1 DEF StoreFits
    <3>3. DOMAIN opened'[k].files = DOMAIN opened[k].files
      BY <1>1, <1>3
    <3>4. DOMAIN opened'[k].files = DOMAIN stored' \cup {Written'}
      BY <1>1, <1>2, <3>1, <3>3 DEF StoreFits
    <3>5. ASSUME NEW m \in DOMAIN opened'[k].files
          PROVE  /\ SameServers(opened'[k].files[m], Now(m)')
                 /\ m # Written' => SameEntries(opened'[k].files[m], Now(m)')
      <4>1. /\ SameServers(opened[k].files[m], Now(m))
            /\ m # Written => SameEntries(opened[k].files[m], Now(m))
            /\ SameServers(opened[h].files[m], Now(m))
            /\ m # Written => SameEntries(opened[h].files[m], Now(m))
        BY <1>2, <3>1, <3>3, <3>5 DEF StoreFits
      <4>2. CASE m = l
        <5>1. Now(m)' = doc
          BY <1>1, <4>2 DEF Now
        <5>2. opened'[k].files[m] = IF k = h THEN doc ELSE opened[k].files[m]
          BY <1>1, <1>3, <4>2
        <5> QED BY <4>1, <4>2, <5>1, <5>2, <1>1 DEF SameServers, SameEntries
      <4>3. CASE m # l
        <5>1. Now(m)' = Now(m)
          BY <1>1, <4>3 DEF Now
        <5>2. opened'[k].files[m] = opened[k].files[m]
          BY <1>1, <1>3, <4>3, <3>3
        <5> QED BY <4>1, <5>1, <5>2, <1>1
      <4> QED BY <4>2, <4>3
    <3> QED BY <3>2, <3>4, <3>5 DEF StoreFits
  <2> QED BY <2>1 DEF StoresFit
<1>10. LoadsAgain' <=> Valid(Resolve(stored'))
  BY DEF LoadsAgain, Valid, Resolve, Environment
<1>11. Valid(Resolve(stored'))
  <2>1. CASE l = Written
    <3>1. DOMAIN stored' = DOMAIN files
      BY <1>1, <1>2, <1>3, <2>1 DEF StoreFits
    <3>2. ASSUME NEW m \in DOMAIN files PROVE SameEntries(files[m], stored'[m])
      <4>1. CASE m = l
        BY <1>1, <1>3, <4>1 DEF SameEntries
      <4>2. CASE m # l
        BY <1>1, <1>2, <1>3, <2>1, <3>1, <4>2 DEF StoreFits, Now
      <4> QED BY <4>1, <4>2
    <3> QED BY <1>1, <3>1, <3>2, EntriesDecide
  <2>2. CASE l # Written
    <3>1. l \in DOMAIN stored /\ DOMAIN stored' = DOMAIN stored
      BY <1>1, <1>2, <2>2 DEF StoreFits
    <3>2. ASSUME NEW m \in DOMAIN stored PROVE SameEntries(stored[m], stored'[m])
      BY <1>1, <1>2, <2>2, <3>1 DEF StoreFits, Now, SameEntries
    <3> QED BY <3>1, <3>2, EntriesDecide DEF LoadsAgain
  <2> QED BY <2>1, <2>2
<1> QED BY <1>8, <1>9, <1>10, <1>11

\* An update of the providers keeps what was promised if the file it writes does.
LEMMA ProviderUpdateKeeps ==
  ASSUME SettingsInv, UNCHANGED env, NEW h \in Holders, opened[h] # NotOpen,
         NEW doc, NEW promise, Update(h, opened[h].path, doc, promise),
         IsRecord(doc), doc.server = Mine(h).server,
         IsPromise(promise), promise.server = promised.server,
         KeptIn(Mine(h), promised) => KeptIn(doc, promise),
         \A j \in jobs' : j \in jobs \/ (j.holder = h /\ j.name \in Providers)
  PROVE  SettingsInv'
<1> DEFINE l == opened[h].path
<1>1. /\ IsStore(opened[h]) /\ StoreFits(opened[h])
      /\ l \in DOMAIN opened[h].files /\ l = Written
  BY DEF SettingsInv, ConfigTypeOK, StoresFit, IsStore, StoreFits
<1>2. Updated(h, l, doc, promise)
  BY <1>1, Updates DEF SettingsInv
<1>3. ConfigTypeOK' /\ StoresFit' /\ LoadsAgain'
  <2>1. SameServers(doc, opened[h].files[l])
    BY DEF SameServers, Mine
  <2> QED BY <1>1, <2>1, UpdateFits DEF SettingsInv
<1>4. ASSUME ~overwritten' PROVE KeptIn(Now(Written), promised)' /\ ServerKept'
  <2>1. KeptIn(Now(Written), promised) /\ ServerKept /\ Now(Written) = Mine(h)
    BY <1>1, <1>2, <1>4 DEF Updated, SettingsInv, PromisesKept, Mine
  <2>2. Now(Written)' = doc
    BY <1>1, <1>2 DEF Updated, Now
  <2>3. KeptIn(Now(Written), promised)'
    <3>1. KeptIn(doc, promise) /\ promised' = promise
      BY <1>2, <2>1 DEF Updated
    <3>2. KeptIn(Now(Written)', promised')
      BY <2>2, <3>1
    <3> QED BY <3>2 DEF KeptIn
  <2>4. ASSUME NEW m \in DOMAIN stored'
        PROVE  stored'[m].server = Now(m).server
    BY <1>1, <1>2, <2>1 DEF Updated, Now, Mine
  <2>5. \A m \in DOMAIN stored : m \in DOMAIN stored' /\ Now(m) = stored[m]
    BY <1>2 DEF Updated, Now
  <2>6. ASSUME promised'.server # "absent"
        PROVE  \E m \in ServerSource(stored)' : stored'[m].server = promised'.server
    <3>1. promised'.server = promised.server
      BY <1>2 DEF Updated
    <3>2. PICK m \in ServerSource(stored) : stored[m].server = promised.server
      BY <2>1, <2>6, <3>1 DEF ServerKept
    <3>3. \A k \in DOMAIN stored' : k \notin DOMAIN stored => stored'[k].server = "absent"
      BY <2>4 DEF Now, EmptyFile
    <3>4. ServerSource(stored)' = ServerSource(stored)
      <4> DEFINE has == {k \in DOMAIN stored : stored[k].server # "absent"}
                 hasNow == {k \in DOMAIN stored' : stored'[k].server # "absent"}
      <4>1. has = hasNow
        BY <2>4, <2>5, <3>3
      <4> QED BY <4>1 DEF ServerSource
    <3>5. m \in DOMAIN stored
      BY <3>2 DEF ServerSource
    <3> QED BY <2>4, <2>5, <3>1, <3>2, <3>4, <3>5
  <2> QED BY <2>3, <2>6 DEF ServerKept
<1> QED BY <1>3, <1>4 DEF SettingsInv, PromisesKept

\* A toggle changes the flag where it is.
LEMMA ToggleKeeps ==
  ASSUME SettingsInv, UNCHANGED env, NEW h \in Holders,
         NEW enabled \in {"enabled", "disabled"}, Toggle(h, enabled)
  PROVE  SettingsInv'
<1>1. PICK l \in ServerSource(opened[h].files) :
        Update(h, l, [opened[h].files[l] EXCEPT !.server = enabled],
               [promised EXCEPT !.server = enabled])
  BY DEF Toggle
<1>2. opened[h] # NotOpen /\ UNCHANGED jobs
  BY DEF Toggle
<1> DEFINE doc == [opened[h].files[l] EXCEPT !.server = enabled]
           promise == [promised EXCEPT !.server = enabled]
<1>3. /\ IsStore(opened[h]) /\ StoreFits(opened[h])
      /\ l \in DOMAIN opened[h].files /\ opened[h].files[l].server # "absent"
  BY <1>2 DEF SettingsInv, ConfigTypeOK, StoresFit, ServerSource
<1>4. /\ IsRecord(doc) /\ doc.server = enabled
      /\ SameEntries(doc, opened[h].files[l])
  <2>1. IsRecord(opened[h].files[l])
    BY <1>3 DEF IsStore, IsFiles
  <2>2. \A old : IsRecord(old) => LET new == [old EXCEPT !.server = enabled]
                                 IN  IsRecord(new) /\ new.server = enabled /\ SameEntries(new, old)
    BY DEF IsRecord, SameEntries
  <2> QED BY <2>1, <2>2
<1>5. /\ IsPromise(promise) /\ promise.server = enabled
      /\ promise.providers = promised.providers
      /\ promise.gone = promised.gone /\ promise.active = promised.active
  BY DEF SettingsInv, ConfigTypeOK, IsPromise
<1> HIDE DEF doc, promise
<1>6. Update(h, l, doc, promise)
  BY <1>1 DEF doc, promise
<1>7. Updated(h, l, doc, promise)
  BY <1>2, <1>3, <1>6, Updates DEF SettingsInv
<1>8. ConfigTypeOK' /\ StoresFit' /\ LoadsAgain'
  <2>1. SameServers(doc, opened[h].files[l])
    BY <1>3, <1>4 DEF SameServers
  <2> QED BY <1>2, <1>3, <1>4, <1>5, <1>6, <2>1, UpdateFits DEF SettingsInv
<1>9. ASSUME ~overwritten' PROVE KeptIn(Now(Written), promised)' /\ ServerKept'
  <2>1. KeptIn(Now(Written), promised) /\ opened[h].files[l] = Now(l)
    BY <1>7, <1>9 DEF Updated, SettingsInv, PromisesKept
  <2>2. SameEntries(Now(Written)', Now(Written))
    <3>1. CASE l = Written
      <4>1. Now(Written)' = doc
        BY <1>7, <3>1 DEF Updated, Now
      <4> QED BY <1>4, <2>1, <3>1, <4>1
    <3>2. CASE l # Written
      <4>1. Now(Written)' = Now(Written)
        BY <1>7, <3>2 DEF Updated, Now
      <4> QED BY <4>1 DEF SameEntries
    <3> QED BY <3>1, <3>2
  <2>3. KeptIn(Now(Written), promised)'
    <3>1. promised' = promise
      BY <1>7 DEF Updated
    <3>2. KeptIn(Now(Written)', promised')
      BY <1>5, <2>1, <2>2, <3>1 DEF KeptIn, SameEntries
    <3> QED BY <3>2 DEF KeptIn
  <2>4. stored'[l].server = promised'.server /\ promised'.server = enabled
    BY <1>4, <1>5, <1>7 DEF Updated
  <2>5. l \in ServerSource(stored)'
    <3>1. DOMAIN stored' = DOMAIN opened[h].files
      <4>1. l \in DOMAIN stored
        BY <1>3 DEF StoreFits, Now, EmptyFile, SameServers
      <4>2. Written \in DOMAIN stored
        BY <4>1 DEF Written, WritePath, SettingsInv, ConfigTypeOK, IsFiles, Layers
      <4> QED BY <4>1, <4>2, <1>3, <1>7 DEF Updated, StoreFits
    <3>2. ASSUME NEW m \in DOMAIN stored'
          PROVE  stored'[m].server = "absent" <=> opened[h].files[m].server = "absent"
      <4>1. CASE m = l
        BY <4>1, <1>3, <2>4
      <4>2. CASE m # l
        BY <4>2, <1>3, <1>7, <3>1 DEF Updated, StoreFits, Now, SameServers
      <4> QED BY <4>1, <4>2
    <3> QED BY <3>1, <3>2, <1>1 DEF ServerSource
  <2>6. l \in DOMAIN stored'
    BY <1>7 DEF Updated
  <2>7. ServerKept'
    BY <2>4, <2>5 DEF ServerKept
  <2> QED BY <2>3, <2>7
<1> QED BY <1>8, <1>9 DEF SettingsInv, PromisesKept

-----------------------------------------------------------------------------
(***************************************************************************)
(* The steps.                                                              *)
(***************************************************************************)
LEMMA SameFilesHold ==
  ASSUME PromisesKept, LoadsAgain, UNCHANGED <<env, stored, promised, overwritten>>
  PROVE  PromisesKept' /\ LoadsAgain'
<1>1. Now(Written)' = Now(Written) /\ ServerSource(stored)' = ServerSource(stored)
  BY DEF Now, Written
<1>2. KeptIn(Now(Written), promised)' <=> KeptIn(Now(Written), promised)
  BY <1>1 DEF KeptIn
<1>3. PromisesKept'
  BY <1>1, <1>2 DEF PromisesKept, ServerKept
<1>4. LoadsAgain' <=> Valid(Resolve(stored'))
  BY DEF LoadsAgain, Valid, Resolve, Environment
<1> QED BY <1>3, <1>4 DEF LoadsAgain

\* A step that opens or closes one store.
LEMMA OpenStoreKeeps ==
  ASSUME SettingsInv, UNCHANGED env, NEW h \in Holders, OpenStore(h)
  PROVE  SettingsInv'
<1> DEFINE store == OpenOf(stored)
<1>1. UNCHANGED <<stored, jobs, promised, overwritten>> /\ opened[h] = NotOpen
  BY DEF OpenStore
<1>2. /\ opened' = [k \in Holders |-> opened'[k]]
      /\ opened'[h] = store
      /\ \A k \in Holders \ {h} : opened'[k] = opened[k]
  <2> HIDE DEF store
  <2>1. opened' = [opened EXCEPT ![h] = store]
    BY DEF OpenStore, store
  <2> QED BY <2>1 DEF SettingsInv, ConfigTypeOK
<1>3. /\ store.path = Written
      /\ store = [path |-> store.path, files |-> store.files, config |-> store.config]
      /\ DOMAIN store.files = DOMAIN stored \cup {Written}
      /\ \A l \in DOMAIN store.files : store.files[l] = Now(l)
  <2>1. store.path = Written
        /\ store = [path |-> store.path, files |-> store.files, config |-> store.config]
    BY DEF OpenOf, Written
  <2>2. CASE Written \in DOMAIN stored
    <3>1. store.files = stored
      BY <2>2 DEF OpenOf, Written
    <3> QED BY <2>1, <2>2, <3>1 DEF Now
  <2>3. CASE Written \notin DOMAIN stored
    <3>1. store.files = [l \in DOMAIN stored \cup {Written} |->
                            IF l \in DOMAIN stored THEN stored[l] ELSE EmptyFile]
      BY <2>3 DEF OpenOf, Written
    <3> QED BY <2>1, <3>1 DEF Now
  <2> QED BY <2>2, <2>3
<1> HIDE DEF store
<1>4. IsStore(store)
  <2>1. ASSUME NEW l \in DOMAIN store.files PROVE l \in Layers /\ IsRecord(store.files[l])
    <3>1. l \in Layers
      BY <1>3 DEF Written, WritePath, SettingsInv, ConfigTypeOK, IsFiles, Layers
    <3>2. CASE l \in DOMAIN stored
      BY <1>3, <3>1, <3>2 DEF Now, SettingsInv, ConfigTypeOK, IsFiles
    <3>3. CASE l \notin DOMAIN stored
      BY <1>3, <3>1, <3>3 DEF Now, EmptyFile, IsRecord
    <3> QED BY <3>2, <3>3
  <2> QED BY <2>1, <1>3 DEF IsStore, IsFiles
<1>5. StoreFits(store)
  BY <1>3 DEF StoreFits, SameServers, SameEntries
<1>6. ConfigTypeOK'
  <2>1. ASSUME NEW k \in Holders, opened'[k] # NotOpen PROVE IsStore(opened'[k])
    BY <1>2, <1>4, <2>1 DEF SettingsInv, ConfigTypeOK
  <2>2. ASSUME NEW j \in jobs'
        PROVE  j.holder \in Holders /\ opened'[j.holder] # NotOpen /\ j.name \in Providers
    BY <1>1, <1>2 DEF SettingsInv, ConfigTypeOK
  <2> QED BY <1>1, <1>2, <2>1, <2>2 DEF SettingsInv, ConfigTypeOK
<1>7. StoresFit'
  <2>1. ASSUME NEW k \in Holders, opened'[k] # NotOpen PROVE StoreFits(opened[k])'
    <3>1. StoreFits(opened'[k])
      BY <1>2, <1>5, <2>1 DEF SettingsInv, StoresFit
    <3> QED BY <3>1, <1>1 DEF StoreFits, Written, Now
  <2> QED BY <2>1 DEF StoresFit
<1>8. PromisesKept' /\ LoadsAgain'
  BY <1>1, SameFilesHold DEF SettingsInv
<1> QED BY <1>6, <1>7, <1>8 DEF SettingsInv

LEMMA ExitStoreKeeps ==
  ASSUME SettingsInv, UNCHANGED env, NEW h \in Holders, ExitStore(h)
  PROVE  SettingsInv'
<1>1. UNCHANGED <<stored, promised, overwritten>> /\ jobs' = {j \in jobs : j.holder # h}
  BY DEF ExitStore
<1>2. /\ opened' = [k \in Holders |-> opened'[k]]
      /\ opened'[h] = NotOpen
      /\ \A k \in Holders \ {h} : opened'[k] = opened[k]
  BY DEF ExitStore, SettingsInv, ConfigTypeOK
<1>3. ConfigTypeOK'
  <2>1. ASSUME NEW k \in Holders, opened'[k] # NotOpen PROVE IsStore(opened'[k])
    BY <1>2, <2>1 DEF SettingsInv, ConfigTypeOK
  <2>2. ASSUME NEW j \in jobs'
        PROVE  j.holder \in Holders /\ opened'[j.holder] # NotOpen /\ j.name \in Providers
    BY <1>1, <1>2 DEF SettingsInv, ConfigTypeOK
  <2> QED BY <1>1, <1>2, <2>1, <2>2 DEF SettingsInv, ConfigTypeOK
<1>4. StoresFit'
  <2>1. ASSUME NEW k \in Holders, opened'[k] # NotOpen PROVE StoreFits(opened[k])'
    <3>1. StoreFits(opened'[k])
      BY <1>2, <2>1 DEF SettingsInv, StoresFit
    <3> QED BY <3>1, <1>1 DEF StoreFits, Written, Now
  <2> QED BY <2>1 DEF StoresFit
<1>5. PromisesKept' /\ LoadsAgain'
  BY <1>1, SameFilesHold DEF SettingsInv
<1> QED BY <1>3, <1>4, <1>5 DEF SettingsInv

\* A command between its two calls.
LEMMA JobsKeep ==
  ASSUME SettingsInv, UNCHANGED <<env, stored, opened, promised, overwritten>>,
         \A j \in jobs' :
           j.holder \in Holders /\ opened[j.holder] # NotOpen /\ j.name \in Providers
  PROVE  SettingsInv'
<1>1. ConfigTypeOK'
  BY DEF SettingsInv, ConfigTypeOK
<1>2. StoresFit'
  BY DEF SettingsInv, StoresFit, StoreFits, Written, Now
<1>3. PromisesKept' /\ LoadsAgain'
  BY SameFilesHold DEF SettingsInv
<1> QED BY <1>1, <1>2, <1>3 DEF SettingsInv

\* Files and promises with some of their fields replaced.
LEMMA FileWith ==
  ASSUME NEW doc, IsRecord(doc), NEW providers, NEW removed, NEW active
  PROVE  [doc EXCEPT !.providers = providers, !.removed = removed, !.active = active]
           = [active |-> active, providers |-> providers, removed |-> removed,
              server |-> doc.server]
<1> DEFINE one == [doc EXCEPT !.providers = providers]
           two == [one EXCEPT !.removed = removed]
<1>1. one = [active |-> doc.active, providers |-> providers, removed |-> doc.removed,
             server |-> doc.server]
  BY DEF IsRecord
<1> HIDE DEF one
<1>2. two = [active |-> doc.active, providers |-> providers, removed |-> removed,
             server |-> doc.server]
  BY <1>1
<1> HIDE DEF two
<1>3. [two EXCEPT !.active = active]
        = [active |-> active, providers |-> providers, removed |-> removed,
           server |-> doc.server]
  BY <1>2
<1> QED BY <1>3 DEF one, two

LEMMA PromiseWith ==
  ASSUME NEW p, IsPromise(p), NEW n \in Providers, NEW settings, NEW active
  PROVE  [p EXCEPT !.providers[n] = settings, !.active = active]
           = [providers |-> [p.providers EXCEPT ![n] = settings], gone |-> p.gone,
              active |-> active, server |-> p.server]
<1> DEFINE providers == [p.providers EXCEPT ![n] = settings]
           one == [p EXCEPT !.providers = providers]
<1> HIDE DEF providers
<1>1. one = [providers |-> providers, gone |-> p.gone, active |-> p.active, server |-> p.server]
  BY DEF IsPromise
<1> HIDE DEF one
<1>2. [one EXCEPT !.active = active]
        = [providers |-> providers, gone |-> p.gone, active |-> active, server |-> p.server]
  BY <1>1
<1> QED BY <1>2 DEF one, providers

\* The promise a change of one provider makes.
Made(n, settings, active, gone, promise) ==
  /\ IsPromise(promise) /\ promise.server = promised.server
  /\ promise.gone = gone /\ promise.active = active
  /\ \A m \in Providers :
       promise.providers[m] = IF m = n THEN settings ELSE promised.providers[m]

LEMMA StillGone ==
  ASSUME ConfigTypeOK, NEW n \in Providers, NEW settings, NEW active
  PROVE  Promise(n, settings, active).gone = promised.gone
<1>1. Promise(n, settings, active)
        = [providers |-> [promised.providers EXCEPT ![n] = settings], gone |-> promised.gone,
           active |-> active, server |-> promised.server]
  BY PromiseWith DEF ConfigTypeOK, Promise
<1> QED BY <1>1

LEMMA PromiseMade ==
  ASSUME ConfigTypeOK, NEW n \in Providers, NEW settings, NEW active, NEW gone
  PROVE  Made(n, settings, active, gone, [Promise(n, settings, active) EXCEPT !.gone = gone])
<1> DEFINE made == Promise(n, settings, active)
           providers == [promised.providers EXCEPT ![n] = settings]
<1>1. made = [providers |-> providers, gone |-> promised.gone, active |-> active,
              server |-> promised.server]
  BY PromiseWith DEF ConfigTypeOK, Promise
<1>2. /\ providers = [m \in Providers |-> providers[m]]
      /\ \A m \in Providers : providers[m] = IF m = n THEN settings ELSE promised.providers[m]
  BY DEF ConfigTypeOK, IsPromise
<1> HIDE DEF made, providers
<1>3. [made EXCEPT !.gone = gone]
        = [providers |-> providers, gone |-> gone, active |-> active, server |-> promised.server]
  BY <1>1
<1>4. Made(n, settings, active, gone, [made EXCEPT !.gone = gone])
  BY <1>2, <1>3 DEF Made, IsPromise
<1> QED BY <1>4 DEF made

\* Store.UpdateProvider writes what was promised.
Redeems(doc, written, promise) ==
  /\ IsRecord(written) /\ written.server = doc.server
  /\ IsPromise(promise) /\ promise.server = promised.server
  /\ KeptIn(doc, promised) => KeptIn(written, promise)

LEMMA PatchKeepsPromises ==
  ASSUME ConfigTypeOK, NEW doc, IsRecord(doc), NEW n \in Providers, NEW patch,
         NEW activate
  PROVE  LET written == Patched(doc, n, patch, activate)
             promise == [Promise(n, Apply(promised.providers[n], patch),
                                 IF activate THEN n ELSE promised.active)
                           EXCEPT !.gone = @ \ {n}]
         IN  Redeems(doc, written, promise)
<1> DEFINE settings == Apply(promised.providers[n], patch)
           active == IF activate THEN n ELSE promised.active
           written == Patched(doc, n, patch, activate)
           made == Promise(n, settings, active)
           promise == [made EXCEPT !.gone = @ \ {n}]
           entry == [f \in Fields |-> IF f \in DOMAIN patch THEN patch[f]
                                     ELSE Setting(doc.providers, n, f)]
<1>1. /\ IsRecord(written) /\ written.server = doc.server
      /\ written.removed = doc.removed \ {n}
      /\ written.active = IF activate THEN n ELSE doc.active
      /\ written.providers = [m \in DOMAIN doc.providers \cup {n} |->
                                IF m # n THEN doc.providers[m] ELSE entry]
  <2> DEFINE providers == [m \in DOMAIN doc.providers \cup {n} |->
                              IF m # n THEN doc.providers[m] ELSE entry]
             removed == doc.removed \ {n}
             name == IF activate THEN n ELSE doc.active
  <2>1. written = [doc EXCEPT !.providers = providers, !.removed = removed, !.active = name]
    <3> HIDE DEF entry
    <3> QED BY DEF IsRecord, Patched, entry
  <2> HIDE DEF providers, removed, name
  <2>2. written = [active |-> name, providers |-> providers, removed |-> removed,
                   server |-> doc.server]
    BY <2>1, FileWith
  <2> HIDE DEF written
  <2> QED BY <2>2 DEF IsRecord, providers, removed, name
<1>2. made.gone = promised.gone
  BY StillGone
<1>3. promise = [made EXCEPT !.gone = promised.gone \ {n}]
  <2> HIDE DEF made
  <2> QED BY <1>2
<1>4. /\ IsPromise(promise) /\ promise.server = promised.server
      /\ promise.gone = promised.gone \ {n} /\ promise.active = active
      /\ \A m \in Providers :
           promise.providers[m] = IF m = n THEN settings ELSE promised.providers[m]
  <2> HIDE DEF promise, settings, active
  <2>1. Made(n, settings, active, promised.gone \ {n}, promise)
    BY <1>3, PromiseMade
  <2> QED BY <2>1 DEF Made
<1>6. ASSUME KeptIn(doc, promised) PROVE KeptIn(written, promise)
  <2>1. promise.gone \subseteq written.removed
    <3> HIDE DEF settings, active, promise, written
    <3> QED BY <1>1, <1>4, <1>6 DEF KeptIn
  <2>2. ASSUME NEW m \in Providers, NEW f \in Fields, promise.providers[m][f] # Unset
        PROVE  m \notin written.removed /\ Setting(written.providers, m, f) = promise.providers[m][f]
    <3>1. CASE m = n
      <4>1. promise.providers[m][f] = IF f \in DOMAIN patch THEN patch[f]
                                      ELSE promised.providers[n][f]
        <5> HIDE DEF promise
        <5> QED BY <1>4, <3>1 DEF Apply
      <4>2. Setting(written.providers, m, f) = entry[f]
        <5> HIDE DEF written, entry
        <5> QED BY <1>1, <3>1 DEF Setting
      <4> HIDE DEF promise, written
      <4>3. f \notin DOMAIN patch => Setting(doc.providers, n, f) = promised.providers[n][f]
        BY <1>6, <2>2, <4>1 DEF KeptIn
      <4> QED BY <1>1, <3>1, <4>1, <4>2, <4>3
    <3>2. CASE m # n
      <4> HIDE DEF promise, written, settings, entry
      <4> QED BY <1>1, <1>4, <1>6, <2>2, <3>2 DEF KeptIn, Setting
    <3> QED BY <3>1, <3>2
  <2>3. promise.active # Missing => written.active = promise.active
    <3> HIDE DEF settings, promise, written
    <3> QED BY <1>1, <1>4, <1>6 DEF KeptIn
  <2> QED BY <2>1, <2>2, <2>3 DEF KeptIn
<1>7. Redeems(doc, written, promise)
  <2> HIDE DEF written, promise
  <2> QED BY <1>1, <1>4, <1>6 DEF Redeems
<1> QED BY <1>7

\* Store.DeleteProvider too.
LEMMA WithoutKeepsPromises ==
  ASSUME ConfigTypeOK, NEW doc, IsRecord(doc), NEW n \in Providers, NEW active
  PROVE  LET written == Without(doc, n, active)
             promise == [Promise(n, Blank, active) EXCEPT !.gone = @ \cup {n}]
         IN  Redeems(doc, written, promise)
<1> DEFINE written == Without(doc, n, active)
           made == Promise(n, Blank, active)
           promise == [made EXCEPT !.gone = @ \cup {n}]
<1>1. /\ IsRecord(written) /\ written.server = doc.server
      /\ written.removed = doc.removed \cup {n}
      /\ written.active = active
      /\ written.providers = [m \in DOMAIN doc.providers \ {n} |-> doc.providers[m]]
  <2> DEFINE providers == [m \in DOMAIN doc.providers \ {n} |-> doc.providers[m]]
             removed == doc.removed \cup {n}
  <2>1. written = [doc EXCEPT !.providers = providers, !.removed = removed, !.active = active]
    BY DEF Without, WithoutAndNamed
  <2> HIDE DEF providers, removed
  <2>2. written = [active |-> active, providers |-> providers, removed |-> removed,
                   server |-> doc.server]
    BY <2>1, FileWith
  <2> HIDE DEF written
  <2> QED BY <2>2 DEF IsRecord, providers, removed
<1>2. made.gone = promised.gone
  BY StillGone
<1>3. promise = [made EXCEPT !.gone = promised.gone \cup {n}]
  <2> HIDE DEF made
  <2> QED BY <1>2
<1>4. Made(n, Blank, active, promised.gone \cup {n}, promise)
  <2> HIDE DEF promise
  <2> QED BY <1>3, PromiseMade
<1>5. ASSUME KeptIn(doc, promised) PROVE KeptIn(written, promise)
  <2> HIDE DEF promise, written
  <2>1. promise.gone \subseteq written.removed
    BY <1>1, <1>4, <1>5 DEF KeptIn, Made
  <2>2. ASSUME NEW m \in Providers, NEW f \in Fields, promise.providers[m][f] # Unset
        PROVE  m \notin written.removed /\ Setting(written.providers, m, f) = promise.providers[m][f]
    <3>1. m # n
      BY <1>4, <2>2 DEF Made, Blank
    <3> QED BY <1>1, <1>4, <1>5, <2>2, <3>1 DEF KeptIn, Setting, Made
  <2>3. promise.active # Missing => written.active = promise.active
    BY <1>1, <1>4 DEF Made
  <2> QED BY <2>1, <2>2, <2>3 DEF KeptIn
<1>6. Redeems(doc, written, promise)
  <2> HIDE DEF written, promise
  <2> QED BY <1>1, <1>4, <1>5 DEF Redeems, Made
<1> QED BY <1>6

LEMMA MineIsRecord ==
  ASSUME ConfigTypeOK, NEW h \in Holders, opened[h] # NotOpen
  PROVE  IsRecord(Mine(h))
BY DEF ConfigTypeOK, IsStore, IsFiles, Mine

LEMMA UpsertKeeps ==
  ASSUME SettingsInv, UNCHANGED env, NEW h \in Holders, opened[h] # NotOpen,
         NEW n \in Providers, NEW patch, NEW activate, Upsert(h, n, patch, activate),
         \A j \in jobs' : j \in jobs \/ (j.holder = h /\ j.name \in Providers)
  PROVE  SettingsInv'
<1> DEFINE chosen == activate \/ opened[h].config.active = NoProvider
           doc == Patched(Mine(h), n, patch, chosen)
           promise == [Promise(n, Apply(promised.providers[n], patch),
                               IF chosen THEN n ELSE promised.active) EXCEPT !.gone = @ \ {n}]
<1>1. Update(h, opened[h].path, doc, promise)
  BY DEF Upsert
<1>2. IsRecord(Mine(h)) /\ ConfigTypeOK
  BY MineIsRecord DEF SettingsInv
<1>3. Redeems(Mine(h), doc, promise)
  <2> HIDE DEF chosen
  <2> QED BY <1>2, PatchKeepsPromises
<1> HIDE DEF doc, promise
<1> QED BY <1>1, <1>3, ProviderUpdateKeeps DEF Redeems

LEMMA DeleteKeeps ==
  ASSUME SettingsInv, UNCHANGED env, NEW h \in Holders, opened[h] # NotOpen,
         NEW n \in Providers, NEW replacement, Delete(h, n, replacement), jobs' \subseteq jobs
  PROVE  SettingsInv'
<1>1. PICK active : Update(h, opened[h].path, Without(Mine(h), n, active),
                           [Promise(n, Blank, active) EXCEPT !.gone = @ \cup {n}])
  BY DEF Delete
<1> DEFINE doc == Without(Mine(h), n, active)
           promise == [Promise(n, Blank, active) EXCEPT !.gone = @ \cup {n}]
<1>2. Update(h, opened[h].path, doc, promise)
  BY <1>1
<1>3. IsRecord(Mine(h)) /\ ConfigTypeOK
  BY MineIsRecord DEF SettingsInv
<1>4. Redeems(Mine(h), doc, promise)
  BY <1>3, WithoutKeepsPromises
<1> HIDE DEF doc, promise
<1> QED BY <1>2, <1>4, ProviderUpdateKeeps DEF Redeems

LEMMA UseKeeps ==
  ASSUME SettingsInv, UNCHANGED env, NEW h \in Holders, NEW n \in Providers, Use(h, n)
  PROVE  SettingsInv'
<1> DEFINE doc == [Mine(h) EXCEPT !.active = n]
           promise == [promised EXCEPT !.active = n]
<1>1. /\ opened[h] # NotOpen /\ UNCHANGED jobs
      /\ Update(h, opened[h].path, doc, promise)
  BY DEF Use
<1>2. IsRecord(Mine(h)) /\ IsPromise(promised)
  BY <1>1, MineIsRecord DEF SettingsInv, ConfigTypeOK
<1>3. /\ IsRecord(doc) /\ doc.server = Mine(h).server
      /\ doc.active = n /\ doc.providers = Mine(h).providers
      /\ doc.removed = Mine(h).removed
  <2>1. \A old : IsRecord(old) =>
          LET new == [old EXCEPT !.active = n]
          IN  /\ IsRecord(new) /\ new.server = old.server /\ new.active = n
              /\ new.providers = old.providers /\ new.removed = old.removed
    BY DEF IsRecord
  <2> QED BY <1>2, <2>1
<1>4. /\ IsPromise(promise) /\ promise.server = promised.server
      /\ promise.active = n /\ promise.providers = promised.providers
      /\ promise.gone = promised.gone
  BY <1>2 DEF IsPromise
<1> HIDE DEF doc, promise
<1>5. KeptIn(Mine(h), promised) => KeptIn(doc, promise)
  BY <1>3, <1>4 DEF KeptIn
<1> QED BY <1>1, <1>3, <1>4, <1>5, ProviderUpdateKeeps

LEMMA ConfigStepKeeps ==
  ASSUME SettingsInv, [ConfigNext]_configVars
  PROVE  SettingsInv'
<1>1. CASE UNCHANGED configVars
  BY <1>1, JobsKeep DEF configVars, SettingsInv, ConfigTypeOK
<1> SUFFICES ASSUME ConfigStep, UNCHANGED env PROVE SettingsInv'
  BY <1>1 DEF ConfigNext
<1>2. CASE \E h \in Holders : OpenStore(h) \/ ExitStore(h)
  BY <1>2, OpenStoreKeeps, ExitStoreKeeps
<1>3. ASSUME NEW h \in Holders, NEW n \in Providers, Use(h, n) PROVE SettingsInv'
  BY <1>3, UseKeeps
<1>4. ASSUME NEW h \in Holders, NEW n \in Providers, Drop(h, n) PROVE SettingsInv'
  BY <1>4, DeleteKeeps DEF Drop
<1>5. ASSUME NEW h \in Holders, NEW n \in Providers, NEW patch, NEW activate,
             SaveProvider(h, n, patch, activate)
      PROVE  SettingsInv'
  BY <1>5, UpsertKeeps DEF SaveProvider
<1>6. ASSUME NEW h \in Holders, NEW n \in Providers, NEW v, ChooseModel(h, n, v)
      PROVE  SettingsInv'
  <2>1. \A j \in jobs' :
          j.holder \in Holders /\ opened[j.holder] # NotOpen /\ j.name \in Providers
    BY <1>6 DEF ChooseModel, SettingsInv, ConfigTypeOK
  <2> QED BY <1>6, <2>1, JobsKeep DEF ChooseModel
<1>7. ASSUME NEW h \in Holders, NEW old \in Providers, NEW new \in Providers,
             Rename(h, old, new)
      PROVE  SettingsInv'
  <2>1. opened[h] # NotOpen /\ Upsert(h, new, Sparse(opened[h].config.providers[old]), TRUE)
    BY <1>7 DEF Rename
  <2>2. \A j \in jobs' : j \in jobs \/ (j.holder = h /\ j.name \in Providers)
    BY <1>7 DEF Rename
  <2> QED BY <2>1, <2>2, UpsertKeeps
<1>8. ASSUME NEW h \in Holders, NEW enabled \in {"enabled", "disabled"}, Toggle(h, enabled)
      PROVE  SettingsInv'
  BY <1>8, ToggleKeeps
<1>9. ASSUME NEW j \in jobs, SetModel(j) PROVE SettingsInv'
  <2>1. j.holder \in Holders /\ opened[j.holder] # NotOpen /\ j.name \in Providers
    BY DEF SettingsInv, ConfigTypeOK
  <2>2. jobs' \subseteq jobs
    BY <1>9 DEF SetModel
  <2>3. CASE Upsert(j.holder, j.name, [f \in {"model"} |-> j.value], j.active)
    BY <2>1, <2>2, <2>3, UpsertKeeps
  <2>4. CASE UNCHANGED <<stored, opened, promised, overwritten, updates>>
    BY <2>2, <2>4, JobsKeep DEF SettingsInv, ConfigTypeOK
  <2> QED BY <1>9, <2>3, <2>4 DEF SetModel
<1>10. ASSUME NEW j \in jobs, Renamed(j) PROVE SettingsInv'
  <2>1. j.holder \in Holders /\ opened[j.holder] # NotOpen /\ j.name \in Providers
    BY DEF SettingsInv, ConfigTypeOK
  <2>2. jobs' \subseteq jobs
    BY <1>10 DEF Renamed
  <2>3. CASE Delete(j.holder, j.name, j.value)
    BY <2>1, <2>2, <2>3, DeleteKeeps
  <2>4. CASE UNCHANGED <<stored, opened, promised, overwritten, updates>>
    BY <2>2, <2>4, JobsKeep DEF SettingsInv, ConfigTypeOK
  <2> QED BY <1>10, <2>3, <2>4 DEF Renamed
<1>11. CASE \E h \in Holders, n \in Providers :
         \/ Use(h, n) \/ Drop(h, n)
         \/ \E v \in Values, activate \in BOOLEAN :
              \/ SaveProvider(h, n, [f \in {"endpoint", "model"} |-> v], activate)
              \/ SaveProvider(h, n, [f \in {"option"} |-> v], activate)
         \/ h \in Sessions /\ \E v \in Values : ChooseModel(h, n, v)
         \/ \E new \in Providers : Rename(h, n, new)
  <2>1. PICK h \in Holders, n \in Providers :
         \/ Use(h, n) \/ Drop(h, n)
         \/ \E v \in Values, activate \in BOOLEAN :
              \/ SaveProvider(h, n, [f \in {"endpoint", "model"} |-> v], activate)
              \/ SaveProvider(h, n, [f \in {"option"} |-> v], activate)
         \/ h \in Sessions /\ \E v \in Values : ChooseModel(h, n, v)
         \/ \E new \in Providers : Rename(h, n, new)
    BY <1>11
  <2>2. CASE Use(h, n) \/ Drop(h, n)
    BY <2>2, <1>3, <1>4
  <2>3. ASSUME NEW v \in Values, NEW activate \in BOOLEAN,
               \/ SaveProvider(h, n, [f \in {"endpoint", "model"} |-> v], activate)
               \/ SaveProvider(h, n, [f \in {"option"} |-> v], activate)
        PROVE  SettingsInv'
    BY <2>3, <1>5
  <2>4. CASE h \in Sessions /\ \E v \in Values : ChooseModel(h, n, v)
    BY <2>4, <1>6
  <2>5. CASE \E new \in Providers : Rename(h, n, new)
    BY <2>5, <1>7
  <2> QED BY <2>1, <2>2, <2>3, <2>4, <2>5
<1>12. CASE \E h \in Commands, enabled \in {"enabled", "disabled"} : Toggle(h, enabled)
  BY <1>12, <1>8 DEF Holders
<1>13. CASE \E j \in jobs : SetModel(j) \/ Renamed(j)
  BY <1>13, <1>9, <1>10
<1> QED BY <1>2, <1>11, <1>12, <1>13 DEF ConfigStep

LEMMA ConfigInvHolds == ConfigSpec => []SettingsInv
<1>1. ConfigInit => SettingsInv
  <2> SUFFICES ASSUME ConfigInit PROVE SettingsInv
    OBVIOUS
  <2>1. PICK start \in Starts : stored = start.files
    BY DEF ConfigInit
  <2>2. IsFiles(stored)
    BY <2>1, StartsAssumption DEF IsFiles, IsFile, IsRecord
  <2>3. /\ IsPromise(promised) /\ promised.gone = {} /\ promised.active = Missing
        /\ promised.server = "absent"
        /\ \A n \in Providers, f \in Fields : promised.providers[n][f] = Unset
    BY DEF ConfigInit, IsPromise, Blank
  <2>4. ConfigTypeOK /\ StoresFit
    BY <2>2, <2>3 DEF ConfigInit, ConfigTypeOK, StoresFit
  <2>5. PromisesKept
    BY <2>3 DEF PromisesKept, KeptIn, ServerKept
  <2> QED BY <2>4, <2>5 DEF ConfigInit, SettingsInv, LoadsAgain
<1>2. SettingsInv /\ [ConfigNext]_configVars => SettingsInv'
  BY ConfigStepKeeps
<1> QED BY <1>1, <1>2, PTL DEF ConfigSpec

LEMMA ServerResolves ==
  Resolve(stored).server =
    IF "project" \in DOMAIN stored /\ stored["project"].server # "absent"
    THEN stored["project"].server
    ELSE IF "user" \in DOMAIN stored THEN stored["user"].server ELSE "absent"
<1> DEFINE A1 == Laid(Default, stored, "user")
           A2 == Laid(A1, stored, "project")
<1>1. A1.server = IF "user" \in DOMAIN stored THEN stored["user"].server ELSE "absent"
  BY DEF Laid, Default, Overlay
<1>2. A1 = [active |-> A1.active, providers |-> A1.providers, server |-> A1.server]
  BY DEF Laid, Default, Overlay
<1>3. Resolve(stored) = Environment(A2)
  BY DEF Resolve, Laid, Default
<1> HIDE DEF A1
<1>4. /\ A2.server = IF "project" \in DOMAIN stored /\ stored["project"].server # "absent"
                     THEN stored["project"].server ELSE A1.server
      /\ A2 = [active |-> A2.active, providers |-> A2.providers, server |-> A2.server]
  BY <1>2 DEF Laid, Overlay
<1> HIDE DEF A2
<1>5. Environment(A2).server = A2.server
  BY <1>4 DEF Environment
<1> QED BY <1>1, <1>3, <1>4, <1>5

LEMMA KeptIsEffective ==
  ASSUME SettingsInv
  PROVE  AcknowledgedChangesHold
<1> SUFFICES ASSUME ~overwritten PROVE Keeps(Resolve(stored))
  BY DEF AcknowledgedChangesHold
<1> DEFINE cfg == Resolve(stored)
<1>1. KeptIn(Now(Written), promised) /\ ServerKept
  BY DEF SettingsInv, PromisesKept
<1>2. CASE DOMAIN stored = {}
  <2>1. /\ promised.gone = {} /\ promised.active = Missing
        /\ \A n \in Providers, f \in Fields : promised.providers[n][f] = Unset
    BY <1>1, <1>2 DEF KeptIn, Now, EmptyFile, Setting
  <2>2. promised.server = "absent"
    BY <1>1, <1>2 DEF ServerKept, ServerSource
  <2> QED BY <2>1, <2>2 DEF Keeps
<1>3. CASE DOMAIN stored # {}
  <2> DEFINE doc == stored[Written]
  <2>1. PICK base : cfg = Environment(Overlay(base, doc))
    BY <1>3, WrittenDecides DEF SettingsInv
  <2>2. Written \in DOMAIN stored
    BY <1>3 DEF Written, WritePath, SettingsInv, ConfigTypeOK, IsFiles, Layers
  <2>3. KeptIn(doc, promised)
    BY <1>1, <2>2 DEF Now
  <2> DEFINE laid == Overlay(base, doc)
  <2>4. /\ laid = [active |-> laid.active, providers |-> laid.providers, server |-> laid.server]
        /\ laid.active = IF doc.active = Missing THEN base.active ELSE doc.active
        /\ laid.providers =
             [n \in (DOMAIN base.providers \cup DOMAIN doc.providers) \ doc.removed |->
                [f \in Fields |-> IF Setting(doc.providers, n, f) # Unset
                                  THEN doc.providers[n][f]
                                  ELSE Setting(base.providers, n, f)]]
    BY DEF Overlay
  <2>5. /\ cfg.active = IF env.active = Missing THEN laid.active ELSE env.active
        /\ cfg.server = laid.server
        /\ cfg.providers = [n \in DOMAIN laid.providers |->
              IF n = cfg.active /\ env.model # Unset
              THEN [laid.providers[n] EXCEPT !.model = env.model] ELSE laid.providers[n]]
    <3> HIDE DEF laid, cfg
    <3> QED BY <2>1, <2>4 DEF Environment, laid
  <2> HIDE DEF laid, cfg, doc
  <2>6. promised.gone \cap DOMAIN cfg.providers = {}
    BY <2>3, <2>4, <2>5 DEF KeptIn
  <2>7. ASSUME NEW n \in Providers, NEW f \in Fields, promised.providers[n][f] # Unset,
               ~(f = "model" /\ n = cfg.active /\ env.model # Unset)
        PROVE  Setting(cfg.providers, n, f) = promised.providers[n][f]
    <3>1. n \notin doc.removed /\ Setting(doc.providers, n, f) = promised.providers[n][f]
      BY <2>3, <2>7 DEF KeptIn
    <3>2. n \in DOMAIN doc.providers /\ doc.providers[n][f] = promised.providers[n][f]
      BY <2>7, <3>1 DEF Setting
    <3>3. n \in DOMAIN laid.providers /\ laid.providers[n][f] = promised.providers[n][f]
      BY <2>4, <2>7, <3>1, <3>2
    <3>4. DOMAIN laid.providers[n] = Fields
      BY <2>4, <3>1, <3>2
    <3>5. cfg.providers[n][f] = laid.providers[n][f]
      BY <2>5, <2>7, <3>3, <3>4
    <3> QED BY <2>5, <3>3, <3>5 DEF Setting
  <2>8. promised.active = Missing \/ env.active # Missing \/ cfg.active = promised.active
    BY <2>3, <2>4, <2>5 DEF KeptIn
  <2>9. promised.server = "absent" \/ cfg.server = promised.server
    <3>1. cfg.server = IF "project" \in DOMAIN stored /\ stored["project"].server # "absent"
                       THEN stored["project"].server
                       ELSE IF "user" \in DOMAIN stored THEN stored["user"].server ELSE "absent"
      BY ServerResolves DEF cfg
    <3>2. SUFFICES ASSUME promised.server # "absent" PROVE cfg.server = promised.server
      OBVIOUS
    <3>3. PICK l \in ServerSource(stored) : stored[l].server = promised.server
      BY <1>1, <3>2 DEF ServerKept
    <3>4. l \in DOMAIN stored /\ l \in {"user", "project"}
      BY <3>3 DEF ServerSource, SettingsInv, ConfigTypeOK, IsFiles, Layers
    <3>5. CASE "project" \in DOMAIN stored /\ stored["project"].server # "absent"
      <4>1. l = "project"
        BY <3>3, <3>5 DEF ServerSource
      <4> QED BY <3>1, <3>3, <3>5, <4>1
    <3>6. CASE ~("project" \in DOMAIN stored /\ stored["project"].server # "absent")
      <4>1. l = "user"
        BY <3>2, <3>3, <3>4, <3>6
      <4> QED BY <3>1, <3>3, <3>4, <3>6, <4>1
    <3> QED BY <3>5, <3>6
  <2> QED BY <2>6, <2>7, <2>8, <2>9 DEF Keeps, cfg
<1> QED BY <1>2, <1>3

\* The configuration (config/store.go:293-329, 443-470, provider/manager.go): whatever
\* stores race, are killed or fail between the two halves of a rename, the files load,
\* and everything acknowledged is effective until a store replaces a file it had not
\* read.  For any providers, values, terminals, commands and layers to start with.
THEOREM SettingsAlwaysHold == ConfigSpec => []SettingsHold
<1>1. SettingsInv => SettingsHold
  BY KeptIsEffective DEF SettingsInv, SettingsHold
<1> QED BY <1>1, ConfigInvHolds, PTL

-----------------------------------------------------------------------------
(***************************************************************************)
(* Installation of skills, for any number of installers, skills and        *)
(* versions: the directories hold whole trees, none is lost, and the lock  *)
(* file lists them.  An installer that works on a skill alone knows where  *)
(* the skill's tree is at each of its steps; the invariant says where.     *)
(***************************************************************************)

Trees == Versions \cup {Absent, Broken}
Listing == [Skills -> Versions \cup {Absent}]
Steps == {"idle", "stage", "lock", "away", "in", "write", "remove", "removing", "back", "commit"}

\* Where an installer is.
Errand ==
  [at : Steps, skill : Skills \cup {"none"}, version : Versions \cup {0},
   staging : Versions \cup {Absent}, backup : Trees, lock : Listing \cup {<<>>}]
Progress == [Installers -> Errand]

InstallTypeOK ==
  /\ target \in [Skills -> Trees]
  /\ teamLock \in Listing
  /\ inst \in Progress
  /\ before \subseteq Skills
  /\ overlapped \in BOOLEAN

\* What an installer carries from one step to the next.
Carrying ==
  \A i \in Installers :
    /\ Working(i) => inst[i].skill \in Skills /\ inst[i].version \in Versions
    /\ inst[i].at \in {"lock", "away", "in"} => inst[i].staging = inst[i].version
    /\ inst[i].at \in {"away", "in", "write"} => inst[i].lock \in Listing
    /\ inst[i].at \in {"idle", "stage", "lock", "away"} => inst[i].backup = Absent

\* Two that work at the same time are known to, and so is a skill they share.
Contention ==
  \A i, j \in Installers : i # j /\ Working(i) /\ Working(j) =>
    /\ overlapped
    /\ inst[i].skill = inst[j].skill => inst[i].skill \in contended

\* An installer that works on its skill alone knows what is in the directory.
Placed ==
  \A i \in Installers : inst[i].skill \notin contended \/ ~overlapped =>
    /\ inst[i].at \in {"in", "back"} => target[inst[i].skill] = Absent
    /\ inst[i].at \in {"write", "remove", "commit"} => target[inst[i].skill] = inst[i].version

\* A backup is a whole tree, unless the removal of a tree was killed or failed.
BackupIsWhole ==
  \A i \in Installers : Working(i) /\ inst[i].skill \notin contended =>
    \/ inst[i].backup # Broken
    \/ <<inst[i].skill, "removing">> \in killed \cup stuck

\* While an installer has a skill's tree aside, an installed one is in a backup.
AsideIsKept ==
  \A i \in Installers :
    Aside(i) /\ inst[i].skill \in before \ contended
    => \/ Complete(inst[i].backup)
       \/ \E b \in backups : b[1] = inst[i].skill /\ Complete(b[2])

\* One installation after the other: the lock file lists the directories, but for a skill
\* whose undoing failed, and for the skill being replaced, whose old tree it lists.
LockFollows ==
  killed = {} /\ ~overlapped =>
    /\ (\A i \in Installers : ~Working(i)) =>
         \A s \in Skills : Settled(s) => teamLock[s] = target[s]
    /\ \A i \in Installers : \A s \in Skills :
         /\ inst[i].at \in {"stage", "lock", "away"} /\ Settled(s) => teamLock[s] = target[s]
         /\ Aside(i) /\ Settled(s) =>
              teamLock[s] = IF s = inst[i].skill THEN inst[i].backup ELSE target[s]
         /\ inst[i].at = "commit" /\ (Settled(s) \/ s = inst[i].skill) => teamLock[s] = target[s]

\* The lock file that an installer has in hand is the one on the disk with its line.
LockInHand ==
  ~overlapped =>
    \A i \in Installers : inst[i].at \in {"away", "in", "write"} =>
      inst[i].lock = [teamLock EXCEPT ![inst[i].skill] = inst[i].version]

InstallInv ==
  /\ InstallTypeOK /\ Carrying /\ Contention /\ Placed /\ TargetIsWhole /\ BackupIsWhole
  /\ InstalledSurvives /\ AsideIsKept /\ LockFollows /\ LockInHand

-----------------------------------------------------------------------------
USE InstallAssumption DEF Versions, Absent, Broken

LEMMA BeginInstallKeeps ==
  ASSUME InstallInv, NEW i \in Installers, NEW s \in Skills, NEW v \in Versions, BeginInstall(i,
      s, v)
  PROVE  InstallInv'
  <1> USE DEF InstallInv, BeginInstall, IdleInst
  <1>1. InstallTypeOK'  BY DEF InstallTypeOK, Progress, Errand, Trees, Listing, Steps
  <1>2. Carrying'  BY DEF Carrying, Working
  <1>3. Contention'  BY DEF Contention, InstallTypeOK, Progress, Errand, Working
  <1>4. Placed'  BY DEF Placed, InstallTypeOK, Progress, Errand, Working
  <1>5. TargetIsWhole'  BY DEF TargetIsWhole, InstallTypeOK, Progress, Errand, Working
  <1>6. BackupIsWhole'  BY DEF BackupIsWhole, Working
  <1>7. InstalledSurvives'
    BY SMTT(30) DEF InstalledSurvives, AsideIsKept, Placed, Carrying, Contention, InstallTypeOK,
        Progress,
      Errand, Working, Aside, Complete
  <1>8. AsideIsKept'
    BY SMTT(30) DEF AsideIsKept, InstalledSurvives, Placed, Carrying, Contention, InstallTypeOK,
        Progress,
      Errand, Working, Aside, Complete
  <1>9. LockFollows'
    <2> SUFFICES ASSUME killed' = {}, ~overlapped' PROVE LockFollows'  BY DEF LockFollows
    <2>1. killed = {} /\ ~overlapped  OBVIOUS
    <2>2. \A j \in Installers \ {i} : inst[j].at = "idle" /\ inst'[j].at = "idle"
      BY <2>1 DEF Contention, Working, InstallTypeOK, Progress, Errand
    <2> QED
      BY <2>1, <2>2
      DEF LockFollows, LockInHand, Placed, Carrying, InstallTypeOK, Progress, Errand, Working,
          Aside, Settled
  <1>10. LockInHand'
    BY DEF LockInHand, Contention, Carrying, InstallTypeOK, Progress, Errand, Working, Listing
  <1> QED  BY <1>1, <1>2, <1>3, <1>4, <1>5, <1>6, <1>7, <1>8, <1>9, <1>10

LEMMA StageKeeps ==
  ASSUME InstallInv, NEW i \in Installers, Stage(i)
  PROVE  InstallInv'
  <1> USE DEF InstallInv, InstallTypeOK, Progress, Errand, Working, Stage, Staged, StagedWhole
  <1>1. InstallTypeOK'
    <2>0. [inst[i] EXCEPT !.at = "lock", !.staging = inst[i].version] \in Errand
      BY DEF Carrying, Steps
    <2>1. inst' = [inst EXCEPT ![i] = [inst[i] EXCEPT !.at = "lock", !.staging = inst[i].version]]
      OBVIOUS
    <2>2. inst' \in Progress  BY <2>0, <2>1
    <2> QED  BY <2>2 DEF Carrying, Trees, Steps, Listing
  <1>2. Carrying'  BY DEF Carrying
  <1>3. Contention'  BY DEF Contention
  <1>4. Placed'  BY DEF Placed
  <1>5. TargetIsWhole'  BY DEF TargetIsWhole
  <1>6. BackupIsWhole'  BY DEF BackupIsWhole
  <1>7. InstalledSurvives'
    BY SMTT(30) DEF InstalledSurvives, AsideIsKept, Placed, Carrying, Contention, InstallTypeOK,
        Progress,
      Errand, Working, Aside, Complete
  <1>8. AsideIsKept'
    BY SMTT(30) DEF AsideIsKept, InstalledSurvives, Placed, Carrying, Contention, InstallTypeOK,
        Progress,
      Errand, Working, Aside, Complete
  <1>9. LockFollows'
    <2> SUFFICES ASSUME killed' = {}, ~overlapped' PROVE LockFollows'  BY DEF LockFollows
    <2>1. killed = {} /\ ~overlapped  OBVIOUS
    <2>2. \A j \in Installers \ {i} : inst[j].at = "idle" /\ inst'[j].at = "idle"
      BY <2>1 DEF Contention, Working, InstallTypeOK, Progress, Errand
    <2> QED
      BY <2>1, <2>2
      DEF LockFollows, LockInHand, Placed, Carrying, InstallTypeOK, Progress, Errand, Working,
          Aside, Settled
  <1>10. LockInHand'
    BY DEF LockInHand, Contention, Carrying, InstallTypeOK, Progress, Errand, Working, Listing
  <1> QED  BY <1>1, <1>2, <1>3, <1>4, <1>5, <1>6, <1>7, <1>8, <1>9, <1>10

LEMMA GivesUpKeeps ==
  ASSUME InstallInv, NEW i \in Installers, GivesUp(i)
  PROVE  InstallInv'
  <1> USE DEF InstallInv, GivesUp, Done, Fault, IdleInst
  <1>1. InstallTypeOK'  BY DEF InstallTypeOK, Progress, Errand, Trees, Listing, Steps
  <1>2. Carrying'  BY DEF Carrying, Working
  <1>3. Contention'  BY DEF Contention, Working
  <1>4. Placed'  BY DEF Placed, Working
  <1>5. TargetIsWhole'  BY DEF TargetIsWhole, InstallTypeOK, Progress, Errand, Working
  <1>6. BackupIsWhole'  BY DEF BackupIsWhole, Working
  <1>7. InstalledSurvives'
    BY SMTT(30) DEF InstalledSurvives, AsideIsKept, Placed, Carrying, Contention, InstallTypeOK,
        Progress,
      Errand, Working, Aside, Complete
  <1>8. AsideIsKept'
    BY SMTT(30) DEF AsideIsKept, InstalledSurvives, Placed, Carrying, Contention, InstallTypeOK,
        Progress,
      Errand, Working, Aside, Complete
  <1>9. LockFollows'
    <2> SUFFICES ASSUME killed' = {}, ~overlapped' PROVE LockFollows'  BY DEF LockFollows
    <2>1. killed = {} /\ ~overlapped  OBVIOUS
    <2>2. \A j \in Installers \ {i} : inst[j].at = "idle" /\ inst'[j].at = "idle"
      BY <2>1 DEF Contention, Working, InstallTypeOK, Progress, Errand
    <2> QED
      BY <2>1, <2>2
      DEF LockFollows, LockInHand, Placed, Carrying, InstallTypeOK, Progress, Errand, Working,
          Aside, Settled
  <1>10. LockInHand'
    BY DEF LockInHand, Contention, Carrying, InstallTypeOK, Progress, Errand, Working, Listing
  <1> QED  BY <1>1, <1>2, <1>3, <1>4, <1>5, <1>6, <1>7, <1>8, <1>9, <1>10

LEMMA ReadLockKeeps ==
  ASSUME InstallInv, NEW i \in Installers, ReadLock(i)
  PROVE  InstallInv'
  <1> USE DEF InstallInv, InstallTypeOK, Progress, Errand, Working, ReadLock, NewLock, LockWith
  <1>1. InstallTypeOK'
    <2>0. NewLock(i) \in Listing  BY DEF Carrying, Listing
    <2>1. inst' = [inst EXCEPT ![i].at = "away", ![i].lock = NewLock(i)]  OBVIOUS
    <2>2. [inst[i] EXCEPT !.at = "away", !.lock = NewLock(i)] \in Errand
      BY <2>0 DEF Steps
    <2>3. inst' = [inst EXCEPT ![i] = [inst[i] EXCEPT !.at = "away", !.lock = NewLock(i)]]
      BY <2>1
    <2>4. inst' \in Progress  BY <2>2, <2>3
    <2> QED  BY <2>4 DEF Carrying, Trees, Steps, Listing
  <1>2. Carrying'  BY DEF Carrying, Trees, Listing, Steps
  <1>3. Contention'  BY DEF Contention
  <1>4. Placed'  BY DEF Placed
  <1>5. TargetIsWhole'  BY DEF TargetIsWhole
  <1>6. BackupIsWhole'  BY DEF BackupIsWhole
  <1>7. InstalledSurvives'
    BY SMTT(30) DEF InstalledSurvives, AsideIsKept, Placed, Carrying, Contention, InstallTypeOK,
        Progress,
      Errand, Working, Aside, Complete
  <1>8. AsideIsKept'
    BY SMTT(30) DEF AsideIsKept, InstalledSurvives, Placed, Carrying, Contention, InstallTypeOK,
        Progress,
      Errand, Working, Aside, Complete
  <1>9. LockFollows'
    <2> SUFFICES ASSUME killed' = {}, ~overlapped' PROVE LockFollows'  BY DEF LockFollows
    <2>1. killed = {} /\ ~overlapped  OBVIOUS
    <2>2. \A j \in Installers \ {i} : inst[j].at = "idle" /\ inst'[j].at = "idle"
      BY <2>1 DEF Contention, Working, InstallTypeOK, Progress, Errand
    <2> QED
      BY <2>1, <2>2
      DEF LockFollows, LockInHand, Placed, Carrying, InstallTypeOK, Progress, Errand, Working,
          Aside, Settled
  <1>10. LockInHand'
    <2> SUFFICES ASSUME ~overlapped, NEW j \in Installers, inst'[j].at \in {"away", "in", "write"}
                 PROVE  inst'[j].lock = [teamLock' EXCEPT ![inst'[j].skill] = inst'[j].version]
      BY DEF LockInHand
    <2>1. CASE j = i
      <3>1. inst'[i].lock = NewLock(i) /\ inst'[i].skill = inst[i].skill /\ inst'[i].version =
          inst[i].version
        OBVIOUS
      <3>2. teamLock' = teamLock  OBVIOUS
      <3> QED  BY <2>1, <3>1, <3>2
    <2>2. CASE j # i
      <3>1. inst'[j] = inst[j] /\ teamLock' = teamLock  BY <2>2
      <3> QED  BY <3>1 DEF LockInHand
    <2> QED  BY <2>1, <2>2
  <1> QED  BY <1>1, <1>2, <1>3, <1>4, <1>5, <1>6, <1>7, <1>8, <1>9, <1>10

LEMMA MoveAwayKeeps ==
  ASSUME InstallInv, NEW i \in Installers, MoveAway(i)
  PROVE  InstallInv'
  <1> USE DEF InstallInv, InstallTypeOK, Progress, Errand, Working, MoveAway
  <1>1. InstallTypeOK'
    <2>0. [inst[i] EXCEPT !.at = "in", !.backup = target[inst[i].skill]] \in Errand
      BY ZenonT(60) DEF Carrying, Trees, Steps
    <2>1. inst' = [inst EXCEPT ![i] = [inst[i] EXCEPT !.at = "in",
                                                      !.backup = target[inst[i].skill]]]
      OBVIOUS
    <2>2. inst' \in Progress  BY <2>0, <2>1
    <2> QED  BY <2>2 DEF Carrying, Trees, Steps, Listing
  <1>2. Carrying'  BY DEF Carrying
  <1>3. Contention'  BY DEF Contention
  <1>4. Placed'  BY DEF Placed, Carrying, Contention
  <1>5. TargetIsWhole'  BY DEF TargetIsWhole
  <1>6. BackupIsWhole'  BY DEF BackupIsWhole
  <1>7. InstalledSurvives'
    <2> SUFFICES ASSUME NEW s \in before \ contended
                 PROVE  \/ Complete(target'[s])
                        \/ \E j \in Installers : Aside(j)' /\ inst'[j].skill = s /\
                            Complete(inst'[j].backup)
                        \/ \E b \in backups' : b[1] = s /\ Complete(b[2])
      BY DEF InstalledSurvives, Complete
    <2>1. CASE \E b \in backups : b[1] = s /\ Complete(b[2])  BY <2>1
    <2>2. CASE Complete(target[s])
      <3>1. CASE s = inst[i].skill
        <4>1. inst'[i].at = "in" /\ inst'[i].skill = s /\ inst'[i].backup = target[s]  BY <3>1
        <4> QED  BY <2>2, <4>1 DEF Aside
      <3>2. CASE s # inst[i].skill
        <4>1. target'[s] = target[s]  BY <3>2
        <4> QED  BY <2>2, <4>1
      <3> QED  BY <3>1, <3>2
    <2>3. CASE \E j \in Installers : Aside(j) /\ inst[j].skill = s /\ Complete(inst[j].backup)
      <3> PICK j \in Installers : Aside(j) /\ inst[j].skill = s /\ Complete(inst[j].backup)  BY <2>3
      <3>1. j # i  BY DEF Aside
      <3>2. inst'[j] = inst[j]  BY <3>1
      <3> QED  BY <3>2 DEF Aside
    <2> QED  BY <2>1, <2>2, <2>3 DEF InstalledSurvives
  <1>8. AsideIsKept'
    BY SMTT(30) DEF AsideIsKept, InstalledSurvives, Placed, Carrying, Contention, InstallTypeOK,
        Progress,
      Errand, Working, Aside, Complete
  <1>9. LockFollows'
    <2> SUFFICES ASSUME killed' = {}, ~overlapped' PROVE LockFollows'  BY DEF LockFollows
    <2>1. killed = {} /\ ~overlapped  OBVIOUS
    <2>2. \A j \in Installers \ {i} : inst[j].at = "idle" /\ inst'[j].at = "idle"
      BY <2>1 DEF Contention, Working, InstallTypeOK, Progress, Errand
    <2> QED
      BY <2>1, <2>2
      DEF LockFollows, LockInHand, Placed, Carrying, InstallTypeOK, Progress, Errand, Working,
          Aside, Settled
  <1>10. LockInHand'
    <2> SUFFICES ASSUME ~overlapped, NEW j \in Installers, inst'[j].at \in {"away", "in", "write"}
                 PROVE  inst'[j].lock = [teamLock' EXCEPT ![inst'[j].skill] = inst'[j].version]
      BY DEF LockInHand
    <2>1. /\ inst'[j].lock = inst[j].lock /\ inst'[j].skill = inst[j].skill
          /\ inst'[j].version = inst[j].version /\ inst[j].at \in {"away", "in", "write"}
      OBVIOUS
    <2>2. teamLock' = teamLock  OBVIOUS
    <2>3. inst[j].lock = [teamLock EXCEPT ![inst[j].skill] = inst[j].version]
      BY <2>1 DEF LockInHand
    <2> HIDE DEF MoveAway
    <2> QED  BY Zenon, <2>1, <2>2, <2>3
  <1> QED  BY <1>1, <1>2, <1>3, <1>4, <1>5, <1>6, <1>7, <1>8, <1>9, <1>10

LEMMA MoveInKeeps ==
  ASSUME InstallInv, NEW i \in Installers, MoveIn(i)
  PROVE  InstallInv'
  <1> USE DEF InstallInv, InstallTypeOK, Progress, Errand, Working, MoveIn
  <1>1. InstallTypeOK'
    <2>1. inst' \in Progress  BY DEF Carrying
    <2> QED  BY <2>1 DEF Carrying, Trees, Steps, Listing
  <1>2. Carrying'  BY DEF Carrying
  <1>3. Contention'  BY DEF Contention
  <1>4. Placed'  BY DEF Placed, Carrying, Contention
  <1>5. TargetIsWhole'  BY ZenonT(60) DEF TargetIsWhole, Contention, Complete
  <1>6. BackupIsWhole'  BY DEF BackupIsWhole
  <1>7. InstalledSurvives'
    BY SMTT(30) DEF InstalledSurvives, AsideIsKept, Placed, Carrying, Contention, InstallTypeOK,
        Progress,
      Errand, Working, Aside, Complete
  <1>8. AsideIsKept'
    BY SMTT(30) DEF AsideIsKept, InstalledSurvives, Placed, Carrying, Contention, InstallTypeOK,
        Progress,
      Errand, Working, Aside, Complete
  <1>9. LockFollows'
    <2> SUFFICES ASSUME killed' = {}, ~overlapped' PROVE LockFollows'  BY DEF LockFollows
    <2>1. killed = {} /\ ~overlapped  OBVIOUS
    <2>2. \A j \in Installers \ {i} : inst[j].at = "idle" /\ inst'[j].at = "idle"
      BY <2>1 DEF Contention, Working, InstallTypeOK, Progress, Errand
    <2> QED
      BY <2>1, <2>2
      DEF LockFollows, LockInHand, Placed, Carrying, InstallTypeOK, Progress, Errand, Working,
          Aside, Settled
  <1>10. LockInHand'
    BY DEF LockInHand, Contention, Carrying, InstallTypeOK, Progress, Errand, Working, Listing
  <1> QED  BY <1>1, <1>2, <1>3, <1>4, <1>5, <1>6, <1>7, <1>8, <1>9, <1>10

LEMMA MoveInFailsKeeps ==
  ASSUME InstallInv, NEW i \in Installers, MoveInFails(i)
  PROVE  InstallInv'
  <1> USE DEF InstallInv, MoveInFails, Go, Fault
  <1>1. InstallTypeOK'  BY ZenonT(60) DEF InstallTypeOK, Progress, Errand, Trees, Listing, Steps
  <1>2. Carrying'  BY DEF Carrying, Working
  <1>3. Contention'  BY DEF Contention, Working
  <1>4. Placed'  BY DEF Placed, Carrying, Contention, InstallTypeOK, Progress, Errand, Working
  <1>5. TargetIsWhole'  BY DEF TargetIsWhole, BackupIsWhole, Placed, Carrying, Contention,
      InstallTypeOK, Progress, Errand, Trees, Working, Complete
  <1>6. BackupIsWhole'  BY DEF BackupIsWhole, Working
  <1>7. InstalledSurvives'
    BY SMTT(30) DEF InstalledSurvives, AsideIsKept, Placed, Carrying, Contention, InstallTypeOK,
        Progress,
      Errand, Working, Aside, Complete
  <1>8. AsideIsKept'
    BY SMTT(30) DEF AsideIsKept, InstalledSurvives, Placed, Carrying, Contention, InstallTypeOK,
        Progress,
      Errand, Working, Aside, Complete
  <1>9. LockFollows'
    <2> SUFFICES ASSUME killed' = {}, ~overlapped' PROVE LockFollows'  BY DEF LockFollows
    <2>1. killed = {} /\ ~overlapped  OBVIOUS
    <2>2. \A j \in Installers \ {i} : inst[j].at = "idle" /\ inst'[j].at = "idle"
      BY <2>1 DEF Contention, Working, InstallTypeOK, Progress, Errand
    <2> QED
      BY <2>1, <2>2
      DEF LockFollows, LockInHand, Placed, Carrying, InstallTypeOK, Progress, Errand, Working,
          Aside, Settled
  <1>10. LockInHand'
    BY DEF LockInHand, Contention, Carrying, InstallTypeOK, Progress, Errand, Working, Listing
  <1> QED  BY <1>1, <1>2, <1>3, <1>4, <1>5, <1>6, <1>7, <1>8, <1>9, <1>10

LEMMA WriteLockKeeps ==
  ASSUME InstallInv, NEW i \in Installers, WriteLock(i)
  PROVE  InstallInv'
  <1> USE DEF InstallInv, Working, WriteLock, Go
  <1>1. InstallTypeOK'
    <2>1. inst' \in Progress  BY SMTT(30) DEF InstallTypeOK, Trees, Steps, Progress, Errand
    <2> QED  BY <2>1 DEF InstallTypeOK, Carrying, Trees, Steps, Listing
  <1>2. Carrying'  BY DEF Carrying
  <1>3. Contention'  BY DEF Contention
  <1>4. Placed'  BY DEF Placed
  <1>5. TargetIsWhole'  BY DEF TargetIsWhole, InstallTypeOK, Progress, Errand
  <1>6. BackupIsWhole'  BY DEF BackupIsWhole
  <1>7. InstalledSurvives'
    BY SMTT(30) DEF InstalledSurvives, AsideIsKept, Placed, Carrying, Contention, InstallTypeOK,
        Progress,
      Errand, Working, Aside, Complete
  <1>8. AsideIsKept'
    BY SMTT(30) DEF AsideIsKept, InstalledSurvives, Placed, Carrying, Contention, InstallTypeOK,
        Progress,
      Errand, Working, Aside, Complete
  <1>9. LockFollows'
    <2> SUFFICES ASSUME killed' = {}, ~overlapped' PROVE LockFollows'  BY DEF LockFollows
    <2>1. killed = {} /\ ~overlapped  OBVIOUS
    <2>2. \A j \in Installers \ {i} : inst[j].at = "idle" /\ inst'[j].at = "idle"
      BY <2>1 DEF Contention, Working, InstallTypeOK, Progress, Errand
    <2>3. inst[i].skill \in Skills /\ target[inst[i].skill] = inst[i].version
      BY <2>1 DEF Carrying, Placed
    <2>4. teamLock' = [teamLock EXCEPT ![inst[i].skill] = inst[i].version]  BY <2>1 DEF LockInHand
    <2>5. \A s \in Skills : Settled(s) \/ s = inst[i].skill => teamLock'[s] = target[s]
      BY <2>1, <2>3, <2>4 DEF LockFollows, Aside, InstallTypeOK, Listing
    <2>6. inst'[i].at = "commit" /\ inst'[i].skill = inst[i].skill  BY DEF InstallTypeOK,
        Progress, Errand
    <2> QED  BY <2>2, <2>5, <2>6 DEF LockFollows, Aside, Settled
  <1>10. LockInHand'
    BY DEF LockInHand, Contention, Carrying, InstallTypeOK, Progress, Errand, Working, Listing
  <1> QED  BY <1>1, <1>2, <1>3, <1>4, <1>5, <1>6, <1>7, <1>8, <1>9, <1>10

LEMMA WriteLockFailsKeeps ==
  ASSUME InstallInv, NEW i \in Installers, WriteLockFails(i)
  PROVE  InstallInv'
  <1> USE DEF InstallInv, WriteLockFails, Go, Fault
  <1>1. InstallTypeOK'  BY ZenonT(60) DEF InstallTypeOK, Progress, Errand, Trees, Listing, Steps
  <1>2. Carrying'  BY DEF Carrying, Working
  <1>3. Contention'  BY DEF Contention, Working
  <1>4. Placed'  BY DEF Placed, Carrying, Contention, InstallTypeOK, Progress, Errand, Working
  <1>5. TargetIsWhole'  BY DEF TargetIsWhole, BackupIsWhole, Placed, Carrying, Contention,
      InstallTypeOK, Progress, Errand, Trees, Working, Complete
  <1>6. BackupIsWhole'  BY DEF BackupIsWhole, Working
  <1>7. InstalledSurvives'
    BY SMTT(30) DEF InstalledSurvives, AsideIsKept, Placed, Carrying, Contention, InstallTypeOK,
        Progress,
      Errand, Working, Aside, Complete
  <1>8. AsideIsKept'
    BY SMTT(30) DEF AsideIsKept, InstalledSurvives, Placed, Carrying, Contention, InstallTypeOK,
        Progress,
      Errand, Working, Aside, Complete
  <1>9. LockFollows'
    <2> SUFFICES ASSUME killed' = {}, ~overlapped' PROVE LockFollows'  BY DEF LockFollows
    <2>1. killed = {} /\ ~overlapped  OBVIOUS
    <2>2. \A j \in Installers \ {i} : inst[j].at = "idle" /\ inst'[j].at = "idle"
      BY <2>1 DEF Contention, Working, InstallTypeOK, Progress, Errand
    <2> QED
      BY <2>1, <2>2
      DEF LockFollows, LockInHand, Placed, Carrying, InstallTypeOK, Progress, Errand, Working,
          Aside, Settled
  <1>10. LockInHand'
    BY DEF LockInHand, Contention, Carrying, InstallTypeOK, Progress, Errand, Working, Listing
  <1> QED  BY <1>1, <1>2, <1>3, <1>4, <1>5, <1>6, <1>7, <1>8, <1>9, <1>10

LEMMA RemoveBeginsKeeps ==
  ASSUME InstallInv, NEW i \in Installers, RemoveBegins(i)
  PROVE  InstallInv'
  <1> USE DEF InstallInv, RemoveBegins, Go
  <1>1. InstallTypeOK'  BY ZenonT(60) DEF InstallTypeOK, Progress, Errand, Trees, Listing, Steps
  <1>2. Carrying'  BY DEF Carrying, Working
  <1>3. Contention'  BY DEF Contention, Working
  <1>4. Placed'  BY DEF Placed, Carrying, Contention, InstallTypeOK, Progress, Errand, Working
  <1>5. TargetIsWhole'
    <2> SUFFICES ASSUME NEW s \in Skills \ contended
                 PROVE  Complete(target'[s]) \/ target'[s] = Absent
                        \/ <<s, "removing">> \in killed' \cup stuck'
                        \/ \E j \in Installers : inst'[j].at = "removing" /\ inst'[j].skill = s
      BY DEF TargetIsWhole, Complete
    <2>1. CASE s = inst[i].skill
      <3>1. inst'[i].at = "removing" /\ inst'[i].skill = inst[i].skill  BY DEF InstallTypeOK,
          Progress, Errand
      <3> QED  BY <2>1, <3>1
    <2>2. CASE s # inst[i].skill
      <3>1. target'[s] = target[s]
        BY <2>2 DEF InstallTypeOK
      <3>2. \A j \in Installers : j # i => inst'[j] = inst[j]
        BY DEF InstallTypeOK, Progress, Errand
      <3>3. \A j \in Installers : inst[j].at = "removing" /\ inst[j].skill = s => j # i  BY <2>2
      <3>4. Complete(target[s]) \/ target[s] = Absent \/ <<s, "removing">> \in killed \cup stuck
            \/ \E j \in Installers : inst[j].at = "removing" /\ inst[j].skill = s
        BY DEF TargetIsWhole
      <3>5. <<s, "removing">> \in killed \cup stuck => <<s, "removing">> \in killed' \cup stuck' 
          BY <2>2
      <3> QED  BY <3>1, <3>2, <3>3, <3>4, <3>5
    <2> QED  BY <2>1, <2>2
  <1>6. BackupIsWhole'  BY DEF BackupIsWhole, Working
  <1>7. InstalledSurvives'
    BY SMTT(30) DEF InstalledSurvives, AsideIsKept, Placed, Carrying, Contention, InstallTypeOK,
        Progress,
      Errand, Working, Aside, Complete
  <1>8. AsideIsKept'
    BY SMTT(30) DEF AsideIsKept, InstalledSurvives, Placed, Carrying, Contention, InstallTypeOK,
        Progress,
      Errand, Working, Aside, Complete
  <1>9. LockFollows'
    <2> SUFFICES ASSUME killed' = {}, ~overlapped' PROVE LockFollows'  BY DEF LockFollows
    <2>1. killed = {} /\ ~overlapped  OBVIOUS
    <2>2. \A j \in Installers \ {i} : inst[j].at = "idle" /\ inst'[j].at = "idle"
      BY <2>1 DEF Contention, Working, InstallTypeOK, Progress, Errand
    <2> QED
      BY <2>1, <2>2
      DEF LockFollows, LockInHand, Placed, Carrying, InstallTypeOK, Progress, Errand, Working,
          Aside, Settled
  <1>10. LockInHand'
    BY DEF LockInHand, Contention, Carrying, InstallTypeOK, Progress, Errand, Working, Listing
  <1> QED  BY <1>1, <1>2, <1>3, <1>4, <1>5, <1>6, <1>7, <1>8, <1>9, <1>10

LEMMA RemoveEndsKeeps ==
  ASSUME InstallInv, NEW i \in Installers, RemoveEnds(i)
  PROVE  InstallInv'
  <1> USE DEF InstallInv, RemoveEnds, Go
  <1>1. InstallTypeOK'  BY ZenonT(60) DEF InstallTypeOK, Progress, Errand, Trees, Listing, Steps
  <1>2. Carrying'  BY DEF Carrying, Working
  <1>3. Contention'  BY DEF Contention, Working
  <1>4. Placed'  BY DEF Placed, Carrying, Contention, InstallTypeOK, Progress, Errand, Working
  <1>5. TargetIsWhole'  BY DEF TargetIsWhole, BackupIsWhole, Placed, Carrying, Contention,
      InstallTypeOK, Progress, Errand, Trees, Working, Complete
  <1>6. BackupIsWhole'  BY DEF BackupIsWhole, Working
  <1>7. InstalledSurvives'
    BY SMTT(30) DEF InstalledSurvives, AsideIsKept, Placed, Carrying, Contention, InstallTypeOK,
        Progress,
      Errand, Working, Aside, Complete
  <1>8. AsideIsKept'
    BY SMTT(30) DEF AsideIsKept, InstalledSurvives, Placed, Carrying, Contention, InstallTypeOK,
        Progress,
      Errand, Working, Aside, Complete
  <1>9. LockFollows'
    <2> SUFFICES ASSUME killed' = {}, ~overlapped' PROVE LockFollows'  BY DEF LockFollows
    <2>1. killed = {} /\ ~overlapped  OBVIOUS
    <2>2. \A j \in Installers \ {i} : inst[j].at = "idle" /\ inst'[j].at = "idle"
      BY <2>1 DEF Contention, Working, InstallTypeOK, Progress, Errand
    <2> QED
      BY <2>1, <2>2
      DEF LockFollows, LockInHand, Placed, Carrying, InstallTypeOK, Progress, Errand, Working,
          Aside, Settled
  <1>10. LockInHand'
    BY DEF LockInHand, Contention, Carrying, InstallTypeOK, Progress, Errand, Working, Listing
  <1> QED  BY <1>1, <1>2, <1>3, <1>4, <1>5, <1>6, <1>7, <1>8, <1>9, <1>10

LEMMA StaysUndoneKeeps ==
  ASSUME InstallInv, NEW i \in Installers, 
         inst[i].at \in {"remove", "removing", "back"}, StaysUndone(i)
  PROVE  InstallInv'
  <1> USE DEF InstallInv, StaysUndone, BackupStays, Done, IdleInst
  <1>1. InstallTypeOK'  BY ZenonT(60) DEF InstallTypeOK, Progress, Errand, Trees, Listing, Steps
  <1>2. Carrying'  BY DEF Carrying, Working
  <1>3. Contention'  BY DEF Contention, Working
  <1>4. Placed'  BY DEF Placed, Carrying, Contention, InstallTypeOK, Progress, Errand, Working
  <1>5. TargetIsWhole'  BY DEF TargetIsWhole, BackupIsWhole, Placed, Carrying, Contention,
      InstallTypeOK, Progress, Errand, Trees, Working, Complete
  <1>6. BackupIsWhole'  BY DEF BackupIsWhole, Working
  <1>7. InstalledSurvives'
    <2> SUFFICES ASSUME NEW s \in before \ contended
                 PROVE  \/ Complete(target'[s])
                        \/ \E j \in Installers : Aside(j)' /\ inst'[j].skill = s /\
                            Complete(inst'[j].backup)
                        \/ \E b \in backups' : b[1] = s /\ Complete(b[2])
      BY DEF InstalledSurvives, Complete
    <2>1. CASE \E b \in backups : b[1] = s /\ Complete(b[2])  BY <2>1
    <2>2. CASE Complete(target[s])  BY <2>2
    <2>3. CASE \E j \in Installers : Aside(j) /\ inst[j].skill = s /\ Complete(inst[j].backup)
      <3> PICK j \in Installers : Aside(j) /\ inst[j].skill = s /\ Complete(inst[j].backup)  BY <2>3
      <3>1. CASE j # i
        <4>1. inst'[j] = inst[j]  BY <3>1 DEF InstallTypeOK, Progress, Errand
        <4> QED  BY <4>1 DEF Aside
      <3>2. CASE j = i
        <4>1. inst[i].backup # Absent  BY <3>2 DEF Complete
        <4>2. <<s, inst[i].backup>> \in backups'  BY <3>2, <4>1
        <4> QED  BY <3>2, <4>2
      <3> QED  BY <3>1, <3>2
    <2> QED  BY <2>1, <2>2, <2>3 DEF InstalledSurvives
  <1>8. AsideIsKept'
    BY SMTT(30) DEF AsideIsKept, InstalledSurvives, Placed, Carrying, Contention, InstallTypeOK,
        Progress,
      Errand, Working, Aside, Complete
  <1>9. LockFollows'
    <2> SUFFICES ASSUME killed' = {}, ~overlapped' PROVE LockFollows'  BY DEF LockFollows
    <2>1. killed = {} /\ ~overlapped  OBVIOUS
    <2>2. \A j \in Installers \ {i} : inst[j].at = "idle" /\ inst'[j].at = "idle"
      BY <2>1 DEF Contention, Working, InstallTypeOK, Progress, Errand
    <2>3. \A s \in Skills : Settled(s)' => s # inst[i].skill /\ Settled(s)
      <3> SUFFICES ASSUME NEW s \in Skills, Settled(s)' PROVE s # inst[i].skill /\ Settled(s) 
          OBVIOUS
      <3>1. <<inst[i].skill, inst[i].at>> \in stuck' /\ stuck \subseteq stuck'  OBVIOUS
      <3> QED  BY <3>1 DEF Settled
    <2>4. \A s \in Skills : Settled(s)' => teamLock'[s] = target'[s]
      BY <2>1, <2>3 DEF LockFollows, Aside
    <2>5. inst'[i].at = "idle"  BY DEF InstallTypeOK, Progress, Errand
    <2> QED  BY <2>2, <2>4, <2>5 DEF LockFollows, Aside
  <1>10. LockInHand'
    BY DEF LockInHand, Contention, Carrying, InstallTypeOK, Progress, Errand, Working, Listing
  <1> QED  BY <1>1, <1>2, <1>3, <1>4, <1>5, <1>6, <1>7, <1>8, <1>9, <1>10

LEMMA MoveBackKeeps ==
  ASSUME InstallInv, NEW i \in Installers, MoveBack(i)
  PROVE  InstallInv'
  <1> USE DEF InstallInv, MoveBack, MovedBack, BackWithBackup, Done, IdleInst
  <1>1. InstallTypeOK'  BY ZenonT(60) DEF InstallTypeOK, Progress, Errand, Trees, Listing, Steps
  <1>2. Carrying'  BY DEF Carrying, Working
  <1>3. Contention'  BY DEF Contention, Working
  <1>4. Placed'  BY DEF Placed, Carrying, Contention, InstallTypeOK, Progress, Errand, Working
  <1>5. TargetIsWhole'  BY DEF TargetIsWhole, BackupIsWhole, Placed, Carrying, Contention,
      InstallTypeOK, Progress, Errand, Trees, Working, Complete
  <1>6. BackupIsWhole'  BY DEF BackupIsWhole, InstallTypeOK, Progress, Errand, Working
  <1>7. InstalledSurvives'
    BY SMTT(30) DEF InstalledSurvives, AsideIsKept, Placed, Carrying, Contention, InstallTypeOK,
        Progress,
      Errand, Working, Aside, Complete
  <1>8. AsideIsKept'
    BY SMTT(30) DEF AsideIsKept, InstalledSurvives, Placed, Carrying, Contention, InstallTypeOK,
        Progress,
      Errand, Working, Aside, Complete
  <1>9. LockFollows'
    <2> SUFFICES ASSUME killed' = {}, ~overlapped' PROVE LockFollows'  BY DEF LockFollows
    <2>1. killed = {} /\ ~overlapped  OBVIOUS
    <2>2. \A j \in Installers \ {i} : inst[j].at = "idle" /\ inst'[j].at = "idle"
      BY <2>1 DEF Contention, Working, InstallTypeOK, Progress, Errand
    <2> QED
      BY <2>1, <2>2
      DEF LockFollows, LockInHand, Placed, Carrying, InstallTypeOK, Progress, Errand, Working,
          Aside, Settled
  <1>10. LockInHand'
    BY DEF LockInHand, Contention, Carrying, InstallTypeOK, Progress, Errand, Working, Listing
  <1> QED  BY <1>1, <1>2, <1>3, <1>4, <1>5, <1>6, <1>7, <1>8, <1>9, <1>10

LEMMA CommitKeeps ==
  ASSUME InstallInv, NEW i \in Installers, Commit(i)
  PROVE  InstallInv'
  <1> USE DEF InstallInv, Working, Commit, Done, IdleInst
  <1>1. InstallTypeOK'
    <2>1. inst' \in Progress  BY DEF InstallTypeOK, Trees, Steps, Progress, Errand
    <2> QED  BY <2>1 DEF InstallTypeOK, Carrying, Trees, Steps, Listing
  <1>2. Carrying'  BY DEF Carrying
  <1>3. Contention'  BY DEF Contention
  <1>4. Placed'  BY DEF Placed
  <1>5. TargetIsWhole'
    <2> SUFFICES ASSUME NEW s \in Skills \ contended
                 PROVE  Complete(target'[s]) \/ target'[s] = Absent
                        \/ <<s, "removing">> \in killed' \cup stuck'
                        \/ \E j \in Installers : inst'[j].at = "removing" /\ inst'[j].skill = s
      BY DEF TargetIsWhole, Complete
    <2>1. CASE s = inst[i].skill
      <3>1. target'[s] = inst[i].version /\ inst[i].version \in Versions  BY <2>1 DEF Placed,
          Carrying
      <3> QED  BY <3>1 DEF Complete
    <2>2. CASE s # inst[i].skill
      <3>1. target'[s] = target[s]
        BY <2>2 DEF InstallTypeOK
      <3>2. \A j \in Installers : j # i => inst'[j] = inst[j]
        BY DEF InstallTypeOK, Progress, Errand
      <3>3. \A j \in Installers : inst[j].at = "removing" /\ inst[j].skill = s => j # i  BY <2>2
      <3>4. Complete(target[s]) \/ target[s] = Absent \/ <<s, "removing">> \in killed \cup stuck
            \/ \E j \in Installers : inst[j].at = "removing" /\ inst[j].skill = s
        BY DEF TargetIsWhole
      <3>5. <<s, "removing">> \in killed \cup stuck => <<s, "removing">> \in killed' \cup stuck' 
          BY <2>2
      <3> QED  BY <3>1, <3>2, <3>3, <3>4, <3>5
    <2> QED  BY <2>1, <2>2
  <1>6. BackupIsWhole'
    <2> SUFFICES ASSUME NEW j \in Installers, Working(j)', inst'[j].skill \notin contended
                 PROVE  inst'[j].backup # Broken \/ <<inst'[j].skill, "removing">> \in killed'
                     \cup stuck'
      BY DEF BackupIsWhole
    <2>1. j # i /\ inst'[j] = inst[j]  BY DEF InstallTypeOK, Progress, Errand
    <2>2. inst[j].skill # inst[i].skill  BY <2>1 DEF Contention
    <2> QED  BY <2>1, <2>2 DEF BackupIsWhole
  <1>7. InstalledSurvives'
    BY SMTT(30) DEF InstalledSurvives, AsideIsKept, Placed, Carrying, Contention, InstallTypeOK,
        Progress,
      Errand, Working, Aside, Complete
  <1>8. AsideIsKept'
    BY SMTT(30) DEF AsideIsKept, InstalledSurvives, Placed, Carrying, Contention, InstallTypeOK,
        Progress,
      Errand, Working, Aside, Complete
  <1>9. LockFollows'
    <2> SUFFICES ASSUME killed' = {}, ~overlapped' PROVE LockFollows'  BY DEF LockFollows
    <2>1. killed = {} /\ ~overlapped  OBVIOUS
    <2>2. \A j \in Installers \ {i} : inst[j].at = "idle" /\ inst'[j].at = "idle"
      BY <2>1 DEF Contention, Working, InstallTypeOK, Progress, Errand
    <2> QED
      BY <2>1, <2>2
      DEF LockFollows, LockInHand, Placed, Carrying, InstallTypeOK, Progress, Errand, Working,
          Aside, Settled
  <1>10. LockInHand'
    BY DEF LockInHand, Contention, Carrying, InstallTypeOK, Progress, Errand, Working, Listing
  <1> QED  BY <1>1, <1>2, <1>3, <1>4, <1>5, <1>6, <1>7, <1>8, <1>9, <1>10

LEMMA KillInstallerKeeps ==
  ASSUME InstallInv, NEW i \in Installers, KillInstaller(i)
  PROVE  InstallInv'
  <1> USE DEF InstallInv, KillInstaller, BackupStays, Done, Fault, IdleInst
  <1>1. InstallTypeOK'  BY DEF InstallTypeOK, Progress, Errand, Trees, Listing, Steps
  <1>2. Carrying'  BY DEF Carrying, Working
  <1>3. Contention'  BY DEF Contention, Working
  <1>4. Placed'  BY DEF Placed, Working
  <1>5. TargetIsWhole'  BY DEF TargetIsWhole, InstallTypeOK, Progress, Errand, Working
  <1>6. BackupIsWhole'  BY DEF BackupIsWhole, Working
  <1>7. InstalledSurvives'
    <2> SUFFICES ASSUME NEW s \in before \ contended
                 PROVE  \/ Complete(target'[s])
                        \/ \E j \in Installers : Aside(j)' /\ inst'[j].skill = s /\
                            Complete(inst'[j].backup)
                        \/ \E b \in backups' : b[1] = s /\ Complete(b[2])
      BY DEF InstalledSurvives, Complete
    <2>1. CASE \E b \in backups : b[1] = s /\ Complete(b[2])  BY <2>1
    <2>2. CASE Complete(target[s])  BY <2>2
    <2>3. CASE \E j \in Installers : Aside(j) /\ inst[j].skill = s /\ Complete(inst[j].backup)
      <3> PICK j \in Installers : Aside(j) /\ inst[j].skill = s /\ Complete(inst[j].backup)  BY <2>3
      <3>1. CASE j # i
        <4>1. inst'[j] = inst[j]  BY <3>1 DEF InstallTypeOK, Progress, Errand
        <4> QED  BY <4>1 DEF Aside
      <3>2. CASE j = i
        <4>1. inst[i].backup # Absent  BY <3>2 DEF Complete
        <4>2. <<s, inst[i].backup>> \in backups'  BY <3>2, <4>1
        <4> QED  BY <3>2, <4>2
      <3> QED  BY <3>1, <3>2
    <2> QED  BY <2>1, <2>2, <2>3 DEF InstalledSurvives
  <1>8. AsideIsKept'
    BY DEF AsideIsKept, Contention, InstallTypeOK, Progress, Errand, Working, Aside
  <1>9. LockFollows'
    <2> SUFFICES ASSUME killed' = {}, ~overlapped' PROVE LockFollows'  BY DEF LockFollows
    <2>1. killed = {} /\ ~overlapped  OBVIOUS
    <2>2. \A j \in Installers \ {i} : inst[j].at = "idle" /\ inst'[j].at = "idle"
      BY <2>1 DEF Contention, Working, InstallTypeOK, Progress, Errand
    <2> QED
      BY <2>1, <2>2
      DEF LockFollows, LockInHand, Placed, Carrying, InstallTypeOK, Progress, Errand, Working,
          Aside, Settled
  <1>10. LockInHand'
    BY DEF LockInHand, Contention, Carrying, InstallTypeOK, Progress, Errand, Working, Listing
  <1> QED  BY <1>1, <1>2, <1>3, <1>4, <1>5, <1>6, <1>7, <1>8, <1>9, <1>10

LEMMA InstallStepKeeps ==
  ASSUME InstallInv, [InstallNext]_installVars
  PROVE  InstallInv'
  <1>1. ASSUME NEW i \in Installers, InstallStep(i) PROVE InstallInv'
    <2>1. ASSUME NEW s \in Skills, NEW v \in Versions, BeginInstall(i, s, v) PROVE InstallInv'
      BY <2>1, BeginInstallKeeps
    <2>2. CASE Stage(i)  BY <2>2, StageKeeps
    <2>3. CASE GivesUp(i)  BY <2>3, GivesUpKeeps
    <2>4. CASE ReadLock(i)  BY <2>4, ReadLockKeeps
    <2>5. CASE MoveAway(i)  BY <2>5, MoveAwayKeeps
    <2>6. CASE MoveIn(i)  BY <2>6, MoveInKeeps
    <2>7. CASE MoveInFails(i)  BY <2>7, MoveInFailsKeeps
    <2>8. CASE WriteLock(i)  BY <2>8, WriteLockKeeps
    <2>9. CASE WriteLockFails(i)  BY <2>9, WriteLockFailsKeeps
    <2>10. CASE RemoveBegins(i)  BY <2>10, RemoveBeginsKeeps
    <2>11. CASE RemoveEnds(i)  BY <2>11, RemoveEndsKeeps
    <2>12. CASE RemoveFails(i)  BY <2>12, StaysUndoneKeeps DEF RemoveFails, Fault
    <2>13. CASE MoveBack(i)  BY <2>13, MoveBackKeeps
    <2>14. CASE MoveBackFails(i)  BY <2>14, StaysUndoneKeeps DEF MoveBackFails
    <2>15. CASE Commit(i)  BY <2>15, CommitKeeps
    <2>16. CASE KillInstaller(i)  BY <2>16, KillInstallerKeeps
    <2> QED
      BY <1>1, <2>1, <2>2, <2>3, <2>4, <2>5, <2>6, <2>7, <2>8, <2>9, <2>10, <2>11, <2>12, <2>13,
         <2>14, <2>15, <2>16
      DEF InstallStep
  <1>2. CASE UNCHANGED installVars
    BY <1>2 DEF InstallInv, installVars, InstallTypeOK, Carrying, Contention, Placed, TargetIsWhole,
      BackupIsWhole, InstalledSurvives, AsideIsKept, LockFollows, LockInHand, Settled, Aside,
          Working, Complete
  <1> QED  BY <1>1, <1>2 DEF InstallNext

LEMMA InstallInvHolds == InstallSpec => []InstallInv
  <1>1. InstallInit => InstallInv
    <2> SUFFICES ASSUME InstallInit PROVE InstallInv  OBVIOUS
    <2>1. \A i \in Installers : inst[i] = IdleInst  BY DEF InstallInit
    <2>2. InstallTypeOK
      BY DEF InstallInit, InstallTypeOK, Progress, Errand, Steps, Trees, Listing, IdleInst
    <2>3. Carrying /\ Contention /\ Placed /\ BackupIsWhole /\ AsideIsKept
      BY <2>1 DEF Carrying, Contention, Placed, BackupIsWhole, AsideIsKept, Aside, Working, IdleInst
    <2>4. TargetIsWhole /\ InstalledSurvives
      BY DEF InstallInit, TargetIsWhole, InstalledSurvives
    <2>5. LockFollows /\ LockInHand  BY <2>1 DEF InstallInit, LockFollows, LockInHand, IdleInst,
        Aside
    <2> QED  BY <2>2, <2>3, <2>4, <2>5 DEF InstallInv
  <1> QED  BY <1>1, InstallStepKeeps, PTL DEF InstallSpec

\* Whatever fails, the undoing included, wherever an installer is killed, and however
\* many work (replaceDirectory, Commit and Rollback, install.go:427-475).  The directory
\* of a skill that two have not worked on at once holds a whole tree or none, unless
\* the removal of a tree is under way, or was killed or failed in its middle and no
\* installation of the skill has succeeded since it failed.  A tree that an installed
\* skill's directory has lost is whole in a backup.  And the lock file lists what
\* installations one after the other have left, but for a skill whose undoing failed.
THEOREM InstallationsAlwaysHold == InstallSpec => []InstallationsHold
  <1>1. InstallInv => InstallationsHold
    <2> SUFFICES ASSUME InstallInv PROVE InstallationsHold  OBVIOUS
    <2>1. LockTellsTruth  BY DEF InstallInv, LockFollows, LockTellsTruth
    <2> QED  BY <2>1 DEF InstallInv, InstallationsHold
  <1> QED  BY <1>1, InstallInvHolds, PTL

(***************************************************************************)
(* The credentials of a remote server, for any number of processes and     *)

(***************************************************************************)
(* The credentials of a remote server, for any number of processes and     *)
(* callers: whoever holds the lock of the file works with what the file    *)
(* holds, a token belongs to the client and the login it was issued for,   *)
(* and the file's token is one the server honours, unless the holder of    *)
(* the lock has just spent it or a call that spent it failed.              *)
(***************************************************************************)

Tokens == Cardinality(DOMAIN issued)
Credential == [refresh : Nat, client : Nat, grant : Nat, fresh : BOOLEAN, there : BOOLEAN]
IssuedToken == [client : Nat, grant : Nat, live : BOOLEAN]
CallerSteps == {"idle", "read", "refreshing", "register", "store", "browser", "keep",
              "revoke", "delete"}
CallerStates == [op : Logins \cup {"none", "token", "logout"}, at : CallerSteps,
          seen : Credential, new : Credential, cancelled : BOOLEAN]
Flights == [at : {"none", "lock", "request", "answered"}, leader : Callers \cup {NoHolder},
            seen : Credential, new : Credential, cancelled : BOOLEAN]

CallsTyped == call \in [Callers -> CallerStates]
FlightsTyped == flight \in [Processes -> Flights]
IssuedTyped ==
  /\ Tokens \in Nat /\ DOMAIN issued = 1 .. Tokens
  /\ issued \in [DOMAIN issued -> IssuedToken]
RestTyped ==
  /\ file \in Credential
  /\ holder \in Callers \cup Processes \cup {NoHolder}
  /\ clients \in Nat /\ grants \in Nat
  /\ loggedOut \subseteq 1 .. grants

OAuthTypeOK == CallsTyped /\ FlightsTyped /\ IssuedTyped /\ RestTyped

\* The lock of the file.
Refreshing(p) == flight[p].at \in {"request", "answered"}
LoggingOut(c) == call[c].at \in {"revoke", "delete"}

LockIsHeld ==
  /\ \A p \in Processes : Refreshing(p) => holder = p
  /\ \A c \in Callers : LoggingOut(c) => holder = c

\* A credential of a client that is known, whose token was issued to it.
IssuedFor(t, credential) ==
  /\ t \in DOMAIN issued
  /\ issued[t].client = credential.client
  /\ issued[t].grant = credential.grant

Minted(credential) ==
  /\ credential.client = 0 => credential.refresh = 0 /\ credential.grant = 0
  /\ credential.refresh # 0 => IssuedFor(credential.refresh, credential)
  /\ credential.grant <= grants

\* What the holder of the lock works with is what the file holds.
Same(credential) ==
  /\ credential.refresh = file.refresh
  /\ credential.client = file.client
  /\ credential.grant = file.grant

RefreshIsCurrent(p) ==
  /\ Refreshing(p) => Same(flight[p].seen) /\ flight[p].seen.refresh # 0
  /\ flight[p].at = "answered" =>
       IssuedFor(flight[p].new.refresh, file) /\ Live(flight[p].new.refresh)

HolderIsCurrent ==
  /\ \A p \in Processes : RefreshIsCurrent(p)
  /\ \A c \in Callers : LoggingOut(c) => Same(call[c].seen)

\* A login under way: its client, and then a token of a login of its own.
OwnLogin(c) ==
  /\ call[c].at \in {"register", "store"} => call[c].new.refresh = 0 /\ call[c].new.grant = 0
  /\ call[c].at \in {"store", "browser", "keep"} => call[c].new.client # 0
  /\ call[c].at = "keep" =>
       /\ Minted(call[c].new) /\ Live(call[c].new.refresh)
       /\ call[c].new.grant \in 1 .. grants
       /\ call[c].new.grant \notin loggedOut
       /\ call[c].new.grant # file.grant

LoginIsItsOwn ==
  /\ \A c \in Callers : OwnLogin(c)
  /\ \A c, d \in Callers : c # d /\ call[c].at = "keep" /\ call[d].at = "keep" =>
       call[c].new.grant # call[d].new.grant

\* The file's token is honoured, unless it was spent.
FileIsHonoured ==
  file.refresh # 0 =>
    \/ Live(file.refresh)
    \/ file.refresh \in lost
    \/ \E p \in Processes : flight[p].at = "answered"
    \/ \E c \in Callers : call[c].at = "delete"

OAuthInv ==
  /\ OAuthTypeOK /\ LockIsHeld /\ Minted(file) /\ HolderIsCurrent /\ LoginIsItsOwn
  /\ FileIsHonoured /\ LoggedOutStaysOut

-----------------------------------------------------------------------------
USE OAuthAssumption, NamesAssumption DEF Processes, NoHolder

\* The lock: one works under it at a time.
LEMMA OneAtTheLock ==
  ASSUME OAuthInv
  PROVE  /\ Unlocked => (\A p \in Processes : ~Refreshing(p)) /\ (\A c \in Callers : ~LoggingOut(c))
         /\ \A p, q \in Processes : Refreshing(p) /\ Refreshing(q) => p = q
         /\ \A c, d \in Callers : LoggingOut(c) /\ LoggingOut(d) => c = d
         /\ \A p \in Processes, c \in Callers : ~(Refreshing(p) /\ LoggingOut(c))
  BY DEF OAuthInv, LockIsHeld, Unlocked

\* The server forgets nothing, and ends only tokens of the login in the file.
IssuedGrows ==
  \A t \in DOMAIN issued :
    /\ t \in DOMAIN issued'
    /\ issued'[t].client = issued[t].client
    /\ issued'[t].grant = issued[t].grant
    /\ issued[t].grant # file.grant /\ issued[t].live => issued'[t].live

LEMMA OwnLoginStays ==
  ASSUME OAuthInv, NEW c \in Callers, OwnLogin(c),
         call'[c].at = call[c].at, call'[c].new = call[c].new,
         IssuedGrows, grants' \in Nat, grants <= grants',
         loggedOut' \subseteq loggedOut \cup {file.grant},
         call[c].at = "keep" => file'.grant # call[c].new.grant
  PROVE  OwnLogin(c)'
  <1> USE DEF OwnLogin
  <1>1. CASE call[c].at # "keep"  BY <1>1
  <1>2. CASE call[c].at = "keep"
    <2>1. Minted(call[c].new) /\ Live(call[c].new.refresh)
      /\ call[c].new.grant \in 1 .. grants
      /\ call[c].new.grant \notin loggedOut
      /\ call[c].new.grant # file.grant
      BY <1>2
    <2>2. grants \in Nat  BY DEF OAuthInv, OAuthTypeOK, RestTyped
    <2>3. Minted(call[c].new)'  BY <2>1, <2>2 DEF Minted, IssuedFor, IssuedGrows
    <2>4. Live(call[c].new.refresh)'  BY <2>1 DEF Live, Minted, IssuedFor, IssuedGrows
    <2>5. (call[c].new.grant \in 1 .. grants)'  BY <2>1, <2>2
    <2> QED  BY <1>2, <2>1, <2>3, <2>4, <2>5
  <1> QED  BY <1>1, <1>2

\* A step that leaves the file and the server alone: a call or a refresh goes on
\* where it is, or turns to something that holds no lock and no token of its own.
\* One that has spent the file's token by then leaves word of it in lost.
CallGoesOn(d) ==
  call'[d].at = call[d].at /\ call'[d].seen = call[d].seen /\ call'[d].new = call[d].new

CallTurns(d) ==
  /\ call[d].at = "delete" => file.refresh \in lost'
  /\ call'[d].at \notin {"revoke", "delete", "keep"}
  /\ call'[d].at \in {"register", "store"} => call'[d].new.refresh = 0 /\ call'[d].new.grant = 0
  /\ call'[d].at \in {"store", "browser"} => call'[d].new.client # 0

RefreshGoesOn(p) ==
  flight'[p].at = flight[p].at /\ flight'[p].seen = flight[p].seen /\ flight'[p].new = flight[p].new

RefreshTurns(p) ==
  /\ flight[p].at = "answered" => file.refresh \in lost'
  /\ flight'[p].at \notin {"request", "answered"}

LEMMA QuietStep ==
  ASSUME OAuthInv, CallsTyped', FlightsTyped', LockIsHeld',
         file' \in Credential, Same(file'), lost \subseteq lost',
         holder' \in Callers \cup Processes \cup {NoHolder}, clients' \in Nat,
         UNCHANGED <<issued, grants, loggedOut>>,
         \A d \in Callers : CallGoesOn(d) \/ CallTurns(d),
         \A p \in Processes : RefreshGoesOn(p) \/ RefreshTurns(p)
  PROVE  OAuthInv'
  <1> USE DEF Same
  <1>0. OAuthTypeOK /\ HolderIsCurrent /\ LoginIsItsOwn /\ FileIsHonoured /\ Minted(file)
        /\ file.grant \notin loggedOut
    BY DEF OAuthInv, LoggedOutStaysOut
  <1>1. OAuthTypeOK'  BY <1>0 DEF OAuthTypeOK, IssuedTyped, RestTyped, Tokens
  <1>2. Minted(file)'  BY <1>0 DEF Minted, IssuedFor
  <1>3. HolderIsCurrent'
    <2>1. ASSUME NEW p \in Processes PROVE RefreshIsCurrent(p)'
      BY <1>0 DEF HolderIsCurrent, RefreshIsCurrent, RefreshGoesOn, RefreshTurns, Refreshing,
                  IssuedFor, Live
    <2>2. ASSUME NEW c \in Callers, LoggingOut(c)' PROVE Same(call[c].seen)'
      BY <1>0, <2>2 DEF HolderIsCurrent, LoggingOut, CallGoesOn, CallTurns
    <2> QED  BY <2>1, <2>2 DEF HolderIsCurrent
  <1>4. LoginIsItsOwn'
    <2>1. grants \in Nat /\ IssuedGrows  BY <1>0 DEF OAuthTypeOK, RestTyped, IssuedGrows
    <2>2. ASSUME NEW c \in Callers PROVE OwnLogin(c)'
      <3>1. CASE CallGoesOn(c)
        <4>1. OwnLogin(c) /\ (call[c].at = "keep" => file'.grant # call[c].new.grant)
          BY <1>0 DEF LoginIsItsOwn, OwnLogin
        <4> QED  BY <2>1, <3>1, <4>1, OwnLoginStays DEF CallGoesOn
      <3>2. CASE CallTurns(c)  BY <3>2 DEF CallTurns, OwnLogin
      <3> QED  BY <3>1, <3>2
    <2>3. ASSUME NEW c \in Callers, NEW d \in Callers, c # d,
                 (call[c].at = "keep")', (call[d].at = "keep")'
          PROVE  (call[c].new.grant # call[d].new.grant)'
      BY <1>0, <2>3 DEF LoginIsItsOwn, CallGoesOn, CallTurns
    <2> QED  BY <2>2, <2>3 DEF LoginIsItsOwn
  <1>5. FileIsHonoured'
    <2> SUFFICES ASSUME file.refresh # 0 PROVE FileIsHonoured'  BY DEF FileIsHonoured
    <2>1. CASE Live(file.refresh) \/ file.refresh \in lost  BY <2>1 DEF FileIsHonoured, Live
    <2>2. ASSUME NEW p \in Processes, flight[p].at = "answered" PROVE FileIsHonoured'
      BY <2>2 DEF FileIsHonoured, RefreshGoesOn, RefreshTurns
    <2>3. ASSUME NEW c \in Callers, call[c].at = "delete" PROVE FileIsHonoured'
      BY <2>3 DEF FileIsHonoured, CallGoesOn, CallTurns
    <2> QED  BY <1>0, <2>1, <2>2, <2>3 DEF FileIsHonoured
  <1>6. LoggedOutStaysOut'  BY <1>0 DEF LoggedOutStaysOut
  <1> QED  BY <1>1, <1>2, <1>3, <1>4, <1>5, <1>6 DEF OAuthInv

LEMMA Constants ==
  /\ NoCredential \in Credential /\ IdleCall \in CallerStates /\ NoFlight \in Flights
  /\ IdleCall.at = "idle" /\ NoFlight.at = "none"
  <1>1. NoCredential \in Credential  BY DEF NoCredential, Credential
  <1> QED  BY <1>1 DEF IdleCall, CallerStates, CallerSteps, NoFlight, Flights

\* One call changes.
LEMMA CallMoves ==
  ASSUME CallsTyped, NEW c \in Callers, NEW r \in CallerStates, call' = [call EXCEPT ![c] = r]
  PROVE  CallsTyped' /\ call'[c] = r /\ \A d \in Callers \ {c} : call'[d] = call[d]
  BY DEF CallsTyped

\* One refresh changes.
LEMMA FlightMoves ==
  ASSUME FlightsTyped, NEW p \in Processes, NEW f \in Flights, flight' = [flight EXCEPT ![p] = f]
  PROVE  FlightsTyped' /\ flight'[p] = f /\ \A q \in Processes \ {p} : flight'[q] = flight[q]
  BY DEF FlightsTyped

\* A refresh is over, and those who waited for it are as well.
LEMMA Lands ==
  ASSUME CallsTyped, FlightsTyped, NEW p \in Processes, Land(p)
  PROVE  /\ CallsTyped' /\ FlightsTyped'
         /\ flight'[p] = NoFlight /\ \A q \in Processes \ {p} : flight'[q] = flight[q]
         /\ \A c \in Callers : call'[c] = call[c] \/ (call[c].at = "refreshing" /\ call'[c] = IdleCall)
  <1>1. FlightsTyped' /\ flight'[p] = NoFlight /\ \A q \in Processes \ {p} : flight'[q] = flight[q]
    BY Constants, FlightMoves DEF Land
  <1>2. \A c \in Callers : call'[c] = call[c] \/ (call[c].at = "refreshing" /\ call'[c] = IdleCall)
    BY DEF Land
  <1>3. CallsTyped'  BY Constants DEF CallsTyped, Land
  <1> QED  BY <1>1, <1>2, <1>3

LEMMA QuietCall ==
  ASSUME OAuthInv, NEW c \in Callers, NEW r \in CallerStates, call' = [call EXCEPT ![c] = r],
         UNCHANGED <<file, holder, flight, issued, grants, loggedOut>>,
         lost \subseteq lost', clients' \in Nat,
         call[c].at = "delete" => file.refresh \in lost',
         r.at \notin {"revoke", "delete", "keep"},
         r.at \in {"register", "store"} => r.new.refresh = 0 /\ r.new.grant = 0,
         r.at \in {"store", "browser"} => r.new.client # 0
  PROVE  OAuthInv'
  <1>1. CallsTyped /\ FlightsTyped /\ RestTyped  BY DEF OAuthInv, OAuthTypeOK
  <1>2. CallsTyped' /\ call'[c] = r /\ \A d \in Callers \ {c} : call'[d] = call[d]
    BY <1>1, CallMoves
  <1>3. CallTurns(c)  BY <1>2 DEF CallTurns
  <1>4. LockIsHeld'  BY <1>2 DEF OAuthInv, LockIsHeld, LoggingOut, Refreshing
  <1> QED  BY <1>1, <1>2, <1>3, <1>4, QuietStep
           DEF FlightsTyped, RestTyped, Same, CallGoesOn, RefreshGoesOn

LEMMA BeginKeeps ==
  ASSUME OAuthInv, NEW c \in Callers, NEW op \in Logins \cup {"token", "logout"}, Begin(c, op)
  PROVE  OAuthInv'
  <1> DEFINE r == [IdleCall EXCEPT !.op = op, !.at = "read"]
  <1>1. r \in CallerStates /\ r.at = "read"  BY Constants DEF CallerStates, CallerSteps
  <1>2. call' = [call EXCEPT ![c] = r] /\ call[c].at = "idle"  BY DEF Begin
  <1> HIDE DEF r
  <1> QED  BY <1>1, <1>2, QuietCall DEF Begin, OAuthInv, OAuthTypeOK, RestTyped

LEMMA GiveUpKeeps ==
  ASSUME OAuthInv, NEW c \in Callers, GiveUp(c)
  PROVE  OAuthInv'
  <1>1. call' = [call EXCEPT ![c] = IdleCall] /\ call[c].at # "delete"  BY DEF GiveUp, Return
  <1> QED  BY <1>1, Constants, QuietCall DEF GiveUp, OAuthInv, OAuthTypeOK, RestTyped

LEMMA CancelCallKeeps ==
  ASSUME OAuthInv, NEW c \in Callers, CancelCall(c)
  PROVE  OAuthInv'
  <1> DEFINE r == [call[c] EXCEPT !.cancelled = TRUE]
  <1>1. CallsTyped /\ FlightsTyped /\ RestTyped  BY DEF OAuthInv, OAuthTypeOK
  <1>2. r \in CallerStates /\ r.at = call[c].at /\ r.seen = call[c].seen /\ r.new = call[c].new
    BY <1>1 DEF CallsTyped, CallerStates
  <1>3. call' = [call EXCEPT ![c] = r]  BY DEF CancelCall
  <1> HIDE DEF r
  <1>4. CallsTyped' /\ \A d \in Callers : CallGoesOn(d)
    <2>1. CallsTyped' /\ call'[c] = r /\ \A d \in Callers \ {c} : call'[d] = call[d]
      BY <1>1, <1>2, <1>3, CallMoves
    <2>2. ASSUME NEW d \in Callers PROVE CallGoesOn(d)
      BY <1>2, <2>1 DEF CallGoesOn
    <2> QED BY <2>1, <2>2
  <1>5. ASSUME NEW p \in Processes
        PROVE  flight'[p] \in Flights /\ RefreshGoesOn(p)
    <2>1. flight[p] \in Flights  BY <1>1 DEF FlightsTyped
    <2>2. flight'[p] = flight[p] \/ flight'[p] = [flight[p] EXCEPT !.cancelled = TRUE]
      BY DEF CancelCall
    <2> QED  BY <2>1, <2>2 DEF Flights, RefreshGoesOn
  <1>6. FlightsTyped'  BY <1>5 DEF FlightsTyped, CancelCall
  <1>7. LockIsHeld'
    BY <1>4, <1>5 DEF OAuthInv, LockIsHeld, LoggingOut, Refreshing, CancelCall, CallGoesOn, RefreshGoesOn
  <1> QED  BY <1>1, <1>4, <1>5, <1>6, <1>7, QuietStep DEF CancelCall, RestTyped, Same

LEMMA TokenKeeps ==
  ASSUME OAuthInv, NEW c \in Callers, Token(c)
  PROVE  OAuthInv'
  <1>1. CallsTyped /\ FlightsTyped /\ RestTyped  BY DEF OAuthInv, OAuthTypeOK
  <1>2. call[c] \in CallerStates /\ call[c].at = "read"  BY <1>1 DEF CallsTyped, Token
  <1>3. CASE Return(c) /\ UNCHANGED flight
    BY <1>1, <1>2, <1>3, Constants, QuietCall DEF Return, Token, RestTyped
  <1>4. CASE ~(Return(c) /\ UNCHANGED flight)
    <2> DEFINE p == ProcessOf[c]
               r == [call[c] EXCEPT !.at = "refreshing"]
               f == [NoFlight EXCEPT !.at = "lock", !.leader = c, !.seen = file,
                                     !.cancelled = call[c].cancelled]
    <2>1. r \in CallerStates /\ r.at = "refreshing"  BY <1>2 DEF CallerStates, CallerSteps
    <2>2. f \in Flights /\ f.at = "lock"
      BY <1>1, <1>2, Constants DEF Flights, CallerStates, RestTyped
    <2>3. call' = [call EXCEPT ![c] = r]  BY <1>4 DEF Token, Step
    <2>4. flight' = flight \/ (flight[p].at = "none" /\ flight' = [flight EXCEPT ![p] = f])
      BY <1>4 DEF Token
    <2>5. p \in Processes  OBVIOUS
    <2> HIDE DEF p, r, f
    <2>6. CallsTyped' /\ call'[c] = r /\ \A d \in Callers \ {c} : call'[d] = call[d]
      BY <1>1, <2>1, <2>3, CallMoves
    <2>7. FlightsTyped' /\ \A q \in Processes : RefreshGoesOn(q) \/ RefreshTurns(q)
      <3>1. CASE flight' = flight  BY <1>1, <3>1 DEF FlightsTyped, RefreshGoesOn
      <3>2. CASE flight[p].at = "none" /\ flight' = [flight EXCEPT ![p] = f]
        BY ZenonT(60), <1>1, <2>2, <2>5, <3>2, FlightMoves DEF RefreshGoesOn, RefreshTurns
      <3> QED  BY <2>4, <3>1, <3>2
    <2>8. \A d \in Callers : CallGoesOn(d) \/ CallTurns(d)
      BY <1>2, <2>1, <2>6 DEF CallGoesOn, CallTurns
    <2>9. LockIsHeld'
      BY <2>1, <2>6, <2>7 DEF OAuthInv, LockIsHeld, LoggingOut, Refreshing, Token, RefreshGoesOn,
                             RefreshTurns
    <2> QED  BY <1>1, <2>6, <2>7, <2>8, <2>9, QuietStep DEF Token, RestTyped, Same
  <1> QED  BY <1>3, <1>4

LEMMA LoginReadsKeeps ==
  ASSUME OAuthInv, NEW c \in Callers, LoginReads(c)
  PROVE  OAuthInv'
  <1>1. CallsTyped /\ RestTyped /\ Minted(file)  BY DEF OAuthInv, OAuthTypeOK
  <1> DEFINE r == [call[c] EXCEPT !.new = file, !.at = IF file.client = 0 THEN "register" ELSE "browser"]
  <1>2. r \in CallerStates /\ r.new = file /\ r.at = IF file.client = 0 THEN "register" ELSE "browser"
    BY <1>1 DEF CallsTyped, RestTyped, CallerStates, CallerSteps
  <1>3. call' = [call EXCEPT ![c] = r] /\ call[c].at = "read"
    BY <1>1 DEF LoginReads, CallsTyped, CallerStates
  <1> HIDE DEF r
  <1>4. r.at \in {"register", "store"} => r.new.refresh = 0 /\ r.new.grant = 0
    BY <1>1, <1>2 DEF Minted
  <1> QED  BY <1>1, <1>2, <1>3, <1>4, QuietCall DEF LoginReads, RestTyped

LEMMA RegisterKeeps ==
  ASSUME OAuthInv, NEW c \in Callers, Register(c)
  PROVE  OAuthInv'
  <1>1. CallsTyped /\ RestTyped /\ OwnLogin(c)  BY DEF OAuthInv, OAuthTypeOK, LoginIsItsOwn
  <1>2. call[c] \in CallerStates /\ call[c].at = "register" /\ clients \in Nat
    BY <1>1 DEF CallsTyped, RestTyped, Register
  <1>3. CASE Return(c) /\ UNCHANGED clients
    BY <1>2, <1>3, Constants, QuietCall DEF Return, Register
  <1>4. CASE ~(Return(c) /\ UNCHANGED clients)
    <2> DEFINE n == [call[c].new EXCEPT !.client = clients', !.there = TRUE]
               r == [call[c] EXCEPT !.new = n,
                                    !.at = IF call[c].op = "sdk" THEN "browser" ELSE "store"]
    <2>1. clients' = clients + 1  BY <1>4 DEF Register
    <2>2. call[c].new \in Credential /\ call[c].new.refresh = 0 /\ call[c].new.grant = 0
      BY <1>1, <1>2 DEF CallerStates, OwnLogin
    <2>0. clients' \in Nat /\ clients' # 0  BY <1>2, <2>1
    <2>5. n \in Credential /\ n.client # 0 /\ n.refresh = 0 /\ n.grant = 0
      BY <2>0, <2>2 DEF Credential
    <2>6. UNCHANGED <<file, holder, flight, issued, grants, loggedOut, lost>>  BY DEF Register
    <2> HIDE DEF n
    <2>3. r \in CallerStates /\ r.new = n /\ r.at \in {"browser", "store"}  BY <1>2, <2>5 DEF CallerStates, CallerSteps
    <2>4. call' = [call EXCEPT ![c] = r]  BY <1>1, <1>2, <1>4 DEF Register, CallsTyped, CallerStates, n
    <2> HIDE DEF r
    <2> QED  BY <1>2, <2>0, <2>3, <2>4, <2>5, <2>6, QuietCall
  <1> QED  BY <1>3, <1>4

LEMMA RefreshFailsKeeps ==
  ASSUME OAuthInv, NEW p \in Processes, RefreshFails(p)
  PROVE  OAuthInv'
  <1>1. CallsTyped /\ FlightsTyped /\ RestTyped /\ LockIsHeld /\ RefreshIsCurrent(p)
    BY DEF OAuthInv, OAuthTypeOK, HolderIsCurrent
  <1>2. /\ CallsTyped' /\ FlightsTyped'
        /\ flight'[p] = NoFlight /\ \A q \in Processes \ {p} : flight'[q] = flight[q]
        /\ \A c \in Callers : call'[c] = call[c] \/ (call[c].at = "refreshing" /\ call'[c] = IdleCall)
    BY <1>1, Lands DEF RefreshFails
  <1>3. \A c \in Callers : CallGoesOn(c) \/ CallTurns(c)
    BY <1>2, Constants DEF CallGoesOn, CallTurns
  <1>4. RefreshTurns(p)
    BY <1>1, <1>2, Constants DEF RefreshTurns, RefreshFails, RefreshIsCurrent, Refreshing, Same
  <1>5. LockIsHeld'
    <2>1. flight[p].at # "lock" => Refreshing(p)  BY DEF RefreshFails, Refreshing
    <2>2. \A q \in Processes : Refreshing(q)' => q # p /\ Refreshing(q)
      BY <1>2, Constants DEF Refreshing
    <2>3. \A c \in Callers : LoggingOut(c)' => LoggingOut(c)  BY <1>2, Constants DEF LoggingOut
    <2> QED  BY <1>1, <2>1, <2>2, <2>3, OneAtTheLock DEF LockIsHeld, RefreshFails
  <1>6. \A q \in Processes : RefreshGoesOn(q) \/ RefreshTurns(q)  BY <1>2, <1>4 DEF RefreshGoesOn
  <1>7. holder' \in Callers \cup Processes \cup {NoHolder} /\ lost \subseteq lost'
    BY <1>1 DEF RefreshFails, RestTyped
  <1> QED  BY <1>1, <1>2, <1>3, <1>5, <1>6, <1>7, QuietStep DEF RefreshFails, RestTyped, Same

LEMMA ExpireKeeps ==
  ASSUME OAuthInv, Expire
  PROVE  OAuthInv'
  <1>1. CallsTyped /\ FlightsTyped /\ RestTyped /\ LockIsHeld  BY DEF OAuthInv, OAuthTypeOK
  <1>2. file' \in Credential /\ Same(file')  BY <1>1 DEF RestTyped, Credential, Expire, Same
  <1>3. LockIsHeld' /\ CallsTyped' /\ FlightsTyped'
    BY <1>1 DEF LockIsHeld, LoggingOut, Refreshing, CallsTyped, FlightsTyped, Expire
  <1> QED  BY <1>1, <1>2, <1>3, QuietStep DEF Expire, RestTyped, CallGoesOn, RefreshGoesOn

LEMMA KillProcessKeeps ==
  ASSUME OAuthInv, NEW p \in Processes, KillProcess(p)
  PROVE  OAuthInv'
  <1>1. CallsTyped /\ FlightsTyped /\ RestTyped /\ LockIsHeld /\ HolderIsCurrent
    BY DEF OAuthInv, OAuthTypeOK
  <1>2. FlightsTyped' /\ flight'[p] = NoFlight /\ \A q \in Processes \ {p} : flight'[q] = flight[q]
    BY <1>1, Constants, FlightMoves DEF KillProcess
  <1>3. \A c \in Callers : call'[c] = IF ProcessOf[c] = p THEN IdleCall ELSE call[c]
    BY DEF KillProcess
  <1>4. CallsTyped'  BY <1>1, Constants DEF CallsTyped, KillProcess
  <1>5. ASSUME NEW c \in Callers PROVE CallGoesOn(c) \/ CallTurns(c)
    <2>1. CASE ProcessOf[c] # p  BY <1>3, <2>1 DEF CallGoesOn
    <2>2. CASE ProcessOf[c] = p
      <3>1. call[c].at = "delete" => call[c].seen.refresh \in lost'  BY <2>2 DEF KillProcess
      <3>2. call[c].at = "delete" => call[c].seen.refresh = file.refresh
        BY <1>1 DEF HolderIsCurrent, LoggingOut, Same
      <3> QED  BY <1>3, <2>2, <3>1, <3>2, Constants DEF CallTurns
    <2> QED  BY <2>1, <2>2
  <1>6. RefreshTurns(p)
    <2>1. flight[p].at = "answered" => flight[p].seen.refresh \in lost'  BY DEF KillProcess
    <2> QED  BY <1>1, <1>2, <2>1, Constants
             DEF RefreshTurns, HolderIsCurrent, RefreshIsCurrent, Refreshing, Same
  <1>7. LockIsHeld'
    <2>1. \A q \in Processes : Refreshing(q)' => q # p /\ Refreshing(q)
      BY <1>2, Constants DEF Refreshing
    <2>2. \A c \in Callers : LoggingOut(c)' => ProcessOf[c] # p /\ LoggingOut(c)
      BY <1>3, Constants DEF LoggingOut
    <2> QED  BY <1>1, <2>1, <2>2 DEF LockIsHeld, KillProcess
  <1>8. \A q \in Processes : RefreshGoesOn(q) \/ RefreshTurns(q)  BY <1>2, <1>6 DEF RefreshGoesOn
  <1>9. holder' \in Callers \cup Processes \cup {NoHolder} /\ lost \subseteq lost'
    BY <1>1 DEF KillProcess, RestTyped
  <1> QED  BY <1>1, <1>2, <1>4, <1>5, <1>7, <1>8, <1>9, QuietStep DEF KillProcess, RestTyped, Same

\* The steps that change the file, the server's tokens, or who holds the lock.  A
\* login other than that of c stays its own.
LEMMA OtherLogins ==
  ASSUME OAuthInv, NEW c \in Callers,
         \A d \in Callers \ {c} : call'[d] = call[d],
         IssuedGrows, grants' \in Nat, grants <= grants',
         loggedOut' \subseteq loggedOut \cup {file.grant},
         \A d \in Callers \ {c} : call[d].at = "keep" => file'.grant # call[d].new.grant,
         OwnLogin(c)', call'[c].at = "keep" => call'[c].new.grant > grants
  PROVE  LoginIsItsOwn'
  <1>1. LoginIsItsOwn /\ grants \in Nat  BY DEF OAuthInv, OAuthTypeOK, RestTyped
  <1>2. ASSUME NEW d \in Callers \ {c} PROVE OwnLogin(d)'
    <2>1. OwnLogin(d)  BY <1>1 DEF LoginIsItsOwn
    <2> QED  BY <2>1, OwnLoginStays
  <1>3. \A d \in Callers \ {c} : call'[d].at = "keep" => call'[d].new.grant \in 1 .. grants
    BY <1>1 DEF LoginIsItsOwn, OwnLogin
  <1>4. ASSUME NEW d \in Callers, NEW e \in Callers, d # e,
               (call[d].at = "keep")', (call[e].at = "keep")'
        PROVE  (call[d].new.grant # call[e].new.grant)'
    <2>1. CASE d # c /\ e # c  BY <1>1, <1>4, <2>1 DEF LoginIsItsOwn
    <2>2. CASE d = c \/ e = c  BY <1>1, <1>3, <1>4, <2>2
    <2> QED  BY <2>1, <2>2
  <1> QED  BY <1>2, <1>4 DEF LoginIsItsOwn

\* A step that moves no login and removes none.
LEMMA LoginsStay ==
  ASSUME OAuthInv, IssuedGrows, UNCHANGED <<grants, loggedOut>>, file'.grant = file.grant,
         \A d \in Callers : call'[d] = call[d] \/ call'[d].at = "idle"
  PROVE  LoginIsItsOwn'
  <1>1. LoginIsItsOwn /\ grants \in Nat  BY DEF OAuthInv, OAuthTypeOK, RestTyped
  <1>2. ASSUME NEW d \in Callers PROVE OwnLogin(d)'
    <2>1. OwnLogin(d) /\ (call[d].at = "keep" => file'.grant # call[d].new.grant)
      BY <1>1 DEF LoginIsItsOwn, OwnLogin
    <2>2. CASE call'[d] = call[d]  BY <1>1, <2>1, <2>2, OwnLoginStays
    <2>3. CASE call'[d].at = "idle"  BY <2>3 DEF OwnLogin
    <2> QED  BY <2>2, <2>3
  <1> QED  BY <1>1, <1>2 DEF LoginIsItsOwn

LEMMA RefreshKeeps ==
  ASSUME OAuthInv, NEW p \in Processes, Refresh(p)
  PROVE  OAuthInv'
  <1> USE DEF Current, ReadAgain
  <1>1. CallsTyped /\ FlightsTyped /\ RestTyped /\ LockIsHeld /\ HolderIsCurrent
    BY DEF OAuthInv, OAuthTypeOK
  <1>2. /\ \A q \in Processes : ~Refreshing(q)
        /\ \A c \in Callers : ~LoggingOut(c)
    BY OneAtTheLock DEF Refresh
  <1>3. CASE Land(p) /\ UNCHANGED holder
    <2>1. /\ CallsTyped' /\ FlightsTyped'
          /\ flight'[p] = NoFlight /\ \A q \in Processes \ {p} : flight'[q] = flight[q]
          /\ \A c \in Callers : call'[c] = call[c] \/ (call[c].at = "refreshing" /\ call'[c] = IdleCall)
      BY <1>1, <1>3, Lands
    <2>2. \A c \in Callers : CallGoesOn(c) \/ CallTurns(c)
      BY <2>1, Constants DEF CallGoesOn, CallTurns
    <2>3. \A q \in Processes : RefreshGoesOn(q) \/ RefreshTurns(q)
      BY <1>2, <2>1, Constants DEF RefreshGoesOn, RefreshTurns, Refreshing
    <2>4. LockIsHeld'  BY <1>2, <2>1, Constants DEF LockIsHeld, Refreshing, LoggingOut
    <2> QED  BY <1>1, <1>3, <2>1, <2>2, <2>3, <2>4, QuietStep DEF Refresh, RestTyped, Same
  <1>4. CASE ~(Land(p) /\ UNCHANGED holder)
    <2> DEFINE f == [flight[p] EXCEPT !.at = "request", !.seen = file]
    <2>1. f \in Flights /\ f.at = "request" /\ f.seen = file
      BY ZenonT(60), <1>1 DEF FlightsTyped, RestTyped, Flights
    <2>2. flight' = [flight EXCEPT ![p] = f]
      BY <1>1, <1>4 DEF Refresh, FlightsTyped, Flights
    <2> HIDE DEF f
    <2>3. FlightsTyped' /\ flight'[p] = f /\ \A q \in Processes \ {p} : flight'[q] = flight[q]
      BY <1>1, <2>1, <2>2, FlightMoves
    <2>4. holder' = p /\ file.refresh # 0 /\ UNCHANGED call  BY <1>4 DEF Refresh
    <2>5. UNCHANGED <<file, issued, clients, grants, loggedOut, lost>>  BY DEF Refresh
    <2>6. OAuthTypeOK'
      BY <1>1, <2>3, <2>4, <2>5 DEF OAuthInv, OAuthTypeOK, CallsTyped, RestTyped, IssuedTyped, Tokens
    <2>7. LockIsHeld'  BY <1>2, <2>3, <2>4 DEF LockIsHeld, Refreshing, LoggingOut
    <2>8. HolderIsCurrent'
      BY <1>2, <2>1, <2>3, <2>4, <2>5
      DEF HolderIsCurrent, RefreshIsCurrent, Refreshing, LoggingOut, Same
    <2>9. LoginIsItsOwn'  BY <2>4, <2>5, LoginsStay DEF IssuedGrows
    <2>10. Minted(file)'  BY <2>5 DEF OAuthInv, Minted, IssuedFor
    <2>11. FileIsHonoured'
      BY <1>2, <2>4, <2>5 DEF OAuthInv, FileIsHonoured, Live, Refreshing, LoggingOut
    <2>12. LoggedOutStaysOut'  BY <2>5 DEF OAuthInv, LoggedOutStaysOut
    <2> QED  BY <2>6, <2>7, <2>8, <2>9, <2>10, <2>11, <2>12 DEF OAuthInv
  <1> QED  BY <1>3, <1>4

\* The server issues one more token.
LEMMA OneMoreToken ==
  ASSUME IssuedTyped, DOMAIN issued' = 1 .. (Tokens + 1)
  PROVE  Tokens' = Tokens + 1
  <1> DEFINE n == Tokens + 1
  <1>1. n \in Nat /\ n >= 1  BY DEF IssuedTyped
  <1>2. DOMAIN issued' = 1 .. n  OBVIOUS
  <1> HIDE DEF n
  <1>3. Cardinality(1 .. n) = n  BY <1>1, FS_Interval
  <1>4. Tokens' = n  BY <1>2, <1>3 DEF Tokens
  <1> QED  BY <1>4 DEF n

LEMMA ServerRefreshesKeeps ==
  ASSUME OAuthInv, NEW p \in Processes, ServerRefreshes(p)
  PROVE  OAuthInv'
  <1>1. CallsTyped /\ FlightsTyped /\ IssuedTyped /\ RestTyped /\ LockIsHeld /\ HolderIsCurrent
        /\ Minted(file)
    BY DEF OAuthInv, OAuthTypeOK
  <1>0. flight[p].seen.refresh \in Nat /\ Tokens + 1 \in Nat
    BY <1>1 DEF FlightsTyped, Flights, Credential, IssuedTyped
  <1> PICK old \in Nat : old = flight[p].seen.refresh  BY <1>0
  <1> PICK next \in Nat : next = Tokens + 1  BY <1>0
  <1> DEFINE fresh(t) == [flight[p].new EXCEPT !.refresh = t, !.fresh = TRUE]
             f(t) == [flight[p] EXCEPT !.at = "answered", !.new = fresh(t)]
  <1>2. Refreshing(p) /\ flight[p] \in Flights  BY <1>1 DEF ServerRefreshes, Refreshing, FlightsTyped
  <1>3. old # 0 /\ old = file.refresh /\ IssuedFor(old, file) /\ Live(old)
    BY <1>1, <1>2 DEF HolderIsCurrent, RefreshIsCurrent, Same, Minted, ServerRefreshes
  <1>4. UNCHANGED <<file, holder, call, clients, grants, loggedOut, lost>>  BY DEF ServerRefreshes
  <1>5. ASSUME NEW t \in Nat, flight' = [flight EXCEPT ![p] = f(t)],
               IssuedTyped', IssuedGrows, IssuedFor(t, file)', Live(t)'
        PROVE  OAuthInv'
    <2>1. fresh(t) \in Credential /\ fresh(t).refresh = t  BY <1>2 DEF Flights, Credential
    <2> HIDE DEF fresh
    <2>2. f(t) \in Flights /\ f(t).at = "answered" /\ f(t).seen = flight[p].seen
          /\ f(t).new.refresh = t
      BY <1>2, <2>1 DEF Flights
    <2> HIDE DEF f
    <2>3. FlightsTyped' /\ flight'[p] = f(t) /\ \A q \in Processes \ {p} : flight'[q] = flight[q]
      BY <1>1, <1>5, <2>2, FlightMoves
    <2>4. OAuthTypeOK'  BY <1>1, <1>4, <1>5, <2>3 DEF OAuthTypeOK, CallsTyped, RestTyped
    <2>5. LockIsHeld'  BY <1>1, <1>2, <1>4, <2>2, <2>3 DEF LockIsHeld, Refreshing, LoggingOut
    <2>6. Minted(file)'  BY <1>1, <1>4, <1>5 DEF Minted, IssuedFor, IssuedGrows
    <2>7. \A q \in Processes \ {p} : ~Refreshing(q)' /\ (flight[q].at # "answered")'
      BY <1>2, <2>3, OneAtTheLock DEF Refreshing
    <2>8. RefreshIsCurrent(p)'
      <3>1. Same(flight[p].seen)' /\ (flight[p].seen.refresh # 0)'
        BY <1>1, <1>2, <1>3, <1>4, <2>2, <2>3 DEF HolderIsCurrent, RefreshIsCurrent, Same
      <3>2. flight'[p].new.refresh = t  BY <2>2, <2>3
      <3> QED  BY <1>5, <3>1, <3>2 DEF RefreshIsCurrent, IssuedFor, Live
    <2>9. HolderIsCurrent'
      BY <1>1, <1>4, <2>7, <2>8 DEF HolderIsCurrent, RefreshIsCurrent, LoggingOut, Same
    <2>10. LoginIsItsOwn'  BY <1>4, <1>5, LoginsStay
    <2>11. FileIsHonoured'  BY <2>2, <2>3 DEF FileIsHonoured
    <2>12. LoggedOutStaysOut'  BY <1>4 DEF OAuthInv, LoggedOutStaysOut
    <2> QED  BY <2>4, <2>5, <2>6, <2>9, <2>10, <2>11, <2>12 DEF OAuthInv
  <1>6. ASSUME NEW t, flight' = [flight EXCEPT ![p].at = "answered",
                                    ![p].new = [@ EXCEPT !.refresh = t, !.fresh = TRUE]]
        PROVE  flight' = [flight EXCEPT ![p] = f(t)]
    BY <1>1, <1>2, <1>6 DEF FlightsTyped, Flights
  <1>7. CASE flight' = [flight EXCEPT ![p].at = "answered",
                           ![p].new = [@ EXCEPT !.refresh = old, !.fresh = TRUE]]
             /\ UNCHANGED issued
    <2>1. IssuedTyped'  BY <1>1, <1>7 DEF IssuedTyped, Tokens
    <2>2. IssuedGrows  BY <1>7 DEF IssuedGrows
    <2>4. IssuedFor(old, file)' /\ Live(old)'  BY <1>3, <1>4, <1>7, <2>2 DEF IssuedFor, Live
    <2>3. flight' = [flight EXCEPT ![p] = f(old)]  BY <1>6, <1>7
    <2> HIDE DEF f
    <2> QED  BY <1>5, <2>1, <2>2, <2>3, <2>4
  <1>8. CASE /\ issued' = [t \in 1 .. next |->
                            IF t = next THEN [issued[old] EXCEPT !.live = TRUE]
                            ELSE IF t = old THEN [issued[t] EXCEPT !.live = FALSE] ELSE issued[t]]
             /\ flight' = [flight EXCEPT ![p].at = "answered",
                             ![p].new = [@ EXCEPT !.refresh = next, !.fresh = TRUE]]
    <2>1. DOMAIN issued = 1 .. Tokens /\ Tokens \in Nat /\ issued \in [DOMAIN issued -> IssuedToken]
      BY <1>1 DEF IssuedTyped
    <2>2. DOMAIN issued' = 1 .. next  BY <1>8
    <2>3. Tokens' = next  BY <1>1, <2>2, OneMoreToken
    <2>4. old \in DOMAIN issued /\ issued[old] \in IssuedToken /\ old # next
      BY <1>3, <2>1 DEF IssuedFor
    <2>5. issued'[next] = [issued[old] EXCEPT !.live = TRUE]  BY <1>8, <2>1
    <2>6. ASSUME NEW t \in DOMAIN issued
          PROVE  /\ t \in DOMAIN issued'
                 /\ issued'[t] = IF t = old THEN [issued[t] EXCEPT !.live = FALSE] ELSE issued[t]
                 /\ issued[t] \in IssuedToken
      BY <1>8, <2>1, <2>2
    <2>7. IssuedGrows
      <3> SUFFICES ASSUME NEW t \in DOMAIN issued
                   PROVE  /\ t \in DOMAIN issued'
                          /\ issued'[t].client = issued[t].client
                          /\ issued'[t].grant = issued[t].grant
                          /\ issued[t].grant # file.grant /\ issued[t].live => issued'[t].live
        BY DEF IssuedGrows
      <3>1. CASE t # old  BY <2>6, <3>1
      <3>2. CASE t = old  BY <1>3, <2>6, <3>2 DEF IssuedToken, IssuedFor
      <3> QED  BY <3>1, <3>2
    <2>8. IssuedTyped'
      <3>1. ASSUME NEW t \in DOMAIN issued' PROVE issued'[t] \in IssuedToken
        <4>1. CASE t = next  BY <2>4, <2>5, <4>1 DEF IssuedToken
        <4>2. CASE t # next
          <5>1. t \in DOMAIN issued  BY <2>1, <2>2, <4>2
          <5> QED  BY <2>6, <5>1 DEF IssuedToken
        <4> QED  BY <4>1, <4>2
      <3>2. issued' = [t \in DOMAIN issued' |-> issued'[t]]  BY <1>8
      <3> QED  BY <2>2, <2>3, <3>1, <3>2 DEF IssuedTyped
    <2>9. IssuedFor(next, file)' /\ Live(next)'
      <3>1. issued'[next].client = issued[old].client /\ issued'[next].grant = issued[old].grant
            /\ issued'[next].live = TRUE
        BY <2>4, <2>5 DEF IssuedToken
      <3> QED  BY <1>3, <1>4, <2>1, <2>2, <3>1 DEF IssuedFor, Live
    <2>10. flight' = [flight EXCEPT ![p] = f(next)]  BY <1>6, <1>8
    <2> HIDE DEF f
    <2> QED  BY <1>5, <2>7, <2>8, <2>9, <2>10
  <1> QED  BY <1>7, <1>8 DEF ServerRefreshes, Tokens

LEMMA RefreshEndsKeeps ==
  ASSUME OAuthInv, NEW p \in Processes, RefreshEnds(p)
  PROVE  OAuthInv'
  <1>1. CallsTyped /\ FlightsTyped /\ IssuedTyped /\ RestTyped /\ LockIsHeld /\ HolderIsCurrent
        /\ Minted(file) /\ LoggedOutStaysOut
    BY DEF OAuthInv, OAuthTypeOK
  <1>2. flight[p].at = "answered" /\ Refreshing(p) /\ flight[p] \in Flights
    BY <1>1 DEF RefreshEnds, Refreshing, FlightsTyped
  <1>3. /\ flight[p].seen.client = file.client /\ flight[p].seen.grant = file.grant
        /\ IssuedFor(flight[p].new.refresh, file) /\ Live(flight[p].new.refresh)
    BY <1>1, <1>2 DEF HolderIsCurrent, RefreshIsCurrent, Same
  <1>4. /\ file' \in Credential
        /\ file'.refresh = flight[p].new.refresh
        /\ file'.client = file.client /\ file'.grant = file.grant
    BY <1>2, <1>3 DEF RefreshEnds, Put, Refreshed, Flights, Credential
  <1>5. /\ CallsTyped' /\ FlightsTyped'
        /\ flight'[p] = NoFlight /\ \A q \in Processes \ {p} : flight'[q] = flight[q]
        /\ \A c \in Callers : call'[c] = call[c] \/ (call[c].at = "refreshing" /\ call'[c] = IdleCall)
    BY <1>1, Lands DEF RefreshEnds
  <1>6. UNCHANGED <<issued, clients, grants, loggedOut, lost>> /\ holder' = NoHolder
    BY DEF RefreshEnds
  <1>7. /\ \A q \in Processes : ~Refreshing(q)' /\ (flight[q].at # "answered")'
        /\ \A c \in Callers : ~LoggingOut(c)'
    BY <1>2, <1>5, OneAtTheLock, Constants DEF Refreshing, LoggingOut
  <1>8. OAuthTypeOK'  BY <1>1, <1>4, <1>5, <1>6 DEF OAuthTypeOK, RestTyped, IssuedTyped, Tokens
  <1>9. LockIsHeld'  BY <1>7 DEF LockIsHeld
  <1>10. Minted(file)'
    <2>1. file.client # 0
      BY <1>1, <1>2 DEF HolderIsCurrent, RefreshIsCurrent, Same, Minted
    <2> QED  BY <1>1, <1>3, <1>4, <1>6, <2>1 DEF Minted, IssuedFor
  <1>11. HolderIsCurrent'  BY <1>7 DEF HolderIsCurrent, RefreshIsCurrent
  <1>12. LoginIsItsOwn'  BY <1>4, <1>5, <1>6, LoginsStay, Constants DEF IssuedGrows
  <1>13. FileIsHonoured'  BY <1>3, <1>4, <1>6 DEF FileIsHonoured, Live
  <1>14. LoggedOutStaysOut'  BY <1>1, <1>4, <1>6 DEF LoggedOutStaysOut
  <1> QED  BY <1>8, <1>9, <1>10, <1>11, <1>12, <1>13, <1>14 DEF OAuthInv

\* A step with the lock free after it: nobody works under it.
LEMMA NobodyAtTheLock ==
  ASSUME \A q \in Processes : ~Refreshing(q)', \A c \in Callers : ~LoggingOut(c)'
  PROVE  LockIsHeld' /\ HolderIsCurrent'
  <1>1. \A q \in Processes : (flight[q].at # "answered")'  BY DEF Refreshing
  <1> QED  BY <1>1 DEF LockIsHeld, HolderIsCurrent, RefreshIsCurrent

LEMMA ClientStoredKeeps ==
  ASSUME OAuthInv, NEW c \in Callers, ClientStored(c)
  PROVE  OAuthInv'
  <1>1. CallsTyped /\ FlightsTyped /\ IssuedTyped /\ RestTyped /\ LoginIsItsOwn
    BY DEF OAuthInv, OAuthTypeOK
  <1>2. call[c] \in CallerStates /\ call[c].at = "store" /\ OwnLogin(c)
    BY <1>1 DEF CallsTyped, ClientStored, LoginIsItsOwn
  <1>3. UNCHANGED <<holder, flight, issued, clients, grants, loggedOut, lost>>  BY DEF ClientStored
  <1>4. CASE Return(c) /\ UNCHANGED file
    BY <1>1, <1>2, <1>3, <1>4, Constants, QuietCall DEF Return, RestTyped
  <1>5. CASE file' = call[c].new /\ call' = [call EXCEPT ![c].at = "browser"]
    <2> DEFINE r == [call[c] EXCEPT !.at = "browser"]
    <2>1. r \in CallerStates /\ r.at = "browser" /\ r.new = call[c].new  BY <1>2 DEF CallerStates, CallerSteps
    <2>2. call' = [call EXCEPT ![c] = r]  BY <1>5
    <2> HIDE DEF r
    <2>3. CallsTyped' /\ call'[c] = r /\ \A d \in Callers \ {c} : call'[d] = call[d]
      BY <1>1, <2>1, <2>2, CallMoves
    <2>4. file' \in Credential /\ file'.refresh = 0 /\ file'.grant = 0 /\ file'.client # 0
      BY <1>2, <1>5 DEF CallerStates, OwnLogin
    <2>5. OAuthTypeOK'
      BY <1>1, <1>3, <2>3, <2>4 DEF OAuthTypeOK, FlightsTyped, IssuedTyped, RestTyped, Tokens
    <2>6. LockIsHeld' /\ HolderIsCurrent'
      <3>1. \A q \in Processes : ~Refreshing(q)'
        BY <1>3, OneAtTheLock DEF ClientStored, Refreshing
      <3>2. \A d \in Callers : ~LoggingOut(d)'
        BY <2>1, <2>3, OneAtTheLock DEF ClientStored, LoggingOut
      <3> QED  BY <3>1, <3>2, NobodyAtTheLock
    <2>7. LoginIsItsOwn'
      <3>1. grants \in Nat /\ IssuedGrows  BY <1>1, <1>3 DEF RestTyped, IssuedGrows
      <3>2. \A d \in Callers : call[d].at = "keep" => call[d].new.grant # 0
        BY <1>1, <3>1 DEF LoginIsItsOwn, OwnLogin
      <3>3. OwnLogin(c)'  BY <1>2, <2>1, <2>3 DEF OwnLogin
      <3> QED  BY <1>3, <2>1, <2>3, <2>4, <3>1, <3>2, <3>3, OtherLogins
    <2>8. Minted(file)'  BY <1>1, <1>3, <2>4 DEF Minted, RestTyped
    <2>9. FileIsHonoured'  BY <2>4 DEF FileIsHonoured
    <2>10. LoggedOutStaysOut'  BY <1>1, <1>3, <2>4 DEF LoggedOutStaysOut, RestTyped
    <2> QED  BY <2>5, <2>6, <2>7, <2>8, <2>9, <2>10 DEF OAuthInv
  <1> QED  BY <1>4, <1>5 DEF ClientStored, Put, NewClientEntry, WithClient, Step

LEMMA ExchangeKeeps ==
  ASSUME OAuthInv, NEW c \in Callers, Exchange(c)
  PROVE  OAuthInv'
  <1>1. /\ CallsTyped /\ FlightsTyped /\ IssuedTyped /\ RestTyped /\ LockIsHeld /\ HolderIsCurrent
        /\ LoginIsItsOwn /\ Minted(file) /\ FileIsHonoured /\ LoggedOutStaysOut
    BY DEF OAuthInv, OAuthTypeOK
  <1>2. call[c] \in CallerStates /\ call[c].at = "browser" /\ OwnLogin(c)
    BY <1>1 DEF CallsTyped, Exchange, LoginIsItsOwn
  <1>3. UNCHANGED <<file, holder, flight, clients, loggedOut, lost>>  BY DEF Exchange
  <1>4. CASE Return(c) /\ UNCHANGED <<issued, grants>>
    BY <1>1, <1>2, <1>3, <1>4, Constants, QuietCall DEF Return, RestTyped
  <1>0. Tokens + 1 \in Nat /\ grants + 1 \in Nat  BY <1>1 DEF IssuedTyped, RestTyped
  <1> PICK next \in Nat : next = Tokens + 1  BY <1>0
  <1> DEFINE token == [client |-> call[c].new.client, grant |-> grants + 1, live |-> TRUE]
             n == [call[c].new EXCEPT !.refresh = next, !.grant = token.grant, !.fresh = TRUE]
             r == [call[c] EXCEPT !.at = "keep", !.new = n]
  <1>5. CASE /\ grants' = grants + 1
             /\ issued' = [t \in 1 .. next |-> IF t = next THEN token ELSE issued[t]]
             /\ call' = [call EXCEPT ![c].at = "keep",
                           ![c].new = [@ EXCEPT !.refresh = next, !.grant = token.grant, !.fresh = TRUE]]
    <2>1. call[c].new \in Credential /\ call[c].new.client # 0  BY <1>2 DEF CallerStates, OwnLogin
    <2>2. token \in IssuedToken /\ token.client = call[c].new.client /\ token.grant = grants + 1
          /\ token.live = TRUE
      BY <1>0, <2>1 DEF IssuedToken, Credential
    <2>3. DOMAIN issued = 1 .. Tokens /\ Tokens \in Nat /\ issued \in [DOMAIN issued -> IssuedToken]
      BY <1>1 DEF IssuedTyped
    <2>4. DOMAIN issued' = 1 .. next /\ issued'[next] = token /\ next \notin DOMAIN issued
      BY <1>5, <2>3
    <2>5. Tokens' = next  BY <1>1, <2>4, OneMoreToken
    <2>6. \A t \in DOMAIN issued : t \in DOMAIN issued' /\ issued'[t] = issued[t]  BY <1>5, <2>3
    <2>7. n \in Credential /\ n.refresh = next /\ n.grant = grants + 1 /\ n.client = call[c].new.client
      BY <1>0, <2>1, <2>2 DEF Credential
    <2>8. call' = [call EXCEPT ![c] = r]  BY <1>1, <1>2, <1>5 DEF CallsTyped, CallerStates
    <2> HIDE DEF token, n
    <2>9. r \in CallerStates /\ r.at = "keep" /\ r.new = n  BY <1>2, <2>7 DEF CallerStates, CallerSteps
    <2> HIDE DEF r
    <2>10. CallsTyped' /\ call'[c] = r /\ \A d \in Callers \ {c} : call'[d] = call[d]
      BY <1>1, <2>8, <2>9, CallMoves
    <2>11. IssuedTyped'
      <3>1. ASSUME NEW t \in DOMAIN issued' PROVE issued'[t] \in IssuedToken
        BY <2>2, <2>3, <2>4, <2>6
      <3>2. issued' = [t \in DOMAIN issued' |-> issued'[t]]  BY <1>5
      <3> QED  BY <2>4, <2>5, <3>1, <3>2 DEF IssuedTyped
    <2>12. IssuedGrows  BY <2>6 DEF IssuedGrows
    <2>13. OAuthTypeOK'
      BY <1>1, <1>3, <1>5, <2>10, <2>11 DEF OAuthTypeOK, FlightsTyped, RestTyped
    <2>14. LockIsHeld'
      BY <1>1, <1>3, <2>9, <2>10 DEF LockIsHeld, Refreshing, LoggingOut
    <2>15. Minted(file)'
      <3>1. file.grant <= grants => file.grant <= grants'
        BY <1>1, <1>5 DEF RestTyped, Credential
      <3> QED  BY <1>1, <1>3, <2>6, <3>1 DEF Minted, IssuedFor
    <2>16. HolderIsCurrent'
      <3>1. ASSUME NEW p \in Processes PROVE RefreshIsCurrent(p)'
        BY <1>1, <1>3, <2>6
        DEF HolderIsCurrent, RefreshIsCurrent, Refreshing, IssuedFor, Live, Same
      <3>2. ASSUME NEW d \in Callers, LoggingOut(d)' PROVE Same(call[d].seen)'
        BY <1>1, <1>3, <2>9, <2>10, <3>2 DEF HolderIsCurrent, LoggingOut, Same
      <3> QED  BY <3>1, <3>2 DEF HolderIsCurrent
    <2>17. LoginIsItsOwn'
      <3>1. grants \in Nat /\ loggedOut \subseteq 1 .. grants /\ file.grant <= grants
            /\ file.grant \in Nat
        BY <1>1 DEF RestTyped, Minted, Credential
      <3>2. OwnLogin(c)'
        <4>1. /\ call'[c].at = "keep" /\ call'[c].new.refresh = next /\ call'[c].new.grant = grants + 1
              /\ call'[c].new.client = call[c].new.client
          BY <2>7, <2>9, <2>10
        <4>2. Minted(call[c].new)'
          BY <1>5, <2>1, <2>2, <2>4, <3>1, <4>1 DEF Minted, IssuedFor
        <4>3. Live(call[c].new.refresh)'  BY <2>2, <2>3, <2>4, <4>1 DEF Live
        <4> QED  BY <1>3, <1>5, <2>1, <3>1, <4>1, <4>2, <4>3 DEF OwnLogin
      <3>3. call'[c].new.grant > grants  BY <2>7, <2>9, <2>10, <3>1
      <3>4. \A d \in Callers : call[d].at = "keep" => file'.grant # call[d].new.grant
        BY <1>1, <1>3 DEF LoginIsItsOwn, OwnLogin
      <3>5. grants' \in Nat /\ grants <= grants'  BY <1>5, <3>1
      <3>6. loggedOut' \subseteq loggedOut \cup {file.grant}  BY <1>3
      <3> QED  BY <2>10, <2>12, <3>2, <3>3, <3>4, <3>5, <3>6, OtherLogins
    <2>18. FileIsHonoured'
      <3>1. \A d \in Callers : call[d].at = "delete" => call'[d].at = "delete"  BY <1>2, <2>10
      <3>2. Live(file.refresh) /\ file.refresh # 0 => Live(file.refresh)'
        BY <1>1, <1>3, <2>6 DEF Live, Minted, IssuedFor
      <3> QED  BY <1>1, <1>3, <3>1, <3>2 DEF FileIsHonoured
    <2>19. LoggedOutStaysOut'  BY <1>1, <1>3 DEF LoggedOutStaysOut
    <2> QED  BY <2>13, <2>14, <2>15, <2>16, <2>17, <2>18, <2>19 DEF OAuthInv
  <1> QED  BY <1>4, <1>5 DEF Exchange, Tokens

LEMMA LoginEndsKeeps ==
  ASSUME OAuthInv, NEW c \in Callers, LoginEnds(c)
  PROVE  OAuthInv'
  <1>1. CallsTyped /\ FlightsTyped /\ IssuedTyped /\ RestTyped /\ LoginIsItsOwn
    BY DEF OAuthInv, OAuthTypeOK
  <1>2. call[c] \in CallerStates /\ call[c].at = "keep" /\ OwnLogin(c)
    BY <1>1 DEF CallsTyped, LoginEnds, LoginIsItsOwn
  <1>3. UNCHANGED <<holder, flight, issued, clients, grants, loggedOut, lost>>
        /\ call' = [call EXCEPT ![c] = IdleCall]
    BY DEF LoginEnds, Return
  <1>4. CASE UNCHANGED file
    BY <1>1, <1>2, <1>3, <1>4, Constants, QuietCall DEF RestTyped
  <1>5. CASE file' = call[c].new
    <2>1. /\ call[c].new \in Credential
          /\ Minted(call[c].new) /\ Live(call[c].new.refresh) /\ call[c].new.grant \notin loggedOut
      BY <1>2 DEF CallerStates, OwnLogin
    <2>2. CallsTyped' /\ call'[c] = IdleCall /\ \A d \in Callers \ {c} : call'[d] = call[d]
      BY <1>1, <1>3, Constants, CallMoves
    <2>3. OAuthTypeOK'
      BY <1>1, <1>3, <1>5, <2>1, <2>2 DEF OAuthTypeOK, FlightsTyped, IssuedTyped, RestTyped, Tokens
    <2>4. LockIsHeld' /\ HolderIsCurrent'
      <3>1. \A q \in Processes : ~Refreshing(q)'
        BY <1>3, OneAtTheLock DEF LoginEnds, Refreshing
      <3>2. \A d \in Callers : ~LoggingOut(d)'
        BY <2>2, OneAtTheLock, Constants DEF LoginEnds, LoggingOut
      <3> QED  BY <3>1, <3>2, NobodyAtTheLock
    <2>5. Minted(file)'  BY <1>3, <1>5, <2>1 DEF Minted, IssuedFor
    <2>6. LoginIsItsOwn'
      <3>1. grants' \in Nat /\ grants <= grants' /\ IssuedGrows
            /\ loggedOut' \subseteq loggedOut \cup {file.grant}
        BY <1>1, <1>3 DEF RestTyped, IssuedGrows
      <3>2. \A d \in Callers \ {c} : call[d].at = "keep" => file'.grant # call[d].new.grant
        BY <1>1, <1>2, <1>5 DEF LoginIsItsOwn
      <3>3. OwnLogin(c)' /\ call'[c].at # "keep"  BY <2>2, Constants DEF OwnLogin
      <3> QED  BY <2>2, <3>1, <3>2, <3>3, OtherLogins
    <2>7. FileIsHonoured'  BY <1>3, <1>5, <2>1 DEF FileIsHonoured, Live
    <2>8. LoggedOutStaysOut'  BY <1>3, <1>5, <2>1 DEF LoggedOutStaysOut
    <2> QED  BY <2>3, <2>4, <2>5, <2>6, <2>7, <2>8 DEF OAuthInv
  <1> QED  BY <1>4, <1>5 DEF LoginEnds, Put

LEMMA LogoutReadsKeeps ==
  ASSUME OAuthInv, NEW c \in Callers, LogoutReads(c)
  PROVE  OAuthInv'
  <1>1. /\ CallsTyped /\ FlightsTyped /\ IssuedTyped /\ RestTyped /\ LoginIsItsOwn
        /\ Minted(file) /\ FileIsHonoured /\ LoggedOutStaysOut
    BY DEF OAuthInv, OAuthTypeOK
  <1>2. call[c] \in CallerStates /\ call[c].at = "read"  BY <1>1 DEF CallsTyped, LogoutReads
  <1>3. UNCHANGED <<file, flight, issued, clients, grants, loggedOut, lost>>  BY DEF LogoutReads
  <1>4. CASE Return(c) /\ UNCHANGED holder
    BY <1>1, <1>2, <1>3, <1>4, Constants, QuietCall DEF Return, RestTyped
  <1>5. CASE holder' = c /\ call' = [call EXCEPT ![c].at = "revoke", ![c].seen = file]
    <2> DEFINE r == [call[c] EXCEPT !.at = "revoke", !.seen = file]
    <2>1. r \in CallerStates /\ r.at = "revoke" /\ r.seen = file
      BY <1>1, <1>2 DEF CallerStates, CallerSteps, RestTyped
    <2>2. call' = [call EXCEPT ![c] = r]  BY <1>1, <1>2, <1>5 DEF CallsTyped, CallerStates
    <2> HIDE DEF r
    <2>3. CallsTyped' /\ call'[c] = r /\ \A d \in Callers \ {c} : call'[d] = call[d]
      BY <1>1, <2>1, <2>2, CallMoves
    <2>4. (\A q \in Processes : ~Refreshing(q)') /\ \A d \in Callers \ {c} : ~LoggingOut(d)'
      BY <1>3, <2>3, OneAtTheLock DEF LogoutReads, Refreshing, LoggingOut
    <2>5. OAuthTypeOK'
      BY <1>1, <1>3, <1>5, <2>3 DEF OAuthTypeOK, FlightsTyped, IssuedTyped, RestTyped, Tokens
    <2>6. LockIsHeld'  BY <1>5, <2>4 DEF LockIsHeld
    <2>7. HolderIsCurrent'
      <3>1. \A q \in Processes : (flight[q].at # "answered")'  BY <2>4 DEF Refreshing
      <3>2. Same(call[c].seen)'  BY <1>3, <2>1, <2>3 DEF Same
      <3> QED  BY <2>4, <3>1, <3>2 DEF HolderIsCurrent, RefreshIsCurrent
    <2>8. LoginIsItsOwn'
      <3>1. grants' \in Nat /\ grants <= grants' /\ IssuedGrows
            /\ loggedOut' \subseteq loggedOut \cup {file.grant}
        BY <1>1, <1>3 DEF RestTyped, IssuedGrows
      <3>2. \A d \in Callers : call[d].at = "keep" => file'.grant # call[d].new.grant
        BY <1>1, <1>3 DEF LoginIsItsOwn, OwnLogin
      <3>3. OwnLogin(c)' /\ call'[c].at # "keep"  BY <2>1, <2>3 DEF OwnLogin
      <3> QED  BY <2>3, <3>1, <3>2, <3>3, OtherLogins
    <2>9. Minted(file)'  BY <1>1, <1>3 DEF Minted, IssuedFor
    <2>10. FileIsHonoured'
      <3>1. \A d \in Callers : call[d].at = "delete" => call'[d].at = "delete"  BY <1>2, <2>3
      <3> QED  BY <1>1, <1>3, <3>1 DEF FileIsHonoured, Live
    <2>11. LoggedOutStaysOut'  BY <1>1, <1>3 DEF LoggedOutStaysOut
    <2> QED  BY <2>5, <2>6, <2>7, <2>8, <2>9, <2>10, <2>11 DEF OAuthInv
  <1> QED  BY <1>4, <1>5 DEF LogoutReads

LEMMA RevokeKeeps ==
  ASSUME OAuthInv, NEW c \in Callers, Revoke(c)
  PROVE  OAuthInv'
  <1>1. /\ CallsTyped /\ FlightsTyped /\ IssuedTyped /\ RestTyped /\ LockIsHeld /\ HolderIsCurrent
        /\ LoginIsItsOwn /\ Minted(file) /\ LoggedOutStaysOut
    BY DEF OAuthInv, OAuthTypeOK
  <1>2. call[c] \in CallerStates /\ call[c].at = "revoke" /\ LoggingOut(c)
    BY <1>1 DEF CallsTyped, Revoke, LoggingOut
  <1>3. UNCHANGED <<file, holder, flight, clients, grants, loggedOut, lost>>  BY DEF Revoke
  <1>4. Same(call[c].seen)  BY <1>1, <1>2 DEF HolderIsCurrent
  <1> DEFINE r == [call[c] EXCEPT !.at = "delete"]
  <1>5. r \in CallerStates /\ r.at = "delete" /\ r.seen = call[c].seen  BY <1>2 DEF CallerStates, CallerSteps
  <1>6. call' = [call EXCEPT ![c] = r]  BY DEF Revoke, Step
  <1> HIDE DEF r
  <1>7. CallsTyped' /\ call'[c] = r /\ \A d \in Callers \ {c} : call'[d] = call[d]
    BY <1>1, <1>5, <1>6, CallMoves
  <1>8. \/ UNCHANGED issued
        \/ /\ call[c].seen.refresh # 0
           /\ issued' = [issued EXCEPT ![call[c].seen.refresh].live = FALSE]
    BY DEF Revoke
  <1>9. DOMAIN issued' = DOMAIN issued  BY <1>1, <1>8 DEF IssuedTyped
  <1>10. ASSUME NEW t \in DOMAIN issued
         PROVE  /\ issued'[t] \in IssuedToken
                /\ issued'[t].client = issued[t].client /\ issued'[t].grant = issued[t].grant
                /\ t # call[c].seen.refresh => issued'[t] = issued[t]
    <2>1. issued[t] \in IssuedToken  BY <1>1 DEF IssuedTyped
    <2>2. issued'[t] = issued[t]
          \/ (t = call[c].seen.refresh /\ issued'[t] = [issued[t] EXCEPT !.live = FALSE])
      BY <1>1, <1>8 DEF IssuedTyped
    <2> QED  BY <2>1, <2>2 DEF IssuedToken
  <1>11. IssuedTyped'
    <2>1. issued' = [t \in DOMAIN issued' |-> issued'[t]]  BY <1>1, <1>8 DEF IssuedTyped
    <2>2. Tokens' = Tokens  BY <1>9 DEF Tokens
    <2> QED  BY <1>1, <1>9, <1>10, <2>1, <2>2 DEF IssuedTyped
  <1>12. IssuedGrows
    <2>1. \A t \in DOMAIN issued : t = call[c].seen.refresh /\ t # 0 => issued[t].grant = file.grant
      BY <1>1, <1>4 DEF Same, Minted, IssuedFor
    <2>2. 0 \notin DOMAIN issued  BY <1>1 DEF IssuedTyped
    <2> QED  BY <1>9, <1>10, <2>1, <2>2 DEF IssuedGrows
  <1>13. OAuthTypeOK'  BY <1>1, <1>3, <1>7, <1>11 DEF OAuthTypeOK, FlightsTyped, RestTyped
  <1>14. LockIsHeld'  BY <1>1, <1>2, <1>3, <1>5, <1>7 DEF LockIsHeld, Refreshing, LoggingOut
  <1>15. HolderIsCurrent'
    <2>1. \A q \in Processes : ~Refreshing(q)' /\ (flight[q].at # "answered")'
      BY <1>2, <1>3, OneAtTheLock DEF Refreshing
    <2>2. ASSUME NEW d \in Callers, LoggingOut(d)' PROVE Same(call[d].seen)'
      BY <1>1, <1>3, <1>4, <1>5, <1>7, <2>2 DEF HolderIsCurrent, LoggingOut, Same
    <2> QED  BY <2>1, <2>2 DEF HolderIsCurrent, RefreshIsCurrent
  <1>16. Minted(file)'  BY <1>1, <1>3, <1>9, <1>10 DEF Minted, IssuedFor
  <1>17. LoginIsItsOwn'
    <2>1. grants' \in Nat /\ grants <= grants' /\ loggedOut' \subseteq loggedOut \cup {file.grant}
      BY <1>1, <1>3 DEF RestTyped
    <2>2. \A d \in Callers : call[d].at = "keep" => file'.grant # call[d].new.grant
      BY <1>1, <1>3 DEF LoginIsItsOwn, OwnLogin
    <2>3. OwnLogin(c)' /\ call'[c].at # "keep"  BY <1>5, <1>7 DEF OwnLogin
    <2> QED  BY <1>7, <1>12, <2>1, <2>2, <2>3, OtherLogins
  <1>18. FileIsHonoured'  BY <1>5, <1>7 DEF FileIsHonoured
  <1>19. LoggedOutStaysOut'  BY <1>1, <1>3 DEF LoggedOutStaysOut
  <1> QED  BY <1>13, <1>14, <1>15, <1>16, <1>17, <1>18, <1>19 DEF OAuthInv

LEMMA LogoutEndsKeeps ==
  ASSUME OAuthInv, NEW c \in Callers, LogoutEnds(c)
  PROVE  OAuthInv'
  <1>1. /\ CallsTyped /\ FlightsTyped /\ IssuedTyped /\ RestTyped /\ LockIsHeld /\ HolderIsCurrent
        /\ LoginIsItsOwn /\ Minted(file) /\ LoggedOutStaysOut
    BY DEF OAuthInv, OAuthTypeOK
  <1>2. call[c].at = "delete" /\ LoggingOut(c) /\ Same(call[c].seen)
    BY <1>1 DEF LogoutEnds, LoggingOut, HolderIsCurrent
  <1>3. UNCHANGED <<flight, issued, clients, grants>> /\ holder' = NoHolder
        /\ call' = [call EXCEPT ![c] = IdleCall]
    BY DEF LogoutEnds, Return
  <1>4. CallsTyped' /\ call'[c] = IdleCall /\ \A d \in Callers \ {c} : call'[d] = call[d]
    BY <1>1, <1>3, Constants, CallMoves
  <1>5. (\A q \in Processes : ~Refreshing(q)') /\ \A d \in Callers : ~LoggingOut(d)'
    BY <1>2, <1>3, <1>4, OneAtTheLock, Constants DEF Refreshing, LoggingOut
  <1>6. LockIsHeld' /\ HolderIsCurrent'  BY <1>5, NobodyAtTheLock
  <1>7. CASE lost' = lost \cup {call[c].seen.refresh} /\ UNCHANGED <<file, loggedOut>>
    <2>1. \A d \in Callers : CallGoesOn(d) \/ CallTurns(d)
      BY <1>2, <1>4, <1>7, Constants DEF CallGoesOn, CallTurns, Same
    <2> QED  BY <1>1, <1>3, <1>4, <1>6, <1>7, <2>1, QuietStep
             DEF FlightsTyped, RestTyped, Same, RefreshGoesOn
  <1>8. CASE /\ file' = NoCredential /\ UNCHANGED lost
             /\ loggedOut' = loggedOut \cup ({call[c].seen.grant} \ {0})
    <2>1. file' \in Credential /\ file'.refresh = 0 /\ file'.client = 0 /\ file'.grant = 0
      BY <1>8, Constants DEF NoCredential
    <2>2. /\ call[c].seen.grant = file.grant /\ file.grant \in Nat /\ file.grant <= grants
          /\ grants \in Nat /\ loggedOut \subseteq 1 .. grants
      BY <1>1, <1>2 DEF Same, RestTyped, Credential, Minted
    <2>3. loggedOut' \subseteq 1 .. grants
      <3>1. file.grant # 0 => file.grant \in 1 .. grants  BY <2>2
      <3>2. loggedOut' = loggedOut \cup ({file.grant} \ {0})  BY <1>8, <2>2
      <3>3. loggedOut \subseteq 1 .. grants  BY <2>2
      <3> QED  BY <3>1, <3>2, <3>3
    <2>4. OAuthTypeOK'
      BY <1>1, <1>3, <1>4, <2>1, <2>3 DEF OAuthTypeOK, FlightsTyped, IssuedTyped, RestTyped, Tokens
    <2>5. Minted(file)'  BY <1>3, <2>1, <2>2 DEF Minted
    <2>6. LoginIsItsOwn'
      <3>1. grants' \in Nat /\ grants <= grants' /\ IssuedGrows
            /\ loggedOut' \subseteq loggedOut \cup {file.grant}
        BY <1>3, <1>8, <2>2 DEF IssuedGrows
      <3>2. \A d \in Callers : call[d].at = "keep" => file'.grant # call[d].new.grant
        BY <1>1, <2>1, <2>2 DEF LoginIsItsOwn, OwnLogin
      <3>3. OwnLogin(c)' /\ call'[c].at # "keep"  BY <1>4, Constants DEF OwnLogin
      <3> QED  BY <1>4, <3>1, <3>2, <3>3, OtherLogins
    <2>7. FileIsHonoured'  BY <2>1 DEF FileIsHonoured
    <2>8. LoggedOutStaysOut'  BY <2>1, <2>2, <2>3 DEF LoggedOutStaysOut
    <2> QED  BY <1>6, <2>4, <2>5, <2>6, <2>7, <2>8 DEF OAuthInv
  <1> QED  BY <1>7, <1>8 DEF LogoutEnds, Put

LEMMA OAuthStepKeeps ==
  ASSUME OAuthInv, [OAuthNext]_oauthVars
  PROVE  OAuthInv'
  <1>1. ASSUME NEW c \in Callers, NEW op \in Logins \cup {"token", "logout"}, Begin(c, op)
        PROVE  OAuthInv'
    BY <1>1, BeginKeeps
  <1>2. ASSUME NEW c \in Callers, CancelCall(c) PROVE OAuthInv'  BY <1>2, CancelCallKeeps
  <1>3. ASSUME NEW c \in Callers, CallStep(c) PROVE OAuthInv'
    BY <1>3, TokenKeeps, GiveUpKeeps, LoginReadsKeeps, RegisterKeeps, ClientStoredKeeps,
       ExchangeKeeps, LoginEndsKeeps, LogoutReadsKeeps, RevokeKeeps, LogoutEndsKeeps
    DEF CallStep
  <1>4. ASSUME NEW p \in Processes, FlightStep(p) PROVE OAuthInv'
    BY <1>4, RefreshKeeps, ServerRefreshesKeeps, RefreshEndsKeeps, RefreshFailsKeeps DEF FlightStep
  <1>5. ASSUME NEW p \in Processes, KillProcess(p) PROVE OAuthInv'  BY <1>5, KillProcessKeeps
  <1>6. CASE Expire  BY <1>6, ExpireKeeps
  <1>7. CASE UNCHANGED oauthVars
    <2>1. CallsTyped /\ FlightsTyped /\ RestTyped /\ LockIsHeld  BY DEF OAuthInv, OAuthTypeOK
    <2>2. CallsTyped' /\ FlightsTyped' /\ LockIsHeld'
      BY <1>7, <2>1
      DEF oauthVars, CallsTyped, FlightsTyped, LockIsHeld, Refreshing, LoggingOut
    <2> QED  BY <1>7, <2>1, <2>2, QuietStep
             DEF oauthVars, RestTyped, Same, CallGoesOn, RefreshGoesOn
  <1> QED  BY <1>1, <1>2, <1>3, <1>4, <1>5, <1>6, <1>7 DEF OAuthNext

LEMMA OAuthInvHolds == OAuthSpec => []OAuthInv
  <1>1. OAuthInit => OAuthInv
    <2> SUFFICES ASSUME OAuthInit PROVE OAuthInv  OBVIOUS
    <2>1. /\ \A c \in Callers : call[c] = IdleCall
          /\ \A p \in Processes : flight[p] = NoFlight
          /\ CallsTyped /\ FlightsTyped
      BY Constants DEF OAuthInit, CallsTyped, FlightsTyped
    <2>2. IssuedTyped /\ RestTyped /\ Minted(file) /\ FileIsHonoured /\ LoggedOutStaysOut
      <3>1. CASE file = NoCredential /\ issued = <<>> /\ clients = 0 /\ grants = 0
        <4>1. DOMAIN issued = 1 .. 0  BY <3>1
        <4>2. Tokens = 0  BY <4>1, FS_Interval DEF Tokens
        <4>3. IssuedTyped  BY <3>1, <4>1, <4>2 DEF IssuedTyped
        <4>4. RestTyped  BY <3>1, Constants DEF RestTyped, OAuthInit
        <4> QED  BY <3>1, <4>3, <4>4
                 DEF OAuthInit, NoCredential, Minted, FileIsHonoured, LoggedOutStaysOut
      <3>2. ASSUME NEW fresh \in BOOLEAN,
                   file = [refresh |-> 1, client |-> 1, grant |-> 1, fresh |-> fresh, there |-> TRUE],
                   issued = [t \in {1} |-> [client |-> 1, grant |-> 1, live |-> TRUE]],
                   clients = 1, grants = 1
            PROVE  IssuedTyped /\ RestTyped /\ Minted(file) /\ FileIsHonoured /\ LoggedOutStaysOut
        <4>1. DOMAIN issued = 1 .. 1  BY <3>2
        <4>2. Tokens = 1
          <5>1. Cardinality({1}) = 1  BY FS_Singleton
          <5>2. DOMAIN issued = {1}  BY <3>2
          <5> QED  BY <5>1, <5>2 DEF Tokens
        <4>3. IssuedTyped  BY <3>2, <4>1, <4>2 DEF IssuedTyped, IssuedToken
        <4>4. RestTyped  BY <3>2 DEF RestTyped, Credential, OAuthInit
        <4>5. Minted(file) /\ Live(file.refresh)  BY <3>2 DEF Minted, IssuedFor, Live
        <4> QED  BY <4>3, <4>4, <4>5 DEF OAuthInit, FileIsHonoured, LoggedOutStaysOut
      <3> QED  BY <3>1, <3>2 DEF OAuthInit
    <2>3. LockIsHeld /\ HolderIsCurrent /\ LoginIsItsOwn
      BY <2>1, Constants
      DEF LockIsHeld, HolderIsCurrent, RefreshIsCurrent, LoginIsItsOwn, OwnLogin, Refreshing, LoggingOut
    <2> QED  BY <2>1, <2>2, <2>3 DEF OAuthInv, OAuthTypeOK
  <1> QED  BY <1>1, OAuthStepKeeps, PTL DEF OAuthSpec

\* However calls of any number of processes interleave, fail and are killed: the stored
\* tokens are those of the stored client and of a login still in force, and a refresh
\* presents a token the server honours, unless a call that spent it failed before it
\* wrote the file (Token, Authorize, Logout and their transactions on the file).
THEOREM CredentialsAlwaysHold == OAuthSpec => []CredentialsHold
  <1>1. OAuthInv => CredentialsHold
    <2> SUFFICES ASSUME OAuthInv PROVE CredentialsHold  OBVIOUS
    <2>1. TokensMatchClient  BY DEF OAuthInv, Minted, IssuedFor, TokensMatchClient
    <2>2. RefreshIsHonoured
      <3> SUFFICES ASSUME NEW p \in Processes, flight[p].at = "request"
                   PROVE  Live(flight[p].seen.refresh) \/ flight[p].seen.refresh \in lost
        BY DEF RefreshIsHonoured
      <3>1. Refreshing(p)  BY DEF Refreshing
      <3>2. flight[p].seen.refresh = file.refresh /\ file.refresh # 0
        BY <3>1 DEF OAuthInv, HolderIsCurrent, RefreshIsCurrent, Same
      <3>3. /\ \A q \in Processes : flight[q].at # "answered"
            /\ \A c \in Callers : call[c].at # "delete"
        BY <3>1, OneAtTheLock DEF Refreshing, LoggingOut
      <3> QED  BY <3>2, <3>3 DEF OAuthInv, FileIsHonoured
    <2> QED  BY <2>1, <2>2 DEF OAuthInv, CredentialsHold
  <1> QED  BY <1>1, OAuthInvHolds, PTL

-----------------------------------------------------------------------------
(***************************************************************************)
(* The file tools on one workspace, for any files, calls and plans, any     *)
(* changes of other programs and any cancellations.  What a tool relies on  *)
(* is that the stamp it goes by stands for the text: true of the cache, of  *)
(* the loads, and of a listing for as long as its generation is the         *)
(* context's, but for a file whose replacement is not yet invalidated; and  *)
(* the claims keep readers away from such a file.                           *)
(***************************************************************************)
Texts == SUBSET Int
Listings == SUBSET [file : Files, stamp : Nat, ver : Nat]

StepsOf(op) ==
  CASE op = "read"   -> {"slice"}
    [] op = "search" -> {"refresh", "adopt", "lexical", "grams", "pick", "texts"}
    [] op = "shell"  -> {"run", "after"}
    [] OTHER         -> {"stat", "read", "replace", "invalidate"}
CallSteps == {"idle", "done", "slice", "refresh", "adopt", "lexical", "grams", "pick", "texts",
              "run", "after", "stat", "read", "replace", "invalidate"}
CallStates ==
  [pc : CallSteps, cancelled : BOOLEAN, from : Nat, waits : Files \cup {NoLoad},
   todo : SUBSET Files, text : Texts, ver : Nat, snap : Listings, gen : Nat,
   ids : SUBSET Files, found : SUBSET Files, moved : BOOLEAN, whole : BOOLEAN,
   ok : BOOLEAN, replaced : BOOLEAN, lost : BOOLEAN]

FileStates == [there : BOOLEAN, text : Texts, stamp : Nat, ver : Nat]
EntryStates == [in : BOOLEAN, text : Texts, stamp : Nat, ver : Nat]
LoadStates == [on : BOOLEAN, text : Texts, ver : Nat]
ContextStates == [ready : BOOLEAN, fresh : BOOLEAN, whole : BOOLEAN, gen : Nat,
                  snap : Listings, lexGen : Nat, posts : SUBSET Nat]

FilesTypeOK ==
  /\ plan \in [Calls -> [op : {"read", "search", "shell", "write", "create", "edit"}, file : Files]]
  /\ workspace \in [Files -> FileStates]
  /\ cached \in [Files -> EntryStates]
  /\ loads \in [Files -> LoadStates]
  /\ context \in ContextStates
  /\ tool \in [Calls -> CallStates]

\* A file that has a new text, and the context has not been told.
BeingReplaced(f) ==
  \E d \in Calls : Op(d) \in Writers /\ Target(d) = f /\ tool[d].pc = "invalidate"

\* A listing is of files as they once were; its stamps tell whether they
\* still are; it has every file that was there from the start.
ListingOK(list) ==
  \A e \in list :
    /\ workspace[e.file].there
    /\ e.ver <= workspace[e.file].ver /\ e.stamp <= workspace[e.file].stamp
    /\ e.ver = workspace[e.file].ver => e.stamp = workspace[e.file].stamp
TrueStamps(list) ==
  \A e \in list :
    (e.stamp = workspace[e.file].stamp /\ e.file \notin overtaken /\ ~BeingReplaced(e.file))
      => e.ver = workspace[e.file].ver
Covers(list) == \A f \in Existing : workspace[f].ver = 0 => f \in Listed(list)
\* The entry is of a file with the word, which did not change since.
Standing(e) ==
  /\ workspace[e.file].ver = e.ver /\ HasWord(workspace[e.file].text)
  /\ e.file \notin overtaken

\* Some search works with the listing that the context has.
Held == context.gen > 0 /\ \E d \in Calls : tool[d].gen = context.gen

ClaimsHold ==
  \A c \in Calls, d \in Calls : (c # d /\ Active(c) /\ Active(d)) =>
    /\ Op(c) # "shell"
    /\ Op(c) \in Writers =>
         /\ Op(d) # "search"
         /\ Op(d) \in Writers \cup {"read"} => Target(d) # Target(c)
TextsOK ==
  \A f \in Files :
    /\ cached[f].in => cached[f].stamp <= workspace[f].stamp
    /\ (f \notin overtaken /\ loads[f].on) =>
         loads[f].text = workspace[f].text /\ loads[f].ver = workspace[f].ver
    /\ (f \notin overtaken /\ cached[f].in /\ cached[f].stamp = workspace[f].stamp
          /\ ~BeingReplaced(f)) =>
         cached[f].text = workspace[f].text /\ cached[f].ver = workspace[f].ver
PostsAre(list, posts) == \A e \in list : Standing(e) => Position(e.file, list) \in posts
ContextOK ==
  /\ ListingOK(context.snap)
  /\ context.ready => context.gen > 0 /\ (context.whole => Covers(context.snap))
  /\ context.fresh => Held
  /\ (context.gen > 0 /\ context.lexGen = context.gen) =>
       Held /\ PostsAre(context.snap, context.posts)
  /\ Held => TrueStamps(context.snap)

LoadingOK(c) ==
  /\ tool[c].pc \in StepsOf(Op(c)) \cup {"idle", "done"}
  /\ tool[c].waits # NoLoad => tool[c].pc \in Loading /\ tool[c].waits \in tool[c].todo
  /\ tool[c].pc = "slice" => tool[c].todo \subseteq {Target(c)}
  /\ tool[c].pc \in {"grams", "texts"} => tool[c].todo \subseteq Listed(tool[c].snap)
ReadOK(c) ==
  Op(c) = "read" =>
    /\ tool[c].pc = "slice" => tool[c].from <= workspace[Target(c)].ver
    /\ (tool[c].pc = "done" /\ tool[c].ok /\ Target(c) \notin overtaken)
         => tool[c].ver >= tool[c].from
EditOK(c) ==
  Op(c) \in Writers =>
    /\ tool[c].pc = "invalidate" => tool[c].replaced
    /\ tool[c].pc = "done" => (tool[c].ok <=> tool[c].replaced)
    /\ tool[c].pc \notin {"invalidate", "done"} => ~tool[c].replaced
    /\ tool[c].pc = "replace" =>
         workspace[Target(c)].ver = tool[c].ver \/ Other \in workspace[Target(c)].text
    /\ ~tool[c].lost
Lexical == {"lexical", "grams", "pick", "texts"}
ListedOK(c) ==
  /\ ListingOK(tool[c].snap) /\ tool[c].gen <= context.gen
  /\ tool[c].pc = "adopt" => TrueStamps(tool[c].snap)
  /\ tool[c].pc \in {"idle", "refresh", "adopt"} => tool[c].gen = 0
  /\ (tool[c].gen > 0 /\ tool[c].gen = context.gen) =>
       Manifest(tool[c].snap) = Manifest(context.snap) /\ TrueStamps(tool[c].snap)
  /\ (Op(c) = "search" /\ tool[c].pc \notin {"idle", "refresh"} /\ tool[c].whole)
       => Covers(tool[c].snap)
  /\ (tool[c].pc \in Lexical /\ ~tool[c].moved) => tool[c].gen = context.gen /\ tool[c].gen > 0
FoundOK(c) ==
  /\ (tool[c].pc = "pick" /\ ~tool[c].moved) => context.lexGen = context.gen
  /\ ~tool[c].cancelled => \A e \in tool[c].snap : Standing(e) =>
       /\ tool[c].pc = "grams" => e.file \in tool[c].todo \cup tool[c].ids
       /\ (tool[c].pc = "texts" /\ ~tool[c].moved) => e.file \in tool[c].todo \cup tool[c].found
       /\ (Op(c) = "search" /\ tool[c].pc = "done" /\ tool[c].ok /\ ~tool[c].moved)
            => e.file \in tool[c].found
CallOK(c) == LoadingOK(c) /\ ReadOK(c) /\ EditOK(c) /\ ListedOK(c) /\ FoundOK(c)

FilesInv ==
  /\ FilesTypeOK /\ ClaimsHold /\ TextsOK /\ ContextOK
  /\ \A c \in Calls : CallOK(c)

LEMMA FilesStart == FilesInit => FilesInv
<1> SUFFICES ASSUME FilesInit PROVE FilesInv
  OBVIOUS
<1> USE CodeFilesAssumption
<1>1. FilesTypeOK
  <2>1. plan \in [Calls -> [op : {"read", "search", "shell", "write", "create", "edit"}, file : Files]]
    BY DEF FilesInit
  <2>2. /\ workspace \in [Files -> FileStates]
        /\ cached \in [Files -> EntryStates]
        /\ loads \in [Files -> LoadStates]
    <3>1. {} \in Texts /\ {Before} \in Texts
      BY DEF Texts, Before
    <3>2. /\ [there |-> FALSE, text |-> {}, stamp |-> 0, ver |-> 0] \in FileStates
          /\ [there |-> TRUE, text |-> {}, stamp |-> 0, ver |-> 0] \in FileStates
          /\ [there |-> TRUE, text |-> {Before}, stamp |-> 0, ver |-> 0] \in FileStates
      BY <3>1 DEF FileStates
    <3>3. workspace \in [Files -> FileStates]
      BY <3>2 DEF FilesInit
    <3> QED
      BY <3>1, <3>3 DEF FilesInit, NoEntry, EntryStates, LoadStates
  <2>3. /\ context \in ContextStates
        /\ tool \in [Calls -> CallStates]
    BY DEF FilesInit, ContextStates, Listings, CallStates, IdleTool, CallSteps, NoLoad, Texts
  <2> QED
    BY <2>1, <2>2, <2>3 DEF FilesTypeOK
<1>2. \A c \in Calls : tool[c] = IdleTool
  BY DEF FilesInit
<1>3. ClaimsHold /\ TextsOK
  BY <1>2 DEF ClaimsHold, Active, IdleTool, TextsOK, FilesInit, NoEntry
<1>4. ContextOK
  BY DEF FilesInit, ContextOK, ListingOK, Held
<1>5. ASSUME NEW c \in Calls PROVE CallOK(c)
  BY <1>2 DEF CallOK, LoadingOK, ReadOK, EditOK, ListedOK, FoundOK, IdleTool, NoLoad, ListingOK,
     Lexical, FilesInit
<1> QED
  BY <1>1, <1>3, <1>4, <1>5 DEF FilesInv

\* Every listing is finite, so that every place in one is a number.
LEMMA PositionIsNat == ASSUME NEW list \in Listings, NEW f PROVE Position(f, list) \in Nat
<1>1. {g \in Listed(list) : g < f} \subseteq Files
  BY DEF Listed, Listings
<1> QED
  BY <1>1, CodeFilesAssumption, FS_Subset, FS_CardinalityType DEF Position

\* What is given to a call, and what a call goes without.
LEMMA GivenIs ==
  ASSUME NEW r \in CallStates, NEW f \in Files, NEW text \in Texts, NEW ver \in Nat
  PROVE  LET g == Given(r, f, text, ver) IN
         /\ g \in CallStates /\ g.waits = NoLoad /\ g.todo = r.todo \ {f}
         /\ g.cancelled = r.cancelled /\ g.from = r.from /\ g.snap = r.snap /\ g.gen = r.gen
         /\ g.moved = r.moved /\ g.whole = r.whole /\ g.replaced = r.replaced /\ g.lost = r.lost
         /\ r.pc = "slice" => g.pc = "done" /\ g.ok = TRUE /\ g.ver = ver
         /\ r.pc # "slice" => g.pc = r.pc /\ g.ok = r.ok /\ g.ver = r.ver
         /\ r.ids \subseteq g.ids /\ r.found \subseteq g.found
         /\ (r.pc = "grams" /\ HasWord(text)) => f \in g.ids
         /\ (r.pc = "texts" /\ HasWord(text)) => f \in g.found
<1> DEFINE s == [r EXCEPT !.todo = @ \ {f}, !.waits = NoLoad]
<1>1. s \in CallStates /\ s.pc = r.pc
  BY DEF CallStates
<1>2. CASE r.pc = "slice"
  BY <1>1, <1>2 DEF Given, CallStates, CallSteps
<1>3. CASE r.pc = "grams"
  BY <1>1, <1>3 DEF Given, CallStates
<1>4. CASE r.pc \notin {"slice", "grams"}
  BY <1>1, <1>4 DEF Given, CallStates
<1> QED
  BY <1>2, <1>3, <1>4

LEMMA GivenKeepsGen ==
  ASSUME NEW r \in CallStates, NEW f, NEW text, NEW ver
  PROVE  Given(r, f, text, ver).gen = r.gen
  BY DEF Given, CallStates

LEMMA SkipsIs ==
  ASSUME NEW r \in CallStates, NEW f \in Files
  PROVE  LET g == Skips(r, f) IN
         /\ g \in CallStates /\ g.waits = NoLoad /\ g.todo \subseteq r.todo
         /\ r.todo \ {f} \subseteq g.todo
         /\ g.cancelled = r.cancelled /\ g.from = r.from /\ g.snap = r.snap /\ g.gen = r.gen
         /\ g.moved = r.moved /\ g.whole = r.whole /\ g.replaced = r.replaced /\ g.lost = r.lost
         /\ g.ids = r.ids /\ g.found = r.found
         /\ r.pc = "slice" => g.pc = "done" /\ g.ok = FALSE
         /\ r.pc # "slice" => g.pc = r.pc /\ g.ok = r.ok
  BY DEF Skips, CallStates, CallSteps

LEMMA SnapshotIs ==
  ASSUME NEW r \in CallStates,
         NEW i \in ContextStates
  PROVE  /\ WithSnapshot(r, i) \in CallStates
         /\ WithSnapshot(r, i) = [r EXCEPT !.pc = "lexical", !.moved = FALSE, !.snap = i.snap,
                                           !.gen = i.gen, !.whole = i.whole]
  BY DEF WithSnapshot, CallStates, CallSteps, ContextStates

LEMMA CallsAreNumbers == ASSUME NEW c \in Calls PROVE c \in Int /\ c # 0
<1>1. Calls \subseteq Nat \ {0}
  BY CodeFilesAssumption
<1> QED
  BY <1>1

\* An update of a call by values of their types leaves it typed.
LEMMA GoesTyped ==
  ASSUME NEW r \in CallStates, NEW pc \in CallSteps, NEW b \in BOOLEAN
  PROVE  /\ [r EXCEPT !.pc = pc] \in CallStates
         /\ [r EXCEPT !.pc = pc, !.ok = b] \in CallStates
         /\ [r EXCEPT !.moved = b] \in CallStates
<1>1. [r EXCEPT !.pc = pc] \in CallStates
  BY DEF CallStates
<1>2. [r EXCEPT !.pc = pc, !.ok = b] \in CallStates
  BY DEF CallStates
<1>3. [r EXCEPT !.moved = b] \in CallStates
  BY DEF CallStates
<1> QED
  BY <1>1, <1>2, <1>3
LEMMA PicksTyped ==
  ASSUME NEW r \in CallStates, NEW pc \in CallSteps, NEW todo \in SUBSET Files
  PROVE  [r EXCEPT !.pc = pc, !.todo = todo] \in CallStates
  BY DEF CallStates
LEMMA ReadsTyped ==
  ASSUME NEW r \in CallStates, NEW pc \in CallSteps, NEW text \in Texts, NEW ver \in Nat
  PROVE  [r EXCEPT !.pc = pc, !.text = text, !.ver = ver] \in CallStates
  BY DEF CallStates
LEMMA BeginsTyped ==
  ASSUME NEW r \in CallStates, NEW pc \in CallSteps, NEW todo \in SUBSET Files, NEW from \in Nat
  PROVE  [r EXCEPT !.pc = pc, !.from = from, !.todo = todo] \in CallStates
  BY DEF CallStates
LEMMA ListsTyped ==
  ASSUME NEW r \in CallStates, NEW pc \in CallSteps, NEW b \in BOOLEAN, NEW list \in Listings
  PROVE  [r EXCEPT !.pc = pc, !.whole = b, !.snap = list] \in CallStates
  BY DEF CallStates
LEMMA BuildsTyped ==
  ASSUME NEW r \in CallStates, NEW pc \in CallSteps, NEW todo \in SUBSET Files, NEW ids \in SUBSET Files
  PROVE  [r EXCEPT !.pc = pc, !.todo = todo, !.ids = ids] \in CallStates
  BY DEF CallStates
LEMMA ReplacesTyped ==
  ASSUME NEW r \in CallStates, NEW pc \in CallSteps, NEW b \in BOOLEAN
  PROVE  [r EXCEPT !.pc = pc, !.replaced = TRUE, !.lost = b] \in CallStates
  BY DEF CallStates

LEMMA ContextUpdates ==
  ASSUME NEW i \in ContextStates
  PROVE  /\ [i EXCEPT !.gen = @ + 1, !.lexGen = 0, !.posts = {}, !.fresh = FALSE] \in ContextStates
         /\ [i EXCEPT !.gen = @ + 1, !.lexGen = 0, !.posts = {}] \in ContextStates
<1> DEFINE none == {}
           n == i.gen + 1
<1>0. none \in SUBSET Nat /\ n \in Nat /\ FALSE \in BOOLEAN
  BY DEF ContextStates
<1> HIDE DEF none, n
<1>1. [i EXCEPT !.gen = n, !.lexGen = 0, !.posts = none] \in ContextStates
  BY <1>0 DEF ContextStates
<1>2. [i EXCEPT !.gen = n, !.lexGen = 0, !.posts = none, !.fresh = FALSE] \in ContextStates
  BY <1>0 DEF ContextStates
<1> QED
  BY <1>1, <1>2 DEF none, n

LEMMA FilesTypeStep == FilesTypeOK /\ FilesNext => FilesTypeOK'
<1> SUFFICES ASSUME FilesTypeOK, FilesNext PROVE FilesTypeOK'
  OBVIOUS
<1>0. /\ \A c \in Calls : tool[c] \in CallStates /\ Target(c) \in Files
      /\ \A f \in Files : workspace[f] \in FileStates /\ cached[f] \in EntryStates /\ loads[f] \in LoadStates
      /\ context \in ContextStates
  BY DEF FilesTypeOK, Target
<1>t. ASSUME NEW c \in Calls, NEW r \in CallStates, tool' = [tool EXCEPT ![c] = r]
      PROVE  tool' \in [Calls -> CallStates]
  BY <1>t DEF FilesTypeOK
<1>1. CASE Ages
  <2>1. [context EXCEPT !.fresh = FALSE] \in ContextStates
    BY <1>0 DEF ContextStates
  <2> QED
    BY <1>1, <2>1 DEF Ages, FilesTypeOK
<1>2. ASSUME NEW f \in Files, NEW text \in Texts, NEW stamp \in Nat
      PROVE  Changed(f, text, stamp) \in [Files -> FileStates]
  <2>1. [there |-> TRUE, text |-> text, stamp |-> stamp, ver |-> workspace[f].ver + 1] \in FileStates
    BY <1>0 DEF FileStates
  <2> QED
    BY <2>1 DEF Changed, FilesTypeOK
<1>3. ASSUME NEW f \in Files, NEW stamp \in Stamps(f) PROVE stamp \in Nat
  BY <1>0 DEF Stamps, FileStates
<1>4. Bumped \in ContextStates
  BY <1>0, ContextUpdates DEF Bumped
<1>5. ASSUME NEW f \in Files, OutsideChange(f) PROVE FilesTypeOK'
  <2>1. workspace[f].text \cup {Other} \in Texts /\ workspace[f].stamp + 1 \in Nat
    BY <1>0 DEF Texts, Other, FileStates
  <2> QED
    BY <1>2, <1>5, <2>1 DEF OutsideChange, FilesTypeOK
<1>6. ASSUME NEW f \in Files, LoadEnds(f) PROVE FilesTypeOK'
  <2>0. loads[f].text \in Texts /\ loads[f].ver \in Nat
    BY <1>0 DEF LoadStates
  <2>1. loads' \in [Files -> LoadStates]
    BY <1>6 DEF LoadEnds, FilesTypeOK, LoadStates, Texts
  <2>2. cached' \in [Files -> EntryStates]
    <3>1. [in |-> TRUE, text |-> loads[f].text, stamp |-> workspace[f].stamp, ver |-> loads[f].ver] \in EntryStates
      BY <1>0, <2>0 DEF EntryStates, FileStates
    <3>2. NoEntry \in EntryStates
      BY DEF NoEntry, EntryStates, Texts
    <3>3. CASE cached' = cached
      BY <3>3 DEF FilesTypeOK
    <3>4. CASE \E out \in SUBSET Files :
               cached' = [g \in Files |->
                      IF g = f THEN [in |-> TRUE, text |-> loads[f].text,
                                     stamp |-> workspace[f].stamp, ver |-> loads[f].ver]
                      ELSE IF g \in out THEN NoEntry ELSE cached[g]]
      BY <1>0, <3>1, <3>2, <3>4
    <3> QED
      BY <1>6, <3>3, <3>4 DEF LoadEnds
  <2>3. tool' \in [Calls -> CallStates]
    <3>1. \A c \in Calls : Given(tool[c], f, loads[f].text, loads[f].ver) \in CallStates
      BY <1>0, <2>0, GivenIs
    <3> QED
      BY <1>0, <1>6, <3>1 DEF LoadEnds
  <2> QED
    BY <1>6, <2>1, <2>2, <2>3 DEF LoadEnds, FilesTypeOK
<1>7. ASSUME NEW c \in Calls, Begins(c) PROVE FilesTypeOK'
  <2>1. FirstStep(Op(c)) \in CallSteps
    BY DEF FirstStep, CallSteps
  <2>2. workspace[Target(c)].ver \in Nat
    BY <1>0 DEF FileStates
  <2> DEFINE from == IF Op(c) = "search" THEN 0 ELSE workspace[Target(c)].ver
             todo == IF Op(c) = "read" THEN {Target(c)} ELSE {}
             r == [tool[c] EXCEPT !.pc = FirstStep(Op(c)), !.from = from, !.todo = todo]
  <2>5. from \in Nat /\ todo \in SUBSET Files
    BY <1>0, <2>2
  <2>4. tool' = [tool EXCEPT ![c] = r]
    BY <1>7 DEF Begins
  <2> HIDE DEF from, todo
  <2>3. r \in CallStates
    BY <1>0, <2>1, <2>5, BeginsTyped
  <2> HIDE DEF r
  <2> QED
    BY <1>7, <1>t, <2>3, <2>4 DEF Begins, FilesTypeOK
<1>8. ASSUME NEW c \in Calls, CancelTool(c) PROVE FilesTypeOK'
  <2>1. [tool[c] EXCEPT !.cancelled = TRUE] \in CallStates
    BY <1>0 DEF CallStates
  <2>2. tool' = [tool EXCEPT ![c] = [tool[c] EXCEPT !.cancelled = TRUE]]
    BY <1>8 DEF CancelTool
  <2> QED
    BY <1>8, <1>t, <2>1, <2>2 DEF CancelTool, FilesTypeOK
<1>9. ASSUME NEW c \in Calls, LeavesLoad(c) PROVE FilesTypeOK'
  <2>1. tool[c].waits \in Files
    BY <1>0, <1>9 DEF LeavesLoad, CallStates
  <2>2. Skips(tool[c], tool[c].waits) \in CallStates
    BY <1>0, <2>1, SkipsIs
  <2>3. tool' = [tool EXCEPT ![c] = Skips(tool[c], tool[c].waits)]
    BY <1>9 DEF LeavesLoad
  <2> QED
    BY <1>9, <1>t, <2>2, <2>3 DEF LeavesLoad, FilesTypeOK
<1>10. ASSUME NEW c \in Calls, RefreshKept(c) PROVE FilesTypeOK'
  <2>1. WithSnapshot(tool[c], context) \in CallStates
    BY <1>0, SnapshotIs
  <2>2. tool' = [tool EXCEPT ![c] = WithSnapshot(tool[c], context)]
    BY <1>10 DEF RefreshKept
  <2> QED
    BY <1>10, <1>t, <2>1, <2>2 DEF RefreshKept, FilesTypeOK
<1>11. ASSUME NEW c \in Calls, RefreshLists(c) PROVE FilesTypeOK'
  <2>1. PICK part \in SUBSET Existing :
          tool' = [tool EXCEPT ![c].pc = "adopt", ![c].whole = (part = Existing),
                     ![c].snap = {[file |-> f, stamp |-> workspace[f].stamp, ver |-> workspace[f].ver] : f \in part}]
    BY <1>11 DEF RefreshLists
  <2> DEFINE list == {[file |-> f, stamp |-> workspace[f].stamp, ver |-> workspace[f].ver] : f \in part}
             whole == part = Existing
             r == [tool[c] EXCEPT !.pc = "adopt", !.whole = whole, !.snap = list]
  <2>2. list \in Listings /\ whole \in BOOLEAN
    BY <1>0 DEF Listings, Existing, FileStates
  <2>4. tool' = [tool EXCEPT ![c] = r]
    BY <2>1
  <2> HIDE DEF list, whole
  <2>3. r \in CallStates
    BY <1>0, <2>2, ListsTyped DEF CallSteps
  <2> HIDE DEF r
  <2> QED
    BY <1>11, <1>t, <2>3, <2>4 DEF RefreshLists, FilesTypeOK
<1>12. ASSUME NEW c \in Calls, RefreshAdopts(c) PROVE FilesTypeOK'
  <2>1. context' \in ContextStates
    <3>1. tool[c].snap \in Listings /\ tool[c].whole \in BOOLEAN
      BY <1>0 DEF CallStates
    <3>2. context' = Adopted(context, tool[c])
      BY <1>12 DEF RefreshAdopts
    <3> DEFINE next == [context EXCEPT !.ready = TRUE, !.fresh = TRUE, !.snap = tool[c].snap, !.whole = tool[c].whole]
    <3>3. next \in ContextStates
      BY <1>0, <3>1 DEF ContextStates
    <3>5. context' = next \/ context' = [next EXCEPT !.gen = @ + 1, !.lexGen = 0, !.posts = {}]
      BY <3>2 DEF Adopted
    <3> HIDE DEF next
    <3>6. [next EXCEPT !.gen = @ + 1, !.lexGen = 0, !.posts = {}] \in ContextStates
      BY <3>3, ContextUpdates
    <3> QED
      BY <3>3, <3>5, <3>6
  <2>2. cached' \in [Files -> EntryStates]
    <3>1. NoEntry \in EntryStates
      BY DEF NoEntry, EntryStates, Texts
    <3>2. PICK gone : cached' = [f \in Files |-> IF f \in gone THEN NoEntry ELSE cached[f]]
      BY <1>12 DEF RefreshAdopts
    <3> QED
      BY <1>0, <3>1, <3>2
  <2>3. tool' \in [Calls -> CallStates]
    <3>1. WithSnapshot(tool[c], context') \in CallStates
      BY <1>0, <2>1, SnapshotIs
    <3>2. ASSUME NEW d \in Calls PROVE [tool[d] EXCEPT !.moved = TRUE] \in CallStates
      BY <1>0 DEF CallStates
    <3>3. tool' = [d \in Calls |->
                  IF d = c THEN WithSnapshot(tool[d], context')
                  ELSE IF context'.gen # context.gen THEN [tool[d] EXCEPT !.moved = TRUE] ELSE tool[d]]
      BY <1>12 DEF RefreshAdopts
    <3> QED
      BY <1>0, <3>1, <3>2, <3>3
  <2> QED
    BY <1>12, <2>1, <2>2, <2>3 DEF RefreshAdopts, FilesTypeOK
<1>13. ASSUME NEW c \in Calls, NEW pc \in CallSteps
       PROVE  [tool[c] EXCEPT !.pc = pc] \in CallStates
  BY <1>0, GoesTyped
<1>14. ASSUME NEW c \in Calls, NEW ok \in BOOLEAN
       PROVE  [tool[c] EXCEPT !.pc = "done", !.ok = ok] \in CallStates
  BY <1>0, GoesTyped DEF CallSteps
<1>15. ASSUME NEW c \in Calls, Fails(c) PROVE tool' \in [Calls -> CallStates]
  <2>1. tool' = [tool EXCEPT ![c] = [tool[c] EXCEPT !.pc = "done", !.ok = FALSE]]
    BY <1>15 DEF Fails
  <2> QED
    BY <1>t, <1>14, <2>1
<1>16. ASSUME NEW c \in Calls, LexicalReady(c) PROVE FilesTypeOK'
  <2>1. tool' = [tool EXCEPT ![c] = [tool[c] EXCEPT !.pc = "pick"]]
    BY <1>16 DEF LexicalReady, Goto
  <2>2. tool' \in [Calls -> CallStates]
    BY <1>t, <1>13, <2>1 DEF CallSteps
  <2> QED
    BY <1>16, <2>2 DEF LexicalReady, FilesTypeOK
<1>17. ASSUME NEW c \in Calls, SearchEnds(c) PROVE FilesTypeOK'
  <2>1. tool' = [tool EXCEPT ![c] = [tool[c] EXCEPT !.pc = "done", !.ok = TRUE]]
    BY <1>17 DEF SearchEnds
  <2>2. tool' \in [Calls -> CallStates]
    BY <1>t, <1>14, <2>1
  <2> QED
    BY <1>17, <2>2 DEF SearchEnds, FilesTypeOK
<1>18. ASSUME NEW c \in Calls, LexicalBuilds(c) PROVE FilesTypeOK'
  <2>1. Listed(tool[c].snap) \subseteq Files
    BY <1>0 DEF Listed, Listings, CallStates
  <2>2. [tool[c] EXCEPT !.pc = "grams", !.todo = Listed(tool[c].snap), !.ids = {}] \in CallStates
    <3>1. tool[c] \in CallStates /\ "grams" \in CallSteps /\ {} \in SUBSET Files
      BY <1>0 DEF CallSteps
    <3> QED
      BY <2>1, <3>1, BuildsTyped
  <2>3. tool' = [tool EXCEPT ![c] = [tool[c] EXCEPT !.pc = "grams", !.todo = Listed(tool[c].snap), !.ids = {}]]
    BY <1>18 DEF LexicalBuilds
  <2> QED
    BY <1>18, <1>t, <2>2, <2>3 DEF LexicalBuilds, FilesTypeOK
<1>19. ASSUME NEW c \in Calls, LexicalInstalls(c) PROVE FilesTypeOK'
  <2>1. tool' \in [Calls -> CallStates]
    <3>1. CASE Goto(c, "pick")
      BY <1>t, <1>13, <3>1 DEF Goto, CallSteps
    <3> QED
      BY <1>15, <1>19, <3>1 DEF LexicalInstalls
  <2>2. Posted(context, tool[c]) \in ContextStates
    <3>1. tool[c].gen \in Nat /\ tool[c].snap \in Listings
      BY <1>0 DEF CallStates
    <3> DEFINE posts == {Position(f, tool[c].snap) : f \in tool[c].ids}
    <3>2. posts \in SUBSET Nat
      BY <3>1, PositionIsNat
    <3>3. Posted(context, tool[c]) = context \/ Posted(context, tool[c]) = [context EXCEPT !.lexGen = tool[c].gen, !.posts = posts]
      BY DEF Posted
    <3> HIDE DEF posts
    <3> QED
      BY <1>0, <3>1, <3>2, <3>3 DEF ContextStates
  <2> QED
    BY <1>19, <2>1, <2>2 DEF LexicalInstalls, FilesTypeOK
<1>20. ASSUME NEW c \in Calls, SearchPicks(c) PROVE FilesTypeOK'
  <2> DEFINE named == {f \in Listed(tool[c].snap) : Position(f, tool[c].snap) \in context.posts}
  <2>1. named \subseteq Files
    BY <1>0 DEF Listed, Listings, CallStates
  <2>2. tool' = [tool EXCEPT ![c] = [tool[c] EXCEPT !.pc = "texts", !.todo = named]]
    BY <1>20 DEF SearchPicks
  <2> HIDE DEF named
  <2>3. [tool[c] EXCEPT !.pc = "texts", !.todo = named] \in CallStates
    BY <1>0, <2>1, PicksTyped DEF CallSteps
  <2> QED
    BY <1>20, <1>t, <2>2, <2>3 DEF SearchPicks, FilesTypeOK
<1>21. ASSUME NEW c \in Calls, StatTarget(c) PROVE FilesTypeOK'
  <2>1. CASE tool' = [tool EXCEPT ![c].pc = "read"]
    BY <1>t, <1>13, <1>21, <2>1 DEF StatTarget, FilesTypeOK, CallSteps
  <2> QED
    BY <1>15, <1>21, <2>1 DEF StatTarget, FilesTypeOK
<1>22. ASSUME NEW c \in Calls, ReplaceFails(c) PROVE FilesTypeOK'
  BY <1>15, <1>22 DEF ReplaceFails, FilesTypeOK
<1>23. ASSUME NEW c \in Calls, ReadTarget(c) PROVE FilesTypeOK'
  <2>1. workspace[Target(c)].text \in Texts /\ workspace[Target(c)].ver \in Nat
    BY <1>0 DEF FileStates
  <2> DEFINE r == [tool[c] EXCEPT !.pc = "replace", !.text = workspace[Target(c)].text, !.ver = workspace[Target(c)].ver]
  <2>2. r \in CallStates
    BY <1>0, <2>1, ReadsTyped DEF CallSteps
  <2>3. Fails(c) \/ tool' = [tool EXCEPT ![c] = r]
    BY <1>23 DEF ReadTarget
  <2> HIDE DEF r
  <2> QED
    BY <1>15, <1>23, <1>t, <2>2, <2>3 DEF ReadTarget, FilesTypeOK
<1>24. ASSUME NEW c \in Calls, Replace(c) PROVE FilesTypeOK'
  <2>1. NewText(c) \in Texts
    BY <1>0, CodeFilesAssumption DEF NewText, Texts, CallStates
  <2> DEFINE over == Op(c) = "edit" /\ workspace[Target(c)].ver # tool[c].ver /\ Other \notin workspace[Target(c)].text
             r == [tool[c] EXCEPT !.pc = "invalidate", !.replaced = TRUE, !.lost = over]
  <2>3. tool' = [tool EXCEPT ![c] = r]
    BY <1>24 DEF Replace
  <2>5. over \in BOOLEAN
    OBVIOUS
  <2> HIDE DEF over
  <2>2. r \in CallStates
    BY <1>0, <2>5, ReplacesTyped DEF CallSteps
  <2> HIDE DEF r
  <2>4. workspace' \in [Files -> FileStates]
    BY <1>0, <1>2, <1>3, <1>24, <2>1 DEF Replace
  <2> QED
    BY <1>24, <1>t, <2>2, <2>3, <2>4 DEF Replace, FilesTypeOK
<1>25. ASSUME NEW c \in Calls, NEW d \in Calls
       PROVE  /\ [tool[d] EXCEPT !.pc = "done", !.ok = TRUE] \in CallStates
              /\ [tool[d] EXCEPT !.moved = TRUE] \in CallStates
  BY <1>0, GoesTyped DEF CallSteps
<1>26. ASSUME NEW c \in Calls, InvalidateTarget(c) PROVE FilesTypeOK'
  <2>1. tool' \in [Calls -> CallStates]
    BY <1>25, <1>26 DEF InvalidateTarget
  <2>2. NoEntry \in EntryStates
    BY DEF NoEntry, EntryStates, Texts
  <2>3. cached' \in [Files -> EntryStates]
    BY <1>0, <1>26, <2>2 DEF InvalidateTarget
  <2> QED
    BY <1>4, <1>26, <2>1, <2>3 DEF InvalidateTarget, FilesTypeOK
<1>27. ASSUME NEW c \in Calls, ShellRuns(c) PROVE FilesTypeOK'
  <2>1. workspace[Target(c)].text \cup {c} \in Texts
    <3>1. workspace[Target(c)] \in FileStates /\ c \in Int
      BY <1>0, CallsAreNumbers
    <3> QED
      BY <3>1 DEF Texts, FileStates
  <2>2. tool' = [tool EXCEPT ![c] = [tool[c] EXCEPT !.pc = "after"]]
    BY <1>27 DEF ShellRuns, Goto
  <2>3. tool' \in [Calls -> CallStates]
    BY <1>t, <1>13, <2>2 DEF CallSteps
  <2>4. workspace' \in [Files -> FileStates]
    <3>1. PICK stamp \in Stamps(Target(c)) : workspace' = Changed(Target(c), workspace[Target(c)].text \cup {c}, stamp)
      BY <1>27 DEF ShellRuns
    <3> QED
      BY <1>0, <1>2, <1>3, <2>1, <3>1
  <2> QED
    BY <1>27, <2>3, <2>4 DEF ShellRuns, FilesTypeOK
<1>28. ASSUME NEW c \in Calls, ShellEnds(c) PROVE FilesTypeOK'
  <2>1. tool' \in [Calls -> CallStates]
    BY <1>25, <1>28 DEF ShellEnds
  <2> QED
    BY <1>4, <1>28, <2>1 DEF ShellEnds, AfterShell, FilesTypeOK
<1>29. ASSUME NEW c \in Calls, NEW f \in Files, LoadHit(c, f) PROVE FilesTypeOK'
  <2>1. cached[f].text \in Texts /\ cached[f].ver \in Nat
    BY <1>0 DEF EntryStates
  <2>2. Given(tool[c], f, cached[f].text, cached[f].ver) \in CallStates
    BY <1>0, <2>1, GivenIs
  <2>3. tool' = [tool EXCEPT ![c] = Given(tool[c], f, cached[f].text, cached[f].ver)]
    BY <1>29 DEF LoadHit
  <2> QED
    BY <1>29, <1>t, <2>2, <2>3 DEF LoadHit, FilesTypeOK
<1>30. ASSUME NEW c \in Calls, NEW f \in Files, LoadMiss(c, f) PROVE FilesTypeOK'
  <2>1. [tool[c] EXCEPT !.waits = f] \in CallStates
    BY <1>0 DEF CallStates
  <2>2. tool' = [tool EXCEPT ![c] = [tool[c] EXCEPT !.waits = f]]
    BY <1>30 DEF LoadMiss
  <2>3. [on |-> TRUE, text |-> workspace[f].text, ver |-> workspace[f].ver] \in LoadStates
    BY <1>0 DEF LoadStates, FileStates
  <2>4. loads' \in [Files -> LoadStates]
    BY <1>30, <2>3 DEF LoadMiss, FilesTypeOK
  <2> QED
    BY <1>30, <1>t, <2>1, <2>2, <2>4 DEF LoadMiss, FilesTypeOK
<1>31. ASSUME NEW c \in Calls, NEW f \in Files, LoadSkipped(c, f) PROVE FilesTypeOK'
  <2>1. Skips(tool[c], f) \in CallStates
    BY <1>0, SkipsIs
  <2>2. tool' = [tool EXCEPT ![c] = Skips(tool[c], f)]
    BY <1>31 DEF LoadSkipped
  <2> QED
    BY <1>31, <1>t, <2>1, <2>2 DEF LoadSkipped, FilesTypeOK
<1> QED
  BY <1>1, <1>5, <1>6, <1>7, <1>8, <1>9, <1>10, <1>11, <1>12, <1>16, <1>17,
     <1>18, <1>19, <1>20, <1>21, <1>22, <1>23, <1>24, <1>26, <1>27, <1>28, <1>29, <1>30, <1>31
  DEF FilesNext

\* What no step undoes: a file stays as it is, or has a new version; a new
\* version that keeps its stamp is one that is known to be so.
Onward ==
  /\ plan' = plan
  /\ \A f \in overtaken : f \in overtaken'
  /\ \A f \in Files :
       \/ workspace'[f] = workspace[f]
       \/ /\ workspace'[f].there /\ workspace'[f].ver = workspace[f].ver + 1
          /\ workspace'[f].stamp \in {workspace[f].stamp, workspace[f].stamp + 1}
          /\ workspace'[f].stamp = workspace[f].stamp => f \in overtaken' \/ BeingReplaced(f)'
          /\ loads[f].on => f \in overtaken'
\* No replacement is told of.
Untold == \A f \in Files : BeingReplaced(f) => BeingReplaced(f)'

LEMMA ListingsOnward ==
  ASSUME FilesTypeOK, FilesTypeOK', Onward, NEW list \in Listings
  PROVE  /\ ListingOK(list) => ListingOK(list)'
         /\ ListingOK(list) => \A e \in list : Standing(e)' => Standing(e)
         /\ Covers(list) => Covers(list)'
         /\ (ListingOK(list) /\ TrueStamps(list) /\ Untold) => TrueStamps(list)'
<1>1. \A f \in Files : /\ workspace[f].ver \in Nat /\ workspace[f].stamp \in Nat
                       /\ workspace'[f].ver \in Nat /\ workspace'[f].stamp \in Nat
  BY DEF FilesTypeOK, FileStates
<1>2. \A e \in list : e.file \in Files /\ e.stamp \in Nat /\ e.ver \in Nat
  BY DEF Listings
<1>3. ListingOK(list) => ListingOK(list)'
  BY <1>1, <1>2 DEF ListingOK, Onward
<1>4. ASSUME ListingOK(list), NEW e \in list, Standing(e)' PROVE Standing(e)
  BY <1>1, <1>2, <1>4 DEF ListingOK, Onward, Standing
<1>5. ASSUME Covers(list) PROVE Covers(list)'
  BY <1>1, <1>5 DEF Covers, Existing, Onward, FilesTypeOK, FileStates
<1>6. ASSUME ListingOK(list), TrueStamps(list), Untold PROVE TrueStamps(list)'
  <2> SUFFICES ASSUME NEW e \in list, e.stamp = workspace'[e.file].stamp, e.file \notin overtaken',
                      ~BeingReplaced(e.file)'
               PROVE  e.ver = workspace'[e.file].ver
    BY DEF TrueStamps
  <2>1. e.file \notin overtaken /\ ~BeingReplaced(e.file)
    BY <1>2, <1>6 DEF Onward, Untold
  <2>2. e.stamp <= workspace[e.file].stamp
    BY <1>6 DEF ListingOK
  <2>3. workspace'[e.file] = workspace[e.file]
    BY <1>1, <1>2, <2>2 DEF Onward
  <2> QED
    BY <1>6, <2>1, <2>3 DEF TrueStamps
<1> QED
  BY <1>3, <1>4, <1>5, <1>6

\* A reader or a searcher that is under way meets no file that is being replaced.
LEMMA ReadersAreApart ==
  ASSUME FilesInv, NEW c \in Calls, Active(c)
  PROVE  /\ Op(c) = "search" => \A f \in Files : ~BeingReplaced(f)
         /\ Op(c) = "read" => ~BeingReplaced(Target(c))
<1>1. ASSUME NEW d \in Calls, Op(d) \in Writers, tool[d].pc = "invalidate"
      PROVE  Op(c) # "search" /\ (Op(c) = "read" => Target(d) # Target(c))
  <2>1. Active(d) /\ ClaimsHold
    BY <1>1 DEF Active, FilesInv
  <2>2. Op(c) \in {"search", "read"} => d # c
    BY <1>1 DEF Writers
  <2> QED
    BY <1>1, <2>1, <2>2 DEF ClaimsHold
<1> QED
  BY <1>1 DEF BeingReplaced

\* A call to which nothing happens but that it is cancelled, or that the
\* generation moves.
Stays(d) == tool'[d] \in {tool[d], [tool[d] EXCEPT !.moved = TRUE], [tool[d] EXCEPT !.cancelled = TRUE]}
\* What the others may do beside it.
Beside(d) ==
  /\ context.gen <= context'.gen
  /\ context'.gen = context.gen =>
       /\ Manifest(context'.snap) = Manifest(context.snap)
       /\ context.lexGen = context.gen => context'.lexGen = context'.gen
  /\ context'.gen # context.gen => tool'[d].moved
  /\ Untold \/ (context'.gen # context.gen /\ tool[d].pc # "adopt")
  /\ (Op(d) \in Writers /\ tool[d].pc = "replace") =>
       \/ workspace'[Target(d)] = workspace[Target(d)]
       \/ Other \in workspace'[Target(d)].text

LEMMA Bystander ==
  ASSUME FilesInv, FilesTypeOK', Onward, NEW d \in Calls, Stays(d), Beside(d)
  PROVE  CallOK(d)'
<1> DEFINE r == tool[d]
           s == tool'[d]
<1>1. /\ r \in CallStates /\ s \in CallStates
      /\ s.pc = r.pc /\ s.from = r.from /\ s.waits = r.waits /\ s.todo = r.todo /\ s.text = r.text
      /\ s.ver = r.ver /\ s.snap = r.snap /\ s.gen = r.gen /\ s.ids = r.ids /\ s.found = r.found
      /\ s.whole = r.whole /\ s.ok = r.ok /\ s.replaced = r.replaced /\ s.lost = r.lost
      /\ ~s.moved => ~r.moved
      /\ ~s.cancelled => ~r.cancelled
  BY DEF FilesInv, FilesTypeOK, CallStates, Stays
<1>2. CallOK(d)
  BY DEF FilesInv
<1>3. r.snap \in Listings /\ r.gen \in Nat /\ r.from \in Nat /\ r.ver \in Nat /\ context.gen \in Nat /\ context'.gen \in Nat
  BY <1>1 DEF CallStates, FilesInv, FilesTypeOK, ContextStates
<1>4. Op(d)' = Op(d) /\ Target(d)' = Target(d) /\ Target(d) \in Files
  BY DEF Onward, Op, Target, FilesInv, FilesTypeOK
<1> HIDE DEF r, s
<1>5. LoadingOK(d)'
  BY <1>1, <1>2, <1>4 DEF CallOK, LoadingOK, r, s
<1>6. ReadOK(d)'
  <2>1. workspace[Target(d)].ver <= workspace'[Target(d)].ver
    BY <1>4 DEF Onward, FilesInv, FilesTypeOK, FileStates
  <2>2. workspace[Target(d)].ver \in Nat /\ workspace'[Target(d)].ver \in Nat
    BY <1>4 DEF FilesInv, FilesTypeOK, FileStates
  <2>3. ReadOK(d) /\ (Target(d) \in overtaken => Target(d) \in overtaken')
    BY <1>2 DEF CallOK, Onward
  <2> QED
    BY <1>1, <1>3, <1>4, <2>1, <2>2, <2>3 DEF ReadOK, r, s
<1>7. EditOK(d)'
  BY <1>1, <1>2, <1>4 DEF CallOK, EditOK, Beside, r, s
<1>l. PICK list \in Listings : list = r.snap
  BY <1>3
<1>8. /\ ListingOK(list)' /\ \A e \in list : Standing(e)' => Standing(e)
      /\ Covers(list) => Covers(list)'
      /\ (TrueStamps(list) /\ Untold) => TrueStamps(list)'
  <2>1. ListingOK(list) /\ FilesTypeOK
    BY <1>2, <1>l DEF CallOK, ListedOK, r, FilesInv
  <2> QED
    BY <2>1, ListingsOnward
<1>9. ListedOK(d)'
  <2>1. ListedOK(d)
    BY <1>2 DEF CallOK
  <2>0. tool'[d].snap = list
    BY <1>1, <1>l DEF s
  <2>2. ListingOK(tool[d].snap)'
    BY <1>8, <2>0 DEF ListingOK
  <2>8. s.gen <= context'.gen
    BY <1>1, <1>3, <2>1 DEF ListedOK, Beside, r
  <2>3. s.pc = "adopt" => TrueStamps(tool[d].snap)'
    <3>1. s.pc = "adopt" => TrueStamps(list)'
      BY <1>1, <1>l, <1>8, <2>1 DEF ListedOK, Beside, r
    <3> QED
      BY <2>0, <3>1 DEF TrueStamps
  <2>4. s.pc \in {"idle", "refresh", "adopt"} => s.gen = 0
    BY <1>1, <2>1 DEF ListedOK, r
  <2>5. (s.gen > 0 /\ s.gen = context'.gen) =>
          Manifest(s.snap) = Manifest(context'.snap) /\ TrueStamps(tool[d].snap)'
    <3> SUFFICES ASSUME s.gen > 0, s.gen = context'.gen
                 PROVE  Manifest(s.snap) = Manifest(context'.snap) /\ TrueStamps(tool[d].snap)'
      OBVIOUS
    <3>1. r.gen <= context.gen /\ context.gen <= context'.gen
      BY <2>1 DEF ListedOK, Beside, r
    <3>2. context'.gen = context.gen
      BY <1>1, <1>3, <3>1
    <3>3. TrueStamps(list)'
      BY <1>1, <1>l, <1>8, <2>1, <3>2 DEF ListedOK, Beside, r
    <3>4. Manifest(s.snap) = Manifest(context'.snap)
      BY <1>1, <2>1, <3>2 DEF ListedOK, Beside, r
    <3>5. TrueStamps(tool[d].snap)'
      BY <2>0, <3>3 DEF TrueStamps
    <3> QED
      BY <3>4, <3>5
  <2>6. (Op(d)' = "search" /\ s.pc \notin {"idle", "refresh"} /\ s.whole) => Covers(tool[d].snap)'
    <3>1. (Op(d)' = "search" /\ s.pc \notin {"idle", "refresh"} /\ s.whole) => Covers(list)'
      BY <1>1, <1>4, <1>l, <1>8, <2>1 DEF ListedOK, r
    <3> QED
      BY <2>0, <3>1 DEF Covers
  <2>7. (s.pc \in Lexical /\ ~s.moved) => s.gen = context'.gen /\ s.gen > 0
    BY <1>1, <1>4, <2>1 DEF ListedOK, Beside, r, s
  <2> QED
    BY <2>2, <2>3, <2>4, <2>5, <2>6, <2>7, <2>8 DEF ListedOK, s
<1>10. FoundOK(d)'
  <2>1. FoundOK(d)
    BY <1>2 DEF CallOK
  <2>2. (s.pc = "pick" /\ ~s.moved) => context'.lexGen = context'.gen
    <3>1. ListedOK(d)
      BY <1>2 DEF CallOK
    <3> QED
      BY <1>1, <2>1, <3>1 DEF FoundOK, ListedOK, Lexical, Beside, r, s
  <2>3. ~s.cancelled => \A e \in list : Standing(e)' =>
       /\ s.pc = "grams" => e.file \in s.todo \cup s.ids
       /\ (s.pc = "texts" /\ ~s.moved) => e.file \in s.todo \cup s.found
       /\ (Op(d)' = "search" /\ s.pc = "done" /\ s.ok /\ ~s.moved) => e.file \in s.found
    BY <1>1, <1>4, <1>l, <1>8, <2>1 DEF FoundOK, r
  <2>4. tool'[d].snap = list
    BY <1>1, <1>l DEF s
  <2> QED
    BY <2>2, <2>3, <2>4 DEF FoundOK, s
<1> QED
  BY <1>5, <1>6, <1>7, <1>9, <1>10 DEF CallOK

LEMMA ContextStays ==
  ASSUME FilesInv, FilesTypeOK', Onward, Untold,
         context' = context \/ context' = [context EXCEPT !.fresh = FALSE],
         \A d \in Calls : tool'[d].gen = tool[d].gen \/ (tool'[d].gen = context.gen /\ Held)
  PROVE  ContextOK'
<1>1. /\ context'.snap = context.snap /\ context'.ready = context.ready /\ context'.whole = context.whole
      /\ context'.gen = context.gen /\ context'.lexGen = context.lexGen /\ context'.posts = context.posts
      /\ context'.fresh => context.fresh
  BY DEF FilesInv, FilesTypeOK, ContextStates
<1>2. Held' <=> Held
  BY <1>1 DEF Held
<1>3. PICK list \in Listings : list = context.snap
  BY DEF FilesInv, FilesTypeOK, ContextStates
<1>4. ContextOK /\ FilesTypeOK
  BY DEF FilesInv
<1>5. /\ ListingOK(list)' /\ \A e \in list : Standing(e)' => Standing(e)
      /\ Covers(list) => Covers(list)'
      /\ TrueStamps(list) => TrueStamps(list)'
  <2>1. ListingOK(list)
    BY <1>3, <1>4 DEF ContextOK
  <2> QED
    BY <1>4, <2>1, ListingsOnward
<1>6. context'.snap = list
  BY <1>1, <1>3
<1>7. ListingOK(context.snap)'
  BY <1>5, <1>6 DEF ListingOK
<1>8. context'.ready => context'.gen > 0 /\ (context'.whole => Covers(context.snap)')
  <2>1. (context'.ready /\ context'.whole) => Covers(list)'
    BY <1>1, <1>3, <1>4, <1>5 DEF ContextOK
  <2>2. (context'.ready /\ context'.whole) => Covers(context.snap)'
    BY <1>6, <2>1 DEF Covers
  <2> QED
    BY <1>1, <1>4, <2>2 DEF ContextOK
<1>9. context'.fresh => Held'
  BY <1>1, <1>2, <1>4 DEF ContextOK
<1>10. (context'.gen > 0 /\ context'.lexGen = context'.gen) => Held' /\ PostsAre(context.snap, context.posts)'
  <2> SUFFICES ASSUME context'.gen > 0, context'.lexGen = context'.gen
               PROVE  Held' /\ PostsAre(context.snap, context.posts)'
    OBVIOUS
  <2>1. Held /\ PostsAre(list, context.posts)
    BY <1>1, <1>3, <1>4 DEF ContextOK
  <2>2. \A e \in list : Standing(e)' => Position(e.file, list) \in context'.posts
    BY <1>1, <1>5, <2>1 DEF PostsAre
  <2> QED
    BY <1>2, <1>6, <2>1, <2>2 DEF PostsAre
<1>11. Held' => TrueStamps(context.snap)'
  <2>1. Held' => TrueStamps(list)'
    BY <1>2, <1>3, <1>4, <1>5 DEF ContextOK
  <2> QED
    BY <1>6, <2>1 DEF TrueStamps
<1> QED
  BY <1>7, <1>8, <1>9, <1>10, <1>11 DEF ContextOK

LEMMA TextsStay ==
  ASSUME FilesInv, FilesTypeOK', Onward, Untold, cached' = cached,
         \A f \in Files : \/ loads'[f] = loads[f]
                          \/ /\ workspace'[f] = workspace[f]
                             /\ loads'[f].text = workspace[f].text /\ loads'[f].ver = workspace[f].ver
  PROVE  TextsOK'
<1> SUFFICES ASSUME NEW f \in Files
             PROVE
    /\ cached'[f].in => cached'[f].stamp <= workspace'[f].stamp
    /\ (f \notin overtaken' /\ loads'[f].on) =>
         loads'[f].text = workspace'[f].text /\ loads'[f].ver = workspace'[f].ver
    /\ (f \notin overtaken' /\ cached'[f].in /\ cached'[f].stamp = workspace'[f].stamp
          /\ ~BeingReplaced(f)') =>
         cached'[f].text = workspace'[f].text /\ cached'[f].ver = workspace'[f].ver
  BY DEF TextsOK
<1>1. /\ workspace[f].stamp \in Nat /\ workspace'[f].stamp \in Nat /\ cached[f].stamp \in Nat
  BY DEF FilesInv, FilesTypeOK, FileStates, EntryStates
<1>2. /\ f \notin overtaken' => f \notin overtaken
      /\ ~BeingReplaced(f)' => ~BeingReplaced(f)
  BY DEF Onward, Untold
<1>3. /\ cached[f].in => cached[f].stamp <= workspace[f].stamp
      /\ (f \notin overtaken /\ loads[f].on) =>
           loads[f].text = workspace[f].text /\ loads[f].ver = workspace[f].ver
      /\ (f \notin overtaken /\ cached[f].in /\ cached[f].stamp = workspace[f].stamp
            /\ ~BeingReplaced(f)) =>
           cached[f].text = workspace[f].text /\ cached[f].ver = workspace[f].ver
  BY DEF FilesInv, TextsOK
<1>4. CASE workspace'[f] = workspace[f]
  BY <1>2, <1>3, <1>4
<1>5. CASE workspace'[f] # workspace[f]
  <2>1. loads'[f] = loads[f] /\ (loads[f].on => f \in overtaken')
    BY <1>5 DEF Onward
  <2>2. /\ workspace[f].stamp <= workspace'[f].stamp
        /\ workspace'[f].stamp = workspace[f].stamp => f \in overtaken' \/ BeingReplaced(f)'
        /\ workspace'[f].stamp # workspace[f].stamp => workspace'[f].stamp = workspace[f].stamp + 1
    BY <1>1, <1>5 DEF Onward
  <2> QED
    BY <1>1, <1>3, <2>1, <2>2
<1> QED
  BY <1>4, <1>5

\* No step but a beginning makes a call active.
LEMMA ClaimsStay ==
  ASSUME FilesInv, plan' = plan, \A d \in Calls : Active(d)' => Active(d)
  PROVE  ClaimsHold'
  BY DEF FilesInv, ClaimsHold, Op, Target

\* A step of one call that only it sees.
LEMMA OwnStep ==
  ASSUME FilesInv, FilesTypeOK', NEW c \in Calls, plan' = plan, workspace' = workspace,
         overtaken' = overtaken, cached' = cached, context' = context,
         \A f \in Files : loads'[f] = loads[f] \/
            (loads'[f].text = workspace[f].text /\ loads'[f].ver = workspace[f].ver),
         \A d \in Calls \ {c} : tool'[d] = tool[d],
         ClaimsHold',
         tool[c].pc = "invalidate" => tool'[c].pc = "invalidate",
         tool'[c].gen = tool[c].gen \/ (tool'[c].gen = context.gen /\ Held),
         CallOK(c)'
  PROVE  FilesInv'
<1>1. Onward
  BY DEF Onward
<1>2. Untold
  <2> SUFFICES ASSUME NEW f \in Files, NEW d \in Calls, Op(d) \in Writers, Target(d) = f,
                      tool[d].pc = "invalidate"
               PROVE  BeingReplaced(f)'
    BY DEF Untold, BeingReplaced
  <2>1. Op(d)' \in Writers /\ Target(d)' = f /\ tool'[d].pc = "invalidate"
    BY DEF Op, Target
  <2> QED
    BY <2>1 DEF BeingReplaced, Writers
<1>3. TextsOK'
  BY <1>1, <1>2, TextsStay
<1>4. ContextOK'
  <2>1. \A d \in Calls : tool'[d].gen = tool[d].gen \/ (tool'[d].gen = context.gen /\ Held)
    OBVIOUS
  <2> QED
    BY <1>1, <1>2, <2>1, ContextStays
<1>5. ASSUME NEW d \in Calls, d # c PROVE CallOK(d)'
  <2>1. Stays(d)
    BY <1>5 DEF Stays
  <2>2. Beside(d)
    BY <1>2, <1>5 DEF Beside, FilesInv, FilesTypeOK, ContextStates
  <2> QED
    BY <1>1, <2>1, <2>2, Bystander
<1> QED
  BY <1>3, <1>4, <1>5 DEF FilesInv

LEMMA ReplacersKnown ==
  ASSUME plan' = plan, \A d \in Calls : tool[d].pc = "invalidate" => tool'[d].pc = "invalidate"
  PROVE  Untold
<1> SUFFICES ASSUME NEW f \in Files, NEW d \in Calls, Op(d) \in Writers, Target(d) = f,
                    tool[d].pc = "invalidate"
             PROVE  BeingReplaced(f)'
  BY DEF Untold, BeingReplaced
<1>1. Op(d)' \in Writers /\ Target(d)' = f /\ tool'[d].pc = "invalidate"
  BY DEF Op, Target
<1> QED
  BY <1>1 DEF BeingReplaced, Writers

\* What holds of a listing holds of it as a call's.
LEMMA OfACall ==
  ASSUME NEW c \in Calls, NEW list, tool'[c].snap = list
  PROVE  /\ ListingOK(list)' => ListingOK(tool[c].snap)'
         /\ TrueStamps(list)' => TrueStamps(tool[c].snap)'
         /\ Covers(list)' => Covers(tool[c].snap)'
<1>1. ListingOK(list)' => ListingOK(tool[c].snap)'
  BY DEF ListingOK
<1>2. TrueStamps(list)' => TrueStamps(tool[c].snap)'
  BY DEF TrueStamps
<1>3. Covers(list)' => Covers(tool[c].snap)'
  BY DEF Covers
<1> QED
  BY <1>1, <1>2, <1>3
LEMMA OfTheContext ==
  ASSUME NEW list, context'.snap = list
  PROVE  /\ ListingOK(list)' => ListingOK(context.snap)'
         /\ TrueStamps(list)' => TrueStamps(context.snap)'
         /\ Covers(list)' => Covers(context.snap)'
<1>1. ListingOK(list)' => ListingOK(context.snap)'
  BY DEF ListingOK
<1>2. TrueStamps(list)' => TrueStamps(context.snap)'
  BY DEF TrueStamps
<1>3. Covers(list)' => Covers(context.snap)'
  BY DEF Covers
<1> QED
  BY <1>1, <1>2, <1>3

\* A step of a call that works on with the listing it has.
LEMMA SameListing ==
  ASSUME FilesInv, FilesTypeOK', Onward, Untold, NEW c \in Calls,
         context'.gen = context.gen, context'.snap = context.snap,
         tool'[c].snap = tool[c].snap, tool'[c].gen = tool[c].gen, tool'[c].whole = tool[c].whole,
         tool'[c].moved = tool[c].moved,
         tool'[c].pc \in Lexical => tool[c].pc \in Lexical,
         tool'[c].pc # "adopt",
         tool'[c].pc = "refresh" => tool[c].pc = "idle",
         tool'[c].pc # "idle",
         Op(c) = "search" => tool'[c].pc = "refresh" \/ tool[c].pc \notin {"idle", "refresh"}
  PROVE  ListedOK(c)'
<1>1. PICK list \in Listings : list = tool[c].snap
  BY DEF FilesInv, FilesTypeOK, CallStates
<1>2. ListedOK(c) /\ FilesTypeOK /\ Op(c)' = Op(c)
  BY DEF FilesInv, CallOK, Onward, Op
<1>3. /\ ListingOK(list)'
      /\ Covers(list) => Covers(list)'
      /\ TrueStamps(list) => TrueStamps(list)'
  <2>1. ListingOK(list)
    BY <1>1, <1>2 DEF ListedOK
  <2> QED
    BY <1>2, <2>1, ListingsOnward
<1>4. tool'[c].snap = list
  BY <1>1
<1>5. ListingOK(tool[c].snap)'
  BY <1>3, <1>4, OfACall
<1>10. tool'[c].gen <= context'.gen
  BY <1>2 DEF ListedOK
<1>6. tool'[c].pc \in {"idle", "refresh", "adopt"} => tool'[c].gen = 0
  BY <1>2 DEF ListedOK
<1>7. (tool'[c].gen > 0 /\ tool'[c].gen = context'.gen) =>
          Manifest(tool'[c].snap) = Manifest(context'.snap) /\ TrueStamps(tool[c].snap)'
  <2>1. (tool'[c].gen > 0 /\ tool'[c].gen = context'.gen) =>
           Manifest(tool'[c].snap) = Manifest(context'.snap) /\ TrueStamps(list)'
    BY <1>1, <1>2, <1>3 DEF ListedOK
  <2>2. TrueStamps(list)' => TrueStamps(tool[c].snap)'
    BY <1>4, OfACall
  <2> QED
    BY <2>1, <2>2
<1>8. (Op(c)' = "search" /\ tool'[c].pc \notin {"idle", "refresh"} /\ tool'[c].whole) => Covers(tool[c].snap)'
  <2>1. (Op(c)' = "search" /\ tool'[c].pc \notin {"idle", "refresh"} /\ tool'[c].whole) => Covers(list)'
    BY <1>1, <1>2, <1>3 DEF ListedOK
  <2> QED
    BY <1>4, <2>1 DEF Covers
<1>9. (tool'[c].pc \in Lexical /\ ~tool'[c].moved) => tool'[c].gen = context'.gen /\ tool'[c].gen > 0
  BY <1>2 DEF ListedOK
<1> QED
  BY <1>5, <1>6, <1>7, <1>8, <1>9, <1>10 DEF ListedOK

\* Two listings of one generation agree about what stands.
LEMMA SamePlaces ==
  ASSUME NEW l \in Listings, NEW k \in Listings, Manifest(l) = Manifest(k)
  PROVE  Listed(l) = Listed(k) /\ \A f : Position(f, l) = Position(f, k)
<1>1. ASSUME NEW a \in Listings, NEW b \in Listings, Manifest(a) = Manifest(b)
      PROVE  Listed(a) \subseteq Listed(b)
  <2> SUFFICES ASSUME NEW e \in a PROVE \E g \in b : g.file = e.file
    BY DEF Listed
  <2>1. <<e.file, e.stamp>> \in Manifest(b)
    BY <1>1 DEF Manifest
  <2>2. PICK g \in b : <<g.file, g.stamp>> = <<e.file, e.stamp>>
    BY <2>1 DEF Manifest
  <2>3. g.file = e.file
    BY <2>2
  <2> QED
    BY <2>3
<1>2. Listed(l) \subseteq Listed(k) /\ Listed(k) \subseteq Listed(l)
  BY <1>1
<1>3. Listed(l) = Listed(k)
  BY <1>2
<1>4. ASSUME NEW f PROVE Position(f, l) = Position(f, k)
  BY <1>3 DEF Position
<1> QED
  BY <1>3, <1>4
LEMMA SameStanding ==
  ASSUME NEW l \in Listings, NEW k \in Listings, Manifest(l) = Manifest(k), ListingOK(l),
         TrueStamps(k), \A f \in Files : ~BeingReplaced(f), NEW e \in l, Standing(e)
  PROVE  \E g \in k : g.file = e.file /\ Standing(g)
<1>1. <<e.file, e.stamp>> \in Manifest(k)
  BY DEF Manifest
<1>2. PICK g \in k : <<g.file, g.stamp>> = <<e.file, e.stamp>>
  BY <1>1 DEF Manifest
<1>3. g.file = e.file /\ g.stamp = e.stamp /\ g.file \in Files
  BY <1>2 DEF Listings
<1>4. g.stamp = workspace[g.file].stamp
  BY <1>3 DEF Standing, ListingOK
<1>5. g.ver = workspace[g.file].ver
  BY <1>3, <1>4 DEF Standing, TrueStamps
<1> QED
  BY <1>3, <1>5 DEF Standing

\* A call of a step that a search takes is a search, and so on.
LEMMA StepsTell ==
  ASSUME NEW c \in Calls, LoadingOK(c)
  PROVE  /\ tool[c].pc \in {"refresh", "adopt", "lexical", "grams", "pick", "texts"} => Op(c) = "search"
         /\ tool[c].pc = "slice" => Op(c) = "read"
         /\ tool[c].pc \in {"run", "after"} => Op(c) = "shell"
         /\ tool[c].pc \in {"stat", "read", "replace", "invalidate"} => Op(c) \notin {"read", "search", "shell"}
  BY DEF LoadingOK, StepsOf

\* A call is given a text that the file has, unless a change overtook it.
LEMMA GivenCall ==
  ASSUME FilesInv, FilesTypeOK', Onward, Untold, NEW c \in Calls, NEW f \in Files,
         NEW text \in Texts, NEW ver \in Nat,
         workspace' = workspace, overtaken' = overtaken, context' = context,
         tool'[c] = Given(tool[c], f, text, ver), tool[c].pc \in Loading, f \in tool[c].todo,
         (f \notin overtaken) => text = workspace[f].text /\ ver = workspace[f].ver
  PROVE  CallOK(c)'
<1> DEFINE r == tool[c]
           s == tool'[c]
<1>1. /\ s \in CallStates /\ s.waits = NoLoad /\ s.todo = r.todo \ {f}
      /\ s.cancelled = r.cancelled /\ s.from = r.from /\ s.snap = r.snap /\ s.gen = r.gen
      /\ s.moved = r.moved /\ s.whole = r.whole /\ s.replaced = r.replaced /\ s.lost = r.lost
      /\ r.pc = "slice" => s.pc = "done" /\ s.ok = TRUE /\ s.ver = ver
      /\ r.pc # "slice" => s.pc = r.pc /\ s.ok = r.ok /\ s.ver = r.ver
      /\ r.ids \subseteq s.ids /\ r.found \subseteq s.found
      /\ (r.pc = "grams" /\ HasWord(text)) => f \in s.ids
      /\ (r.pc = "texts" /\ HasWord(text)) => f \in s.found
  <2>1. r \in CallStates
    BY DEF FilesInv, FilesTypeOK
  <2> HIDE DEF r
  <2>2. s = Given(r, f, text, ver)
    BY DEF r
  <2>3. LET g == Given(r, f, text, ver) IN
        /\ g \in CallStates /\ g.waits = NoLoad /\ g.todo = r.todo \ {f}
        /\ g.cancelled = r.cancelled /\ g.from = r.from /\ g.snap = r.snap /\ g.gen = r.gen
        /\ g.moved = r.moved /\ g.whole = r.whole /\ g.replaced = r.replaced /\ g.lost = r.lost
        /\ r.pc = "slice" => g.pc = "done" /\ g.ok = TRUE /\ g.ver = ver
        /\ r.pc # "slice" => g.pc = r.pc /\ g.ok = r.ok /\ g.ver = r.ver
        /\ r.ids \subseteq g.ids /\ r.found \subseteq g.found
        /\ (r.pc = "grams" /\ HasWord(text)) => f \in g.ids
        /\ (r.pc = "texts" /\ HasWord(text)) => f \in g.found
    BY <2>1, GivenIs, Zenon
  <2> HIDE DEF s
  <2> QED
    BY <2>2, <2>3, Zenon
<1>2. CallOK(c) /\ Op(c)' = Op(c) /\ Target(c)' = Target(c)
  BY DEF FilesInv, Onward, Op, Target
<1>3. /\ r.pc = "slice" => Op(c) = "read"
      /\ r.pc \in {"grams", "texts"} => Op(c) = "search"
      /\ r.pc \in {"slice", "grams", "texts"}
  BY <1>2, StepsTell DEF CallOK, Loading
<1> HIDE DEF r, s
<1>4. LoadingOK(c)'
  <2>1. LoadingOK(c)
    BY <1>2 DEF CallOK
  <2>2. s.pc = r.pc \/ s.pc = "done"
    BY <1>1
  <2>3. s.pc \in StepsOf(Op(c)) \cup {"idle", "done"}
    BY <2>1, <2>2 DEF LoadingOK, r
  <2>4. s.pc = "slice" => FALSE
    BY <1>1
  <2>5. s.pc \in {"grams", "texts"} => s.todo \subseteq Listed(s.snap)
    BY <1>1, <2>1, <2>2 DEF LoadingOK, r
  <2> QED
    BY <1>1, <1>2, <2>3, <2>4, <2>5 DEF LoadingOK, s
<1>5. ReadOK(c)'
  <2> SUFFICES ASSUME Op(c) = "read"
               PROVE  /\ s.pc = "slice" => s.from <= workspace[Target(c)].ver
                      /\ (s.pc = "done" /\ s.ok /\ Target(c) \notin overtaken) => s.ver >= s.from
    BY <1>2 DEF ReadOK, s
  <2>1. r.pc = "slice" /\ f = Target(c)
    BY <1>2, <1>3 DEF CallOK, LoadingOK, r
  <2>2. r.from <= workspace[Target(c)].ver
    BY <1>2, <2>1 DEF CallOK, ReadOK, r
  <2>3. workspace[Target(c)].ver \in Nat /\ r.from \in Nat
    BY <2>1 DEF FilesInv, FilesTypeOK, FileStates, CallStates, r
  <2> QED
    BY <1>1, <2>1, <2>2, <2>3
<1>6. EditOK(c)'
  BY <1>2, <1>3 DEF EditOK, Writers
<1>7. ListedOK(c)'
  <2>1. s.snap = r.snap /\ s.gen = r.gen /\ s.whole = r.whole /\ s.moved = r.moved
    BY <1>1
  <2>2. s.pc \in {r.pc, "done"} /\ r.pc \in Loading
    BY <1>1, <1>3 DEF Loading
  <2> QED
    BY <1>3, <2>1, <2>2, SameListing DEF r, s, Lexical, Loading
<1>8. FoundOK(c)'
  <2>1. FoundOK(c)
    BY <1>2 DEF CallOK
  <2>2. ASSUME ~s.cancelled, NEW e \in s.snap, Standing(e)
        PROVE  /\ s.pc = "grams" => e.file \in s.todo \cup s.ids
               /\ (s.pc = "texts" /\ ~s.moved) => e.file \in s.todo \cup s.found
               /\ (Op(c) = "search" /\ s.pc = "done" /\ s.ok /\ ~s.moved) => e.file \in s.found
    <3>1. /\ r.pc = "grams" => e.file \in r.todo \cup r.ids
          /\ (r.pc = "texts" /\ ~r.moved) => e.file \in r.todo \cup r.found
      BY <1>1, <2>1, <2>2 DEF FoundOK, r
    <3>2. e.file = f => HasWord(text)
      BY <2>2 DEF Standing
    <3> QED
      BY <1>1, <1>3, <3>1, <3>2
  <2>3. s.pc # "pick"
    BY <1>1, <1>3
  <2>4. \A e : Standing(e)' <=> Standing(e)
    BY DEF Standing
  <2> QED
    BY <1>2, <2>2, <2>3, <2>4 DEF FoundOK, s
<1> QED
  BY <1>2, <1>4, <1>5, <1>6, <1>7, <1>8 DEF CallOK

\* A call goes without a text when it is cancelled, or the text is gone.
LEMMA SkipCall ==
  ASSUME FilesInv, FilesTypeOK', Onward, Untold, NEW c \in Calls, NEW f \in Files,
         workspace' = workspace, overtaken' = overtaken, context' = context,
         tool'[c] = Skips(tool[c], f), tool[c].pc \in Loading, f \in tool[c].todo,
         tool[c].cancelled \/ ~workspace[f].there
  PROVE  CallOK(c)'
<1> DEFINE r == tool[c]
           s == tool'[c]
<1>1. /\ s \in CallStates /\ s.waits = NoLoad /\ s.todo \subseteq r.todo
      /\ s.cancelled = r.cancelled /\ s.from = r.from /\ s.snap = r.snap /\ s.gen = r.gen
      /\ s.moved = r.moved /\ s.whole = r.whole /\ s.replaced = r.replaced /\ s.lost = r.lost
      /\ r.pc = "slice" => s.pc = "done" /\ s.ok = FALSE
      /\ r.pc # "slice" => s.pc = r.pc /\ s.ok = r.ok
  <2>1. r \in CallStates
    BY DEF FilesInv, FilesTypeOK
  <2> HIDE DEF r
  <2>2. s = Skips(r, f)
    BY DEF r
  <2> HIDE DEF s
  <2> QED
    BY <2>1, <2>2, SkipsIs
<1>2. CallOK(c) /\ Op(c)' = Op(c) /\ Target(c)' = Target(c)
  BY DEF FilesInv, Onward, Op, Target
<1>3. /\ r.pc = "slice" => Op(c) = "read"
      /\ r.pc \in {"grams", "texts"} => Op(c) = "search"
      /\ r.pc \in {"slice", "grams", "texts"}
  BY <1>2, StepsTell DEF CallOK, Loading
<1> HIDE DEF r, s
<1>4. LoadingOK(c)'
  <2>1. LoadingOK(c)
    BY <1>2 DEF CallOK
  <2>2. s.pc = r.pc \/ s.pc = "done"
    BY <1>1
  <2>3. s.pc \in StepsOf(Op(c)) \cup {"idle", "done"}
    BY <2>1, <2>2 DEF LoadingOK, r
  <2>4. s.pc = "slice" => FALSE
    BY <1>1
  <2>5. s.pc \in {"grams", "texts"} => s.todo \subseteq Listed(s.snap)
    BY <1>1, <2>1, <2>2 DEF LoadingOK, r
  <2> QED
    BY <1>1, <1>2, <2>3, <2>4, <2>5 DEF LoadingOK, s
<1>5. ReadOK(c)'
  <2> SUFFICES ASSUME Op(c) = "read" PROVE s.pc = "done" /\ ~s.ok
    BY <1>2 DEF ReadOK, s
  <2> QED
    BY <1>1, <1>3
<1>6. EditOK(c)'
  BY <1>2, <1>3 DEF EditOK, Writers
<1>7. ListedOK(c)'
  <2>1. s.snap = r.snap /\ s.gen = r.gen /\ s.whole = r.whole /\ s.moved = r.moved
    BY <1>1
  <2>2. s.pc \in {r.pc, "done"} /\ r.pc \in Loading
    BY <1>1, <1>3 DEF Loading
  <2> QED
    BY <1>3, <2>1, <2>2, SameListing DEF r, s, Lexical, Loading
<1>8. FoundOK(c)'
  <2>1. s.pc # "pick" /\ (Op(c) = "search" => s.pc \in {"grams", "texts"} /\ r.pc # "slice")
    BY <1>1, <1>3
  <2>2. Op(c) = "search" => s.cancelled
    <3> SUFFICES ASSUME Op(c) = "search" PROVE s.cancelled
      OBVIOUS
    <3>1. f \in Listed(r.snap) /\ ListingOK(r.snap)
      BY <1>2, <1>3, <2>1 DEF CallOK, LoadingOK, ListedOK, r
    <3>2. workspace[f].there
      BY <3>1 DEF Listed, ListingOK
    <3> QED
      BY <1>1, <3>2 DEF r
  <2>3. Op(c) # "search" => s.pc = "done"
    BY <1>1, <1>3
  <2> QED
    BY <1>2, <2>1, <2>2, <2>3 DEF FoundOK, s
<1> QED
  BY <1>2, <1>4, <1>5, <1>6, <1>7, <1>8 DEF CallOK

\* A change of a file.
LEMMA ChangeIsOnward ==
  ASSUME FilesTypeOK, NEW f \in Files, NEW text \in Texts, NEW stamp \in Stamps(f),
         plan' = plan, workspace' = Changed(f, text, stamp),
         \A g \in Overtaking(f) : g \in overtaken',
         stamp = workspace[f].stamp => f \in overtaken' \/ BeingReplaced(f)'
  PROVE  /\ Onward
         /\ workspace'[f].text = text
         /\ \A g \in Files : g # f => workspace'[g] = workspace[g]
<1>1. workspace'[f] = [there |-> TRUE, text |-> text, stamp |-> stamp, ver |-> workspace[f].ver + 1]
  BY DEF Changed, FilesTypeOK
<1>2. \A g \in Files : g # f => workspace'[g] = workspace[g]
  BY DEF Changed, FilesTypeOK
<1>3. stamp \in {workspace[f].stamp, workspace[f].stamp + 1}
  BY DEF Stamps
<1>4. \A g \in overtaken : g \in overtaken'
  BY DEF Overtaking
<1>5. loads[f].on => f \in overtaken'
  BY DEF Overtaking
<1> QED
  BY <1>1, <1>2, <1>3, <1>4, <1>5 DEF Onward

\* One action after the other: those that only their own call sees.
LEMMA KeepCancel ==
  ASSUME FilesInv, FilesTypeOK', NEW c \in Calls, CancelTool(c)
  PROVE  FilesInv'
<1>0. tool \in [Calls -> CallStates] /\ tool[c] \in CallStates
  BY DEF FilesInv, FilesTypeOK
<1>1. /\ tool'[c] = [tool[c] EXCEPT !.cancelled = TRUE]
      /\ \A d \in Calls \ {c} : tool'[d] = tool[d]
  BY <1>0 DEF CancelTool
<1>2. tool'[c].pc = tool[c].pc /\ tool'[c].gen = tool[c].gen
  BY <1>0, <1>1 DEF CallStates
<1>3. ClaimsHold'
  <2>1. \A d \in Calls : Active(d)' => Active(d)
    BY <1>1, <1>2 DEF Active
  <2> QED
    BY <2>1, ClaimsStay DEF CancelTool
<1>4. CallOK(c)'
  <2>1. Onward /\ Stays(c)
    BY <1>1 DEF Onward, Stays, CancelTool
  <2>2. Untold
    BY <1>1, <1>2, ReplacersKnown DEF CancelTool
  <2>3. Beside(c)
    BY <2>2 DEF Beside, CancelTool, FilesInv, FilesTypeOK, ContextStates
  <2> QED
    BY <2>1, <2>3, Bystander
<1> QED
  BY <1>1, <1>2, <1>3, <1>4, OwnStep DEF CancelTool

\* A call that wants a text is given one, or goes without.
LEMMA ServedStep ==
  ASSUME FilesInv, FilesTypeOK', NEW c \in Calls, NEW f \in Files,
         UNCHANGED <<plan, workspace, cached, loads, context, overtaken>>,
         \A d \in Calls \ {c} : tool'[d] = tool[d],
         tool[c].pc \in Loading, f \in tool[c].todo,
         \/ /\ tool'[c] = Skips(tool[c], f)
            /\ tool[c].cancelled \/ ~workspace[f].there
         \/ \E text \in Texts, ver \in Nat :
              /\ tool'[c] = Given(tool[c], f, text, ver)
              /\ (f \notin overtaken) => text = workspace[f].text /\ ver = workspace[f].ver
  PROVE  FilesInv'
<1>0. tool[c] \in CallStates
  BY DEF FilesInv, FilesTypeOK
<1>1. tool'[c].gen = tool[c].gen
  <2>1. Skips(tool[c], f).gen = tool[c].gen
    BY <1>0 DEF Skips, CallStates
  <2>2. \A text \in Texts, ver \in Nat : Given(tool[c], f, text, ver).gen = tool[c].gen
    BY <1>0, GivenKeepsGen
  <2> QED
    BY <2>1, <2>2
<1>2. Onward
  BY DEF Onward
<1>3. Untold
  BY ReplacersKnown DEF Loading
<1>4. ClaimsHold'
  <2>1. \A d \in Calls : Active(d)' => Active(d)
    BY DEF Active, Loading
  <2> QED
    BY <2>1, ClaimsStay
<1>5. CallOK(c)'
  <2>1. CASE tool'[c] = Skips(tool[c], f) /\ (tool[c].cancelled \/ ~workspace[f].there)
    BY <1>2, <1>3, <2>1, SkipCall
  <2>2. ASSUME NEW text \in Texts, NEW ver \in Nat, tool'[c] = Given(tool[c], f, text, ver),
               (f \notin overtaken) => text = workspace[f].text /\ ver = workspace[f].ver
        PROVE  CallOK(c)'
    BY <1>2, <1>3, <2>2, GivenCall
  <2> QED
    BY <2>1, <2>2
<1>6. tool[c].pc # "invalidate"
  BY DEF Loading
<1> QED
  BY <1>1, <1>4, <1>5, <1>6, OwnStep

LEMMA KeepHit ==
  ASSUME FilesInv, FilesTypeOK', NEW c \in Calls, NEW f \in Files, LoadHit(c, f)
  PROVE  FilesInv'
<1>1. /\ tool'[c] = Given(tool[c], f, cached[f].text, cached[f].ver)
      /\ \A d \in Calls \ {c} : tool'[d] = tool[d]
  BY DEF LoadHit, FilesInv, FilesTypeOK
<1>2. cached[f].text \in Texts /\ cached[f].ver \in Nat
  BY DEF FilesInv, FilesTypeOK, EntryStates
<1>3. tool[c].pc \in Loading /\ f \in tool[c].todo
  BY DEF LoadHit, Wants
<1>4. LoadingOK(c)
  BY DEF FilesInv, CallOK
<1>5. ~BeingReplaced(f)
  <2>1. Active(c)
    BY <1>3 DEF Active, Loading
  <2>2. Op(c) = "search" \/ (Op(c) = "read" /\ f = Target(c))
    BY <1>3, <1>4, StepsTell DEF LoadingOK, Loading
  <2> QED
    BY <2>1, <2>2, ReadersAreApart
<1>6. (f \notin overtaken) => cached[f].text = workspace[f].text /\ cached[f].ver = workspace[f].ver
  BY <1>5 DEF LoadHit, Cached, FilesInv, TextsOK
<1>7. \E text \in Texts, ver \in Nat :
        /\ tool'[c] = Given(tool[c], f, text, ver)
        /\ (f \notin overtaken) => text = workspace[f].text /\ ver = workspace[f].ver
  BY <1>1, <1>2, <1>6
<1> QED
  BY <1>1, <1>3, <1>7, ServedStep DEF LoadHit

LEMMA KeepSkipped ==
  ASSUME FilesInv, FilesTypeOK', NEW c \in Calls, NEW f \in Files, LoadSkipped(c, f)
  PROVE  FilesInv'
<1>1. /\ tool'[c] = Skips(tool[c], f)
      /\ \A d \in Calls \ {c} : tool'[d] = tool[d]
  BY DEF LoadSkipped, FilesInv, FilesTypeOK
<1> QED
  BY <1>1, ServedStep DEF LoadSkipped, Wants

LEMMA KeepLeave ==
  ASSUME FilesInv, FilesTypeOK', NEW c \in Calls, LeavesLoad(c)
  PROVE  FilesInv'
<1>1. /\ tool'[c] = Skips(tool[c], tool[c].waits)
      /\ \A d \in Calls \ {c} : tool'[d] = tool[d]
  BY DEF LeavesLoad, FilesInv, FilesTypeOK
<1>2. LoadingOK(c) /\ tool[c] \in CallStates
  BY DEF FilesInv, CallOK, FilesTypeOK
<1>3. PICK f \in Files : f = tool[c].waits
  BY <1>2 DEF LeavesLoad, CallStates
<1>4. tool[c].pc \in Loading /\ f \in tool[c].todo
  BY <1>2, <1>3 DEF LeavesLoad, LoadingOK
<1> QED
  BY <1>1, <1>3, <1>4, ServedStep DEF LeavesLoad

\* A load begins, or is joined.
LEMMA KeepMiss ==
  ASSUME FilesInv, FilesTypeOK', NEW c \in Calls, NEW f \in Files, LoadMiss(c, f)
  PROVE  FilesInv'
<1>0. tool \in [Calls -> CallStates] /\ tool[c] \in CallStates /\ CallOK(c)
  BY DEF FilesInv, FilesTypeOK
<1>1. /\ tool'[c] = [tool[c] EXCEPT !.waits = f]
      /\ \A d \in Calls \ {c} : tool'[d] = tool[d]
  BY <1>0 DEF LoadMiss
<1>2. /\ tool'[c].waits = f /\ tool'[c].pc = tool[c].pc /\ tool'[c].gen = tool[c].gen
      /\ tool'[c].todo = tool[c].todo /\ tool'[c].snap = tool[c].snap
      /\ tool'[c].cancelled = tool[c].cancelled /\ tool'[c].from = tool[c].from
      /\ tool'[c].moved = tool[c].moved /\ tool'[c].whole = tool[c].whole /\ tool'[c].ids = tool[c].ids
      /\ tool'[c].found = tool[c].found /\ tool'[c].ok = tool[c].ok
  BY <1>0, <1>1 DEF CallStates
<1>3. ClaimsHold'
  <2>1. \A d \in Calls : Active(d)' => Active(d)
    BY <1>1, <1>2 DEF Active
  <2> QED
    BY <2>1, ClaimsStay DEF LoadMiss
<1>4. Onward /\ Untold
  <2>1. Untold
    BY <1>1, <1>2, ReplacersKnown DEF LoadMiss
  <2> QED
    BY <2>1 DEF Onward, LoadMiss
<1>5. Op(c)' = Op(c) /\ Target(c)' = Target(c) /\ \A e : Standing(e)' <=> Standing(e)
  BY DEF LoadMiss, Op, Target, Standing
<1>6. LoadingOK(c)'
  <2>1. tool[c].pc \in Loading /\ f \in tool[c].todo /\ LoadingOK(c)
    BY <1>0 DEF CallOK, LoadMiss, Wants
  <2> QED
    BY <1>2, <1>5, <2>1 DEF LoadingOK
<1>7. ReadOK(c)'
  BY <1>0, <1>2, <1>5 DEF CallOK, ReadOK, LoadMiss, Wants, Loading
<1>8. EditOK(c)'
  <2>1. Op(c) \notin Writers
    BY <1>0, StepsTell DEF CallOK, LoadMiss, Wants, Loading, Writers
  <2> QED
    BY <1>5, <2>1 DEF EditOK, Writers
<1>9. ListedOK(c)'
  <2>1. tool[c].pc \in Loading /\ (Op(c) = "search" => tool[c].pc # "idle" /\ tool[c].pc # "refresh")
    BY DEF LoadMiss, Wants, Loading
  <2> QED
    BY <1>2, <1>4, <2>1, SameListing DEF LoadMiss, Loading
<1>10. FoundOK(c)'
  BY <1>0, <1>2, <1>5 DEF CallOK, FoundOK, LoadMiss
<1>11. CallOK(c)'
  BY <1>6, <1>7, <1>8, <1>9, <1>10 DEF CallOK
<1>12. \A g \in Files : loads'[g] = loads[g] \/
            (loads'[g].text = workspace[g].text /\ loads'[g].ver = workspace[g].ver)
  BY DEF LoadMiss, FilesInv, FilesTypeOK
<1> QED
  BY <1>1, <1>2, <1>3, <1>11, <1>12, OwnStep DEF LoadMiss

\* A step of a search that works with a listing.
LEMMA SearchStep ==
  ASSUME FilesInv, FilesTypeOK', NEW c \in Calls,
         UNCHANGED <<plan, workspace, cached, loads, context, overtaken>>,
         \A d \in Calls \ {c} : tool'[d] = tool[d],
         tool[c].pc \in Lexical, tool'[c].pc \in Lexical \cup {"done"},
         tool[c].pc \notin Loading \/ tool[c].todo = {},
         tool'[c].snap = tool[c].snap, tool'[c].gen = tool[c].gen, tool'[c].whole = tool[c].whole,
         tool'[c].moved = tool[c].moved, tool'[c].waits = tool[c].waits,
         tool'[c].pc \in {"grams", "texts"} => tool'[c].todo \subseteq Listed(tool[c].snap),
         FoundOK(c)'
  PROVE  FilesInv'
<1>1. CallOK(c) /\ Op(c)' = Op(c)
  BY DEF FilesInv, Op
<1>2. Op(c) = "search" /\ Op(c) \notin Writers
  BY <1>1, StepsTell DEF CallOK, Lexical, Writers
<1>3. ClaimsHold'
  <2>1. \A d \in Calls : Active(d)' => Active(d)
    BY DEF Active, Lexical
  <2> QED
    BY <2>1, ClaimsStay
<1>4. Onward /\ Untold
  <2>1. Untold
    BY ReplacersKnown DEF Lexical
  <2> QED
    BY <2>1 DEF Onward
<1>5. LoadingOK(c)'
  <2>1. tool[c].waits = NoLoad
    BY <1>1 DEF CallOK, LoadingOK
  <2>2. tool'[c].pc \in StepsOf(Op(c)) \cup {"idle", "done"}
    BY <1>2 DEF StepsOf, Lexical
  <2>3. tool'[c].pc # "slice"
    BY DEF Lexical
  <2> QED
    BY <1>1, <2>1, <2>2, <2>3 DEF LoadingOK
<1>6. ListedOK(c)'
  <2>1. tool[c].pc \notin {"idle", "refresh", "adopt", "invalidate"} /\ tool'[c].pc \notin {"idle", "refresh", "adopt"}
    BY DEF Lexical
  <2> QED
    BY <1>4, <2>1, SameListing
<1>7. ReadOK(c)' /\ EditOK(c)'
  BY <1>1, <1>2 DEF ReadOK, EditOK, Writers
<1>8. CallOK(c)'
  BY <1>5, <1>6, <1>7 DEF CallOK
<1>9. tool[c].pc # "invalidate"
  BY DEF Lexical
<1> QED
  BY <1>3, <1>8, <1>9, OwnStep

LEMMA KeepReady ==
  ASSUME FilesInv, FilesTypeOK', NEW c \in Calls, LexicalReady(c)
  PROVE  FilesInv'
<1>0. tool \in [Calls -> CallStates] /\ tool[c] \in CallStates /\ CallOK(c)
  BY DEF FilesInv, FilesTypeOK
<1>1. /\ tool'[c] = [tool[c] EXCEPT !.pc = "pick"]
      /\ \A d \in Calls \ {c} : tool'[d] = tool[d]
  BY <1>0 DEF LexicalReady, Goto
<1>2. /\ tool'[c].pc = "pick" /\ tool'[c].snap = tool[c].snap /\ tool'[c].gen = tool[c].gen
      /\ tool'[c].whole = tool[c].whole /\ tool'[c].moved = tool[c].moved /\ tool'[c].waits = tool[c].waits
  BY <1>0, <1>1 DEF CallStates
<1>3. FoundOK(c)'
  <2>1. ~tool'[c].moved => context'.lexGen = context'.gen
    BY <1>0, <1>2 DEF CallOK, ListedOK, LexicalReady, Lexical
  <2> QED
    BY <1>2, <2>1 DEF FoundOK
<1>4. tool[c].pc \in Lexical /\ tool[c].pc \notin Loading /\ tool'[c].pc \in Lexical \cup {"done"}
  BY <1>2 DEF LexicalReady, Lexical, Loading
<1> QED
  BY <1>1, <1>2, <1>3, <1>4, SearchStep DEF LexicalReady

LEMMA KeepBuilds ==
  ASSUME FilesInv, FilesTypeOK', NEW c \in Calls, LexicalBuilds(c)
  PROVE  FilesInv'
<1>0. tool \in [Calls -> CallStates] /\ tool[c] \in CallStates /\ CallOK(c)
  BY DEF FilesInv, FilesTypeOK
<1>1. /\ tool'[c] = [tool[c] EXCEPT !.pc = "grams", !.todo = Listed(tool[c].snap), !.ids = {}]
      /\ \A d \in Calls \ {c} : tool'[d] = tool[d]
  BY <1>0 DEF LexicalBuilds
<1>2. /\ tool'[c].pc = "grams" /\ tool'[c].snap = tool[c].snap /\ tool'[c].gen = tool[c].gen
      /\ tool'[c].whole = tool[c].whole /\ tool'[c].moved = tool[c].moved /\ tool'[c].waits = tool[c].waits
      /\ tool'[c].todo = Listed(tool[c].snap)
  BY <1>0, <1>1 DEF CallStates
<1>3. FoundOK(c)'
  BY <1>2 DEF FoundOK, Listed
<1>4. tool[c].pc \in Lexical /\ tool[c].pc \notin Loading /\ tool'[c].pc \in Lexical \cup {"done"}
  BY <1>2 DEF LexicalBuilds, Lexical, Loading
<1> QED
  BY <1>1, <1>2, <1>3, <1>4, SearchStep DEF LexicalBuilds

LEMMA KeepPicks ==
  ASSUME FilesInv, FilesTypeOK', NEW c \in Calls, SearchPicks(c)
  PROVE  FilesInv'
<1> DEFINE picked == {f \in Listed(tool[c].snap) : Position(f, tool[c].snap) \in context.posts}
<1>0. tool \in [Calls -> CallStates] /\ tool[c] \in CallStates /\ CallOK(c) /\ ContextOK
  BY DEF FilesInv, FilesTypeOK
<1>1. /\ tool'[c] = [tool[c] EXCEPT !.pc = "texts", !.todo = picked]
      /\ \A d \in Calls \ {c} : tool'[d] = tool[d]
  BY <1>0 DEF SearchPicks
<1>2. /\ tool'[c].pc = "texts" /\ tool'[c].snap = tool[c].snap /\ tool'[c].gen = tool[c].gen
      /\ tool'[c].whole = tool[c].whole /\ tool'[c].moved = tool[c].moved /\ tool'[c].waits = tool[c].waits
      /\ tool'[c].todo = picked
  BY <1>0, <1>1 DEF CallStates
<1>3. ASSUME ~tool[c].moved, NEW e \in tool[c].snap, Standing(e) PROVE e.file \in picked
  <2>1. /\ context.lexGen = context.gen /\ tool[c].gen = context.gen /\ context.gen > 0
        /\ Manifest(tool[c].snap) = Manifest(context.snap) /\ ListingOK(tool[c].snap)
    BY <1>0, <1>3 DEF CallOK, FoundOK, ListedOK, SearchPicks, Lexical
  <2>2. PostsAre(context.snap, context.posts) /\ TrueStamps(context.snap)
    BY <1>0, <2>1 DEF ContextOK
  <2>3. \A f \in Files : ~BeingReplaced(f)
    <3>1. Op(c) = "search" /\ Active(c)
      BY <1>0, StepsTell DEF CallOK, SearchPicks, Active
    <3> QED
      BY <3>1, ReadersAreApart
  <2>4. tool[c].snap \in Listings /\ context.snap \in Listings
    BY <1>0 DEF CallStates, FilesInv, FilesTypeOK, ContextStates
  <2>5. PICK g \in context.snap : g.file = e.file /\ Standing(g)
    BY <1>3, <2>1, <2>2, <2>3, <2>4, SameStanding
  <2>6. Position(e.file, context.snap) \in context.posts
    BY <2>2, <2>5 DEF PostsAre
  <2>7. Position(e.file, tool[c].snap) = Position(e.file, context.snap)
    BY <2>1, <2>4, SamePlaces
  <2> QED
    BY <2>6, <2>7 DEF Listed
<1>4. FoundOK(c)'
  <2>1. \A e : Standing(e)' <=> Standing(e)
    BY DEF SearchPicks, Standing
  <2> HIDE DEF picked
  <2> QED
    BY <1>2, <1>3, <2>1 DEF FoundOK
<1>5. tool[c].pc \in Lexical /\ tool[c].pc \notin Loading /\ tool'[c].pc \in Lexical \cup {"done"}
  BY <1>2 DEF SearchPicks, Lexical, Loading
<1>6. picked \subseteq Listed(tool[c].snap)
  OBVIOUS
<1> HIDE DEF picked
<1> QED
  BY <1>1, <1>2, <1>4, <1>5, <1>6, SearchStep DEF SearchPicks

LEMMA KeepEnds ==
  ASSUME FilesInv, FilesTypeOK', NEW c \in Calls, SearchEnds(c)
  PROVE  FilesInv'
<1>0. tool \in [Calls -> CallStates] /\ tool[c] \in CallStates /\ CallOK(c)
  BY DEF FilesInv, FilesTypeOK
<1>1. /\ tool'[c] = [tool[c] EXCEPT !.pc = "done", !.ok = TRUE]
      /\ \A d \in Calls \ {c} : tool'[d] = tool[d]
  BY <1>0 DEF SearchEnds
<1>2. /\ tool'[c].pc = "done" /\ tool'[c].snap = tool[c].snap /\ tool'[c].gen = tool[c].gen
      /\ tool'[c].whole = tool[c].whole /\ tool'[c].moved = tool[c].moved /\ tool'[c].waits = tool[c].waits
      /\ tool'[c].found = tool[c].found /\ tool'[c].cancelled = tool[c].cancelled
  BY <1>0, <1>1 DEF CallStates
<1>3. FoundOK(c)'
  <2>1. \A e : Standing(e)' <=> Standing(e)
    BY DEF SearchEnds, Standing
  <2> QED
    BY <1>0, <1>2, <2>1 DEF CallOK, FoundOK, SearchEnds
<1>4. tool[c].pc \in Lexical /\ tool[c].todo = {} /\ tool'[c].pc \in Lexical \cup {"done"}
  BY <1>2 DEF SearchEnds, Lexical
<1> QED
  BY <1>1, <1>2, <1>3, <1>4, SearchStep DEF SearchEnds

\* The postings are not built: the search was cancelled.
LEMMA KeepGivesUp ==
  ASSUME FilesInv, FilesTypeOK', NEW c \in Calls, tool[c].pc = "grams", tool[c].todo = {},
         Fails(c), UNCHANGED <<plan, workspace, cached, loads, context, overtaken>>
  PROVE  FilesInv'
<1>0. tool \in [Calls -> CallStates] /\ tool[c] \in CallStates
  BY DEF FilesInv, FilesTypeOK
<1>1. /\ tool'[c] = [tool[c] EXCEPT !.pc = "done", !.ok = FALSE]
      /\ \A d \in Calls \ {c} : tool'[d] = tool[d]
  BY <1>0 DEF Fails
<1>2. /\ tool'[c].pc = "done" /\ ~tool'[c].ok /\ tool'[c].snap = tool[c].snap /\ tool'[c].gen = tool[c].gen
      /\ tool'[c].whole = tool[c].whole /\ tool'[c].moved = tool[c].moved /\ tool'[c].waits = tool[c].waits
  BY <1>0, <1>1 DEF CallStates
<1>3. FoundOK(c)'
  BY <1>2 DEF FoundOK
<1>4. tool[c].pc \in Lexical /\ tool'[c].pc \in Lexical \cup {"done"}
  BY <1>2 DEF Lexical
<1> QED
  BY <1>1, <1>2, <1>3, <1>4, SearchStep

\* A step of a write or an edit that leaves the file alone.
LEMMA WriterStep ==
  ASSUME FilesInv, FilesTypeOK', NEW c \in Calls,
         UNCHANGED <<plan, workspace, cached, loads, context, overtaken>>,
         \A d \in Calls \ {c} : tool'[d] = tool[d],
         tool[c].pc \in {"stat", "read", "replace"}, tool'[c].pc \in {"read", "replace", "done"},
         tool'[c].pc = "done" => ~tool'[c].ok,
         tool'[c].pc = "replace" => tool'[c].ver = workspace[Target(c)].ver,
         tool'[c].snap = tool[c].snap, tool'[c].gen = tool[c].gen, tool'[c].whole = tool[c].whole,
         tool'[c].moved = tool[c].moved, tool'[c].waits = tool[c].waits,
         tool'[c].replaced = tool[c].replaced, tool'[c].lost = tool[c].lost
  PROVE  FilesInv'
<1>1. CallOK(c) /\ Op(c)' = Op(c) /\ Target(c)' = Target(c)
  BY DEF FilesInv, Op, Target
<1>2. Op(c) \notin {"read", "search", "shell"}
  BY <1>1, StepsTell DEF CallOK
<1>3. ClaimsHold'
  <2>1. \A d \in Calls : Active(d)' => Active(d)
    BY DEF Active
  <2> QED
    BY <2>1, ClaimsStay
<1>4. Onward /\ Untold
  <2>1. Untold
    BY ReplacersKnown
  <2> QED
    BY <2>1 DEF Onward
<1>5. LoadingOK(c)'
  <2>1. tool[c].waits = NoLoad
    BY <1>1 DEF CallOK, LoadingOK, Loading
  <2> QED
    BY <1>1, <1>2, <2>1 DEF LoadingOK, StepsOf
<1>6. ListedOK(c)'
  BY <1>2, <1>4, SameListing DEF Lexical
<1>7. ReadOK(c)'
  BY <1>1, <1>2 DEF ReadOK
<1>8. EditOK(c)'
  BY <1>1 DEF CallOK, EditOK
<1>9. FoundOK(c)'
  BY <1>1, <1>2 DEF FoundOK
<1>10. CallOK(c)'
  BY <1>5, <1>6, <1>7, <1>8, <1>9 DEF CallOK
<1> QED
  BY <1>3, <1>10, OwnStep

LEMMA KeepFails ==
  ASSUME FilesInv, FilesTypeOK', NEW c \in Calls, tool[c].pc \in {"stat", "read", "replace"},
         Fails(c), UNCHANGED <<plan, workspace, cached, loads, context, overtaken>>
  PROVE  FilesInv'
<1>0. tool \in [Calls -> CallStates] /\ tool[c] \in CallStates
  BY DEF FilesInv, FilesTypeOK
<1>1. /\ tool'[c] = [tool[c] EXCEPT !.pc = "done", !.ok = FALSE]
      /\ \A d \in Calls \ {c} : tool'[d] = tool[d]
  BY <1>0 DEF Fails
<1>2. /\ tool'[c].pc = "done" /\ ~tool'[c].ok /\ tool'[c].snap = tool[c].snap /\ tool'[c].gen = tool[c].gen
      /\ tool'[c].whole = tool[c].whole /\ tool'[c].moved = tool[c].moved /\ tool'[c].waits = tool[c].waits
      /\ tool'[c].replaced = tool[c].replaced /\ tool'[c].lost = tool[c].lost
  BY <1>0, <1>1 DEF CallStates
<1> QED
  BY <1>1, <1>2, WriterStep

LEMMA KeepStat ==
  ASSUME FilesInv, FilesTypeOK', NEW c \in Calls, StatTarget(c)
  PROVE  FilesInv'
<1>1. CASE Fails(c)
  BY <1>1, KeepFails DEF StatTarget
<1>2. CASE tool' = [tool EXCEPT ![c].pc = "read"]
  <2>0. tool \in [Calls -> CallStates] /\ tool[c] \in CallStates
    BY DEF FilesInv, FilesTypeOK
  <2>1. /\ tool'[c] = [tool[c] EXCEPT !.pc = "read"]
        /\ \A d \in Calls \ {c} : tool'[d] = tool[d]
    BY <1>2, <2>0
  <2>2. /\ tool'[c].pc = "read" /\ tool'[c].snap = tool[c].snap /\ tool'[c].gen = tool[c].gen
        /\ tool'[c].whole = tool[c].whole /\ tool'[c].moved = tool[c].moved /\ tool'[c].waits = tool[c].waits
        /\ tool'[c].replaced = tool[c].replaced /\ tool'[c].lost = tool[c].lost
    BY <2>0, <2>1 DEF CallStates
  <2> QED
    BY <2>1, <2>2, WriterStep DEF StatTarget
<1> QED
  BY <1>1, <1>2 DEF StatTarget

LEMMA KeepRead ==
  ASSUME FilesInv, FilesTypeOK', NEW c \in Calls, ReadTarget(c)
  PROVE  FilesInv'
<1>1. CASE Fails(c)
  BY <1>1, KeepFails DEF ReadTarget
<1>2. CASE tool' = [tool EXCEPT ![c].pc = "replace", ![c].text = workspace[Target(c)].text,
                                ![c].ver = workspace[Target(c)].ver]
  <2>0. tool \in [Calls -> CallStates] /\ tool[c] \in CallStates
    BY DEF FilesInv, FilesTypeOK
  <2>1. /\ tool'[c] = [tool[c] EXCEPT !.pc = "replace", !.text = workspace[Target(c)].text,
                                      !.ver = workspace[Target(c)].ver]
        /\ \A d \in Calls \ {c} : tool'[d] = tool[d]
    BY <1>2, <2>0
  <2>2. /\ tool'[c].pc = "replace" /\ tool'[c].snap = tool[c].snap /\ tool'[c].gen = tool[c].gen
        /\ tool'[c].whole = tool[c].whole /\ tool'[c].moved = tool[c].moved /\ tool'[c].waits = tool[c].waits
        /\ tool'[c].replaced = tool[c].replaced /\ tool'[c].lost = tool[c].lost
        /\ tool'[c].ver = workspace[Target(c)].ver
    BY <2>0, <2>1 DEF CallStates
  <2> QED
    BY <2>1, <2>2, WriterStep DEF ReadTarget
<1> QED
  BY <1>1, <1>2 DEF ReadTarget

\* A search takes the listing the context has, or makes one.
LEMMA KeepKept ==
  ASSUME FilesInv, FilesTypeOK', NEW c \in Calls, RefreshKept(c)
  PROVE  FilesInv'
<1>0. tool \in [Calls -> CallStates] /\ tool[c] \in CallStates /\ context \in ContextStates /\ CallOK(c) /\ ContextOK
  BY DEF FilesInv, FilesTypeOK
<1>1. /\ tool'[c] = WithSnapshot(tool[c], context)
      /\ \A d \in Calls \ {c} : tool'[d] = tool[d]
  BY <1>0 DEF RefreshKept
<1>2. /\ tool'[c].pc = "lexical" /\ tool'[c].snap = context.snap /\ tool'[c].gen = context.gen
      /\ tool'[c].whole = context.whole /\ tool'[c].waits = tool[c].waits /\ tool'[c].todo = tool[c].todo
  BY <1>0, <1>1 DEF WithSnapshot, CallStates
<1>3. Held /\ context.gen > 0 /\ TrueStamps(context.snap) /\ ListingOK(context.snap)
      /\ (context.whole => Covers(context.snap))
  BY <1>0 DEF ContextOK, RefreshKept
<1>4. ClaimsHold'
  <2>1. \A d \in Calls : Active(d)' => Active(d)
    BY <1>1 DEF Active, RefreshKept
  <2> QED
    BY <2>1, ClaimsStay DEF RefreshKept
<1>5. Onward /\ Untold
  <2>1. Untold
    BY <1>1, ReplacersKnown DEF RefreshKept
  <2> QED
    BY <2>1 DEF Onward, RefreshKept
<1>6. Op(c)' = Op(c) /\ Op(c) = "search"
  BY <1>0, StepsTell DEF CallOK, RefreshKept, Op
<1>7. LoadingOK(c)'
  <2>1. tool[c].waits = NoLoad
    BY <1>0 DEF CallOK, LoadingOK, Loading, RefreshKept
  <2> QED
    BY <1>2, <1>6, <2>1 DEF LoadingOK, StepsOf
<1>8. ListedOK(c)'
  <2>1. PICK list \in Listings : list = context.snap
    BY <1>0 DEF ContextStates
  <2>2. /\ ListingOK(list)' /\ TrueStamps(list)'
        /\ context.whole => Covers(list)'
    BY <1>3, <1>5, <2>1, ListingsOnward DEF FilesInv
  <2>3. tool'[c].snap = list /\ context'.snap = list /\ context'.gen = context.gen /\ context.gen \in Nat
    BY <1>0, <1>2, <2>1 DEF RefreshKept, ContextStates
  <2>4. /\ ListingOK(tool[c].snap)' /\ TrueStamps(tool[c].snap)'
        /\ context.whole => Covers(tool[c].snap)'
    BY <2>2, <2>3, OfACall
  <2> QED
    BY <1>2, <1>3, <2>3, <2>4 DEF ListedOK
<1>9. ReadOK(c)' /\ EditOK(c)' /\ FoundOK(c)'
  BY <1>2, <1>6 DEF ReadOK, EditOK, FoundOK, Writers
<1>10. CallOK(c)'
  BY <1>7, <1>8, <1>9 DEF CallOK
<1> QED
  BY <1>1, <1>2, <1>3, <1>4, <1>10, OwnStep DEF RefreshKept

LEMMA KeepLists ==
  ASSUME FilesInv, FilesTypeOK', NEW c \in Calls, RefreshLists(c)
  PROVE  FilesInv'
<1>0. tool \in [Calls -> CallStates] /\ tool[c] \in CallStates /\ CallOK(c)
  BY DEF FilesInv, FilesTypeOK
<1>p. PICK part \in SUBSET Existing :
         tool' = [tool EXCEPT ![c].pc = "adopt", ![c].whole = (part = Existing),
                     ![c].snap = {[file |-> f, stamp |-> workspace[f].stamp, ver |-> workspace[f].ver] : f \in part}]
  BY DEF RefreshLists
<1>l. PICK list : list = {[file |-> f, stamp |-> workspace[f].stamp, ver |-> workspace[f].ver] : f \in part}
  OBVIOUS
<1>1. /\ tool'[c] = [tool[c] EXCEPT !.pc = "adopt", !.whole = (part = Existing), !.snap = list]
      /\ \A d \in Calls \ {c} : tool'[d] = tool[d]
  BY <1>0, <1>p, <1>l
<1>2. /\ tool'[c].pc = "adopt" /\ tool'[c].snap = list /\ tool'[c].gen = tool[c].gen
      /\ tool'[c].whole = (part = Existing) /\ tool'[c].waits = tool[c].waits /\ tool'[c].todo = tool[c].todo
  BY <1>0, <1>1 DEF CallStates
<1>3. /\ \A e \in list : e.file \in part /\ e.stamp = workspace[e.file].stamp /\ e.ver = workspace[e.file].ver
      /\ Listed(list) = part
  <2>1. \A e \in list : e.file \in part /\ e.stamp = workspace[e.file].stamp /\ e.ver = workspace[e.file].ver
    BY <1>l
  <2>2. ASSUME NEW f \in part PROVE \E e \in list : e.file = f
    <3>1. [file |-> f, stamp |-> workspace[f].stamp, ver |-> workspace[f].ver] \in list
      BY <1>l
    <3>2. [file |-> f, stamp |-> workspace[f].stamp, ver |-> workspace[f].ver].file = f
      OBVIOUS
    <3> QED
      BY <3>1, <3>2
  <2> QED
    BY <2>1, <2>2 DEF Listed
<1>4. \A f \in part : f \in Files /\ workspace[f].there /\ workspace[f].stamp \in Nat /\ workspace[f].ver \in Nat
  BY DEF Existing, FilesInv, FilesTypeOK, FileStates
<1>5. Op(c)' = Op(c) /\ Op(c) = "search"
  BY <1>0, StepsTell DEF CallOK, RefreshLists, Op
<1>6. LoadingOK(c)'
  <2>1. tool[c].waits = NoLoad
    BY <1>0 DEF CallOK, LoadingOK, Loading, RefreshLists
  <2> QED
    BY <1>2, <1>5, <2>1 DEF LoadingOK, StepsOf
<1>7. ListedOK(c)'
  <2>1. ListingOK(list)'
    BY <1>3, <1>4 DEF ListingOK, RefreshLists
  <2>2. TrueStamps(list)'
    BY <1>3 DEF TrueStamps, RefreshLists
  <2>3. part = Existing => Covers(list)'
    BY <1>3 DEF Covers, Existing, RefreshLists
  <2>4. /\ ListingOK(tool[c].snap)' /\ TrueStamps(tool[c].snap)'
        /\ part = Existing => Covers(tool[c].snap)'
    BY <1>2, <2>1, <2>2, <2>3, OfACall
  <2>5. tool[c].gen = 0 /\ context'.gen \in Nat
    BY <1>0 DEF CallOK, ListedOK, RefreshLists, FilesTypeOK, ContextStates
  <2>6. tool'[c].gen = 0 /\ tool'[c].gen <= context'.gen
    BY <1>2, <2>5
  <2>7. tool'[c].whole => Covers(tool[c].snap)'
    <3>1. tool'[c].whole = (part = Existing)
      BY <1>2
    <3>2. tool'[c].whole => part = Existing
      BY <3>1, Zenon
    <3> QED
      BY <2>4, <3>2
  <2> QED
    BY <1>2, <2>4, <2>6, <2>7 DEF ListedOK, Lexical
<1>8. ReadOK(c)' /\ EditOK(c)' /\ FoundOK(c)'
  BY <1>2, <1>5 DEF ReadOK, EditOK, FoundOK, Writers
<1>9. CallOK(c)'
  BY <1>6, <1>7, <1>8 DEF CallOK
<1>10. ClaimsHold'
  <2>1. \A d \in Calls : Active(d)' => Active(d)
    BY <1>1 DEF Active, RefreshLists
  <2> QED
    BY <2>1, ClaimsStay DEF RefreshLists
<1> QED
  BY <1>1, <1>2, <1>9, <1>10, OwnStep DEF RefreshLists

\* A call begins when its claims are free.
LEMMA KeepBegins ==
  ASSUME FilesInv, FilesTypeOK', NEW c \in Calls, Begins(c)
  PROVE  FilesInv'
<1> DEFINE from == IF Op(c) = "search" THEN 0 ELSE workspace[Target(c)].ver
           todo == IF Op(c) = "read" THEN {Target(c)} ELSE {}
<1>0. tool \in [Calls -> CallStates] /\ tool[c] \in CallStates /\ CallOK(c)
  BY DEF FilesInv, FilesTypeOK
<1>1. /\ tool'[c] = [tool[c] EXCEPT !.pc = FirstStep(Op(c)), !.from = from, !.todo = todo]
      /\ \A d \in Calls \ {c} : tool'[d] = tool[d]
  BY <1>0 DEF Begins
<1>2. /\ tool'[c].pc = FirstStep(Op(c)) /\ tool'[c].from = from /\ tool'[c].todo = todo
      /\ tool'[c].snap = tool[c].snap /\ tool'[c].gen = tool[c].gen
      /\ tool'[c].whole = tool[c].whole /\ tool'[c].moved = tool[c].moved /\ tool'[c].waits = tool[c].waits
      /\ tool'[c].replaced = tool[c].replaced /\ tool'[c].lost = tool[c].lost
  BY <1>0, <1>1 DEF CallStates
<1>3. Op(c)' = Op(c) /\ Target(c)' = Target(c) /\ workspace' = workspace
  BY DEF Begins, Op, Target
<1>4. Op(c) \in {"read", "search", "shell"} \cup Writers
  BY DEF FilesInv, FilesTypeOK, Op, Writers
<1>5. ClaimsHold'
  <2>1. \A d \in Calls : d # c => (Active(d)' <=> Active(d)) /\ Op(d)' = Op(d) /\ Target(d)' = Target(d)
    BY <1>1 DEF Active, Begins, Op, Target
  <2>2. ASSUME NEW d \in Calls, d # c, Active(d)
        PROVE  /\ Op(c) # "shell" /\ Op(d) # "shell"
               /\ Op(c) \in Writers => Op(d) # "search" /\ (Op(d) \in Writers \cup {"read"} => Target(d) # Target(c))
               /\ Op(d) \in Writers => Op(c) # "search" /\ (Op(c) \in Writers \cup {"read"} => Target(d) # Target(c))
    <3>1. CASE Op(c) = "read"
      BY <2>2, <3>1 DEF Begins, Claimed, Busy, BusyOn, Writers
    <3>2. CASE Op(c) = "search"
      BY <2>2, <3>2 DEF Begins, Claimed, Busy, BusyOn, Writers
    <3>3. CASE Op(c) = "shell"
      BY <2>2, <3>3 DEF Begins, Claimed
    <3>4. CASE Op(c) \in Writers
      BY <2>2, <3>4 DEF Begins, Claimed, Busy, BusyOn, Writers
    <3> QED
      BY <1>4, <3>1, <3>2, <3>3, <3>4
  <2>3. ClaimsHold
    BY DEF FilesInv
  <2> SUFFICES ASSUME NEW a \in Calls, NEW b \in Calls, a # b, Active(a)', Active(b)'
               PROVE  /\ Op(a)' # "shell"
                      /\ Op(a)' \in Writers =>
                           /\ Op(b)' # "search"
                           /\ Op(b)' \in Writers \cup {"read"} => Target(b)' # Target(a)'
    BY DEF ClaimsHold, Writers
  <2>4. CASE a = c
    BY <1>3, <2>1, <2>2, <2>4
  <2>5. CASE b = c
    BY <1>3, <2>1, <2>2, <2>5
  <2>6. CASE a # c /\ b # c
    BY <2>1, <2>3, <2>6 DEF ClaimsHold
  <2> QED
    BY <2>4, <2>5, <2>6
<1>6. Onward /\ Untold
  <2>1. Untold
    BY <1>1, ReplacersKnown DEF Begins
  <2> QED
    BY <2>1 DEF Onward, Begins
<1>7. tool[c].waits = NoLoad /\ (Op(c) \in Writers => ~tool[c].replaced /\ ~tool[c].lost)
  BY <1>0 DEF CallOK, LoadingOK, EditOK, Begins, Loading
<1>f. /\ Op(c) = "read" => FirstStep(Op(c)) = "slice"
      /\ Op(c) = "search" => FirstStep(Op(c)) = "refresh"
      /\ Op(c) = "shell" => FirstStep(Op(c)) = "run"
      /\ Op(c) \in Writers => FirstStep(Op(c)) = "stat"
  BY DEF FirstStep, Writers
<1>8. LoadingOK(c)'
  <2>1. FirstStep(Op(c)) \in StepsOf(Op(c)) /\ FirstStep(Op(c)) \notin {"grams", "texts"}
    BY <1>4, <1>f DEF StepsOf, Writers
  <2> QED
    BY <1>2, <1>3, <1>4, <1>7, <1>f, <2>1 DEF LoadingOK
<1>9. ReadOK(c)'
  <2>1. workspace[Target(c)].ver \in Nat
    BY DEF FilesInv, FilesTypeOK, FileStates, Target
  <2> QED
    BY <1>2, <1>3, <1>f, <2>1 DEF ReadOK
<1>10. EditOK(c)'
  BY <1>2, <1>3, <1>7, <1>f DEF EditOK, Writers
<1>11. ListedOK(c)'
  <2>1. tool[c].pc = "idle"
    BY DEF Begins
  <2>2. FirstStep(Op(c)) \notin Lexical \cup {"adopt", "idle"}
    BY <1>4, <1>f DEF Lexical
  <2> QED
    BY <1>2, <1>4, <1>6, <1>f, <2>1, <2>2, SameListing DEF Begins
<1>12. FoundOK(c)'
  BY <1>2, <1>4, <1>f DEF FoundOK
<1>13. CallOK(c)'
  BY <1>8, <1>9, <1>10, <1>11, <1>12 DEF CallOK
<1> HIDE DEF from, todo
<1> QED
  BY <1>1, <1>2, <1>5, <1>13, OwnStep DEF Begins

\* A listing is no longer fresh.
LEMMA KeepAges ==
  ASSUME FilesInv, FilesTypeOK', Ages
  PROVE  FilesInv'
<1>1. Onward
  BY DEF Onward, Ages
<1>2. Untold
  BY ReplacersKnown DEF Ages
<1>3. ContextOK'
  BY <1>1, <1>2, ContextStays DEF Ages
<1>4. TextsOK'
  BY <1>1, <1>2, TextsStay DEF Ages
<1>5. ClaimsHold'
  <2>1. \A d \in Calls : Active(d)' => Active(d)
    BY DEF Active, Ages
  <2> QED
    BY <2>1, ClaimsStay DEF Ages
<1>6. ASSUME NEW d \in Calls PROVE CallOK(d)'
  <2>1. Stays(d)
    BY DEF Stays, Ages
  <2>2. /\ context'.gen = context.gen /\ context'.snap = context.snap /\ context'.lexGen = context.lexGen
        /\ context.gen \in Nat
    BY DEF Ages, FilesInv, FilesTypeOK, ContextStates
  <2>3. Beside(d)
    BY <1>2, <2>2 DEF Beside, Ages
  <2> QED
    BY <1>1, <2>1, <2>3, Bystander
<1> QED
  BY <1>3, <1>4, <1>5, <1>6 DEF FilesInv

\* Changes of a file.
LEMMA KeepOutside ==
  ASSUME FilesInv, FilesTypeOK', NEW f \in Files, OutsideChange(f)
  PROVE  FilesInv'
<1> DEFINE text == workspace[f].text \cup {Other}
           stamp == workspace[f].stamp + 1
<1>0. FilesTypeOK /\ workspace[f].stamp \in Nat /\ text \in Texts
  BY DEF FilesInv, FilesTypeOK, FileStates, Texts, Other
<1>1. stamp \in Stamps(f) /\ stamp # workspace[f].stamp /\ Other \in text
  BY <1>0 DEF Stamps
<1>2. workspace' = Changed(f, text, stamp) /\ overtaken' = Overtaking(f)
  BY DEF OutsideChange
<1> HIDE DEF text, stamp
<1>3. /\ Onward /\ workspace'[f].text = text
      /\ \A g \in Files : g # f => workspace'[g] = workspace[g]
  BY <1>0, <1>1, <1>2, ChangeIsOnward DEF OutsideChange
<1>4. Untold
  BY ReplacersKnown DEF OutsideChange
<1>5. ContextOK'
  BY <1>3, <1>4, ContextStays DEF OutsideChange
<1>6. TextsOK'
  BY <1>3, <1>4, TextsStay DEF OutsideChange
<1>7. ClaimsHold'
  <2>1. \A d \in Calls : Active(d)' => Active(d)
    BY DEF Active, OutsideChange
  <2> QED
    BY <2>1, ClaimsStay DEF OutsideChange
<1>8. ASSUME NEW d \in Calls PROVE CallOK(d)'
  <2>1. Stays(d)
    BY DEF Stays, OutsideChange
  <2>2. context' = context /\ context.gen \in Nat /\ Target(d) \in Files
    BY DEF OutsideChange, FilesInv, FilesTypeOK, ContextStates, Target
  <2>3. Beside(d)
    BY <1>1, <1>3, <1>4, <2>2 DEF Beside
  <2> QED
    BY <1>3, <2>1, <2>3, Bystander
<1> QED
  BY <1>5, <1>6, <1>7, <1>8 DEF FilesInv

LEMMA KeepReplace ==
  ASSUME FilesInv, FilesTypeOK', NEW c \in Calls, Replace(c)
  PROVE  FilesInv'
<1>f. PICK f \in Files : f = Target(c)
  BY DEF FilesInv, FilesTypeOK, Target
<1> DEFINE over == Op(c) = "edit" /\ workspace[f].ver # tool[c].ver /\ Other \notin workspace[f].text
<1>0. /\ FilesTypeOK /\ tool \in [Calls -> CallStates] /\ tool[c] \in CallStates
      /\ CallOK(c) /\ ClaimsHold
  BY DEF FilesInv, FilesTypeOK
<1>c. Op(c) \in Writers /\ tool[c].pc = "replace" /\ Op(c) \notin {"read", "search", "shell"}
  BY <1>0, StepsTell DEF CallOK, Replace, Writers, FilesTypeOK, Op
<1>p. PICK stamp \in Stamps(f) : workspace' = Changed(f, NewText(c), stamp)
  BY <1>f DEF Replace
<1>1. /\ tool'[c] = [tool[c] EXCEPT !.pc = "invalidate", !.replaced = TRUE, !.lost = over]
      /\ \A d \in Calls \ {c} : tool'[d] = tool[d]
  BY <1>0, <1>f DEF Replace
<1> HIDE DEF over
<1>2. /\ tool'[c].pc = "invalidate" /\ tool'[c].snap = tool[c].snap /\ tool'[c].gen = tool[c].gen
      /\ tool'[c].whole = tool[c].whole /\ tool'[c].moved = tool[c].moved /\ tool'[c].waits = tool[c].waits
      /\ tool'[c].replaced = TRUE /\ tool'[c].lost = over
  BY <1>0, <1>1 DEF CallStates
<1>3. Op(c)' = Op(c) /\ Target(c)' = Target(c)
  BY DEF Replace, Op, Target
<1>4. NewText(c) \in Texts
  BY <1>0, CallsAreNumbers DEF NewText, CallStates, Texts
<1>5. BeingReplaced(f)'
  BY <1>2, <1>3, <1>c, <1>f DEF BeingReplaced, Writers
<1>6. /\ Onward
      /\ \A g \in Files : g # f => workspace'[g] = workspace[g]
  BY <1>0, <1>4, <1>5, <1>f, <1>p, ChangeIsOnward DEF Replace
<1>7. Untold
  BY <1>1, <1>2, ReplacersKnown DEF Replace
<1>8. ContextOK'
  BY <1>1, <1>2, <1>6, <1>7, ContextStays DEF Replace
<1>9. TextsOK'
  BY <1>6, <1>7, TextsStay DEF Replace
<1>10. ClaimsHold'
  <2>1. \A d \in Calls : Active(d)' => Active(d)
    BY <1>1, <1>c DEF Active
  <2> QED
    BY <2>1, ClaimsStay DEF Replace
<1>11. CallOK(c)'
  <2>1. LoadingOK(c)'
    <3>1. tool[c].waits = NoLoad
      BY <1>0, <1>c DEF CallOK, LoadingOK, Loading
    <3> QED
      BY <1>2, <1>3, <1>c, <3>1 DEF LoadingOK, StepsOf
  <2>2. ReadOK(c)'
    BY <1>3, <1>c DEF ReadOK
  <2>3. EditOK(c)'
    <3>1. ~over
      BY <1>0, <1>c, <1>f DEF CallOK, EditOK, over
    <3> QED
      BY <1>2, <3>1 DEF EditOK
  <2>4. ListedOK(c)'
    BY <1>2, <1>6, <1>7, <1>c, SameListing DEF Lexical, Replace
  <2>5. FoundOK(c)'
    BY <1>2 DEF FoundOK
  <2> QED
    BY <2>1, <2>2, <2>3, <2>4, <2>5 DEF CallOK
<1>12. ASSUME NEW d \in Calls, d # c PROVE CallOK(d)'
  <2>1. Stays(d)
    BY <1>1, <1>12 DEF Stays
  <2>2. context' = context /\ context.gen \in Nat /\ Target(d) \in Files
    BY DEF Replace, FilesInv, FilesTypeOK, ContextStates, Target
  <2>3. (Op(d) \in Writers /\ tool[d].pc = "replace") => Target(d) # f
    BY <1>0, <1>c, <1>f, <1>12 DEF ClaimsHold, Active
  <2>4. Beside(d)
    BY <1>6, <1>7, <2>2, <2>3 DEF Beside
  <2> QED
    BY <1>6, <2>1, <2>4, Bystander
<1> QED
  BY <1>8, <1>9, <1>10, <1>11, <1>12 DEF FilesInv

LEMMA KeepShellRuns ==
  ASSUME FilesInv, FilesTypeOK', NEW c \in Calls, ShellRuns(c)
  PROVE  FilesInv'
<1> DEFINE f == Target(c)
           text == workspace[f].text \cup {c}
<1>0. /\ FilesTypeOK /\ tool \in [Calls -> CallStates] /\ tool[c] \in CallStates /\ f \in Files
      /\ CallOK(c) /\ ClaimsHold
  BY DEF FilesInv, FilesTypeOK, Target
<1>c. Op(c) = "shell" /\ tool[c].pc = "run" /\ Op(c) \notin Writers
  BY <1>0, StepsTell DEF CallOK, ShellRuns, Writers
<1>p. PICK stamp \in Stamps(f) :
         /\ workspace' = Changed(f, text, stamp)
         /\ overtaken' = Overtaking(f) \cup (IF stamp = workspace[f].stamp THEN {f} ELSE {})
  BY DEF ShellRuns
<1>1. /\ tool'[c] = [tool[c] EXCEPT !.pc = "after"]
      /\ \A d \in Calls \ {c} : tool'[d] = tool[d]
  BY <1>0 DEF ShellRuns, Goto
<1>2. /\ tool'[c].pc = "after" /\ tool'[c].snap = tool[c].snap /\ tool'[c].gen = tool[c].gen
      /\ tool'[c].whole = tool[c].whole /\ tool'[c].moved = tool[c].moved /\ tool'[c].waits = tool[c].waits
  BY <1>0, <1>1 DEF CallStates
<1>3. Op(c)' = Op(c)
  BY DEF ShellRuns, Op
<1>4. text \in Texts
  BY <1>0, CallsAreNumbers DEF FilesTypeOK, FileStates, Texts
<1> HIDE DEF text
<1>6. /\ Onward
      /\ \A g \in Files : g # f => workspace'[g] = workspace[g]
  BY <1>0, <1>4, <1>p, ChangeIsOnward DEF ShellRuns
<1>7. Untold
  BY <1>1, <1>c, ReplacersKnown DEF ShellRuns
<1>8. ContextOK'
  BY <1>1, <1>2, <1>6, <1>7, ContextStays DEF ShellRuns
<1>9. TextsOK'
  BY <1>6, <1>7, TextsStay DEF ShellRuns
<1>10. ClaimsHold'
  <2>1. \A d \in Calls : Active(d)' => Active(d)
    BY <1>1, <1>c DEF Active
  <2> QED
    BY <2>1, ClaimsStay DEF ShellRuns
<1>11. CallOK(c)'
  <2>1. LoadingOK(c)'
    <3>1. tool[c].waits = NoLoad
      BY <1>0, <1>c DEF CallOK, LoadingOK, Loading
    <3> QED
      BY <1>2, <1>3, <1>c, <3>1 DEF LoadingOK, StepsOf
  <2>2. ReadOK(c)' /\ EditOK(c)'
    BY <1>3, <1>c DEF ReadOK, EditOK, Writers
  <2>4. ListedOK(c)'
    BY <1>2, <1>6, <1>7, <1>c, SameListing DEF Lexical, ShellRuns
  <2>5. FoundOK(c)'
    BY <1>2 DEF FoundOK
  <2> QED
    BY <2>1, <2>2, <2>4, <2>5 DEF CallOK
<1>12. ASSUME NEW d \in Calls, d # c PROVE CallOK(d)'
  <2>1. Stays(d)
    BY <1>1, <1>12 DEF Stays
  <2>2. context' = context /\ context.gen \in Nat
    BY DEF ShellRuns, FilesInv, FilesTypeOK, ContextStates
  <2>3. tool[d].pc # "replace"
    BY <1>0, <1>c, <1>12 DEF ClaimsHold, Active
  <2>4. Beside(d)
    BY <1>7, <2>2, <2>3 DEF Beside
  <2> QED
    BY <1>6, <2>1, <2>4, Bystander
<1> QED
  BY <1>8, <1>9, <1>10, <1>11, <1>12 DEF FilesInv

\* A load ends, and all that wait for it are given the text.
LEMMA KeepLoadEnds ==
  ASSUME FilesInv, FilesTypeOK', NEW f \in Files, LoadEnds(f)
  PROVE  FilesInv'
<1> DEFINE text == loads[f].text
           ver == loads[f].ver
<1>0. /\ FilesTypeOK /\ tool \in [Calls -> CallStates] /\ TextsOK /\ text \in Texts /\ ver \in Nat
      /\ \A g \in Files : workspace[g].stamp \in Nat
  BY DEF FilesInv, FilesTypeOK, LoadStates, FileStates
<1>1. (f \notin overtaken) => text = workspace[f].text /\ ver = workspace[f].ver
  BY <1>0 DEF TextsOK, LoadEnds
<1>2. \A d \in Calls : tool'[d] = IF tool[d].waits = f THEN Given(tool[d], f, text, ver) ELSE tool[d]
  BY DEF LoadEnds
<1>3. \A d \in Calls : tool[d].waits = f => tool[d].pc \in Loading /\ f \in tool[d].todo
  BY CodeFilesAssumption DEF FilesInv, CallOK, LoadingOK, NoLoad
<1>4. \A d \in Calls : tool'[d].gen = tool[d].gen
  <2> SUFFICES ASSUME NEW d \in Calls PROVE tool'[d].gen = tool[d].gen
    OBVIOUS
  <2>1. Given(tool[d], f, text, ver).gen = tool[d].gen
    <3>1. tool[d] \in CallStates
      BY <1>0
    <3> QED
      BY <3>1, GivenKeepsGen
  <2> QED
    BY <1>2, <2>1
<1>5. Onward
  BY DEF Onward, LoadEnds
<1>6. Untold
  BY <1>2, <1>3, ReplacersKnown DEF LoadEnds, Loading
<1>7. ContextOK'
  BY <1>4, <1>5, <1>6, ContextStays DEF LoadEnds
<1>8. ClaimsHold'
  <2>1. \A d \in Calls : Active(d)' => Active(d)
    BY <1>2, <1>3 DEF Active, Loading
  <2> QED
    BY <2>1, ClaimsStay DEF LoadEnds
<1>9. TextsOK'
  <2> SUFFICES ASSUME NEW g \in Files
               PROVE
    /\ cached'[g].in => cached'[g].stamp <= workspace'[g].stamp
    /\ (g \notin overtaken' /\ loads'[g].on) =>
         loads'[g].text = workspace'[g].text /\ loads'[g].ver = workspace'[g].ver
    /\ (g \notin overtaken' /\ cached'[g].in /\ cached'[g].stamp = workspace'[g].stamp
          /\ ~BeingReplaced(g)') =>
         cached'[g].text = workspace'[g].text /\ cached'[g].ver = workspace'[g].ver
    BY DEF TextsOK
  <2>1. ~BeingReplaced(g)' => ~BeingReplaced(g)
    BY <1>6 DEF Untold
  <2>2. workspace' = workspace /\ overtaken' = overtaken
    BY DEF LoadEnds
  <2>3. loads'[g].on => g # f /\ loads'[g] = loads[g]
    BY <1>0 DEF LoadEnds, FilesTypeOK
  <2>4. \/ cached'[g] = cached[g]
        \/ cached'[g] = NoEntry
        \/ g = f /\ cached'[g] = [in |-> TRUE, text |-> text, stamp |-> workspace[f].stamp, ver |-> ver]
    BY DEF LoadEnds
  <2>5. /\ cached[g].in => cached[g].stamp <= workspace[g].stamp
        /\ (g \notin overtaken /\ loads[g].on) =>
             loads[g].text = workspace[g].text /\ loads[g].ver = workspace[g].ver
        /\ (g \notin overtaken /\ cached[g].in /\ cached[g].stamp = workspace[g].stamp
              /\ ~BeingReplaced(g)) =>
             cached[g].text = workspace[g].text /\ cached[g].ver = workspace[g].ver
    BY <1>0 DEF TextsOK
  <2> HIDE DEF text, ver
  <2>6. CASE cached'[g] = cached[g]
    BY <2>1, <2>2, <2>3, <2>5, <2>6
  <2>7. CASE cached'[g] = NoEntry
    BY <2>2, <2>3, <2>5, <2>7 DEF NoEntry
  <2>8. CASE g = f /\ cached'[g] = [in |-> TRUE, text |-> text, stamp |-> workspace[f].stamp, ver |-> ver]
    BY <1>0, <1>1, <2>2, <2>3, <2>8
  <2> QED
    BY <2>4, <2>6, <2>7, <2>8
<1>10. ASSUME NEW d \in Calls PROVE CallOK(d)'
  <2>1. CASE tool[d].waits = f
    <3>1. tool'[d] = Given(tool[d], f, text, ver)
      BY <1>2, <2>1
    <3> HIDE DEF text, ver
    <3> QED
      BY <1>0, <1>1, <1>3, <1>5, <1>6, <2>1, <3>1, GivenCall DEF LoadEnds
  <2>2. CASE tool[d].waits # f
    <3>1. Stays(d)
      BY <1>2, <2>2 DEF Stays
    <3>2. Beside(d)
      BY <1>6 DEF Beside, LoadEnds, FilesInv, FilesTypeOK, ContextStates
    <3> QED
      BY <1>5, <3>1, <3>2, Bystander
  <2> QED
    BY <2>1, <2>2
<1> QED
  BY <1>7, <1>8, <1>9, <1>10 DEF FilesInv

\* The context takes a new listing.  What its postings say of the places in
\* the old one they say of the new one, when the generation is kept.
LEMMA KeepAdopts ==
  ASSUME FilesInv, FilesTypeOK', NEW c \in Calls, RefreshAdopts(c)
  PROVE  FilesInv'
<1> DEFINE kept == context.ready /\ Manifest(context.snap) = Manifest(tool[c].snap)
<1>0. /\ FilesTypeOK /\ tool \in [Calls -> CallStates] /\ tool[c] \in CallStates
      /\ context \in ContextStates /\ CallOK(c) /\ ContextOK /\ TextsOK /\ tool[c].pc = "adopt"
  BY DEF FilesInv, FilesTypeOK, RefreshAdopts
<1>c. Op(c) = "search" /\ Active(c)
  BY <1>0, StepsTell DEF CallOK, Active
<1>l. PICK list \in Listings : list = tool[c].snap
  BY <1>0 DEF CallStates
<1>n. context.gen \in Nat /\ context.gen + 1 > context.gen
  BY <1>0 DEF ContextStates
<1>1. /\ context'.snap = list /\ context'.whole = tool[c].whole /\ context'.ready = TRUE
      /\ kept => context'.gen = context.gen /\ context'.lexGen = context.lexGen /\ context'.posts = context.posts
      /\ ~kept => context'.gen = context.gen + 1 /\ context'.lexGen = 0
  <2>1. context' = Adopted(context, tool[c])
    BY DEF RefreshAdopts
  <2>2. CASE kept
    <3>1. context' = [context EXCEPT !.ready = TRUE, !.fresh = TRUE, !.snap = tool[c].snap, !.whole = tool[c].whole]
      BY <2>1, <2>2 DEF Adopted
    <3> HIDE DEF kept
    <3> QED
      BY <1>0, <1>l, <2>2, <3>1 DEF ContextStates
  <2>3. CASE ~kept
    <3>1. context' = [[context EXCEPT !.ready = TRUE, !.fresh = TRUE, !.snap = tool[c].snap, !.whole = tool[c].whole]
                        EXCEPT !.gen = @ + 1, !.lexGen = 0, !.posts = {}]
      BY <2>1, <2>3 DEF Adopted
    <3> HIDE DEF kept
    <3> QED
      BY <1>0, <1>l, <2>3, <3>1 DEF ContextStates
  <2> QED
    BY <2>2, <2>3
<1>2. context'.gen > 0 /\ (kept => context.gen > 0)
  BY <1>0, <1>1, <1>n DEF ContextOK
<1>3. \A d \in Calls : d # c =>
        /\ tool'[d] \in {tool[d], [tool[d] EXCEPT !.moved = TRUE]}
        /\ context'.gen # context.gen => tool'[d] = [tool[d] EXCEPT !.moved = TRUE]
  BY DEF RefreshAdopts
<1>4. tool'[c] = WithSnapshot(tool[c], context')
  BY DEF RefreshAdopts
<1>5. /\ tool'[c].pc = "lexical" /\ tool'[c].snap = list /\ tool'[c].gen = context'.gen
      /\ tool'[c].whole = tool[c].whole /\ tool'[c].waits = tool[c].waits
  BY <1>0, <1>1, <1>4 DEF WithSnapshot, CallStates
<1>6. \A d \in Calls : d # c => tool'[d].pc = tool[d].pc /\ tool'[d].gen = tool[d].gen
  <2> SUFFICES ASSUME NEW d \in Calls, d # c
               PROVE  tool'[d].pc = tool[d].pc /\ tool'[d].gen = tool[d].gen
    OBVIOUS
  <2>1. tool'[d] \in {tool[d], [tool[d] EXCEPT !.moved = TRUE]}
    BY <1>3
  <2>2. tool[d] \in CallStates
    BY <1>0
  <2> QED
    BY <2>1, <2>2 DEF CallStates
<1>7. Onward
  BY DEF Onward, RefreshAdopts
<1>8. Untold
  BY <1>0, <1>6, ReplacersKnown DEF RefreshAdopts
<1>9. ClaimsHold'
  <2>1. \A d \in Calls : Active(d)' => Active(d)
    BY <1>c, <1>6 DEF Active
  <2> QED
    BY <2>1, ClaimsStay DEF RefreshAdopts
<1>10. /\ ListingOK(list) /\ TrueStamps(list)
       /\ tool[c].whole => Covers(list)
  BY <1>0, <1>c, <1>l DEF CallOK, ListedOK
<1>11. /\ ListingOK(list)' /\ TrueStamps(list)'
       /\ tool[c].whole => Covers(list)'
  BY <1>0, <1>7, <1>8, <1>10, ListingsOnward
<1> HIDE DEF kept
<1>12. ContextOK'
  <2>1. Held'
    BY <1>2, <1>5 DEF Held
  <2>2. /\ ListingOK(context.snap)' /\ TrueStamps(context.snap)'
        /\ tool[c].whole => Covers(context.snap)'
    BY <1>1, <1>11, OfTheContext
  <2>3. ASSUME context'.lexGen = context'.gen PROVE PostsAre(context.snap, context.posts)'
    <3>1. kept
      BY <1>1, <1>2, <2>3
    <3>2. context.gen > 0 /\ context.lexGen = context.gen /\ context'.posts = context.posts
      BY <1>1, <1>2, <2>3, <3>1
    <3>3. PostsAre(context.snap, context.posts) /\ TrueStamps(context.snap)
      BY <1>0, <3>2 DEF ContextOK
    <3>4. Manifest(list) = Manifest(context.snap) /\ context.snap \in Listings
      BY <1>0, <1>l, <3>1 DEF kept, ContextStates
    <3>5. \A f \in Files : ~BeingReplaced(f)
      BY <1>c, ReadersAreApart
    <3>6. ASSUME NEW e \in list, Standing(e) PROVE Position(e.file, list) \in context.posts
      <4>1. PICK g \in context.snap : g.file = e.file /\ Standing(g)
        BY <1>10, <3>3, <3>4, <3>5, <3>6, SameStanding
      <4>2. Position(e.file, context.snap) \in context.posts
        BY <3>3, <4>1 DEF PostsAre
      <4>3. Position(e.file, list) = Position(e.file, context.snap)
        BY <3>4, SamePlaces
      <4> QED
        BY <4>2, <4>3
    <3>7. \A e : Standing(e)' <=> Standing(e)
      BY DEF RefreshAdopts, Standing
    <3> QED
      BY <1>1, <3>2, <3>6, <3>7 DEF PostsAre
  <2> QED
    BY <1>1, <1>2, <2>1, <2>2, <2>3 DEF ContextOK
<1>13. TextsOK'
  <2> SUFFICES ASSUME NEW g \in Files
               PROVE
    /\ cached'[g].in => cached'[g].stamp <= workspace'[g].stamp
    /\ (g \notin overtaken' /\ loads'[g].on) =>
         loads'[g].text = workspace'[g].text /\ loads'[g].ver = workspace'[g].ver
    /\ (g \notin overtaken' /\ cached'[g].in /\ cached'[g].stamp = workspace'[g].stamp
          /\ ~BeingReplaced(g)') =>
         cached'[g].text = workspace'[g].text /\ cached'[g].ver = workspace'[g].ver
    BY DEF TextsOK
  <2>1. ~BeingReplaced(g)' => ~BeingReplaced(g)
    BY <1>8 DEF Untold
  <2>2. workspace' = workspace /\ overtaken' = overtaken /\ loads' = loads
    BY DEF RefreshAdopts
  <2>3. cached'[g] = cached[g] \/ cached'[g] = NoEntry
    BY DEF RefreshAdopts
  <2>4. CASE cached'[g] = cached[g]
    BY <1>0, <2>1, <2>2, <2>4 DEF TextsOK
  <2>5. CASE cached'[g] = NoEntry
    BY <1>0, <2>2, <2>5 DEF NoEntry, TextsOK
  <2> QED
    BY <2>3, <2>4, <2>5
<1>14. CallOK(c)'
  <2>0. Op(c)' = "search"
    BY <1>c DEF RefreshAdopts, Op
  <2>1. LoadingOK(c)'
    <3>1. tool[c].waits = NoLoad
      BY <1>0 DEF CallOK, LoadingOK, Loading
    <3> QED
      BY <1>5, <2>0, <3>1 DEF LoadingOK, StepsOf
  <2>2. ListedOK(c)'
    <3>1. /\ ListingOK(tool[c].snap)' /\ TrueStamps(tool[c].snap)'
          /\ tool[c].whole => Covers(tool[c].snap)'
      BY <1>5, <1>11, OfACall
    <3>2. context'.gen \in Nat
      BY DEF FilesTypeOK, ContextStates
    <3> QED
      BY <1>1, <1>2, <1>5, <3>1, <3>2 DEF ListedOK
  <2>3. ReadOK(c)' /\ EditOK(c)' /\ FoundOK(c)'
    BY <1>5, <2>0 DEF ReadOK, EditOK, FoundOK, Writers
  <2> QED
    BY <2>1, <2>2, <2>3 DEF CallOK
<1>15. ASSUME NEW d \in Calls, d # c PROVE CallOK(d)'
  <2>1. Stays(d)
    BY <1>3, <1>15 DEF Stays
  <2>2. context'.gen # context.gen => tool'[d].moved
    <3>1. tool[d] \in CallStates
      BY <1>0
    <3>2. context'.gen # context.gen => tool'[d] = [tool[d] EXCEPT !.moved = TRUE]
      BY <1>3, <1>15
    <3> QED
      BY <3>1, <3>2 DEF CallStates
  <2>3. context'.gen = context.gen => kept
    BY <1>1, <1>n
  <2>4. context.gen <= context'.gen
    BY <1>1, <1>n
  <2>5. kept => /\ Manifest(context'.snap) = Manifest(context.snap)
                /\ context.lexGen = context.gen => context'.lexGen = context'.gen
    BY <1>1, <1>l DEF kept
  <2>6. workspace' = workspace
    BY DEF RefreshAdopts
  <2>7. Beside(d)
    BY <1>8, <2>2, <2>3, <2>4, <2>5, <2>6 DEF Beside
  <2> QED
    BY <1>7, <2>1, <2>7, Bystander
<1> QED
  BY <1>9, <1>12, <1>13, <1>14, <1>15 DEF FilesInv

\* A search installs the postings of the listing it has.
LEMMA KeepInstalls ==
  ASSUME FilesInv, FilesTypeOK', NEW c \in Calls, LexicalInstalls(c)
  PROVE  FilesInv'
<1>0. /\ FilesTypeOK /\ tool \in [Calls -> CallStates] /\ tool[c] \in CallStates
      /\ context \in ContextStates /\ CallOK(c) /\ ContextOK
      /\ tool[c].pc = "grams" /\ tool[c].todo = {}
  BY DEF FilesInv, FilesTypeOK, LexicalInstalls
<1>a. CASE tool[c].cancelled
  BY <1>0, <1>a, KeepGivesUp DEF LexicalInstalls
<1>b. CASE ~tool[c].cancelled
  <2> DEFINE same == context.gen = tool[c].gen
             posts == {Position(f, tool[c].snap) : f \in tool[c].ids}
  <2>1. context' = Posted(context, tool[c]) /\ tool' = [tool EXCEPT ![c].pc = "pick"]
    BY <1>b DEF LexicalInstalls, Goto
  <2>2. /\ tool'[c] = [tool[c] EXCEPT !.pc = "pick"]
        /\ \A d \in Calls \ {c} : tool'[d] = tool[d]
    BY <1>0, <2>1
  <2>3. /\ tool'[c].pc = "pick" /\ tool'[c].snap = tool[c].snap /\ tool'[c].gen = tool[c].gen
        /\ tool'[c].whole = tool[c].whole /\ tool'[c].moved = tool[c].moved /\ tool'[c].waits = tool[c].waits
    BY <1>0, <2>2 DEF CallStates
  <2>4. /\ ~same => context' = context
        /\ same => context' = [context EXCEPT !.lexGen = tool[c].gen, !.posts = posts]
    BY <2>1 DEF Posted
  <2>5. /\ context'.gen = context.gen /\ context'.snap = context.snap /\ context'.ready = context.ready
        /\ context'.whole = context.whole /\ context'.fresh = context.fresh
        /\ same => context'.lexGen = context.gen /\ context'.posts = posts
    <3> HIDE DEF posts
    <3> QED
      BY <1>0, <2>4 DEF ContextStates
  <2>6. Op(c) = "search" /\ Active(c) /\ Op(c)' = Op(c)
    BY <1>0, StepsTell DEF CallOK, Active, LexicalInstalls, Op
  <2>7. Onward
    BY DEF Onward, LexicalInstalls
  <2>8. Untold
    BY <1>0, <2>2, ReplacersKnown DEF LexicalInstalls
  <2>9. ClaimsHold'
    <3>1. \A d \in Calls : Active(d)' => Active(d)
      BY <2>2, <2>6 DEF Active
    <3> QED
      BY <3>1, ClaimsStay DEF LexicalInstalls
  <2>10. TextsOK'
    BY <2>7, <2>8, TextsStay DEF LexicalInstalls
  <2>11. context.gen \in Nat /\ tool[c].snap \in Listings /\ context.snap \in Listings
    BY <1>0 DEF ContextStates, CallStates
  <2>12. ContextOK'
    <3>1. CASE ~same
      <4>1. \A d \in Calls : tool'[d].gen = tool[d].gen
        BY <2>2, <2>3
      <4> QED
        BY <2>4, <2>7, <2>8, <3>1, <4>1, ContextStays
    <3>2. CASE same
      <4> HIDE DEF posts
      <4>l. PICK list \in Listings : list = context.snap
        BY <2>11
      <4>1. Held' <=> Held
        <5>1. \A d \in Calls : tool'[d].gen = tool[d].gen
          BY <2>2, <2>3
        <5> QED
          BY <2>5, <5>1 DEF Held
      <4>2. /\ ListingOK(list)' /\ (Covers(list) => Covers(list)')
            /\ TrueStamps(list) => TrueStamps(list)'
        <5>1. ListingOK(list)
          BY <1>0, <4>l DEF ContextOK
        <5> QED
          BY <1>0, <2>7, <2>8, <5>1, ListingsOnward
      <4>3. /\ ListingOK(context.snap)'
            /\ Covers(list)' => Covers(context.snap)'
            /\ TrueStamps(list)' => TrueStamps(context.snap)'
        BY <2>5, <4>l, <4>2, OfTheContext
      <4>4. ASSUME context.gen > 0 PROVE Held /\ PostsAre(context.snap, context.posts)'
        <5>1. Held
          BY <3>2, <4>4 DEF Held
        <5>2. Manifest(context.snap) = Manifest(tool[c].snap) /\ TrueStamps(tool[c].snap)
          BY <1>0, <3>2, <4>4 DEF CallOK, ListedOK
        <5>3. ListingOK(context.snap)
          BY <1>0 DEF ContextOK
        <5>4. \A f \in Files : ~BeingReplaced(f)
          BY <2>6, ReadersAreApart
        <5>5. ASSUME NEW e \in context.snap, Standing(e) PROVE Position(e.file, context.snap) \in posts
          <6>1. PICK g \in tool[c].snap : g.file = e.file /\ Standing(g)
            BY <2>11, <5>2, <5>3, <5>4, <5>5, SameStanding
          <6>2. e.file \in tool[c].ids
            BY <1>0, <1>b, <6>1 DEF CallOK, FoundOK
          <6>3. Position(e.file, context.snap) = Position(e.file, tool[c].snap)
            BY <2>11, <5>2, SamePlaces
          <6> QED
            BY <6>2, <6>3 DEF posts
        <5>6. \A e : Standing(e)' <=> Standing(e)
          BY DEF LexicalInstalls, Standing
        <5>7. PostsAre(context.snap, context.posts)'
          BY <2>5, <3>2, <5>5, <5>6 DEF PostsAre
        <5> QED
          BY <5>1, <5>7
      <4>5. context'.ready => context'.gen > 0 /\ (context'.whole => Covers(context.snap)')
        BY <1>0, <2>5, <4>l, <4>2, <4>3 DEF ContextOK
      <4>6. (context'.fresh => Held') /\ (Held' => TrueStamps(context.snap)')
        BY <1>0, <2>5, <4>l, <4>1, <4>2, <4>3 DEF ContextOK
      <4> QED
        BY <2>5, <4>1, <4>3, <4>4, <4>5, <4>6 DEF ContextOK
    <3> QED
      BY <3>1, <3>2
  <2>13. CallOK(c)'
    <3>1. LoadingOK(c)'
      <4>1. tool[c].waits = NoLoad
        BY <1>0 DEF CallOK, LoadingOK
      <4> QED
        BY <2>3, <2>6, <4>1 DEF LoadingOK, StepsOf
    <3>2. ListedOK(c)'
      BY <1>0, <2>3, <2>5, <2>7, <2>8, SameListing DEF Lexical
    <3>3. ReadOK(c)' /\ EditOK(c)'
      BY <2>6 DEF ReadOK, EditOK, Writers
    <3>4. ~tool'[c].moved => context'.lexGen = context'.gen
      <4>1. ~tool[c].moved => same
        BY <1>0 DEF CallOK, ListedOK, Lexical
      <4> QED
        BY <2>3, <2>5, <4>1
    <3>5. FoundOK(c)'
      BY <2>3, <3>4 DEF FoundOK
    <3> QED
      BY <3>1, <3>2, <3>3, <3>5 DEF CallOK
  <2>14. ASSUME NEW d \in Calls, d # c PROVE CallOK(d)'
    <3>1. Stays(d)
      BY <2>2, <2>14 DEF Stays
    <3>2. context.lexGen = context.gen => context'.lexGen = context'.gen
      BY <2>4, <2>5
    <3>3. workspace' = workspace
      BY DEF LexicalInstalls
    <3>4. Beside(d)
      BY <2>5, <2>8, <2>11, <3>2, <3>3 DEF Beside
    <3> QED
      BY <2>7, <3>1, <3>4, Bystander
  <2> QED
    BY <2>9, <2>10, <2>12, <2>13, <2>14 DEF FilesInv
<1> QED
  BY <1>a, <1>b

\* The context is told of a change: no search has its new generation, so that
\* nothing that is held, posted or cached answers for it.
LEMMA KeepBumped ==
  ASSUME FilesInv, FilesTypeOK', NEW c \in Calls,
         tool[c].pc \in {"invalidate", "after"},
         context'.gen = context.gen + 1, context'.lexGen = 0, ~context'.fresh,
         context'.snap = context.snap, context'.ready = context.ready, context'.whole = context.whole,
         UNCHANGED <<plan, workspace, loads, overtaken>>,
         tool'[c] = [tool[c] EXCEPT !.pc = "done", !.ok = TRUE],
         \A d \in Calls : d # c => tool'[d] = [tool[d] EXCEPT !.moved = TRUE],
         \A g \in Files : cached'[g] = cached[g] \/ ~cached'[g].in,
         tool[c].pc = "invalidate" => ~cached'[Target(c)].in
  PROVE  FilesInv'
<1>0. /\ FilesTypeOK /\ tool \in [Calls -> CallStates] /\ tool[c] \in CallStates
      /\ context \in ContextStates /\ CallOK(c) /\ ContextOK /\ TextsOK /\ ClaimsHold
      /\ \A d \in Calls : tool[d].gen \in Nat /\ tool[d].gen <= context.gen
  BY DEF FilesInv, FilesTypeOK, CallStates, CallOK, ListedOK
<1>n. /\ context.gen \in Nat /\ context'.gen \in Nat /\ context'.gen > context.gen /\ context'.gen > 0
      /\ context'.gen # context.gen /\ context.gen <= context'.gen
  <2>1. context.gen \in Nat
    BY <1>0 DEF ContextStates
  <2> QED
    BY <2>1
<1>2. /\ tool'[c].pc = "done" /\ tool'[c].ok = TRUE /\ tool'[c].snap = tool[c].snap /\ tool'[c].gen = tool[c].gen
      /\ tool'[c].waits = tool[c].waits /\ tool'[c].replaced = tool[c].replaced /\ tool'[c].lost = tool[c].lost
  <2>1. tool'[c] = [tool[c] EXCEPT !.pc = "done", !.ok = TRUE]
    OBVIOUS
  <2> QED
    BY <1>0, <2>1 DEF CallStates
<1>3. \A d \in Calls : d # c => tool'[d].pc = tool[d].pc /\ tool'[d].gen = tool[d].gen /\ tool'[d].moved = TRUE
  <2> SUFFICES ASSUME NEW d \in Calls, d # c
               PROVE  tool'[d].pc = tool[d].pc /\ tool'[d].gen = tool[d].gen /\ tool'[d].moved = TRUE
    OBVIOUS
  <2>1. tool'[d] = [tool[d] EXCEPT !.moved = TRUE] /\ tool[d] \in CallStates
    BY <1>0
  <2> QED
    BY <2>1 DEF CallStates
<1>c. Op(c) \in Writers \cup {"shell"} /\ Active(c)
      /\ (tool[c].pc = "invalidate" => Op(c) \in Writers) /\ (tool[c].pc = "after" => Op(c) = "shell")
  BY <1>0, StepsTell DEF CallOK, Active, Op, FilesTypeOK, Writers
<1>4. Op(c)' = Op(c) /\ Target(c)' = Target(c) /\ Op(c) \notin {"read", "search"}
  BY <1>c DEF Op, Target, Writers
<1>5. Onward
  BY DEF Onward
<1>6. ClaimsHold'
  <2>1. \A d \in Calls : Active(d)' => Active(d)
    BY <1>c, <1>3 DEF Active
  <2> QED
    BY <2>1, ClaimsStay
<1>7. ContextOK'
  <2>1. ~Held'
    <3>1. \A d \in Calls : tool'[d].gen = tool[d].gen
      BY <1>2, <1>3
    <3> QED
      BY <1>0, <1>n, <3>1 DEF Held
  <2>l. PICK list \in Listings : list = context.snap
    BY <1>0 DEF ContextStates
  <2>2. /\ ListingOK(list)'
        /\ Covers(list) => Covers(list)'
    <3>1. ListingOK(list)
      BY <1>0, <2>l DEF ContextOK
    <3> QED
      BY <1>0, <1>5, <3>1, ListingsOnward
  <2>3. /\ ListingOK(context.snap)'
        /\ Covers(list)' => Covers(context.snap)'
    BY <2>l, <2>2, OfTheContext
  <2>4. context'.ready => context'.gen > 0 /\ (context'.whole => Covers(context.snap)')
    BY <1>0, <1>n, <2>l, <2>2, <2>3 DEF ContextOK
  <2> QED
    BY <1>n, <2>1, <2>3, <2>4 DEF ContextOK
<1>8. TextsOK'
  <2> SUFFICES ASSUME NEW g \in Files
               PROVE
    /\ cached'[g].in => cached'[g].stamp <= workspace'[g].stamp
    /\ (g \notin overtaken' /\ loads'[g].on) =>
         loads'[g].text = workspace'[g].text /\ loads'[g].ver = workspace'[g].ver
    /\ (g \notin overtaken' /\ cached'[g].in /\ cached'[g].stamp = workspace'[g].stamp
          /\ ~BeingReplaced(g)') =>
         cached'[g].text = workspace'[g].text /\ cached'[g].ver = workspace'[g].ver
    BY DEF TextsOK
  <2>1. CASE cached'[g].in
    <3>1. cached'[g] = cached[g] /\ (tool[c].pc = "invalidate" => g # Target(c))
      BY <2>1
    <3>2. BeingReplaced(g) => BeingReplaced(g)'
      <4> SUFFICES ASSUME NEW d \in Calls, Op(d) \in Writers, Target(d) = g, tool[d].pc = "invalidate"
                   PROVE  BeingReplaced(g)'
        BY DEF BeingReplaced
      <4>1. d # c
        BY <3>1
      <4>2. Op(d)' \in Writers /\ Target(d)' = g /\ tool'[d].pc = "invalidate"
        BY <1>3, <4>1 DEF Op, Target
      <4> QED
        BY <4>2 DEF BeingReplaced, Writers
    <3> QED
      BY <1>0, <3>1, <3>2 DEF TextsOK
  <2>2. CASE ~cached'[g].in
    BY <1>0, <2>2 DEF TextsOK
  <2> QED
    BY <2>1, <2>2
<1>9. CallOK(c)'
  <2>1. LoadingOK(c)'
    <3>1. tool[c].waits = NoLoad
      BY <1>0 DEF CallOK, LoadingOK, Loading
    <3> QED
      BY <1>2, <3>1 DEF LoadingOK
  <2>2. ReadOK(c)' /\ FoundOK(c)'
    BY <1>2, <1>4 DEF ReadOK, FoundOK
  <2>3. EditOK(c)'
    BY <1>0, <1>2, <1>4, <1>c DEF CallOK, EditOK, Writers
  <2>4. ListedOK(c)'
    <3>l. PICK list \in Listings : list = tool[c].snap
      BY <1>0 DEF CallStates
    <3>1. ListingOK(list)'
      BY <1>0, <1>5, <3>l, ListingsOnward DEF CallOK, ListedOK
    <3>2. ListingOK(tool[c].snap)'
      BY <1>2, <3>l, <3>1, OfACall
    <3>3. tool'[c].gen <= context'.gen /\ tool'[c].gen # context'.gen
      BY <1>0, <1>n, <1>2
    <3> QED
      BY <1>2, <1>4, <3>2, <3>3 DEF ListedOK, Lexical
  <2> QED
    BY <2>1, <2>2, <2>3, <2>4 DEF CallOK
<1>10. ASSUME NEW d \in Calls, d # c PROVE CallOK(d)'
  <2>1. Stays(d)
    BY <1>10 DEF Stays
  <2>2. tool[d].pc # "adopt"
    <3> SUFFICES ASSUME tool[d].pc = "adopt" PROVE FALSE
      OBVIOUS
    <3>1. LoadingOK(d)
      BY DEF FilesInv, CallOK
    <3>2. Op(d) = "search" /\ Active(d)
      BY <3>1, StepsTell DEF Active
    <3> QED
      BY <1>0, <1>c, <1>10, <3>2 DEF ClaimsHold
  <2>3. context.gen <= context'.gen /\ context'.gen # context.gen
    BY <1>n
  <2>4. Beside(d)
    BY <1>3, <1>10, <2>2, <2>3 DEF Beside
  <2> QED
    BY <1>5, <2>1, <2>4, Bystander
<1> QED
  BY <1>6, <1>7, <1>8, <1>9, <1>10 DEF FilesInv

LEMMA BumpedIs ==
  ASSUME FilesInv
  PROVE  /\ Bumped.gen = context.gen + 1 /\ Bumped.lexGen = 0 /\ ~Bumped.fresh
         /\ Bumped.snap = context.snap /\ Bumped.ready = context.ready /\ Bumped.whole = context.whole
  BY DEF Bumped, FilesInv, FilesTypeOK, ContextStates

LEMMA KeepInvalidate ==
  ASSUME FilesInv, FilesTypeOK', NEW c \in Calls, InvalidateTarget(c)
  PROVE  FilesInv'
<1>1. \A g \in Files : cached'[g] = IF g \in Dropped(Target(c)) THEN NoEntry ELSE cached[g]
  BY DEF InvalidateTarget
<1>2. \A g \in Files : cached'[g] = cached[g] \/ ~cached'[g].in
  BY <1>1 DEF NoEntry
<1>3. Target(c) \in Files
  BY DEF FilesInv, FilesTypeOK, Target
<1>4. ~cached'[Target(c)].in
  BY <1>1, <1>3 DEF Dropped, NoEntry
<1>5. /\ tool'[c] = [tool[c] EXCEPT !.pc = "done", !.ok = TRUE]
      /\ \A d \in Calls : d # c => tool'[d] = [tool[d] EXCEPT !.moved = TRUE]
  BY DEF InvalidateTarget
<1> QED
  BY <1>2, <1>4, <1>5, BumpedIs, KeepBumped DEF InvalidateTarget

LEMMA KeepShellEnds ==
  ASSUME FilesInv, FilesTypeOK', NEW c \in Calls, ShellEnds(c)
  PROVE  FilesInv'
<1>1. /\ tool'[c] = [tool[c] EXCEPT !.pc = "done", !.ok = TRUE]
      /\ \A d \in Calls : d # c => tool'[d] = [tool[d] EXCEPT !.moved = TRUE]
  BY DEF ShellEnds
<1> QED
  BY <1>1, BumpedIs, KeepBumped DEF ShellEnds, AfterShell

LEMMA FilesStep == FilesInv /\ [FilesNext]_fileVars => FilesInv'
<1> SUFFICES ASSUME FilesInv, [FilesNext]_fileVars PROVE FilesInv'
  OBVIOUS
<1>1. CASE UNCHANGED fileVars
  <2>1. FilesTypeOK' /\ ClaimsHold' /\ TextsOK'
    BY <1>1 DEF fileVars, FilesInv, FilesTypeOK, ClaimsHold, TextsOK, BeingReplaced, Op, Target, Active
  <2>2. Onward
    BY <1>1 DEF Onward, fileVars
  <2>3. Untold
    BY <1>1, ReplacersKnown DEF fileVars
  <2>4. ContextOK'
    BY <1>1, <2>1, <2>2, <2>3, ContextStays DEF fileVars
  <2>5. ASSUME NEW d \in Calls PROVE CallOK(d)'
    <3>1. Stays(d) /\ context.gen \in Nat
      BY <1>1 DEF Stays, fileVars, FilesInv, FilesTypeOK, ContextStates
    <3>2. Beside(d)
      BY <1>1, <2>3, <3>1 DEF Beside, fileVars
    <3> QED
      BY <2>1, <2>2, <3>1, <3>2, Bystander
  <2> QED
    BY <2>1, <2>4, <2>5 DEF FilesInv
<1>2. CASE FilesNext
  <2>0. FilesTypeOK'
    BY <1>2, FilesTypeStep DEF FilesInv
  <2>1. CASE Ages
    BY <2>0, <2>1, KeepAges
  <2>2. ASSUME NEW f \in Files, OutsideChange(f) \/ LoadEnds(f) PROVE FilesInv'
    BY <2>0, <2>2, KeepOutside, KeepLoadEnds
  <2>3. ASSUME NEW c \in Calls, Begins(c) \/ CancelTool(c) \/ LeavesLoad(c) PROVE FilesInv'
    BY <2>0, <2>3, KeepBegins, KeepCancel, KeepLeave
  <2>4. ASSUME NEW c \in Calls, RefreshKept(c) \/ RefreshLists(c) \/ RefreshAdopts(c) PROVE FilesInv'
    BY <2>0, <2>4, KeepKept, KeepLists, KeepAdopts
  <2>5. ASSUME NEW c \in Calls, LexicalReady(c) \/ LexicalBuilds(c) \/ LexicalInstalls(c) PROVE FilesInv'
    BY <2>0, <2>5, KeepReady, KeepBuilds, KeepInstalls
  <2>6. ASSUME NEW c \in Calls, SearchPicks(c) \/ SearchEnds(c) PROVE FilesInv'
    BY <2>0, <2>6, KeepPicks, KeepEnds
  <2>7. ASSUME NEW c \in Calls, StatTarget(c) \/ ReadTarget(c) \/ Replace(c) PROVE FilesInv'
    BY <2>0, <2>7, KeepStat, KeepRead, KeepReplace
  <2>8. ASSUME NEW c \in Calls, ReplaceFails(c) PROVE FilesInv'
    BY <2>0, <2>8, KeepFails DEF ReplaceFails
  <2>9. ASSUME NEW c \in Calls, InvalidateTarget(c) \/ ShellRuns(c) \/ ShellEnds(c) PROVE FilesInv'
    BY <2>0, <2>9, KeepInvalidate, KeepShellRuns, KeepShellEnds
  <2>10. ASSUME NEW c \in Calls, NEW f \in Files, LoadHit(c, f) \/ LoadMiss(c, f) \/ LoadSkipped(c, f)
         PROVE  FilesInv'
    BY <2>0, <2>10, KeepHit, KeepMiss, KeepSkipped
  <2> QED
    BY <1>2, <2>1, <2>2, <2>3, <2>4, <2>5, <2>6, <2>7, <2>8, <2>9, <2>10 DEF FilesNext
<1> QED
  BY <1>1, <1>2

\* What the tools rely on is what they tell.
LEMMA FilesFollow == FilesInv => FileToolsAreTrue
<1> SUFFICES ASSUME FilesInv PROVE FileToolsAreTrue
  OBVIOUS
<1>1. ReadIsFresh
  BY DEF ReadIsFresh, FilesInv, CallOK, ReadOK
<1>2. EditsAreHonest
  BY DEF EditsAreHonest, FilesInv, CallOK, EditOK
<1>3. SearchFindsWhatStood
  <2> SUFFICES ASSUME NEW c \in Calls, Op(c) = "search", tool[c].pc = "done", tool[c].ok,
                      ~tool[c].cancelled, ~tool[c].moved,
                      NEW f \in Existing \ overtaken, HasWord(workspace[f].text),
                      \/ \E e \in tool[c].snap : e.file = f /\ e.ver = workspace[f].ver
                      \/ tool[c].whole /\ workspace[f].ver = 0
               PROVE  f \in tool[c].found
    BY DEF SearchFindsWhatStood
  <2>1. CallOK(c) /\ tool[c].snap \in Listings /\ f \in Files
    BY DEF FilesInv, FilesTypeOK, CallStates, Existing
  <2>2. \A e \in tool[c].snap : Standing(e) => e.file \in tool[c].found
    BY <2>1 DEF CallOK, FoundOK
  <2>3. \E e \in tool[c].snap : e.file = f /\ e.ver = workspace[f].ver
    <3>1. CASE tool[c].whole /\ workspace[f].ver = 0
      <4>1. f \in Listed(tool[c].snap)
        BY <2>1, <3>1 DEF CallOK, ListedOK, Covers
      <4>2. PICK e \in tool[c].snap : e.file = f
        BY <4>1 DEF Listed
      <4>3. e.ver <= workspace[f].ver /\ e.ver \in Nat
        BY <2>1, <4>2 DEF CallOK, ListedOK, ListingOK, Listings
      <4> QED
        BY <3>1, <4>2, <4>3
    <3> QED
      BY <3>1
  <2>4. PICK e \in tool[c].snap : e.file = f /\ e.ver = workspace[f].ver
    BY <2>3
  <2>5. Standing(e)
    BY <2>4 DEF Standing
  <2> QED
    BY <2>2, <2>4, <2>5
<1> QED
  BY <1>1, <1>2, <1>3 DEF FileToolsAreTrue

\* What read_file, search_code, write_file and edit_file tell the model is
\* what the workspace held, for any files and any calls beside each other,
\* whatever a cache, a listing or the postings of another search had kept
\* and whatever other programs change.
THEOREM FileToolsAlwaysHold == FilesSpec => []FileToolsAreTrue
<1>1. FilesInit => FilesInv
  BY FilesStart
<1>2. FilesInv /\ [FilesNext]_fileVars => FilesInv'
  BY FilesStep
<1>3. FilesInv => FileToolsAreTrue
  BY FilesFollow
<1> QED
  BY <1>1, <1>2, <1>3, PTL DEF FilesSpec
=============================================================================
