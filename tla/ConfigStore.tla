----------------------------- MODULE ConfigStore -----------------------------
(***************************************************************************)
(* The layered configuration: internal/config/store.go and config.go, the  *)
(* provider manager on top of it (internal/provider/manager.go), and the   *)
(* commands that change it (internal/app/providers.go, tui_backend.go,     *)
(* mcp.go, skills_distribution.go).                                        *)
(*                                                                         *)
(* A store reads the files of its layers once, when it is opened, and      *)
(* keeps them in memory; an update changes the copy of one layer, resolves *)
(* all layers, and replaces that layer's file.  The terminal keeps the     *)
(* store it opened at the start; every command, and every MCP toggle of    *)
(* the terminal, opens a store of its own.                                 *)
(*                                                                         *)
(* Abstractions.  A provider's settings are four fields: "endpoint"        *)
(* (adapter and base URL) and "model", which are required, "option" (the   *)
(* others a patch can carry) and "stop" (accept_tool_calls_with_stop,      *)
(* which no patch carries).  One MCP server stands for the servers and the *)
(* skill registries; its presence and its enabled flag are one value.  The *)
(* scalar settings, the limits they are validated against and Windows'     *)
(* replacement of an open file are left out.                               *)
(***************************************************************************)
EXTENDS Integers, FiniteSets

CONSTANTS
    Providers,    \* provider names
    Values,       \* values of a field in a file or a form, positive numbers
    Sessions,     \* the terminals, each with the store it opened at its start
    Commands,     \* the other processes, and the stores opened for one update
    Starts,       \* what a behaviour may start with: the files [layer -> file], and
                  \* EYLU_PROVIDER and EYLU_MODEL (Missing, Unset when not set)
    MaxUpdates    \* updates of a behaviour

ASSUME ConfigAssumption == Sessions \cap Commands = {} /\ Values \subseteq Nat \ {0}

VARIABLES
    env,          \* the environment, the same for all processes
    stored,       \* the configuration files: [existing layers -> file]
    opened,       \* opened[h]: the store of a holder, or Closed
    jobs,         \* TUI commands between their two calls of the manager
    promised,     \* what the acknowledged changes set, by key
    overwritten,  \* has a store replaced a file it had not read?
    updates

configVars == <<env, stored, opened, jobs, promised, overwritten, updates>>

Unset == 0
NoProvider == "nobody"    \* active_provider = ""
Missing == "missing"   \* active_provider is not in the file
Fields == {"endpoint", "model", "option", "stop"}
Holders == Sessions \cup Commands
NotOpen == [path |-> "none"]

Layers == {"user", "project"}
EmptyFile == [active |-> Missing, providers |-> <<>>, removed |-> {}, server |-> "absent"]
Blank == [f \in Fields |-> Unset]

\* FileConfig: what a file of a layer can hold.
IsFile(file) ==
    \E names \in SUBSET Providers :
        file \in [active : Providers \cup {NoProvider, Missing},
                  providers : [names -> [Fields -> Nat]],
                  removed : SUBSET Providers,
                  server : {"absent", "enabled", "disabled"}]

ASSUME StartsAssumption ==
    \A start \in Starts :
        /\ DOMAIN start.files \subseteq Layers
        /\ \A l \in DOMAIN start.files : IsFile(start.files[l])

-----------------------------------------------------------------------------
(***************************************************************************)
(* Resolving the layers.                                                   *)
(***************************************************************************)
Setting(providers, n, f) == IF n \in DOMAIN providers THEN providers[n][f] ELSE Unset

\* applyFileConfig: the file's values over those below, then its removals.
Overlay(cfg, file) ==
    [active    |-> IF file.active = Missing THEN cfg.active ELSE file.active,
     providers |-> [n \in (DOMAIN cfg.providers \cup DOMAIN file.providers) \ file.removed |->
                      [f \in Fields |-> IF Setting(file.providers, n, f) # Unset
                                        THEN file.providers[n][f]
                                        ELSE Setting(cfg.providers, n, f)]],
     server    |-> IF file.server = "absent" THEN cfg.server ELSE file.server]

\* applyEnvironment: the active provider, and its model.
Environment(cfg) ==
    LET active == IF env.active = Missing THEN cfg.active ELSE env.active
    IN  [cfg EXCEPT !.active = active,
                    !.providers = [n \in DOMAIN @ |->
                        IF n = active /\ env.model # Unset THEN [@[n] EXCEPT !.model = env.model]
                        ELSE @[n]]]

Resolve(files) ==
    LET default == [active |-> NoProvider, providers |-> <<>>, server |-> "absent"]
        Layer(cfg, l) == IF l \in DOMAIN files THEN Overlay(cfg, files[l]) ELSE cfg
    IN  Environment(Layer(Layer(default, "user"), "project"))

\* Config.Validate, ValidateProvider.
ValidProvider(p) == p.endpoint # Unset /\ p.model # Unset
Valid(cfg) ==
    /\ cfg.active \in DOMAIN cfg.providers \cup {NoProvider}
    /\ \A n \in DOMAIN cfg.providers : ValidProvider(cfg.providers[n])

-----------------------------------------------------------------------------
(***************************************************************************)
(* Opening a store and updating it.                                        *)
(***************************************************************************)
\* openStore: updates go to the highest layer that has a file.
WritePath(files) == IF "project" \in DOMAIN files THEN "project" ELSE "user"

OpenOf(files) ==
    LET path == WritePath(files)
        read == IF path \in DOMAIN files THEN files
                ELSE [l \in DOMAIN files \cup {path} |->
                        IF l \in DOMAIN files THEN files[l] ELSE EmptyFile]
    IN  [path |-> path, files |-> read, config |-> Resolve(read)]

OpenStore(h) ==
    /\ opened[h] = NotOpen
    /\ LET store == OpenOf(stored)
       IN  Valid(store.config) /\ opened' = [opened EXCEPT ![h] = store]
    /\ UNCHANGED <<stored, jobs, promised, overwritten, updates>>

\* A process ends, or is killed; with it the commands it was running.
ExitStore(h) ==
    /\ opened[h] # NotOpen
    /\ opened' = [opened EXCEPT ![h] = NotOpen]
    /\ jobs' = {j \in jobs : j.holder # h}
    /\ UNCHANGED <<stored, promised, overwritten, updates>>

\* updateLocked saves only files that resolve to a valid configuration.
Checked(files) == Valid(Resolve(files))
Accepts(files) == Checked(files)

\* saveConfigBytes: a complete file is renamed over the old one.
Saved(layer, file) ==
    stored' = [l \in DOMAIN stored \cup {layer} |-> IF l = layer THEN file ELSE stored[l]]

\* updateLocked: the changed copy of one layer is resolved with the others and
\* replaces the file; the store's memory follows.  The change is acknowledged.
Update(h, layer, file, promise) ==
    LET files == [opened[h].files EXCEPT ![layer] = file]
    IN  /\ Accepts(files)
        /\ updates < MaxUpdates /\ updates' = updates + 1
        /\ Saved(layer, file)
        /\ overwritten' = (overwritten \/
              IF layer \in DOMAIN stored THEN stored[layer] # opened[h].files[layer]
              ELSE opened[h].files[layer] # EmptyFile)
        /\ opened' = [opened EXCEPT ![h].files = files, ![h].config = Resolve(files)]
        /\ promised' = promise

Mine(h) == opened[h].files[opened[h].path]

\* Store.UpdateProvider: the patch over the entry of the written layer.
Patched(file, n, patch, activate) ==
    [file EXCEPT
       !.providers = [m \in DOMAIN @ \cup {n} |->
           IF m # n THEN @[m]
           ELSE [f \in Fields |-> IF f \in DOMAIN patch THEN patch[f] ELSE Setting(@, n, f)]],
       !.removed = @ \ {n},
       !.active = IF activate THEN n ELSE @]

\* Store.DeleteProvider: the lower layers keep their entry, the file names it removed.
WithoutAndNamed(file, n, active) ==
    [file EXCEPT !.providers = [m \in DOMAIN @ \ {n} |-> @[m]],
                 !.removed = @ \cup {n}, !.active = active]
\* Mutant: the entry is deleted and its name is not kept.
WithoutOnly(file, n, active) ==
    [file EXCEPT !.providers = [m \in DOMAIN @ \ {n} |-> @[m]], !.active = active]
Without(file, n, active) == WithoutAndNamed(file, n, active)

-----------------------------------------------------------------------------
(***************************************************************************)
(* The provider manager.                                                   *)
(***************************************************************************)
Promise(n, settings, active) ==
    [promised EXCEPT !.providers[n] = settings, !.active = active]

\* ApplyProviderPatch.
Apply(settings, patch) == [f \in Fields |-> IF f \in DOMAIN patch THEN patch[f] ELSE settings[f]]

\* UpsertPatch.  The first provider becomes the active one.
Upsert(h, n, patch, activate) ==
    LET config == opened[h].config
        current == [f \in Fields |-> Setting(config.providers, n, f)]
        first == activate \/ config.active = NoProvider
    IN  /\ ValidProvider(Apply(current, patch))
        /\ Update(h, opened[h].path, Patched(Mine(h), n, patch, first),
                  [Promise(n, Apply(promised.providers[n], patch), IF first THEN n ELSE promised.active)
                      EXCEPT !.gone = @ \ {n}])

\* Use.
Use(h, n) ==
    /\ opened[h] # NotOpen /\ n \in DOMAIN opened[h].config.providers
    /\ Update(h, opened[h].path, [Mine(h) EXCEPT !.active = n], [promised EXCEPT !.active = n])
    /\ UNCHANGED jobs

\* Delete: the active provider needs a replacement, or a single other one.
Delete(h, n, replacement) ==
    LET config == opened[h].config
        others == DOMAIN config.providers \ {n}
        next == IF config.active # n THEN {config.active}
                ELSE IF replacement # NoProvider THEN {replacement} \cap others
                ELSE IF Cardinality(others) = 1 THEN others
                ELSE IF others = {} THEN {NoProvider} ELSE {}
    IN  /\ n \in DOMAIN config.providers
        /\ \E active \in next :
             Update(h, opened[h].path, Without(Mine(h), n, active),
                    [Promise(n, Blank, active) EXCEPT !.gone = @ \cup {n}])

\* mcpServerSourceLocked: the highest layer that has the server.
ServerSource(files) ==
    LET has == {l \in DOMAIN files : files[l].server # "absent"}
    IN  IF "project" \in has THEN {"project"} ELSE has

\* SetMCPServerEnabled.
Toggle(h, enabled) ==
    /\ opened[h] # NotOpen
    /\ \E l \in ServerSource(opened[h].files) :
         Update(h, l, [opened[h].files[l] EXCEPT !.server = enabled],
                [promised EXCEPT !.server = enabled])
    /\ UNCHANGED jobs

-----------------------------------------------------------------------------
(***************************************************************************)
(* The commands.                                                           *)
(***************************************************************************)
\* providers add and edit, onboarding.
SaveProvider(h, n, patch, activate) ==
    /\ opened[h] # NotOpen
    /\ Upsert(h, n, patch, activate)
    /\ UNCHANGED jobs

\* SetModel of the terminal reads the active provider before it updates.
ChooseModel(h, n, v) ==
    /\ opened[h] # NotOpen /\ n \in DOMAIN opened[h].config.providers
    /\ jobs' = jobs \cup {[holder |-> h, kind |-> "model", name |-> n, value |-> v,
                           active |-> opened[h].config.active = n]}
    /\ UNCHANGED <<stored, opened, promised, overwritten, updates>>

SetModel(j) ==
    /\ j \in jobs /\ j.kind = "model"
    /\ jobs' = jobs \ {j}
    /\ \/ Upsert(j.holder, j.name, [f \in {"model"} |-> j.value], j.active)
       \/ UNCHANGED <<stored, opened, promised, overwritten, updates>>

\* SparseProviderPatch: what is set in the resolved provider, "stop" excepted.
Sparse(p) == [f \in {f \in Fields \ {"stop"} : p[f] # Unset} |-> p[f]]

\* UpsertProvider of the terminal, under another name: the provider is saved
\* under the new name, and then deleted under the old one.
Rename(h, old, new) ==
    /\ h \in Sessions /\ opened[h] # NotOpen
    /\ old # new /\ old \in DOMAIN opened[h].config.providers
    /\ Upsert(h, new, Sparse(opened[h].config.providers[old]), TRUE)
    /\ jobs' = jobs \cup {[holder |-> h, kind |-> "delete", name |-> old, value |-> new, active |-> FALSE]}

Renamed(j) ==
    /\ j \in jobs /\ j.kind = "delete"
    /\ jobs' = jobs \ {j}
    /\ \/ Delete(j.holder, j.name, j.value)
       \/ UNCHANGED <<stored, opened, promised, overwritten, updates>>

\* DeleteProvider, providers delete.
Drop(h, n) ==
    /\ opened[h] # NotOpen
    /\ \E replacement \in Providers \cup {NoProvider} : Delete(h, n, replacement)
    /\ UNCHANGED jobs

\* With files that do not resolve no process gets as far as a store.
ConfigInit ==
    /\ \E start \in Starts : stored = start.files /\ env = start.env
    /\ Valid(Resolve(stored))
    /\ opened = [h \in Holders |-> NotOpen]
    /\ jobs = {} /\ overwritten = FALSE /\ updates = 0
    /\ promised = [providers |-> [n \in Providers |-> Blank], gone |-> {},
                   active |-> Missing, server |-> "absent"]

ConfigStep ==
    \/ \E h \in Holders : OpenStore(h) \/ ExitStore(h)
    \/ \E h \in Holders, n \in Providers :
         \/ Use(h, n) \/ Drop(h, n)
         \/ \E v \in Values, activate \in BOOLEAN :
              \/ SaveProvider(h, n, [f \in {"endpoint", "model"} |-> v], activate)
              \/ SaveProvider(h, n, [f \in {"option"} |-> v], activate)
         \/ h \in Sessions /\ \E v \in Values : ChooseModel(h, n, v)
         \/ \E new \in Providers : Rename(h, n, new)
    \/ \E h \in Commands, enabled \in {"enabled", "disabled"} : Toggle(h, enabled)
    \/ \E j \in jobs : SetModel(j) \/ Renamed(j)

ConfigNext == ConfigStep /\ UNCHANGED env

ConfigSpec == ConfigInit /\ [][ConfigNext]_configVars

-----------------------------------------------------------------------------
(***************************************************************************)
(* Properties                                                              *)
(***************************************************************************)
\* The configuration can be loaded again after every change, kill or failure in
\* the middle of a rename, and whichever stores raced: openStore never meets
\* files that this program wrote and does not accept.
LoadsAgain == Valid(Resolve(stored))

\* What the acknowledged changes set is what a new store reads.
Keeps(cfg) ==
    /\ promised.gone \cap DOMAIN cfg.providers = {}
    /\ \A n \in Providers, f \in Fields :
         promised.providers[n][f] # Unset =>
            \/ Setting(cfg.providers, n, f) = promised.providers[n][f]
            \/ f = "model" /\ n = cfg.active /\ env.model # Unset
    /\ promised.active = Missing \/ env.active # Missing \/ cfg.active = promised.active
    /\ promised.server = "absent" \/ cfg.server = promised.server

\* A deleted provider does not come back from a lower layer, and a saved field, the
\* active provider and a toggled server are the effective ones after a restart,
\* unless a store has replaced a file that another one had changed since it read it.
AcknowledgedChangesHold == ~overwritten => Keeps(Resolve(stored))

\* What a new store finds after any changes, kills and failures of updateLocked:
\* files it accepts, with everything that has been acknowledged.
SettingsHold == LoadsAgain /\ AcknowledgedChangesHold
=============================================================================
