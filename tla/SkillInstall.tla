---------------------------- MODULE SkillInstall ----------------------------
(***************************************************************************)
(* Installation of signed skills (internal/skilldist/install.go) by the    *)
(* commands skills install and skills update (internal/app/skills_         *)
(* distribution.go), in the team scope: the directory of a skill is        *)
(* replaced by a verified tree, and the team's lock file lists it.         *)
(*                                                                         *)
(* An installer is a process.  A tree that is complete and verified is its *)
(* version; Broken is a tree of which some files are missing.  The package *)
(* and its digests are verified in the staging directory, which only its   *)
(* installer sees.  Other scopes are the same without the lock file.       *)
(***************************************************************************)
EXTENDS Integers, FiniteSets

CONSTANTS
    Installers,
    Skills,
    MaxVersion,    \* versions in the registry are 1 .. MaxVersion
    MaxFailures,   \* steps that fail, and kills
    MaxInstalls    \* installations of a behaviour

ASSUME InstallAssumption == MaxVersion \in Nat \ {0} /\ MaxFailures \in Nat /\ MaxInstalls \in Nat

VARIABLES
    target,        \* target[s]: the tree in the skill's directory
    teamLock,      \* teamLock[s]: the version in the lock file, or Absent
    inst,          \* inst[i]
    backups,       \* backups left behind, out of a skill's place: <<skill, tree>>
    before,        \* ghost: skills installed by now
    killed,        \* ghost: where installers were killed: <<skill, step>>
    stuck,         \* ghost: where undoing an installation failed: <<skill, step>>
    overlapped,    \* ghost: have two installers worked at the same time?
    contended,     \* ghost: skills that two installers have worked on at the same time
    failures,
    installs

installVars == <<target, teamLock, inst, backups, before, killed, stuck, overlapped, contended, failures, installs>>

Absent == 0
Broken == -1
Versions == 1 .. MaxVersion
IdleInst == [at |-> "idle", skill |-> "none", version |-> 0, staging |-> Absent, backup |-> Absent,
             lock |-> <<>>]
Working(i) == inst[i].at # "idle"
Complete(tree) == tree \in Versions

\* The old tree is aside, in the installer's backup.
Aside(i) == inst[i].at \in {"in", "write", "remove", "removing", "back"}
\* The backup stays behind when its installer ends; there is none of an absent tree.
BackupStays(i) ==
    backups' = IF inst[i].backup = Absent THEN backups
               ELSE backups \cup {<<inst[i].skill, inst[i].backup>>}

Go(i, at) == inst' = [inst EXCEPT ![i].at = at]
Done(i) == inst' = [inst EXCEPT ![i] = IdleInst]
Fault == failures < MaxFailures /\ failures' = failures + 1

-----------------------------------------------------------------------------
\* Registry.Select: a chosen version, or the latest; LatestUpdate refuses to go back.
Select(update, s, v) == IF update THEN v = MaxVersion /\ v > target[s] ELSE v \in Versions

\* The target is absent, or managed: it has a manifest, which only a complete tree
\* has for sure.
BeginInstall(i, s, v) ==
    /\ ~Working(i) /\ installs < MaxInstalls /\ installs' = installs + 1
    /\ \E update \in BOOLEAN : (update => Complete(target[s])) /\ Select(update, s, v)
    /\ inst' = [inst EXCEPT ![i] = [IdleInst EXCEPT !.at = "stage", !.skill = s, !.version = v]]
    /\ overlapped' = (overlapped \/ \E j \in Installers : Working(j))
    /\ contended' = IF \E j \in Installers : inst[j].skill = s THEN contended \cup {s} ELSE contended
    /\ UNCHANGED <<target, teamLock, backups, before, killed, stuck, failures>>

\* Download, extraction and verification in the staging directory, which ends with the
\* manifest.  A failure removes the staging directory.
StagedWhole(i) == [inst EXCEPT ![i].at = "lock", ![i].staging = inst[i].version]
Staged(i) == StagedWhole(i)

Stage(i) ==
    /\ inst[i].at = "stage"
    /\ inst' = Staged(i)
    /\ UNCHANGED <<target, teamLock, backups, before, killed, stuck, overlapped, contended, failures, installs>>

\* So does one of the lock file's reading, and of the first rename.
GivesUp(i) ==
    /\ inst[i].at \in {"stage", "lock", "away"} /\ Fault /\ Done(i)
    /\ UNCHANGED <<target, teamLock, backups, before, killed, stuck, overlapped, contended, installs>>

\* prepareTeamLock reads the lock file and sets the skill's line.
LockWith(i) == [teamLock EXCEPT ![inst[i].skill] = inst[i].version]
NewLock(i) == LockWith(i)

ReadLock(i) ==
    /\ inst[i].at = "lock"
    /\ inst' = [inst EXCEPT ![i].at = "away", ![i].lock = NewLock(i)]
    /\ UNCHANGED <<target, teamLock, backups, before, killed, stuck, overlapped, contended, failures, installs>>

\* replaceDirectory: the old tree is renamed to a backup ...
MoveAway(i) ==
    /\ inst[i].at = "away"
    /\ inst' = [inst EXCEPT ![i].at = "in", ![i].backup = target[inst[i].skill]]
    /\ target' = [target EXCEPT ![inst[i].skill] = Absent]
    /\ UNCHANGED <<teamLock, backups, before, killed, stuck, overlapped, contended, failures, installs>>

\* ... and the new one to the target, which must not exist.
MoveIn(i) ==
    /\ inst[i].at = "in" /\ target[inst[i].skill] = Absent
    /\ target' = [target EXCEPT ![inst[i].skill] = inst[i].staging]
    /\ inst' = [inst EXCEPT ![i].at = "write", ![i].staging = Absent]
    /\ UNCHANGED <<teamLock, backups, before, killed, stuck, overlapped, contended, failures, installs>>

\* When that fails, because of a target or for another reason, the backup goes back.
MoveInFails(i) ==
    /\ inst[i].at = "in" /\ Go(i, "back")
    /\ IF target[inst[i].skill] = Absent THEN Fault ELSE UNCHANGED failures
    /\ UNCHANGED <<target, teamLock, backups, before, killed, stuck, overlapped, contended, installs>>

\* writeAtomic of the lock file.
WriteLock(i) ==
    /\ inst[i].at = "write"
    /\ teamLock' = inst[i].lock
    /\ Go(i, "commit")
    /\ UNCHANGED <<target, backups, before, killed, stuck, overlapped, contended, failures, installs>>

WriteLockFails(i) ==
    /\ inst[i].at = "write" /\ Fault /\ Go(i, "remove")
    /\ UNCHANGED <<target, teamLock, backups, before, killed, stuck, overlapped, contended, installs>>

\* Rollback then removes the new tree, file by file ...
RemoveBegins(i) ==
    /\ inst[i].at = "remove" /\ Go(i, "removing")
    /\ target' = [target EXCEPT ![inst[i].skill] = Broken]
    /\ UNCHANGED <<teamLock, backups, before, killed, stuck, overlapped, contended, failures, installs>>

RemoveEnds(i) ==
    /\ inst[i].at = "removing" /\ Go(i, "back")
    /\ target' = [target EXCEPT ![inst[i].skill] = Absent]
    /\ UNCHANGED <<teamLock, backups, before, killed, stuck, overlapped, contended, failures, installs>>

\* The installation ends with what is in place: a step of its undoing has failed.
StaysUndone(i) ==
    /\ stuck' = stuck \cup {<<inst[i].skill, inst[i].at>>} /\ BackupStays(i) /\ Done(i)
    /\ UNCHANGED <<target, teamLock, before, killed, overlapped, contended, installs>>

\* ... and returns, the backup where it is, when RemoveAll fails at its first file or at
\* a later one.
RemoveFails(i) == inst[i].at \in {"remove", "removing"} /\ Fault /\ StaysUndone(i)

\* The rename of the backup, which there is if the skill had a directory.
BackWithBackup(i) == inst[i].backup
\* Mutant: the backup is not renamed back.
BackAlone(i) == Absent
MovedBack(i) == BackWithBackup(i)

MoveBack(i) ==
    /\ inst[i].at = "back" /\ Done(i)
    /\ \/ inst[i].backup = Absent /\ UNCHANGED target
       \/ target[inst[i].skill] = Absent /\ target' = [target EXCEPT ![inst[i].skill] = MovedBack(i)]
    /\ UNCHANGED <<teamLock, backups, before, killed, stuck, overlapped, contended, failures, installs>>

\* It fails; replaceDirectory ignores that, Rollback returns the error.
MoveBackFails(i) ==
    /\ inst[i].at = "back" /\ inst[i].backup # Absent
    /\ IF target[inst[i].skill] = Absent THEN Fault ELSE UNCHANGED failures
    /\ StaysUndone(i)

\* Commit removes the backup; when it cannot, the installation is reported as failed.
Commit(i) ==
    /\ inst[i].at = "commit" /\ Done(i)
    /\ before' = before \cup {inst[i].skill}
    /\ stuck' = {e \in stuck : e[1] # inst[i].skill}
    /\ UNCHANGED <<target, teamLock, backups, killed, overlapped, contended, failures, installs>>

KillInstaller(i) ==
    /\ Working(i) /\ Fault
    /\ killed' = killed \cup {<<inst[i].skill, inst[i].at>>}
    /\ IF Aside(i) THEN BackupStays(i) ELSE UNCHANGED backups
    /\ Done(i)
    /\ UNCHANGED <<target, teamLock, before, stuck, overlapped, contended, installs>>

InstallInit ==
    /\ target = [s \in Skills |-> Absent] /\ teamLock = [s \in Skills |-> Absent]
    /\ inst = [i \in Installers |-> IdleInst]
    /\ backups = {} /\ before = {} /\ killed = {} /\ stuck = {} /\ overlapped = FALSE
    /\ contended = {} /\ failures = 0 /\ installs = 0

InstallStep(i) ==
    \/ \E s \in Skills, v \in Versions : BeginInstall(i, s, v)
    \/ Stage(i) \/ GivesUp(i) \/ ReadLock(i) \/ MoveAway(i) \/ MoveIn(i) \/ MoveInFails(i)
    \/ WriteLock(i) \/ WriteLockFails(i) \/ RemoveBegins(i) \/ RemoveEnds(i) \/ RemoveFails(i)
    \/ MoveBack(i) \/ MoveBackFails(i) \/ Commit(i) \/ KillInstaller(i)

InstallNext == \E i \in Installers : InstallStep(i)
InstallSpec == InstallInit /\ [][InstallNext]_installVars

-----------------------------------------------------------------------------
(***************************************************************************)
(* Properties                                                              *)
(***************************************************************************)
\* The directory of a skill is absent or a complete, verified tree, whatever is
\* killed or fails, except while Rollback removes a tree, and after it was killed or
\* failed halfway through the files; and unless two installers have worked on the
\* skill at the same time.  The next installation that succeeds repairs a failure.
TargetIsWhole ==
    \A s \in Skills \ contended : Complete(target[s]) \/ target[s] = Absent
        \/ <<s, "removing">> \in killed \cup stuck
        \/ \E i \in Installers : inst[i].at = "removing" /\ inst[i].skill = s

\* An installed skill is never lost: at every moment, and after every failure, of the
\* undoing too, and every kill, a complete tree of it is in its directory or in a
\* backup beside it, unless two installers have worked on it at the same time.
InstalledSurvives ==
    \A s \in before \ contended :
        \/ Complete(target[s])
        \/ \E i \in Installers : Aside(i) /\ inst[i].skill = s /\ Complete(inst[i].backup)
        \/ \E b \in backups : b[1] = s /\ Complete(b[2])

\* No undoing of the skill's installation has failed since one succeeded.
Settled(s) == \A e \in stuck : e[1] # s

\* After installations, one after the other, that succeed, or fail and are undone, the
\* lock file lists what is in the directories.
LockTellsTruth ==
    killed = {} /\ ~overlapped /\ (\A i \in Installers : ~Working(i)) =>
        \A s \in Skills : Settled(s) => teamLock[s] = target[s]

\* What an installation leaves on the disk, wherever it stops: whole trees, none of
\* them lost, and a lock file that lists them, with the exceptions named at each.
InstallationsHold == TargetIsWhole /\ InstalledSurvives /\ LockTellsTruth
=============================================================================
