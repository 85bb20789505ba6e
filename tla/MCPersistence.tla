---------------------------- MODULE MCPersistence ----------------------------
(***************************************************************************)
(* Small instances of what Eylu keeps on a disk and reads again: the event   *)
(* log of a session when no write is torn, the configuration files, the      *)
(* team's skills, the credentials of remote servers, and the files of the    *)
(* workspace under its tools.  They share no state, and one run checks them: *)
(* part says which one moves.                                                *)
(***************************************************************************)
EXTENDS MCSessionStore, ConfigStore, SkillInstall, OAuthCredentials, CodeFiles

VARIABLE part

EntryOf(v) == [endpoint |-> v, model |-> v, option |-> v, stop |-> Unset]
UserFile == [active |-> "p", providers |-> [n \in {"p"} |-> EntryOf(1)], removed |-> {},
             server |-> "enabled"]
ProjectFile == [EmptyFile EXCEPT !.providers = [n \in {"p"} |-> [Blank EXCEPT !.model = 1]]]
User == [l \in {"user"} |-> UserFile]
Both == [l \in {"user", "project"} |-> IF l = "user" THEN UserFile ELSE ProjectFile]
NoEnv == [active |-> Missing, model |-> Unset]

\* No file; the user's file, and EYLU_PROVIDER; a project's file beside it, and EYLU_MODEL.
MCStarts == { [files |-> <<>>, env |-> NoEnv],
              [files |-> User, env |-> [NoEnv EXCEPT !.active = "p"]],
              [files |-> Both, env |-> NoEnv],
              [files |-> Both, env |-> [NoEnv EXCEPT !.model = 9]] }

\* Two goroutines of one process, and another process.
MCProcessOf == [c \in {"a1", "a2", "b1"} |-> IF c = "b1" THEN "B" ELSE "A"]

\* Searches around a command; reads around a write; edits of a text that has been
\* read; two creations of one file.
Do(op, f) == [op |-> op, file |-> f]
MCPlans ==
  { <<Do("search", 1), Do("shell", 2), Do("search", 1)>>,
    <<Do("read", 1), Do("write", 1), Do("read", 1)>>,
    <<Do("read", 1), Do("edit", 1), Do("edit", 1)>>,
    <<Do("create", 2), Do("create", 2), Do("read", 2)>> }

\* Where searches run, another program's change and a cancellation do not meet.
OneDisturbance ==
  (\E c \in Calls : Op(c) = "search") =>
    outside + Cardinality({c \in Calls : tool[c].cancelled}) <= 1

MCInit ==
  /\ part \in {"log", "settings", "skills", "credentials", "workspace"}
  /\ Init /\ ConfigInit /\ InstallInit /\ OAuthInit /\ FilesInit
  /\ part # "log" => legacy = 0
  /\ part # "settings" => stored = <<>>
  /\ part # "credentials" => file = NoCredential
  /\ part # "workspace" =>
       plan = (CHOOSE p \in Plans : TRUE) /\ \A f \in Files : ~workspace[f].there
  /\ (\A c \in Calls : Op(c) # "search") => \A f \in Existing : HasWord(workspace[f].text)

MCNext ==
  /\ \/ part = "log" /\ Next
           /\ UNCHANGED <<configVars, installVars, oauthVars, fileVars>>
     \/ part = "settings" /\ ConfigNext
           /\ UNCHANGED <<vars, installVars, oauthVars, fileVars>>
     \/ part = "skills" /\ InstallNext
           /\ UNCHANGED <<vars, configVars, oauthVars, fileVars>>
     \/ part = "credentials" /\ OAuthNext
           /\ UNCHANGED <<vars, configVars, installVars, fileVars>>
     \/ part = "workspace" /\ FilesNext /\ OneDisturbance'
           /\ UNCHANGED <<vars, configVars, installVars, oauthVars>>
  /\ UNCHANGED part

MCSpec == MCInit /\ [][MCNext]_<<vars, configVars, installVars, oauthVars, fileVars, part>>
=============================================================================
