-------------------------- MODULE OAuthCredentials --------------------------
(***************************************************************************)
(* OAuth credentials of a remote MCP server: the credential file with its  *)
(* lock (internal/mcpclient/credentials.go), and the client that logs in,  *)
(* hands out access tokens, refreshes them and logs out (oauth.go,         *)
(* oauth_flow.go, oauth_sdk.go).  Several processes share the file.        *)
(*                                                                         *)
(* A caller makes one call at a time.  Calls for a token that has expired  *)
(* share one refresh per process (golang.org/x/sync/singleflight), which   *)
(* runs under the context of the call that started it and holds the lock   *)
(* of the file while the authorization server answers.                     *)
(*                                                                         *)
(* Abstractions.  One server and no configured client_id, so one key of    *)
(* the file, and clients are registered.  A token is a number; an expiry   *)
(* is a step.  Store.mu and the lock of the file are one lock: a call      *)
(* gives up waiting for it only when another process holds it.  A local    *)
(* read or replacement of the file is one step.  Concurrent logouts of a   *)
(* process, which share one result, are serialized by the lock.  The       *)
(* authorization server is external: it keeps what it has issued, may      *)
(* replace the refresh token at every refresh, and may fail.               *)
(***************************************************************************)
EXTENDS Integers, FiniteSets

CONSTANTS
    Callers,
    ProcessOf,     \* the process of a caller
    Logins,        \* ways to log in: "command" (Authorize), "sdk" (the SDK's handler)
    MaxTokens,     \* refresh tokens the server issues
    MaxClients,    \* clients the server registers
    MaxCalls,      \* calls of a behaviour
    MaxFaults      \* cancellations and kills of a behaviour

ASSUME OAuthAssumption ==
    /\ MaxTokens \in Nat /\ MaxClients \in Nat /\ MaxCalls \in Nat /\ MaxFaults \in Nat
    /\ Logins \subseteq {"command", "sdk"}

\* Callers and processes go by different names, and none is "nobody".
ASSUME NamesAssumption ==
    /\ Callers \cap {ProcessOf[c] : c \in Callers} = {}
    /\ "nobody" \notin Callers \cup {ProcessOf[c] : c \in Callers}

VARIABLES
    file,          \* the stored credential of the server, or NoCredential
    holder,        \* who holds the lock of the file, or NoHolder
    call,          \* call[c]
    flight,        \* flight[p]: the shared refresh of a process
    issued,        \* the server's refresh tokens: issued[t] = [client, grant, live]
    clients,       \* registered clients
    grants,        \* authorizations the user has given
    loggedOut,     \* ghost: grants that a logout has removed
    lost,          \* ghost: refresh tokens that were spent or revoked by a call that
                   \* then failed, or was killed, before it changed the file
    calls,         \* calls made so far
    faults         \* cancellations and kills so far

oauthVars == <<file, holder, call, flight, issued, clients, grants, loggedOut, lost, calls, faults>>

NoCredential == [refresh |-> 0, client |-> 0, grant |-> 0, fresh |-> FALSE, there |-> FALSE]
NoHolder == "nobody"
IdleCall == [op |-> "none", at |-> "idle", seen |-> NoCredential, new |-> NoCredential, cancelled |-> FALSE]
NoFlight == [at |-> "none", leader |-> NoHolder, seen |-> NoCredential, new |-> NoCredential,
             cancelled |-> FALSE]
Processes == {ProcessOf[c] : c \in Callers}
Live(t) == t # 0 /\ issued[t].live

\* usableCredential.
Usable(credential) == credential.fresh

-----------------------------------------------------------------------------
(***************************************************************************)
(* The file and its lock.                                                  *)
(***************************************************************************)
\* A transaction that only reads, or reads and writes at once, needs the lock free.
Unlocked == holder = NoHolder

\* acquireCredentialFileLock: waiting for another process ends with the context.
HeldElsewhere(p) ==
    ~Unlocked /\ (IF holder \in Callers THEN ProcessOf[holder] ELSE holder) # p

\* writeUnlocked: a complete file is renamed over the old one.
Put(credential) == file' = credential

Step(c, at) == call' = [call EXCEPT ![c].at = at]
Return(c) == call' = [call EXCEPT ![c] = IdleCall]

Begin(c, op) ==
    /\ call[c].at = "idle" /\ calls < MaxCalls /\ calls' = calls + 1
    /\ call' = [call EXCEPT ![c] = [IdleCall EXCEPT !.op = op, !.at = "read"]]
    /\ UNCHANGED <<file, holder, flight, issued, clients, grants, loggedOut, lost, faults>>

CancelCall(c) ==
    /\ call[c].at # "idle" /\ ~call[c].cancelled /\ faults < MaxFaults /\ faults' = faults + 1
    /\ call' = [call EXCEPT ![c].cancelled = TRUE]
    /\ flight' = [p \in Processes |-> IF flight[p].leader = c THEN [flight[p] EXCEPT !.cancelled = TRUE]
                                      ELSE flight[p]]
    /\ UNCHANGED <<file, holder, issued, clients, grants, loggedOut, lost, calls>>

\* The call gives up: before the lock, or in the wait for the shared refresh or for
\* the browser.  A logout is not cancelled.
GiveUp(c) ==
    /\ call[c].cancelled /\ call[c].op # "logout"
    /\ \/ call[c].at \in {"refreshing", "browser"}
       \/ call[c].at \in {"read", "register", "store"} /\ HeldElsewhere(ProcessOf[c])
    /\ Return(c)
    /\ UNCHANGED <<file, holder, flight, issued, clients, grants, loggedOut, lost, calls, faults>>

-----------------------------------------------------------------------------
(***************************************************************************)
(* Tokens and their refresh.                                               *)
(***************************************************************************)
\* OAuthClient.Token: a usable token is returned; an expired one that can be
\* refreshed joins the refresh of the process, or starts it.
Token(c) ==
    /\ call[c].op = "token" /\ call[c].at = "read" /\ Unlocked
    /\ IF Usable(file) \/ file.refresh = 0
       THEN Return(c) /\ UNCHANGED flight
       ELSE LET p == ProcessOf[c]
            IN  /\ Step(c, "refreshing")
                /\ flight' = IF flight[p].at # "none" THEN flight
                             ELSE [flight EXCEPT ![p] = [NoFlight EXCEPT !.at = "lock", !.leader = c,
                                         !.seen = file, !.cancelled = call[c].cancelled]]
    /\ UNCHANGED <<file, holder, issued, clients, grants, loggedOut, lost, calls, faults>>

\* The shared refresh ends: all who wait for it get its result.
Land(p) ==
    /\ flight' = [flight EXCEPT ![p] = NoFlight]
    /\ call' = [c \in Callers |-> IF ProcessOf[c] = p /\ call[c].at = "refreshing"
                                  THEN IdleCall ELSE call[c]]

\* The credential a refresh works with is the one it reads under the lock.
ReadAgain(p) == file
Current(p) == ReadAgain(p)

\* refreshUnderLock: another process may have refreshed, logged in or out meanwhile.
Refresh(p) ==
    /\ flight[p].at = "lock" /\ Unlocked
    /\ IF Usable(Current(p)) \/ Current(p).refresh = 0
       THEN Land(p) /\ UNCHANGED holder
       ELSE /\ holder' = p
            /\ flight' = [flight EXCEPT ![p].at = "request", ![p].seen = Current(p)]
            /\ UNCHANGED call
    /\ UNCHANGED <<file, issued, clients, grants, loggedOut, lost, calls, faults>>

\* The authorization server refreshes: the refresh token is kept, or replaced.
ServerRefreshes(p) ==
    /\ flight[p].at = "request" /\ Live(flight[p].seen.refresh)
    /\ LET old == flight[p].seen.refresh
           next == Cardinality(DOMAIN issued) + 1
           Answer(t) == flight' = [flight EXCEPT ![p].at = "answered",
                                       ![p].new = [@ EXCEPT !.refresh = t, !.fresh = TRUE]]
       IN  \/ Answer(old) /\ UNCHANGED issued
           \/ /\ next <= MaxTokens
              /\ issued' = [t \in 1 .. next |->
                              IF t = next THEN [issued[old] EXCEPT !.live = TRUE]
                              ELSE IF t = old THEN [issued[t] EXCEPT !.live = FALSE] ELSE issued[t]]
              /\ Answer(next)
    /\ UNCHANGED <<file, holder, call, clients, grants, loggedOut, lost, calls, faults>>

\* credentialFromTokenResponse: the answer over the credential that was read; the
\* transaction writes it.  The client stays the one the tokens belong to.
Refreshed(p) == [flight[p].seen EXCEPT !.refresh = flight[p].new.refresh, !.fresh = TRUE]

RefreshEnds(p) ==
    /\ flight[p].at = "answered"
    /\ Put(Refreshed(p))
    /\ holder' = NoHolder /\ Land(p)
    /\ UNCHANGED <<issued, clients, grants, loggedOut, lost, calls, faults>>

\* Discovery or the request fails, the server refuses, the starter is cancelled, or
\* the file cannot be written: the lock is given back, and an answer that has come is lost.
RefreshFails(p) ==
    /\ \/ flight[p].at \in {"request", "answered"}
       \/ flight[p].at = "lock" /\ flight[p].cancelled /\ HeldElsewhere(p)
    /\ holder' = IF flight[p].at = "lock" THEN holder ELSE NoHolder
    /\ lost' = IF flight[p].at = "answered" THEN lost \cup {flight[p].seen.refresh} ELSE lost
    /\ Land(p)
    /\ UNCHANGED <<file, issued, clients, grants, loggedOut, calls, faults>>

-----------------------------------------------------------------------------
(***************************************************************************)
(* Logging in and out.                                                     *)
(***************************************************************************)
\* Authorize, SDKHandler: the client of the stored credential is used again.
LoginReads(c) ==
    /\ call[c].op \in Logins /\ call[c].at = "read" /\ Unlocked
    /\ call' = [call EXCEPT ![c].new = file,
                            ![c].at = IF file.client = 0 THEN "register" ELSE "browser"]
    /\ UNCHANGED <<file, holder, flight, issued, clients, grants, loggedOut, lost, calls, faults>>

\* registerDynamicClient.
Register(c) ==
    /\ call[c].op \in Logins /\ call[c].at = "register"
    /\ \/ /\ clients < MaxClients /\ clients' = clients + 1
          /\ call' = [call EXCEPT ![c].new.client = clients', ![c].new.there = TRUE,
                                  ![c].at = IF call[c].op = "sdk" THEN "browser" ELSE "store"]
       \/ Return(c) /\ UNCHANGED clients
    /\ UNCHANGED <<file, holder, flight, issued, grants, loggedOut, lost, calls, faults>>

\* Authorize stores the credential it read with the new client.
WithClient(c) == call[c].new
\* Mutant: the client is set in what is stored now.
WithClientMerged(c) == [file EXCEPT !.client = call[c].new.client, !.there = TRUE]
NewClientEntry(c) == WithClient(c)

ClientStored(c) ==
    /\ call[c].at = "store" /\ Unlocked
    /\ \/ Put(NewClientEntry(c)) /\ Step(c, "browser")
       \/ Return(c) /\ UNCHANGED file
    /\ UNCHANGED <<holder, flight, issued, clients, grants, loggedOut, lost, calls, faults>>

\* The callback arrives and its code is exchanged: the server issues tokens to the
\* client.  Or the wait times out, the user refuses, or the exchange fails.
Exchange(c) ==
    /\ call[c].at = "browser"
    /\ \/ LET next == Cardinality(DOMAIN issued) + 1
              token == [client |-> call[c].new.client, grant |-> grants + 1, live |-> TRUE]
          IN  /\ next <= MaxTokens /\ grants' = grants + 1
              /\ issued' = [t \in 1 .. next |-> IF t = next THEN token ELSE issued[t]]
              /\ call' = [call EXCEPT ![c].at = "keep",
                            ![c].new = [@ EXCEPT !.refresh = next, !.grant = token.grant, !.fresh = TRUE]]
       \/ Return(c) /\ UNCHANGED <<issued, grants>>
    /\ UNCHANGED <<file, holder, flight, clients, loggedOut, lost, calls, faults>>

\* The end of Authorize, and NewTokenSource: the whole credential is replaced.
LoginEnds(c) ==
    /\ call[c].at = "keep" /\ Unlocked
    /\ \/ Put(call[c].new) \/ UNCHANGED file
    /\ Return(c)
    /\ UNCHANGED <<holder, flight, issued, clients, grants, loggedOut, lost, calls, faults>>

\* logoutUnderLock.
LogoutReads(c) ==
    /\ call[c].op = "logout" /\ call[c].at = "read" /\ Unlocked
    /\ IF file.there
       THEN /\ holder' = c
            /\ call' = [call EXCEPT ![c].at = "revoke", ![c].seen = file]
       ELSE Return(c) /\ UNCHANGED holder
    /\ UNCHANGED <<file, flight, issued, clients, grants, loggedOut, lost, calls, faults>>

\* The tokens are revoked; when that fails they are deleted all the same.
Revoke(c) ==
    /\ call[c].at = "revoke"
    /\ Step(c, "delete")
    /\ \/ LET t == call[c].seen.refresh
          IN  t # 0 /\ issued' = [issued EXCEPT ![t].live = FALSE]
       \/ UNCHANGED issued
    /\ UNCHANGED <<file, holder, flight, clients, grants, loggedOut, lost, calls, faults>>

LogoutEnds(c) ==
    /\ call[c].at = "delete"
    /\ \/ Put(NoCredential) /\ loggedOut' = loggedOut \cup ({call[c].seen.grant} \ {0}) /\ UNCHANGED lost
       \/ lost' = lost \cup {call[c].seen.refresh} /\ UNCHANGED <<file, loggedOut>>
    /\ holder' = NoHolder /\ Return(c)
    /\ UNCHANGED <<flight, issued, clients, grants, calls, faults>>

-----------------------------------------------------------------------------
Expire ==
    /\ file.fresh /\ file' = [file EXCEPT !.fresh = FALSE]
    /\ UNCHANGED <<holder, call, flight, issued, clients, grants, loggedOut, lost, calls, faults>>

\* A process is killed: the system gives the lock back.
KillProcess(p) ==
    /\ \E c \in Callers : ProcessOf[c] = p /\ call[c].at # "idle"
    /\ faults < MaxFaults /\ faults' = faults + 1
    /\ call' = [c \in Callers |-> IF ProcessOf[c] = p THEN IdleCall ELSE call[c]]
    /\ flight' = [flight EXCEPT ![p] = NoFlight]
    /\ holder' = IF holder = p \/ \E c \in Callers : holder = c /\ ProcessOf[c] = p
                 THEN NoHolder ELSE holder
    /\ lost' = lost \cup {flight[q].seen.refresh : q \in {q \in {p} : flight[q].at = "answered"}}
                    \cup {call[c].seen.refresh : c \in {c \in Callers : ProcessOf[c] = p /\ call[c].at = "delete"}}
    /\ UNCHANGED <<file, issued, clients, grants, loggedOut, calls>>

\* The file is empty, or has the credential of an earlier login, which may be old.
OAuthInit ==
    /\ holder = NoHolder
    /\ call = [c \in Callers |-> IdleCall]
    /\ flight = [p \in Processes |-> NoFlight]
    /\ \/ file = NoCredential /\ issued = <<>> /\ clients = 0 /\ grants = 0
       \/ /\ \E fresh \in BOOLEAN :
               file = [refresh |-> 1, client |-> 1, grant |-> 1, fresh |-> fresh, there |-> TRUE]
          /\ issued = [t \in {1} |-> [client |-> 1, grant |-> 1, live |-> TRUE]]
          /\ clients = 1 /\ grants = 1
    /\ loggedOut = {} /\ lost = {} /\ calls = 0 /\ faults = 0

CallStep(c) ==
    \/ Token(c) \/ GiveUp(c)
    \/ LoginReads(c) \/ Register(c) \/ ClientStored(c) \/ Exchange(c) \/ LoginEnds(c)
    \/ LogoutReads(c) \/ Revoke(c) \/ LogoutEnds(c)
FlightStep(p) == Refresh(p) \/ ServerRefreshes(p) \/ RefreshEnds(p) \/ RefreshFails(p)

OAuthNext ==
    \/ \E c \in Callers :
         \/ \E op \in Logins \cup {"token", "logout"} : Begin(c, op)
         \/ CancelCall(c) \/ CallStep(c)
    \/ \E p \in Processes : FlightStep(p) \/ KillProcess(p)
    \/ Expire

OAuthSpec == OAuthInit /\ [][OAuthNext]_oauthVars

-----------------------------------------------------------------------------
(***************************************************************************)
(* Properties                                                              *)
(***************************************************************************)
\* The stored refresh token was issued to the stored client, whichever logins and
\* refreshes raced: a token is never presented with another client's identity,
\* which the server would refuse at every refresh.
TokensMatchClient == file.refresh # 0 => issued[file.refresh].client = file.client

\* What a logout has removed does not come back: a refresh that was under way when
\* the user logged out does not store its tokens afterwards.
LoggedOutStaysOut == file.grant \notin loggedOut

\* The server knows every refresh token that is presented, however many calls and
\* processes find the access token expired at once, unless a call has failed after
\* the server had ended the token: no race of refreshes costs the user a new login.
RefreshIsHonoured ==
    \A p \in Processes : flight[p].at = "request" =>
        \/ Live(flight[p].seen.refresh)
        \/ flight[p].seen.refresh \in lost

\* What the credential file holds, however calls of several processes interleave,
\* fail and are killed: tokens of the stored client, of a login still in force, that
\* the server still honours when they are presented.
CredentialsHold == TokensMatchClient /\ LoggedOutStaysOut /\ RefreshIsHonoured
=============================================================================
