--------------------------- MODULE MCConversation ---------------------------
(***************************************************************************)
(* Small instances of Conversation: the calls the host may make, and who of  *)
(* them takes part in a behaviour.                                           *)
(***************************************************************************)
EXTENDS Conversation

CONSTANTS r1, r2,  \* Run
          n1,      \* NewSessionWithEnvironment
          c1,      \* Compact
          s1,      \* RequestStop
          p1,      \* ApplyProviderSnapshot
          m1,      \* ApplyMCPRuntime
          i1       \* an isolated run

VARIABLE cast      \* the calls that may be made in this behaviour

\* Two requests, a rotation and a compaction; two requests and a stop; one request
\* that is stopped beside a rotation; what changes the transcript and the provider
\* of a request from outside.
Casts == {{r1, r2, n1, c1}, {r1, r2, s1}, {r1, n1, s1}, {r1, n1, p1, m1, i1}}

MCInit == Init /\ cast \in Casts

\* Whoever is not in the cast makes no call, and a behaviour may stop when the
\* others have ended.
MCNext ==
  /\ \/ Next /\ \A a \in Actor \ cast : pc'[a] = "idle"
     \/ (\A a \in cast : At(a, "done")) /\ UNCHANGED vars
  /\ UNCHANGED cast

\* The fairness of FairSpec, which nobody owes before a call is made.
MCFairSpec ==
  /\ MCInit /\ [][MCNext]_<<vars, cast>>
  /\ \A r \in Request :
       /\ WF_vars(Attach(r)) /\ WF_vars(Prepare(r)) /\ WF_vars(Enter(r))
       /\ WF_vars(StartRound(r)) /\ WF_vars(Refresh(r)) /\ WF_vars(Settle(r) \/ RefreshForBatch(r))
       /\ WF_vars(Finish(r)) /\ WF_vars(Release(r))
       /\ WF_vars((Answer(r) \/ Batch(r)) /\ (Cancelled(r) \/ r \notin Unresponsive))
  /\ \A n \in Rotator : WF_vars(At(n, "waiting") /\ GraceEnds(n)) /\ WF_vars(Rotate(n)) /\ WF_vars(Release(n))
                        /\ WF_vars(~At(n, "idle") /\ TryAcquire(n))
  /\ \A c \in Compactor : WF_vars(CompactPlan(c)) /\ WF_vars(CompactCommit(c)) /\ WF_vars(Release(c))
=============================================================================
