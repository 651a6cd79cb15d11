---------------------------- MODULE GithubResume ----------------------------
(***************************************************************************)
(* The GitHub provider's checkpoint of one job (GithubJobResumeV1 in       *)
(* crates/rustferry-github/src/provider.rs): the record the provider hands *)
(* to its checkpoint sink, which record may follow which, and which one a  *)
(* later process accepts when it restores the job.                         *)
(*                                                                         *)
(* Identities (principal, repository, request, refs, commits) never change *)
(* in a legal history and are left out: prepared and dispatch only say     *)
(* whether a commit is bound.  The source is an exact Git commit, so there *)
(* is no snapshot section; artifacts are never removed remotely (the       *)
(* controllers pass remove_artifacts = false).                             *)
(***************************************************************************)
EXTENDS Naturals, Sequences

CONSTANTS
    Signed,              \* signing mode: TRUE for ManualDevelopment
    Window,              \* GITHUB_PUBLICATION_QUIESCENCE_WINDOW_MS
    Horizon,             \* the last instant of the clock
    DiscoveryAttempts    \* poll_policy.discovery_attempts

ASSUME ResumeAssumption ==
    /\ Signed \in BOOLEAN
    /\ Window \in Nat \ {0}
    /\ Horizon \in Nat \ {0}
    /\ DiscoveryAttempts \in Nat \ {0}

JobStates == {"Created", "Queued", "Running", "Cancelling", "Succeeded",
              "Failed", "Cancelled", "Cleaning", "Cleaned", "CleanupFailed"}

BuildTerminal == {"Succeeded", "Failed", "Cancelled"}
Terminal == {"Cleaned", "CleanupFailed"}
CleaningStates == {"Cleaning"} \cup Terminal

\* JobState::can_transition_to
WireNext ==
    [s \in JobStates |->
        CASE s = "Created"    -> {"Queued", "Running", "Cancelling", "Cancelled", "Failed"}
          [] s = "Queued"     -> {"Running", "Cancelling", "Cancelled", "Failed"}
          [] s = "Running"    -> {"Succeeded", "Failed", "Cancelling", "Cancelled"}
          [] s = "Cancelling" -> {"Cancelled", "Failed"}
          [] s \in BuildTerminal -> {"Cleaning"}
          [] s = "Cleaning"   -> {"Cleaned", "CleanupFailed"}
          [] OTHER            -> {}]

\* transition_record: a cleanup retry may reopen CleanupFailed
CanTransition(s, t) == s = t \/ t \in WireNext[s] \/ (s = "CleanupFailed" /\ t = "Cleaning")

(***************************************************************************)
(* A run as GET reports it: not mapped, waiting, executing, or completed   *)
(* with a conclusion.                                                      *)
(***************************************************************************)
Conclusions == {"success", "cancelled", "failure"}
RunViews == {"none", "queued", "in_progress"} \cup Conclusions

Completed(run) == run \in Conclusions

\* run_status_phase
RunPhase(run) == CASE run = "none" -> 0 [] run = "queued" -> 1
                   [] run = "in_progress" -> 2 [] OTHER -> 3

Never == Horizon + Window + 1     \* u64::MAX
Instants == 0 .. Never

\* Events that carry evidence, with the process whose clock stamped them
EventKinds == {"created", "queued", "mapped", "started", "artifact", "succeeded",
               "failed", "cancelled", "cleanup_started", "cleanup_confirmed",
               "cleanup_refused", "warning"}

Event(kind, by) == [kind |-> kind, by |-> by]

ResumeFields(Stampers) ==
    [state : JobStates, prepared : BOOLEAN, dispatch : BOOLEAN,
     wd : {"none", "intent", "receipt"}, run : RunViews,
     started : Instants, deadline : Instants, firstObs : Instants, obs : 0 .. 2,
     fenced : BOOLEAN, intent : BOOLEAN, uncertain : BOOLEAN, absent : BOOLEAN,
     notAttempted : BOOLEAN, tries : 0 .. DiscoveryAttempts + 1,
     cancelReq : BOOLEAN, cancelDisp : BOOLEAN, cleanReq : BOOLEAN,
     refDeleted : BOOLEAN, manifests : BOOLEAN,
     events : Seq([kind : EventKinds, by : Stampers])]

-----------------------------------------------------------------------------
(***************************************************************************)
(* Publication boundary                                                    *)
(***************************************************************************)
Later(a, b) == IF a >= b THEN a ELSE b

\* Mutant: the window starts when the boundary was armed
QuiescenceDeadlineFromArming(started, firstObs) == started + Window

\* publication_quiescence_deadline
QuiescenceDeadline(started, firstObs) == Later(started, firstObs) + Window

\* publication_boundary_is_armed (created_at is the first instant, 1)
Armed(r) ==
    /\ r.started # 0
    /\ r.firstObs = 0 \/ r.firstObs >= r.started
    /\ r.deadline = QuiescenceDeadline(r.started, r.firstObs)

\* publication_boundary_is_unarmed
Unarmed(r) == r.started = 0 /\ r.deadline = Never /\ r.firstObs = 0

\* publication_boundary_can_advance
BoundaryCanAdvance(p, n) ==
    /\ Unarmed(p) \/ Armed(p)
    /\ Unarmed(n) \/ Armed(n)
    /\ \/ /\ p.started = n.started
          /\ p.deadline = n.deadline \/ (p.firstObs = 0 /\ n.firstObs # 0)
       \/ Unarmed(p) /\ Armed(n)

-----------------------------------------------------------------------------
\* job_state_can_reach
CanReach(s, t) ==
    \/ s = t
    \/ CASE s = "Created"       -> TRUE
         [] s = "Queued"        -> t # "Created"
         [] s = "Running"       -> t \notin {"Created", "Queued"}
         [] s = "Cancelling"    -> t \in {"Failed", "Cancelled"} \cup CleaningStates
         [] s \in BuildTerminal -> t \in CleaningStates
         [] s = "Cleaning"      -> t \in Terminal
         [] s = "Cleaned"       -> FALSE
         [] OTHER               -> t \in CleaningStates

IsPrefixOf(a, b) == Len(a) <= Len(b) /\ SubSeq(b, 1, Len(a)) = a

Monotone(p, n) == p => n

\* What proves that the signing material is gone: a completed run when nothing
\* was signed, the worker's cleanup evidence (bound with the manifests) otherwise
CleanupProven(r) == IF Signed THEN r.manifests ELSE Completed(r.run)

\* Mutant: an armed boundary may be replaced by an unarmed one
LifecycleAdvancesAnyBoundary(p, n) ==
    /\ Monotone(p.fenced, n.fenced)
    /\ CanReach(p.state, n.state)
    /\ n.state = "Cleaned" => CleanupProven(n)

\* validate_successor: the lifecycle only moves forward, and Cleaned needs its proof
LifecycleAdvances(p, n) ==
    /\ Monotone(p.fenced, n.fenced)
    /\ BoundaryCanAdvance(p, n)
    /\ CanReach(p.state, n.state)
    /\ n.state = "Cleaned" => CleanupProven(n)

\* validate_successor: what was bound once (commits, dispatch, run) stays bound
BindingsKept(p, n) ==
    /\ Monotone(p.prepared, n.prepared)
    /\ Monotone(p.dispatch, n.dispatch)
    /\ p.wd # "none" => n.wd # "none"
    /\ p.wd = "receipt" => n.wd = "receipt"
    /\ p.run # "none" => /\ n.run # "none"
                         /\ RunPhase(n.run) >= RunPhase(p.run)
                         /\ Completed(p.run) => n.run = p.run

\* validate_successor: flags, counters and events never go back
HistoryKept(p, n) ==
    /\ \A f \in {"intent", "absent", "notAttempted", "cancelReq", "cancelDisp",
                 "cleanReq", "refDeleted", "manifests"} : Monotone(p[f], n[f])
    /\ p.uncertain /\ ~n.uncertain => n.dispatch \/ n.absent
    /\ p.tries <= n.tries
    /\ p.obs <= n.obs
    /\ p.firstObs # 0 => n.firstObs = p.firstObs
    /\ IsPrefixOf(p.events, n.events)

\* GithubJobResumeV1::validate_successor
ValidSuccessor(p, n) == LifecycleAdvances(p, n) /\ BindingsKept(p, n) /\ HistoryKept(p, n)

-----------------------------------------------------------------------------
\* no_dispatch_state_valid
NoDispatchStateValid(r) ==
    CASE r.state = "Created"    -> ~r.absent
      [] r.state = "Cancelling" -> r.cancelReq /\ ~r.absent /\ r.intent
      [] r.state = "Cancelled"  -> r.cancelReq /\ r.absent
      [] r.state = "Failed"     -> r.uncertain \/ r.absent \/ r.notAttempted
      [] r.state \in {"Cleaning", "CleanupFailed"} ->
             (r.absent \/ r.notAttempted) /\ r.cleanReq
      [] OTHER                  -> FALSE

\* into_record: the publication's flags agree with its boundary
PublicationConsistent(r) ==
    /\ r.tries <= Later(DiscoveryAttempts, 2)
    /\ (r.obs = 0) <=> (r.firstObs = 0)
    /\ Armed(r) \/ Unarmed(r)
    /\ ~Armed(r) => ~r.dispatch /\ ~r.absent /\ r.obs = 0
    /\ r.intent
    /\ r.absent => /\ r.prepared /\ r.fenced /\ r.obs >= 2
                   /\ ~r.dispatch /\ r.refDeleted /\ ~r.uncertain
    /\ r.notAttempted => /\ ~r.absent /\ ~r.uncertain /\ r.obs = 0
                         /\ ~r.dispatch /\ r.run = "none"
                         /\ r.state \in {"Failed", "Cleaning", "CleanupFailed"}
    /\ ~r.dispatch => r.run = "none" /\ ~r.cancelDisp /\ NoDispatchStateValid(r)

\* into_record: cancellation, cleanup and evidence agree with state and run
LifecycleConsistent(r) ==
    /\ r.cancelDisp => r.run # "none" /\ r.cancelReq
    /\ r.state = "Cancelling" => r.cancelReq
    /\ r.cancelReq => r.state \in {"Cancelling", "Cancelled", "Failed"} \cup CleaningStates
    /\ r.refDeleted => r.cleanReq \/ r.absent
    /\ r.state \in CleaningStates => r.cleanReq
    /\ r.state = "Succeeded" => r.manifests
    /\ r.manifests => r.run = "success" /\ r.state \in {"Succeeded"} \cup CleaningStates
    /\ r.state \in BuildTerminal \cup CleaningStates /\ r.run # "none" => Completed(r.run)
    /\ r.state = "Cancelled" => (r.absent /\ r.run = "none") \/ r.run = "cancelled"
    /\ r.state = "Cleaned" => CleanupProven(r)
    /\ r.state \in Terminal => r.refDeleted \/ r.notAttempted

\* GithubJobResumeV1::into_record: the checkpoint a later process may restore
Restorable(r) ==
    /\ r.run # "none" => r.dispatch
    /\ PublicationConsistent(r)
    /\ LifecycleConsistent(r)

=============================================================================
