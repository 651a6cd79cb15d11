----------------------------- MODULE StoredJob ------------------------------
(***************************************************************************)
(* The durable record of one job (StoredJobV1 in                           *)
(* crates/cargo-ferry/src/job_store.rs): its state tables, the validity of *)
(* a record and of a successor, and the reducer that turns a provider      *)
(* checkpoint into the next record.  A store update is accepted only when  *)
(* the new record is valid and a valid successor of the latest one.        *)
(*                                                                         *)
(* One artifact stands for the manifest; its value is how far it got.      *)
(* Failures are told apart only by what the reducer asks of their code.    *)
(***************************************************************************)
EXTENDS GithubResume

StoredStates == {"SourceReady", "Submitting", "Queued", "Running", "ArtifactReady",
                 "Downloading", "Downloaded", "Validating", "Succeeded", "Failed",
                 "CancellationRequested", "Cancelled", "CleanupPending",
                 "CleanupFailed", "Unknown"}

Overlays == {"Unknown", "CleanupPending", "CleanupFailed"}
ArtifactPhases == {"ArtifactReady", "Downloading", "Downloaded", "Validating"}
SettledStates == {"Succeeded", "Failed", "Cancelled"}
Outcomes == {"None", "Succeeded", "Failed", "Cancelled"}
CleanupStatuses == {"NotStarted", "Pending", "Confirmed", "Failed", "Uncertain"}
CancellationStatuses == {"NotRequested", "Requested", "Dispatched", "Confirmed",
                         "Failed", "Uncertain"}
Failures == {"none", "provider", "cleanup_failed", "cleanup_unconfirmed", "controller"}
ArtifactStages == <<"none", "remote", "intended", "local", "validated">>

NoResume == [state |-> "None"]
HasResume(j) == j.resume.state # "None"

StoredRecords(Stampers) ==
    [state : StoredStates, last : StoredStates, outcome : Outcomes,
     cleanup : CleanupStatuses, cancel : CancellationStatuses, failure : Failures,
     artifact : {ArtifactStages[i] : i \in 1 .. 5},
     resume : ResumeFields(Stampers) \cup {NoResume}]

-----------------------------------------------------------------------------
\* StoredJobState::can_transition_to, on the states this provider reaches
StoredNext ==
    LET abort == {"Failed", "CancellationRequested", "Unknown"} IN
    [s \in StoredStates |->
        CASE s = "SourceReady" -> {"Submitting", "Cancelled"} \cup abort
          [] s = "Submitting"  -> {"Queued", "Running", "Cancelled"} \cup abort
          [] s = "Queued"      -> {"Running", "Cancelled"} \cup abort
          [] s = "Running"     -> {"ArtifactReady", "Cancelled"} \cup abort
          [] s = "ArtifactReady" -> {"Downloading", "CleanupPending", "CleanupFailed"} \cup abort
          [] s = "Downloading" -> {"Downloaded", "CleanupPending", "CleanupFailed"} \cup abort
          [] s = "Downloaded"  -> {"Validating", "Succeeded", "Failed", "CleanupPending",
                                   "CleanupFailed", "Unknown"}
          [] s = "Validating"  -> {"Succeeded", "CleanupPending", "CleanupFailed",
                                   "Failed", "Unknown"}
          [] s = "CancellationRequested" -> {"Cancelled", "Failed", "CleanupPending",
                                             "CleanupFailed", "Unknown"}
          [] s = "CleanupPending" -> ArtifactPhases \cup SettledStates
                                     \cup {"CleanupFailed", "Unknown"}
          [] s \in {"Failed", "Cancelled"} -> {"CleanupPending", "CleanupFailed"}
          [] s = "CleanupFailed" -> {"CleanupPending", "Unknown"}
          [] OTHER -> {}]

\* Mutant: a cleanup does not return to the artifact phase it interrupted
StoredCanMoveForward(s, t) ==
    s = t \/ (t \in StoredNext[s] /\ ~(s = "CleanupPending" /\ t \in ArtifactPhases))

StoredCanMove(s, t) == s = t \/ t \in StoredNext[s]

\* StoredCleanupStatus::can_transition_to
CleanupCanMove(s, t) ==
    \/ s = t
    \/ s \in {"NotStarted", "Pending", "Uncertain"} /\ t # "NotStarted"
    \/ s = "Failed" /\ t \in {"Pending", "Confirmed", "Uncertain"}

\* StoredCancellationStatus::can_transition_to
CancellationCanMove(s, t) ==
    \/ s = t
    \/ s = "NotRequested" /\ t \in {"Requested", "Confirmed"}
    \/ s \in {"Requested", "Dispatched", "Uncertain"}
       /\ t \in {"Dispatched", "Confirmed", "Failed", "Uncertain"}
    \/ s = "Failed" /\ t \in {"Requested", "Dispatched", "Confirmed", "Uncertain"}

ArtifactRank(a) == CHOOSE i \in 1 .. 5 : ArtifactStages[i] = a

\* recoverable_cleanup_failure
RecoverableFailure(j) ==
    \/ /\ j.failure = "cleanup_failed"
       /\ j.cleanup \in {"Failed", "Pending", "Uncertain"}
       /\ j.state \in Overlays \cup {"Failed"}
       /\ j.resume.state = "CleanupFailed"
    \/ /\ j.failure = "cleanup_unconfirmed"
       /\ j.cleanup \in {"Pending", "Uncertain"}
       /\ j.state \in {"Failed", "CleanupPending", "Unknown"}

\* effective_local_phase: the phase under a cleanup or unknown overlay
EffectivePhase(j) ==
    IF (j.state \in Overlays \/ RecoverableFailure(j)) /\ j.last \notin Overlays
    THEN j.last ELSE j.state

-----------------------------------------------------------------------------
\* validate_job_state
ValidState(j) ==
    /\ j.state = "Unknown" \/ j.last # "Unknown"
    /\ j.state \in Overlays => j.last # "Unknown"
    /\ j.state \in {"CleanupPending", "CleanupFailed"} => j.last \notin Overlays
    /\ CASE j.state = "Succeeded" -> j.outcome = "Succeeded"
         [] j.state = "Failed"    -> j.outcome # "Cancelled"
         [] j.state = "Cancelled" -> j.outcome = "Cancelled"
         [] j.state \in ArtifactPhases -> j.outcome \in {"None", "Succeeded"}
         [] j.state \in Overlays  -> TRUE
         [] OTHER                 -> j.outcome = "None"
    /\ j.state = "Succeeded" => j.cleanup = "Confirmed"
    /\ j.state = "CleanupPending" => j.cleanup \notin {"NotStarted", "Failed"}
    /\ j.state = "CleanupFailed" => j.cleanup = "Failed"
    /\ j.state = "CancellationRequested" => j.cancel \in {"Requested", "Dispatched", "Uncertain"}
    /\ j.state = "Cancelled" => j.cancel = "Confirmed"
    /\ LET required == j.outcome = "Failed" \/ j.state \in {"Failed", "CleanupFailed"} IN
       /\ required => j.failure # "none"
       /\ j.failure # "none" => required \/ j.state \in {"CleanupPending", "Unknown"}

\* validate_github_publication_boundary
ValidBoundary(r) ==
    /\ Armed(r) \/ Unarmed(r)
    /\ r.intent <=> Armed(r)
    /\ (r.obs # 0) <=> (r.firstObs # 0)
    /\ r.obs # 0 => r.prepared
    /\ r.absent => /\ r.obs >= 2 /\ r.prepared /\ ~r.dispatch
                   /\ ~r.uncertain /\ r.fenced /\ r.refDeleted

\* The provider-resume part of StoredJobV1::validate
ValidResume(j) ==
    LET r == j.resume
        verified == {"Succeeded"} \cup CleaningStates IN
    /\ ValidBoundary(r)
    /\ r.manifests => r.state \in verified
    /\ Signed /\ r.state \in verified => r.manifests

\* StoredJobV1::validate: what each state asks of the artifact
ValidArtifact(j) ==
    /\ j.state \in ArtifactPhases \cup {"Succeeded"} => j.artifact # "none"
    /\ j.state \in {"Downloading", "Downloaded", "Validating", "Succeeded"} =>
           ArtifactRank(j.artifact) >= 3
    /\ j.state \in {"Downloaded", "Validating", "Succeeded"} => ArtifactRank(j.artifact) >= 4
    /\ j.state = "Succeeded" => j.artifact = "validated"

\* StoredJobV1::validate
ValidRecord(j) == ValidState(j) /\ ValidArtifact(j) /\ (HasResume(j) => ValidResume(j))

-----------------------------------------------------------------------------
\* cleanup_failure_has_exact_recovery
ExactCleanupRecovery(p, n) ==
    /\ p.state = "CleanupFailed"
    /\ n.cleanup = "Confirmed"
    /\ n.state \in ArtifactPhases \cup SettledStates
    /\ n.resume.state = "Cleaned"

\* failure_can_transition
FailureCanMove(p, n) ==
    \/ p.failure = "none"
    \/ n.failure = p.failure
    \/ /\ n.failure = "none"
       /\ RecoverableFailure(p)
       /\ n.cleanup \in {"Pending", "Confirmed"}
       /\ n.state \in ArtifactPhases \cup {"CleanupPending", "Succeeded", "Cancelled"}

\* validate_artifact_successor: a destination is durable before a local path,
\* and a local path before its validation
ArtifactCanMove(p, n) ==
    LET i == ArtifactRank(p) k == ArtifactRank(n) IN
    /\ i <= k
    /\ k >= 4 => i >= k - 1

-----------------------------------------------------------------------------
\* collect_github_projection_evidence
Kinds(r) == {r.events[i].kind : i \in DOMAIN r.events}

EvidencedOutcomes(r) ==
    {o \in Outcomes : \/ o = "Succeeded" /\ "succeeded" \in Kinds(r)
                      \/ o = "Failed" /\ "failed" \in Kinds(r)
                      \/ o = "Cancelled" /\ "cancelled" \in Kinds(r)}

CleanupEvents(r) ==
    LET isCleanup(e) == e.kind \in {"cleanup_started", "cleanup_confirmed", "cleanup_refused"}
    IN  SelectSeq(r.events, isCleanup)

EvidenceConsistent(r) ==
    /\ \A a, b \in EvidencedOutcomes(r) : a = b
    /\ \A i \in DOMAIN CleanupEvents(r) :
           (CleanupEvents(r)[i].kind = "cleanup_started") <=> (i % 2 = 1)

CleanupStarted(r) == CleanupEvents(r) # <<>>
LastCleanup(r) == CleanupEvents(r)[Len(CleanupEvents(r))].kind
CleanupFinished(r) == CleanupStarted(r) /\ LastCleanup(r) # "cleanup_started"

\* github_cleanup_is_confirmed
CleanupConfirmed(r) ==
    CleanupStarted(r) /\ LastCleanup(r) = "cleanup_confirmed" /\ r.refDeleted

\* github_absent_publication_is_clean
AbsentIsClean(r) == r.absent /\ r.refDeleted

OutcomeOfRun(run) == CASE run = "success" -> "Succeeded" [] run = "cancelled" -> "Cancelled"
                       [] run = "failure" -> "Failed" [] OTHER -> "None"

\* derive_github_outcome: the outcomes the checkpoint and its events stand for
ClaimedOutcomes(p, r) ==
    EvidencedOutcomes(r) \cup
    CASE r.state \in BuildTerminal -> {r.state}
      [] r.state \in CleaningStates ->
             IF EvidencedOutcomes(r) = {} /\ p.outcome = "None"
             THEN {OutcomeOfRun(r.run)} \ {"None"} ELSE {}
      [] OTHER -> {}

DerivedOutcome(p, r) ==
    IF ClaimedOutcomes(p, r) = {} THEN p.outcome
    ELSE CHOOSE o \in ClaimedOutcomes(p, r) : TRUE

OutcomeDerivable(p, r) ==
    /\ \A a, b \in ClaimedOutcomes(p, r) : a = b
    /\ r.state \in {"Created", "Queued", "Running", "Cancelling"} => EvidencedOutcomes(r) = {}
    /\ r.state = "Cancelled" => \/ "cancelled" \in Kinds(r) \/ r.run = "cancelled"
                                \/ r.absent /\ r.cancelReq
    /\ p.outcome # "None" => DerivedOutcome(p, r) = p.outcome

-----------------------------------------------------------------------------
\* project_github_state: preserve_artifact_phase
KeptArtifactPhase(p, r) ==
    CASE p.state = "CleanupPending" /\ r.state # "Cleaned" -> "CleanupPending"
      [] EffectivePhase(p) \in ArtifactPhases \cup {"Failed", "CleanupPending", "Succeeded"} ->
             EffectivePhase(p)
      [] OTHER -> "ArtifactReady"

\* A cleaned successful build: failed locally, still to be promoted, done, or
\* left where the download was
CleanedSuccess(p, r, artifact) ==
    CASE p.failure # "none" /\ ~RecoverableFailure(p) -> <<"Failed", "ArtifactReady">>
      [] /\ p.state \in {"CleanupPending", "CleanupFailed"} \/ RecoverableFailure(p)
         /\ EffectivePhase(p) = "Validating" -> <<"CleanupPending", "Validating">>
      [] artifact = "validated" -> <<"Succeeded", "Succeeded">>
      [] OTHER -> <<KeptArtifactPhase(p, r), "ArtifactReady">>

\* project_github_state: the local state and the last confirmed one
ProjectedState(p, r, artifact) ==
    CASE r.state = "Created"    -> <<"Submitting", "Submitting">>
      [] r.state \in {"Queued", "Running", "Failed", "Cancelled"} -> <<r.state, r.state>>
      [] r.state = "Cancelling" -> <<"CancellationRequested", "CancellationRequested">>
      [] r.state = "Succeeded"  ->
             <<KeptArtifactPhase(p, r),
               IF KeptArtifactPhase(p, r) = "CleanupPending"
               THEN EffectivePhase(p) ELSE "ArtifactReady">>
      [] r.state = "Cleaning"   -> <<"CleanupPending", EffectivePhase(p)>>
      [] r.state = "CleanupFailed" -> <<"CleanupFailed", EffectivePhase(p)>>
      [] OTHER -> IF DerivedOutcome(p, r) = "Succeeded"
                  THEN CleanedSuccess(p, r, artifact)
                  ELSE <<DerivedOutcome(p, r), DerivedOutcome(p, r)>>

\* project_github_resume: cleanup
ProjectedCleanup(p, r) ==
    LET base == CASE r.state = "Cleaning" -> "Pending"
                  [] r.state = "Cleaned" -> "Confirmed"
                  [] r.state = "CleanupFailed" -> "Failed"
                  [] r.cleanReq /\ p.cleanup # "Confirmed" -> "Pending"
                  [] OTHER -> p.cleanup
    IN  CASE r.state = "CleanupFailed" -> base
          [] AbsentIsClean(r) -> "Confirmed"
          [] /\ r.uncertain /\ ~r.absent /\ ~CleanupConfirmed(r)
             /\ base # "Confirmed" -> "Uncertain"
          [] OTHER -> base

\* project_github_resume: cancellation
ProjectedCancel(p, r) ==
    CASE "cancelled" \in Kinds(r) \/ r.state = "Cancelled" -> "Confirmed"
      [] r.cancelReq /\ DerivedOutcome(p, r) = "Failed" -> "Failed"
      [] r.cancelDisp /\ p.cancel \notin {"Confirmed", "Uncertain"} -> "Dispatched"
      [] OTHER -> p.cancel

\* project_github_resume: failure
ProjectedFailure(p, r, state) ==
    LET dropped == /\ RecoverableFailure(p)
                   /\ \/ r.state = "Cleaning" /\ ProjectedCleanup(p, r) \in {"Pending", "Confirmed"}
                      \/ r.state = "Cleaned" /\ ProjectedCleanup(p, r) = "Confirmed"
    IN  CASE p.failure # "none" /\ ~dropped -> p.failure
          [] DerivedOutcome(p, r) = "Failed" -> "provider"
          [] state \in {"Failed", "CleanupFailed"} -> "cleanup_failed"
          [] OTHER -> "none"

\* project_github_artifacts
ProjectedArtifact(p, r) == IF r.manifests /\ p.artifact = "none" THEN "remote" ELSE p.artifact

\* The errors of project_github_resume
Projectable(p, r) ==
    /\ EvidenceConsistent(r)
    /\ OutcomeDerivable(p, r)
    /\ DerivedOutcome(p, r) = "Succeeded" /\ r.state \in {"Succeeded", "Cleaned"} =>
           ProjectedArtifact(p, r) # "none"
    /\ r.state = "Cleaned" => /\ DerivedOutcome(p, r) # "None"
                              /\ r.cleanReq /\ CleanupConfirmed(r)
    /\ r.state = "Cleaning" => CleanupStarted(r)
    /\ r.state = "CleanupFailed" => /\ r.cleanReq /\ CleanupFinished(r)
                                    /\ ~CleanupConfirmed(r)
    /\ r.cancelReq \/ r.cancelDisp => p.cancel # "NotRequested"

\* project_github_resume
Project(p, r) ==
    LET artifact == ProjectedArtifact(p, r)
        where == ProjectedState(p, r, artifact) IN
    [state |-> where[1], last |-> where[2], outcome |-> DerivedOutcome(p, r),
     cleanup |-> ProjectedCleanup(p, r), cancel |-> ProjectedCancel(p, r),
     failure |-> ProjectedFailure(p, r, where[1]), artifact |-> artifact, resume |-> r]

-----------------------------------------------------------------------------
\* validate_successor: the local phase, under and out of its overlays
PhaseCanMove(p, n) ==
    /\ \/ p.state = "Unknown"
       \/ StoredCanMove(p.state, n.state)
       \/ ExactCleanupRecovery(p, n)
    /\ n.state = "Unknown" => n.last = EffectivePhase(p) /\ n.outcome = p.outcome
    /\ p.state = "Unknown" /\ n.state # "Unknown" => StoredCanMove(p.last, n.state)
    /\ n.state \in {"CleanupPending", "CleanupFailed"} => n.last = EffectivePhase(p)
    /\ p.state = "Unknown" /\ n.state \in SettledStates => n.last = n.state

\* validate_successor: what only a new provider checkpoint may establish
EvidenceBacked(p, n) ==
    /\ p.outcome # "None" => n.outcome = p.outcome
    /\ p.resume = n.resume =>
           /\ n.outcome \in {"Succeeded", "Cancelled"} => n.outcome = p.outcome
           /\ n.cancel = "Confirmed" => p.cancel = "Confirmed"
           /\ n.cleanup \in {"Confirmed", "Failed"} => n.cleanup = p.cleanup

\* validate_successor
ValidStoredSuccessor(p, n) ==
    /\ PhaseCanMove(p, n)
    /\ EvidenceBacked(p, n)
    /\ FailureCanMove(p, n)
    /\ CleanupCanMove(p.cleanup, n.cleanup)
    /\ CancellationCanMove(p.cancel, n.cancel)
    /\ ArtifactCanMove(p.artifact, n.artifact)
    /\ HasResume(p) => HasResume(n)
    /\ p.resume # n.resume => /\ HasResume(p) => ValidSuccessor(p.resume, n.resume)
                              /\ Projectable(p, n.resume)
                              /\ n = Project(p, n.resume)

\* JobStore::update: the gate every revision passes
StoreAccepts(p, n) == ValidRecord(n) /\ ValidStoredSuccessor(p, n)

\* JobStore::checkpoint_github_resume; an identical resume is a durable no-op
CheckpointAccepted(p, r) ==
    /\ ValidBoundary(r)
    /\ HasResume(p) => ValidSuccessor(p.resume, r)
    /\ \/ p.resume = r
       \/ Projectable(p, r) /\ StoreAccepts(p, Project(p, r))

Checkpointed(p, r) == IF p.resume = r THEN p ELSE Project(p, r)

=============================================================================
