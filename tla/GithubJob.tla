----------------------------- MODULE GithubJob ------------------------------
(***************************************************************************)
(* One published GitHub job and the two commands that drive it at once:    *)
(* the build that submitted it (B: commands/remote.rs), which polls and,   *)
(* on an interrupt, cancels, without holding the operation lease; and      *)
(* "jobs cancel" (C: commands/github_job_session.rs), which holds it.      *)
(* Each has its own provider (rustferry-github/src/provider.rs) with its   *)
(* own in-memory record; they meet in the job store and in the remote run. *)
(*                                                                         *)
(* A step is one call that leaves the process: a store read or update, or  *)
(* a GitHub request.  An in-memory change is part of the step it precedes, *)
(* and reads of the store with nothing between them are one read.          *)
(* The job starts where its publication was checkpointed as certain.       *)
(***************************************************************************)
EXTENDS StoredJob, FiniteSets

CONSTANTS
    Scenarios,     \* bounds of a behaviour: store writes that fail or lose their
                   \* acknowledgement, "jobs cancel" invocations, and whether the
                   \* build is still alive when the first of them begins
    MaxPosts       \* cancel requests of each process are counted up to this many

Procs == {"B", "C"}

ASSUME GithubJobAssumption ==
    /\ \A s \in Scenarios : s.faults \in Nat /\ s.sessions \in Nat /\ s.build \in BOOLEAN
    /\ MaxPosts \in [Procs -> Nat]

VARIABLES
    job,        \* the latest revision in the job store
    run,        \* the Actions run as GitHub has it
    ref,        \* the temporary ref exists
    posts,      \* cancel requests GitHub received, by sender
    lease,      \* holder of the job's operation lease
    pc, op,     \* next step of each process; the store update it is in
    rec,        \* the provider's in-memory record of each process
    why,        \* why the build left its poll loop
    act,        \* CancellationAction of the cancel session
    stale,      \* the store moved since the session read its record
    faults, sessions   \* left in this behaviour

remote == <<run, ref, posts>>
local == <<pc, op, why, act, stale>>
vars == <<job, remote, lease, local, rec, faults, sessions>>

PublishedResume ==
    [state |-> "Queued", prepared |-> TRUE, dispatch |-> TRUE, wd |-> "none",
     run |-> "none", started |-> 1, deadline |-> QuiescenceDeadline(1, 0),
     firstObs |-> 0, obs |-> 0, fenced |-> TRUE, intent |-> TRUE,
     uncertain |-> FALSE, absent |-> FALSE, notAttempted |-> FALSE, tries |-> 0,
     cancelReq |-> FALSE, cancelDisp |-> FALSE, cleanReq |-> FALSE,
     refDeleted |-> FALSE, manifests |-> FALSE, events |-> <<>>]

Init ==
    /\ job = [state |-> "Queued", last |-> "Queued", outcome |-> "None",
              cleanup |-> "NotStarted", cancel |-> "NotRequested", failure |-> "none",
              artifact |-> "none", resume |-> PublishedResume]
    /\ run = "none"
    /\ ref = TRUE
    /\ posts = [p \in Procs |-> 0]
    /\ lease = "none"
    /\ op = [p \in Procs |-> "none"]
    /\ act = "none"
    /\ stale = FALSE
    /\ \E s \in Scenarios :
           /\ faults = s.faults /\ sessions = s.sessions
           /\ pc = [p \in Procs |-> IF p = "C" THEN "idle" ELSE IF s.build THEN "poll" ELSE "end"]
           /\ rec = [p \in Procs |-> IF p = "B" /\ s.build THEN PublishedResume ELSE NoResume]
           /\ why = IF s.build THEN "poll" ELSE "none"

-----------------------------------------------------------------------------
(***************************************************************************)
(* Control                                                                 *)
(***************************************************************************)
Goto(p, l) == pc' = [pc EXCEPT ![p] = l]

\* A store write by the build makes the record the session compares with stale
Wrote(p) ==
    stale' = (stale \/ (p = "B" /\ job' # job /\ pc["C"] \in {"intent", "bind"}))

Fault == faults > 0 /\ faults' = faults - 1

\* Mutant: the provider outlives its command
ExitKeepsRecord(p) ==
    /\ Goto(p, IF p = "B" THEN "end" ELSE "idle")
    /\ lease' = IF lease = p THEN "none" ELSE lease
    /\ op' = [op EXCEPT ![p] = "none"]
    /\ why' = IF p = "B" THEN "none" ELSE why
    /\ act' = IF p = "C" THEN "none" ELSE act
    /\ UNCHANGED rec

\* The command ends: its lease and its provider go with the process
Exit(p) ==
    /\ Goto(p, IF p = "B" THEN "end" ELSE "idle")
    /\ lease' = IF lease = p THEN "none" ELSE lease
    /\ rec' = [rec EXCEPT ![p] = NoResume]
    /\ op' = [op EXCEPT ![p] = "none"]
    /\ why' = IF p = "B" THEN "none" ELSE why
    /\ act' = IF p = "C" THEN "none" ELSE act

\* The read-only path of a store update that follows: persist_* of op o
Persist(p, o) == Goto(p, "persist") /\ op' = [op EXCEPT ![p] = o]

\* Where the controller goes when provider.events or provider.cancel returns:
\* poll_job, begin_cancellation and cancel_and_wait for the build;
\* cancel_or_reconcile_once and wait_for_terminal for the session
Back(p, ok, r) ==
    LET terminal == r.state \in BuildTerminal IN
    CASE p = "C" /\ ok -> Goto(p, "await") /\ act' = "get" /\ UNCHANGED <<why, op>>
      [] p = "C" /\ ~ok -> Persist(p, "cancel_uncertain") /\ UNCHANGED <<why, act>>
      [] p = "B" /\ why = "poll" /\ ~ok ->
             Persist(p, "cancel_requested") /\ why' = "tracking" /\ UNCHANGED act
      [] p = "B" /\ why = "poll" /\ ok ->
             /\ Goto(p, IF terminal THEN "relock" ELSE "poll")
             /\ why' = IF terminal THEN "terminal" ELSE "poll"
             /\ UNCHANGED <<act, op>>
      [] OTHER ->
             /\ IF ok /\ terminal THEN Persist(p, "terminal_result")
                ELSE Goto(p, "wait") /\ UNCHANGED op
             /\ UNCHANGED <<why, act>>

\* provider.cleanup returned, whatever it returned: the durable record decides
CleanupCalled(p) == Persist(p, "cleanup_uncertain") /\ UNCHANGED <<why, act>>

Go(p, to, ok, r) ==
    CASE to = "back" -> Back(p, ok, r)
      [] to = "cleaned" -> CleanupCalled(p)
      [] OTHER -> Goto(p, to) /\ UNCHANGED <<op, why, act>>

\* Mutant: a refused checkpoint is ignored
CheckpointIgnored(p, r, to, err) ==
    /\ rec' = [rec EXCEPT ![p] = r]
    /\ Go(p, to, TRUE, r)
    /\ job' = IF CheckpointAccepted(job, r) THEN Checkpointed(job, r) ELSE job
    /\ Wrote(p)
    /\ UNCHANGED faults

\* checkpoint_record: the record goes to the sink.  Whatever the sink answers,
\* the in-memory record keeps what was changed before the call.
Checkpoint(p, r, to, err) ==
    /\ rec' = [rec EXCEPT ![p] = r]
    /\ \/ IF CheckpointAccepted(job, r)
          THEN /\ job' = Checkpointed(job, r)
               /\ \/ Go(p, to, TRUE, r) /\ UNCHANGED faults
                  \/ Fault /\ Go(p, err, FALSE, r)
          ELSE Go(p, err, FALSE, r) /\ UNCHANGED <<job, faults>>
       \/ Fault /\ Go(p, err, FALSE, r) /\ UNCHANGED job
    /\ Wrote(p)

-----------------------------------------------------------------------------
(***************************************************************************)
(* GitHub                                                                  *)
(***************************************************************************)
RunAdvances ==
    /\ run' \in CASE run = "none" -> {"queued"}
                  [] run = "queued" -> {"in_progress", "cancelled", "failure"}
                  [] run = "in_progress" -> Conclusions
                  [] OTHER -> {}
    /\ UNCHANGED <<job, ref, posts, lease, local, rec, faults, sessions>>

-----------------------------------------------------------------------------
(***************************************************************************)
(* Provider: events (sync_job_with_cancel_policy) and cancel               *)
(***************************************************************************)
Grow(r, kinds, p) ==
    [r EXCEPT !.events = @ \o [i \in DOMAIN kinds |-> Event(kinds[i], p)]]

\* ensure_running_or_cancelling
Settled(r, state, kinds, p) == [Grow(r, kinds, p) EXCEPT !.state = state]

\* Mutant: a run that succeeded after the request is reported cancelled
FinishCancelled(r, p) ==
    CASE r.run = "cancelled" \/ r.cancelReq ->
             {<<Settled(r, "Cancelled", <<"cancelled">>, p), TRUE>>}
      [] r.run = "success" /\ ~r.cancelReq ->
             {<<[Settled(r, "Succeeded", <<"succeeded">>, p) EXCEPT !.manifests = TRUE], TRUE>>}
      [] OTHER -> {<<Settled(r, "Failed", <<"failed">>, p), TRUE>>}

\* finish_from_snapshot and finish_success: the results it may have, with
\* whether the call succeeded
Finish(r, p) ==
    CASE r.run = "cancelled" -> {<<Settled(r, "Cancelled", <<"cancelled">>, p), TRUE>>}
      [] r.run = "success" /\ r.cancelReq ->
             {<<Settled(r, "Failed", <<"failed">>, p), TRUE>>}
      [] r.run = "success" /\ ~r.cancelReq ->
             LET waiting == [r EXCEPT !.state = "Running"] IN
             {<<waiting, TRUE>>, <<waiting, FALSE>>,
              <<[Settled(r, "Succeeded", <<"succeeded">>, p)
                    EXCEPT !.manifests = TRUE], TRUE>>}
      [] OTHER -> {<<Settled(r, "Failed", <<"failed">>, p), TRUE>>}

\* A request that fails leaves the record as it is and returns the error
RequestFails(p) ==
    Back(p, FALSE, rec[p]) /\ UNCHANGED <<job, remote, lease, rec, stale, faults, sessions>>

\* poll_job, cancel_and_wait and wait_for_terminal call it once per round
Sync(p) ==
    /\ pc[p] \in {"poll", "wait", "sync"}
    /\ Checkpoint(p, rec[p],
                  IF rec[p].state \in BuildTerminal \cup Terminal THEN "back" ELSE "observe",
                  "back")
    /\ UNCHANGED <<remote, lease, sessions>>

Cancel(p) ==
    LET asked == [rec[p] EXCEPT !.cancelReq = TRUE, !.state = "Cancelling"] IN
    /\ pc[p] = "cancel"
    /\ IF rec[p].state \in BuildTerminal \cup Terminal
       THEN Checkpoint(p, rec[p], "back", "back")
       ELSE Checkpoint(p, asked,
                       IF asked.run # "none" /\ ~asked.cancelDisp THEN "observe" ELSE "again",
                       "back")
    /\ UNCHANGED <<remote, lease, sessions>>

\* The run is looked up by the dispatch commit, then read by its identity; the
\* lookup is given up after DiscoveryAttempts or at run_discovery_deadline_ms
Observe(p) ==
    LET r == rec[p]
        missed == [r EXCEPT !.tries = @ + 1] IN
    /\ pc[p] = "observe"
    /\ CASE r.run # "none" ->
                rec' = [rec EXCEPT ![p].run = run] /\ Goto(p, "decide")
         [] r.run = "none" /\ run # "none" ->
                /\ rec' = [rec EXCEPT ![p] = [Grow(r, <<"mapped">>, p) EXCEPT !.run = run]]
                /\ Goto(p, "mapped")
         [] OTHER ->
                /\ \/ rec' = [rec EXCEPT ![p] = Settled(missed, "Failed", <<"failed">>, p)]
                   \/ missed.tries < DiscoveryAttempts /\ rec' = [rec EXCEPT ![p] = missed]
                /\ Goto(p, "again")
    /\ UNCHANGED <<job, remote, lease, op, why, act, stale, faults, sessions>>

ObserveFails(p) == pc[p] \in {"observe", "recheck"} /\ RequestFails(p)

Mapped(p) ==
    /\ pc[p] = "mapped"
    /\ Checkpoint(p, rec[p], "decide", "back")
    /\ UNCHANGED <<remote, lease, sessions>>

\* A checkpoint of the record as it is, and the call returns
Again(p) ==
    /\ pc[p] = "again"
    /\ Checkpoint(p, rec[p], "back", "back")
    /\ UNCHANGED <<remote, lease, sessions>>

\* Mutant: every call may dispatch
MayDispatchAlways(p) == TRUE

\* The build's calls and the session's one provider.cancel may dispatch
MayDispatch(p) == p = "B" \/ act = "dispatch"

\* With a request to send the intent is checkpointed again and the run read
\* again; otherwise the observed status is applied
Decide(p) ==
    LET r == rec[p] IN
    /\ pc[p] = "decide"
    /\ IF r.cancelReq /\ ~r.cancelDisp /\ ~Completed(r.run) /\ MayDispatch(p)
       THEN Checkpoint(p, r, "recheck", "back")
       ELSE CASE Completed(r.run) ->
                     \E f \in Finish(r, p) :
                         IF f[2] THEN Checkpoint(p, f[1], "back", "back")
                         ELSE /\ rec' = [rec EXCEPT ![p] = f[1]]
                              /\ Back(p, FALSE, f[1])
                              /\ UNCHANGED <<job, stale, faults>>
              [] r.run = "in_progress" /\ r.state = "Queued" ->
                     Checkpoint(p, Settled(r, "Running", <<"started">>, p), "back", "back")
              [] OTHER -> Checkpoint(p, r, "back", "back")
    /\ UNCHANGED <<remote, lease, sessions>>

Recheck(p) ==
    /\ pc[p] = "recheck"
    /\ rec' = [rec EXCEPT ![p].run = run]
    /\ Goto(p, IF Completed(run) THEN "decide" ELSE "post")
    /\ UNCHANGED <<job, remote, lease, op, why, act, stale, faults, sessions>>

\* transport.cancel_run.  An answer may be lost after GitHub took the request.
Post(p) ==
    /\ pc[p] = "post"
    /\ posts' = [posts EXCEPT ![p] = IF @ < MaxPosts[p] THEN @ + 1 ELSE @]
    /\ \/ /\ rec' = [rec EXCEPT ![p].cancelDisp = TRUE]
          /\ Goto(p, "posted")
          /\ UNCHANGED <<op, why, act>>
       \/ Back(p, FALSE, rec[p]) /\ UNCHANGED rec
    /\ UNCHANGED <<job, run, ref, lease, stale, faults, sessions>>

\* Mutant: a request that never left counts as sent
PostNotSentCounted(p) ==
    /\ pc[p] = "post"
    /\ rec' = [rec EXCEPT ![p].cancelDisp = TRUE]
    /\ Goto(p, "posted")
    /\ UNCHANGED <<job, remote, lease, op, why, act, stale, faults, sessions>>

PostNotSent(p) == pc[p] = "post" /\ RequestFails(p)

Posted(p) ==
    /\ pc[p] = "posted"
    /\ Checkpoint(p, rec[p], "again", "back")
    /\ UNCHANGED <<remote, lease, sessions>>

-----------------------------------------------------------------------------
(***************************************************************************)
(* Controller updates of the job store: each reads the latest record,      *)
(* decides, and then updates whatever record is the latest by then.        *)
(***************************************************************************)
CancelPending(j) == j.cancel \in {"Requested", "Dispatched", "Uncertain"}

\* durable_job_is_terminal
DurablyTerminal(j) ==
    j.outcome # "None" \/ j.failure # "none" \/ j.cancel = "Confirmed" \/ j.state \in SettledStates

\* persist_terminal_cancellation_result: what the store must already hold
ResultDurable(j, r) ==
    /\ j.outcome = r.state
    /\ r.state = "Cancelled" => j.cancel = "Confirmed"

\* durable_cleanup_is_confirmed
DurablyClean(j) ==
    /\ j.cleanup = "Confirmed"
    /\ j.resume.state = "Cleaned" /\ j.resume.cleanReq
    /\ j.resume.refDeleted \/ j.resume.notAttempted

\* The early returns: "skip" for Ok without a write, "stop" for a refusal.
\* cleanup_job_durably looks for a confirmed cleanup before and after the call.
Verdict(o, j, r) ==
    CASE o = "cancel_requested" ->
             (CASE j.outcome # "None" \/ j.failure # "none" \/ j.cancel = "Confirmed" -> "stop"
                [] CancelPending(j) -> "skip"
                [] OTHER -> "write")
      [] o = "cancel_uncertain" ->
             IF \/ j.outcome # "None" \/ j.failure # "none" \/ j.cancel = "Confirmed"
                \/ j.state = "Unknown" /\ j.cancel = "Uncertain"
             THEN "skip" ELSE "write"
      [] o = "terminal_result" ->
             (CASE ~ResultDurable(j, r) -> "stop"
                [] r.state = "Cancelled" \/ j.cancel = "Failed" -> "skip"
                [] OTHER -> "write")
      [] o = "noncancel_race" ->
             (CASE j.cancel = "Failed" -> "skip"
                [] j.outcome = "None" /\ j.failure = "none" -> "stop"
                [] OTHER -> "write")
      [] o = "cleanup_pending" ->
             (CASE DurablyClean(j) -> "stop"
                [] j.state = "CleanupPending" /\ j.cleanup = "Pending" -> "skip"
                [] OTHER -> "write")
      [] o = "cleanup_uncertain" ->
             (CASE DurablyClean(j) -> "stop"
                [] j.state = "CleanupFailed" -> "skip"
                [] OTHER -> "write")
      [] o = "controller_failure" ->
             IF \/ j.failure # "none"
                \/ j.state \in {"Succeeded", "CleanupFailed", "Cancelled"}
                \/ j.outcome = "Cancelled"
             THEN "skip" ELSE "write"
      [] OTHER -> IF j.failure # "none" THEN "skip" ELSE "write"

Unknown(j) == [j EXCEPT !.state = "Unknown", !.last = EffectivePhase(j)]

\* The closure each one passes to update_stored_job
Updated(o, j) ==
    CASE o = "cancel_requested" ->
             [j EXCEPT !.state = "CancellationRequested", !.cancel = "Requested"]
      [] o = "cancel_uncertain" -> [Unknown(j) EXCEPT !.cancel = "Uncertain"]
      [] o \in {"terminal_result", "noncancel_race"} -> [j EXCEPT !.cancel = "Failed"]
      [] o = "cleanup_pending" ->
             [j EXCEPT !.state = "CleanupPending", !.last = EffectivePhase(j),
                       !.cleanup = "Pending"]
      [] o = "cleanup_uncertain" ->
             (CASE j.outcome = "Succeeded" ->
                       [j EXCEPT !.cleanup = "Uncertain", !.state = "Failed",
                                 !.failure = IF @ = "none" THEN "cleanup_unconfirmed" ELSE @]
                [] j.outcome = "Failed" -> [j EXCEPT !.cleanup = "Uncertain", !.state = "Failed"]
                [] OTHER -> [Unknown(j) EXCEPT !.cleanup = "Uncertain"])
      [] o = "controller_failure" ->
             [j EXCEPT !.state = "Failed", !.last = "Failed", !.failure = "controller"]
      [] OTHER -> [Unknown(j) EXCEPT !.failure = "controller"]

\* cleanup_job_durably returns to complete_submitted_job,
\* reconcile_post_wait_rebind_failure, finish_completed_downloads or the session
CleanupReturns(p, ok) ==
    CASE p = "B" /\ (why = "rebind" \/ (why = "tracking" /\ ok)) ->
             Persist(p, "controller_failure") /\ UNCHANGED <<lease, rec, why, act>>
      [] p = "B" /\ why = "promote" ->
             Goto(p, IF ok THEN "promote" ELSE "unpromoted") /\ UNCHANGED <<lease, rec, op, why, act>>
      [] OTHER -> Exit(p)

\* The step after an update that ended ok, was refused or failed
Resume(p, o, res) ==
    LET to(l) == Goto(p, l) /\ UNCHANGED <<lease, rec, op, why, act>>
        clean == Persist(p, "cleanup_pending") /\ UNCHANGED <<lease, rec, why, act>> IN
    CASE o = "cancel_requested" -> to(IF res = "ok" THEN "cancel" ELSE "relock")
      [] o = "cleanup_pending" /\ res = "ok" -> to("clean")
      [] o \in {"cleanup_pending", "cleanup_uncertain"} -> CleanupReturns(p, res = "stop")
      [] o = "noncancel_race" /\ p = "C" -> IF res = "ok" THEN clean ELSE Exit(p)
      [] o = "cancel_uncertain" /\ p = "C" -> Exit(p)
      [] o \in {"terminal_result", "cancel_uncertain", "noncancel_race"} -> to("relock")
      [] o = "controller_failure" -> IF why = "download" THEN clean ELSE Exit(p)
      [] OTHER -> clean

PersistRead(p) ==
    LET verdict == Verdict(op[p], job, rec[p]) IN
    /\ pc[p] = "persist"
    /\ CASE verdict = "write" -> Goto(p, "write") /\ UNCHANGED <<lease, rec, op, why, act>>
         [] verdict = "skip" -> Resume(p, op[p], "ok")
         [] OTHER -> Resume(p, op[p], "stop")
    /\ UNCHANGED <<job, remote, stale, faults, sessions>>

\* JobStore::update with the outcomes a write may have
Update(new, ok, failed) ==
    \/ /\ StoreAccepts(job, new)
       /\ job' = new
       /\ \/ ok /\ UNCHANGED faults
          \/ Fault /\ failed
    \/ /\ ~StoreAccepts(job, new)
       /\ failed
       /\ UNCHANGED <<job, faults>>
    \/ Fault /\ failed /\ UNCHANGED job

PersistWrite(p) ==
    /\ pc[p] = "write"
    /\ Update(Updated(op[p], job), Resume(p, op[p], "ok"), Resume(p, op[p], "err"))
    /\ Wrote(p)
    /\ UNCHANGED <<remote, sessions>>

-----------------------------------------------------------------------------
(***************************************************************************)
(* cleanup_job_durably and the provider's cleanup                          *)
(***************************************************************************)
\* Mutant: the cleanup intent is not recorded
CleanStartUnasked(p) ==
    /\ pc[p] = "clean"
    /\ rec[p].state \in BuildTerminal \cup {"CleanupFailed"}
    /\ rec[p].run = "none" \/ Completed(run)
    /\ Goto(p, "cleanIntent")
    /\ UNCHANGED <<job, remote, lease, op, rec, why, act, stale, faults, sessions>>

\* Mutant: the ref is deleted before the cleanup intent is durable
CleanStartUnsaved(p) ==
    /\ pc[p] = "clean"
    /\ rec[p].state \in BuildTerminal \cup {"CleanupFailed"}
    /\ rec[p].run = "none" \/ Completed(run)
    /\ rec' = [rec EXCEPT ![p].cleanReq = TRUE]
    /\ Goto(p, "deleteRef")
    /\ UNCHANGED <<job, remote, lease, op, why, act, stale, faults, sessions>>

\* A terminal run whose artifacts were never verified fails first; the run is
\* read again and must be complete; then the intent is recorded
CleanStart(p) ==
    LET r == IF rec[p].state \notin BuildTerminal \cup Terminal /\ Completed(rec[p].run)
             THEN Settled(rec[p], "Failed", <<"failed">>, p) ELSE rec[p] IN
    /\ pc[p] = "clean"
    /\ CASE r.state \notin BuildTerminal \cup Terminal ->
                CleanupCalled(p) /\ UNCHANGED <<job, rec, stale, faults>>
         [] r.state = "Cleaned" -> Checkpoint(p, r, "cleaned", "cleaned")
         [] OTHER ->
                /\ \/ /\ r.run = "none" \/ Completed(run)
                      /\ rec' = [rec EXCEPT ![p] = [r EXCEPT !.cleanReq = TRUE]]
                      /\ Goto(p, "cleanIntent")
                      /\ UNCHANGED <<op, why, act>>
                   \/ /\ r.run # "none"
                      /\ rec' = [rec EXCEPT ![p] = r]
                      /\ CleanupCalled(p)
                /\ UNCHANGED <<job, stale, faults>>
    /\ UNCHANGED <<remote, lease, sessions>>

CleanIntent(p) ==
    /\ pc[p] = "cleanIntent"
    /\ Checkpoint(p, rec[p], "deleteRef", "cleaned")
    /\ UNCHANGED <<remote, lease, sessions>>

\* The run is read once more, and the exact ref deleted
DeleteRef(p) ==
    /\ pc[p] = "deleteRef"
    /\ rec[p].run # "none" => Completed(run)
    /\ IF rec[p].refDeleted
       THEN Goto(p, "cleanFinish") /\ UNCHANGED <<ref, rec>>
       ELSE /\ ref' = FALSE
            /\ rec' = [rec EXCEPT ![p].refDeleted = TRUE]
            /\ Goto(p, "refDeleted")
    /\ UNCHANGED <<job, run, posts, lease, op, why, act, stale, faults, sessions>>

\* A read, or the deletion (done or not), reports an error
CleanupRequestFails(p) ==
    /\ \/ pc[p] = "deleteRef" /\ (rec[p].run # "none" \/ ~rec[p].refDeleted)
       \/ pc[p] = "cleanFinish" /\ rec[p].run # "none"
    /\ ref' \in IF pc[p] = "deleteRef" /\ (rec[p].run = "none" \/ Completed(run))
                THEN {ref, FALSE} ELSE {ref}
    /\ CleanupCalled(p)
    /\ UNCHANGED <<job, run, posts, lease, rec, stale, faults, sessions>>

RefDeleted(p) ==
    /\ pc[p] = "refDeleted"
    /\ Checkpoint(p, rec[p], "cleanFinish", "cleaned")
    /\ UNCHANGED <<remote, lease, sessions>>

\* Cleaning is entered and left in memory; one checkpoint carries the result
CleanupResult(r, p) ==
    IF Completed(r.run) /\ (~Signed \/ r.manifests)
    THEN Settled(r, "Cleaned", <<"cleanup_started", "cleanup_confirmed">>, p)
    ELSE Settled(r, "CleanupFailed", <<"cleanup_started", "cleanup_refused">>, p)

CleanFinish(p) ==
    /\ pc[p] = "cleanFinish"
    /\ Checkpoint(p, CleanupResult(rec[p], p), "cleaned", "cleaned")
    /\ UNCHANGED <<remote, lease, sessions>>

-----------------------------------------------------------------------------
(***************************************************************************)
(* The build: poll_job, cancel_and_wait, complete_submitted_job            *)
(***************************************************************************)
\* An interrupt, or the build's deadline
LeavePoll ==
    /\ pc["B"] = "poll"
    /\ why' \in {"interrupt", "tracking"}
    /\ Persist("B", "cancel_requested")
    /\ UNCHANGED <<job, remote, lease, rec, act, stale, faults, sessions>>

\* Mutant: the wait for the cancelled run has no deadline
WaitUnbounded ==
    /\ pc["B"] = "wait"
    /\ job.outcome = "Cancelled" /\ job.cancel = "Confirmed"
    /\ Goto("B", "relock")
    /\ UNCHANGED <<job, remote, lease, op, rec, why, act, stale, faults, sessions>>

\* CANCELLATION_TIMEOUT: cancellation_outcome_from_job decides
WaitTimesOut ==
    /\ pc["B"] = "wait"
    /\ CASE job.outcome = "Cancelled" /\ job.cancel = "Confirmed" ->
                Goto("B", "relock") /\ UNCHANGED op
         [] job.outcome # "None" \/ job.failure # "none" -> Persist("B", "noncancel_race")
         [] OTHER -> Persist("B", "cancel_uncertain")
    /\ UNCHANGED <<job, remote, lease, rec, why, act, stale, faults, sessions>>

\* acquire_build_mutation_lease, then the configuration and project are bound again
Relock ==
    /\ pc["B"] = "relock"
    /\ lease = "none"
    /\ lease' = "B"
    /\ \/ /\ IF why = "terminal" /\ rec["B"].state = "Succeeded"
             THEN Goto("B", "destination") /\ UNCHANGED op
             ELSE Persist("B", "cleanup_pending")
          /\ UNCHANGED why
       \/ Persist("B", "cleanup_pending") /\ why' = "rebind"
    /\ UNCHANGED <<job, remote, rec, act, stale, faults, sessions>>

\* The lease stayed busy until BUILD_LEASE_REACQUIRE_TIMEOUT, or an interrupt came
RelockFails ==
    /\ pc["B"] = "relock"
    /\ Exit("B")
    /\ UNCHANGED <<job, remote, stale, faults, sessions>>

DownloadFails(o) == Persist("B", o) /\ why' = "download" /\ UNCHANGED <<lease, rec, act>>

Continue(l) == Goto("B", l) /\ UNCHANGED <<lease, rec, op, why, act>>

\* list_artifacts and the exact destinations; persist_downloading
Destination ==
    /\ pc["B"] = "destination"
    /\ \/ /\ job.artifact = "remote"
          /\ Update([job EXCEPT !.state = "Downloading", !.artifact = "intended"],
                    Continue("download"), DownloadFails("controller_failure"))
       \/ DownloadFails("controller_failure") /\ UNCHANGED <<job, faults>>
    /\ Wrote("B")
    /\ UNCHANGED <<remote, sessions>>

\* download_or_resume_artifact; a lost acknowledgement is resolved by reading
\* the record again (reconcile_artifact_path_publication)
Download ==
    LET new == [job EXCEPT !.artifact = "local"] IN
    /\ pc["B"] = "download"
    /\ \/ /\ job.state = "Downloading" /\ StoreAccepts(job, new)
          /\ job' = new
          /\ Continue("downloaded")
          /\ UNCHANGED faults
       \/ /\ DownloadFails("publication_uncertain")
          /\ UNCHANGED <<job, faults>>
    /\ Wrote("B")
    /\ UNCHANGED <<remote, sessions>>

\* persist_downloads_complete
Downloaded ==
    /\ pc["B"] = "downloaded"
    /\ Update([job EXCEPT !.state = "Downloaded"],
              Continue("validating"), DownloadFails("controller_failure"))
    /\ Wrote("B")
    /\ UNCHANGED <<remote, sessions>>

\* finish_completed_downloads: persist_validating, persist_validation_ready_for_cleanup
Validating ==
    /\ pc["B"] = "validating"
    /\ Update(IF job.state = "Downloaded" THEN [job EXCEPT !.state = "Validating"]
              ELSE [job EXCEPT !.state = "CleanupPending", !.last = "Validating",
                               !.cleanup = "Pending"],
              IF job.state = "Downloaded" THEN Continue("validating")
              ELSE /\ Persist("B", "cleanup_pending")
                   /\ why' = "promote"
                   /\ UNCHANGED <<lease, rec, act>>,
              Continue("unpromoted"))
    /\ Wrote("B")
    /\ UNCHANGED <<remote, sessions>>

\* validate_and_promote_durable_success; is_exact_success_promotion resolves a
\* lost acknowledgement
Promote ==
    LET new == [job EXCEPT !.state = "Succeeded", !.last = "Succeeded", !.artifact = "validated"]
        ready == /\ job.state = "CleanupPending" /\ job.outcome = "Succeeded"
                 /\ job.cleanup = "Confirmed" /\ job.artifact = "local" IN
    /\ pc["B"] = "promote"
    /\ \/ ready /\ StoreAccepts(job, new) /\ job' = new /\ Exit("B")
       \/ Continue("unpromoted") /\ UNCHANGED job
    /\ Wrote("B")
    /\ UNCHANGED <<remote, faults, sessions>>

Unpromoted ==
    /\ pc["B"] = "unpromoted"
    /\ IF job.cleanup = "Confirmed" /\ job.state # "Succeeded"
       THEN Persist("B", "controller_failure") /\ UNCHANGED <<lease, rec, why, act>>
       ELSE Exit("B")
    /\ UNCHANGED <<job, remote, stale, faults, sessions>>

-----------------------------------------------------------------------------
(***************************************************************************)
(* "jobs cancel": one session under the operation lease                    *)
(***************************************************************************)
\* prepare_operation: the lease, the record and its restored checkpoint
Prepare ==
    /\ pc["C"] = "idle"
    /\ sessions > 0
    /\ lease = "none"
    /\ Restorable(job.resume)
    /\ sessions' = sessions - 1
    /\ lease' = "C"
    /\ rec' = [rec EXCEPT !["C"] = job.resume]
    /\ stale' = FALSE
    /\ Goto("C", "intent")
    /\ UNCHANGED <<job, remote, op, why, act, faults>>

\* cancellation_action
Action(j, wroteIntent) ==
    CASE DurablyTerminal(j) -> "noop"
      [] wroteIntent /\ j.cancel = "Requested" /\ ~j.resume.cancelReq -> "dispatch"
      [] OTHER -> "get"

SessionGoto(l, a) == Goto("C", l) /\ act' = a /\ UNCHANGED <<op, why, lease, rec>>

\* persist_cancellation_requested of the session: over the exact record it read, or not at all
Intent ==
    LET open == ~DurablyTerminal(job) IN
    /\ pc["C"] = "intent"
    /\ CASE stale \/ (open /\ job.cancel \in {"Failed", "Confirmed"}) ->
                Exit("C") /\ UNCHANGED <<job, faults>>
         [] ~stale /\ open /\ job.cancel = "NotRequested" ->
                Update(Updated("cancel_requested", job), SessionGoto("intended", act), Exit("C"))
         [] OTHER -> SessionGoto("bind", Action(job, FALSE)) /\ UNCHANGED <<job, faults>>
    /\ UNCHANGED <<remote, stale, sessions>>

\* bind_live: the record must still be the one it read (read again if it wrote
\* the intent); the run is read, or the read fails
Bind ==
    LET a == IF pc["C"] = "intended" THEN Action(job, TRUE) ELSE act IN
    /\ pc["C"] \in {"intended", "bind"}
    /\ \/ stale /\ Exit("C")
       \/ /\ ~stale
          /\ act' = a
          /\ \/ /\ rec' = [rec EXCEPT !["C"].run = IF @ = "none" THEN @ ELSE run]
                /\ Goto("C", "bindSave")
                /\ UNCHANGED op
             \/ Persist("C", "cancel_uncertain") /\ UNCHANGED rec
          /\ UNCHANGED <<lease, why>>
    /\ UNCHANGED <<job, remote, stale, faults, sessions>>

BindSave ==
    /\ pc["C"] = "bindSave"
    /\ Checkpoint("C", rec["C"], "bound", "back")
    /\ UNCHANGED <<remote, lease, sessions>>

\* The record is read again, and cancel_or_reconcile_once acts
Bound ==
    LET a == IF DurablyTerminal(job) \/ job.resume.state \in BuildTerminal
             THEN "noop" ELSE act IN
    /\ pc["C"] = "bound"
    /\ SessionGoto(IF a = "dispatch" THEN "cancel" ELSE "await", a)
    /\ UNCHANGED <<job, remote, stale, faults, sessions>>

\* wait_for_terminal, and what follows it
Await ==
    /\ pc["C"] = "await"
    /\ CASE ~DurablyTerminal(job) -> SessionGoto("sync", act)
         [] DurablyTerminal(job) /\ job.outcome = "None" -> Exit("C")
         [] OTHER -> /\ Persist("C", IF job.outcome = "Cancelled" THEN "cleanup_pending"
                                     ELSE "noncancel_race")
                     /\ UNCHANGED <<lease, rec, why, act>>
    /\ UNCHANGED <<job, remote, stale, faults, sessions>>

AwaitTimesOut ==
    /\ pc["C"] = "await"
    /\ ~DurablyTerminal(job)
    /\ Persist("C", "cancel_uncertain")
    /\ UNCHANGED <<job, remote, lease, rec, why, act, stale, faults, sessions>>

-----------------------------------------------------------------------------
\* A process dies: its memory and its lease are gone, the rest stays
Crash(p) ==
    /\ pc[p] \notin {"idle", "end"}
    /\ Exit(p)
    /\ UNCHANGED <<job, remote, stale, faults, sessions>>

Provider(p) ==
    \/ Sync(p) \/ Cancel(p) \/ Observe(p) \/ ObserveFails(p) \/ Mapped(p) \/ Again(p)
    \/ Decide(p) \/ Recheck(p) \/ Post(p) \/ PostNotSent(p) \/ Posted(p)
    \/ PersistRead(p) \/ PersistWrite(p)
    \/ CleanStart(p) \/ CleanIntent(p) \/ DeleteRef(p) \/ CleanupRequestFails(p)
    \/ RefDeleted(p) \/ CleanFinish(p)

Build ==
    \/ LeavePoll \/ WaitTimesOut \/ Relock \/ RelockFails
    \/ Destination \/ Download \/ Downloaded \/ Validating \/ Promote \/ Unpromoted

Session == Prepare \/ Intent \/ Bind \/ BindSave \/ Bound \/ Await \/ AwaitTimesOut

Next ==
    \/ RunAdvances
    \/ \E p \in Procs : Provider(p) \/ Crash(p)
    \/ Build
    \/ Session

Spec == Init /\ [][Next]_vars

\* The build goes on, and its deadlines (its own and CANCELLATION_TIMEOUT) pass
\* while it goes round a loop
FairSpec ==
    /\ Spec
    /\ WF_vars(Provider("B") \/ Build)
    /\ SF_vars(LeavePoll) /\ SF_vars(WaitTimesOut)

-----------------------------------------------------------------------------
TypeOK ==
    /\ DOMAIN job = {"state", "last", "outcome", "cleanup", "cancel", "failure",
                     "artifact", "resume"}
    /\ job.state \in StoredStates /\ job.last \in StoredStates
    /\ job.outcome \in Outcomes /\ job.cleanup \in CleanupStatuses
    /\ job.cancel \in CancellationStatuses /\ job.failure \in Failures
    /\ run \in RunViews /\ ref \in BOOLEAN
    /\ \A p \in Procs : posts[p] \in 0 .. MaxPosts[p]
    /\ lease \in Procs \cup {"none"}
    /\ \A p \in Procs : rec[p] = NoResume <=> pc[p] \in {"idle", "end"}
    /\ faults \in Nat /\ sessions \in Nat

-----------------------------------------------------------------------------
(***************************************************************************)
(* Safety                                                                  *)
(***************************************************************************)
\* Whatever order the two commands checkpoint in, a later process can restore
\* the checkpoint: what validate_successor and the reducer let in, into_record
\* takes back.
DurableRestorable == Restorable(job.resume)

\* The cancel command sends at most one request, over all its sessions: only
\* the session that wrote the intent dispatches, the later ones only read
\* (cancellation_action).
OneSessionPost == posts["C"] <= 1

\* A cancel request leaves only when the intent is in the durable checkpoint.
IntentBeforePost ==
    [][\A p \in Procs : posts'[p] > posts[p] => job.resume.cancelReq]_vars

\* The temporary ref goes only after the run completed, or when no run was
\* ever bound to the job.
RefOutlivesRun == ~ref => Completed(run) \/ job.resume.run = "none"

\* What the store says of the build is what GitHub did, in whichever order the
\* two commands observed it; a confirmed cleanup left no ref and no live run.
OutcomeTruthful ==
    /\ job.outcome = "Succeeded" => run = "success"
    /\ job.outcome = "Cancelled" \/ job.cancel = "Confirmed" => run = "cancelled"
    /\ job.cleanup = "Confirmed" => ~ref /\ Completed(run)
    /\ job.artifact \in {"local", "validated"} => run = "success"

\* A dispatch the store records was sent.
DispatchTruthful ==
    job.resume.cancelDisp \/ job.cancel = "Dispatched" => \E p \in Procs : posts[p] > 0

\* Once the ref is gone, the result of the cleanup can be recorded: nothing the
\* other command stored meanwhile makes the store refuse it.
CleanupRecordable ==
    \A p \in Procs : pc[p] = "cleanFinish" => CheckpointAccepted(job, CleanupResult(rec[p], p))

\* The build ends, whatever the run does and whatever the store refuses: no
\* failure of a step sends it round for ever.
BuildEnds == <>(pc["B"] = "end")

\* At most one cancel request is sent for the job.
OnePost == posts["B"] + posts["C"] <= 1

=============================================================================
