--------------------------- MODULE GithubPublish ----------------------------
(***************************************************************************)
(* Publication of one GitHub job: the push of its temporary ref, and the   *)
(* proof, after a crash or a lost answer, that the push did or did not     *)
(* happen (rustferry-github/src/provider.rs: submit, GitPublisher and      *)
(* reconcile_restored_job; commands/remote.rs: the loop that calls it).    *)
(*                                                                         *)
(* S is the build that submits; R is a later command that restores the     *)
(* checkpoint.  Nothing but the publication lease and the checkpoint sink  *)
(* keeps them apart: the operation lease its callers hold is not assumed.  *)
(* The git child that pushes, the request it sent and the remote ref are   *)
(* state of their own: each may outlive the process that caused it.        *)
(***************************************************************************)
EXTENDS StoredJob

CONSTANTS
    Propagation,   \* a push GitHub received takes effect within this time
    CallTime,      \* a reconcile call decides within this time of its ref read
    StoreSink,     \* the sink is the job store; otherwise only the trait's contract
    MaxPostDeadline,  \* SUBMIT_RECONCILIATION_POST_DEADLINE_ATTEMPTS
    Scenarios      \* of a behaviour: whether the git child dies with its parent
                   \* (process_tree_is_parent_fenced) and whether later commands
                   \* cancel the job; how many calls fail or lose their answer,
                   \* processes die, commands restore, and interrupts reach the build

ASSUME PublishAssumption ==
    /\ StoreSink \in BOOLEAN
    /\ Propagation \in Nat \ {0} /\ CallTime \in Nat \ {0}
    /\ Propagation + CallTime <= Window
    /\ MaxPostDeadline \in Nat \ {0}
    /\ Scenarios \subseteq [fenced : BOOLEAN, cancels : BOOLEAN, faults : Nat,
                            crashes : Nat, restores : Nat, interrupts : Nat]

Procs == {"S", "R"}

VARIABLES
    job,        \* the latest durable record
    now,        \* every process reads the same clock
    lease,      \* holder of the publication lease
    pc, rec,    \* next step and in-memory record of each process
    seen,       \* each process: what its ref read saw, and when
    post,       \* reconcile attempts after the deadline
    out,        \* what the command reported
    interrupted,
    child,      \* the git child that pushes is alive
    sent,       \* it has sent its push
    wire,       \* when the push under way was sent; 0 if there is none
    ref,        \* the temporary ref: absent, at the prepared commit, or another
    run,        \* GitHub lists the run of the prepared commit
    scene       \* the scenario, with what is left of its counts

remote == <<child, sent, wire, ref, run>>
vars == <<job, now, lease, pc, rec, seen, post, out, interrupted, remote, scene>>

dur == job.resume
NotSeen == [ref |-> "none", at |-> 0]

\* submit: the record of a job before its publication was prepared
NewRecord ==
    [state |-> "Created", prepared |-> FALSE, dispatch |-> FALSE, wd |-> "none",
     run |-> "none", started |-> 0, deadline |-> 0, firstObs |-> 0, obs |-> 0,
     fenced |-> FALSE, intent |-> FALSE, uncertain |-> FALSE, absent |-> FALSE,
     notAttempted |-> FALSE, tries |-> 0, cancelReq |-> FALSE, cancelDisp |-> FALSE,
     cleanReq |-> FALSE, refDeleted |-> FALSE, manifests |-> FALSE,
     events |-> <<Event("created", "S")>>]

Init ==
    /\ job = [state |-> "Submitting", last |-> "Submitting", outcome |-> "None",
              cleanup |-> "NotStarted", cancel |-> "NotRequested", failure |-> "none",
              artifact |-> "none", resume |-> NoResume]
    /\ now = 1
    /\ lease = "none"
    /\ pc = [p \in Procs |-> IF p = "S" THEN "prepare" ELSE "idle"]
    /\ rec = [p \in Procs |-> IF p = "S" THEN NewRecord ELSE NoResume]
    /\ seen = [p \in Procs |-> NotSeen]
    /\ post = [p \in Procs |-> 0]
    /\ out = [p \in Procs |-> "none"]
    /\ interrupted = FALSE
    /\ child = FALSE /\ sent = FALSE /\ wire = 0 /\ ref = "absent" /\ run = FALSE
    /\ scene \in Scenarios

-----------------------------------------------------------------------------
(***************************************************************************)
(* Processes and the checkpoint sink                                       *)
(***************************************************************************)
Goto(p, l) == pc' = [pc EXCEPT ![p] = l]

Spend(what) == scene[what] > 0 /\ scene' = [scene EXCEPT ![what] = @ - 1]
Fault == Spend("faults")

\* Mutant: the sink takes whatever it is given
SinkAcceptsAll(r) == TRUE

\* GithubJobCheckpointSink::checkpoint: the job store, or any sink that refuses
\* what validate_successor refuses
SinkAccepts(r) ==
    IF StoreSink THEN CheckpointAccepted(job, r)
    ELSE HasResume(job) => ValidSuccessor(dur, r)

Written(r) == IF StoreSink THEN Checkpointed(job, r) ELSE [job EXCEPT !.resume = r]

Held(p) == lease = p
Released(p) == IF Held(p) THEN "none" ELSE lease

\* checkpoint_record: on success the caller goes on with the lease as given; a
\* refused or unacknowledged write ends the call, and the in-memory record keeps
\* what was changed before it
Save(p, r, ok, held, err) ==
    /\ rec' = [rec EXCEPT ![p] = r]
    /\ \/ IF SinkAccepts(r)
          THEN /\ job' = Written(r)
               /\ \/ Goto(p, ok) /\ lease' = held /\ UNCHANGED scene
                  \/ Fault /\ Goto(p, err) /\ UNCHANGED lease
          ELSE Goto(p, err) /\ UNCHANGED <<job, lease, scene>>
       \/ Fault /\ Goto(p, err) /\ UNCHANGED <<job, lease>>

\* The process ends: its lease and its provider go with it, and so does the git
\* child when the runner fences it
Ends(p, result) ==
    /\ Goto(p, IF p = "S" THEN "end" ELSE "idle")
    /\ out' = [out EXCEPT ![p] = result]
    /\ rec' = [rec EXCEPT ![p] = NoResume]
    /\ seen' = [seen EXCEPT ![p] = NotSeen]
    /\ post' = [post EXCEPT ![p] = 0]
    /\ lease' = Released(p)
    /\ child' = (child /\ ~(p = "S" /\ scene.fenced))

Crash(p) ==
    /\ pc[p] \notin {"idle", "end"}
    /\ Spend("crashes")
    /\ Ends(p, "crashed")
    /\ UNCHANGED <<job, now, interrupted, sent, wire, ref, run>>

Interrupt ==
    /\ pc["S"] # "end"
    /\ Spend("interrupts")
    /\ interrupted' = TRUE
    /\ UNCHANGED <<job, now, lease, pc, rec, seen, post, out, remote>>

\* restore_job: a later command adopts the checkpoint it can read
Restore ==
    /\ pc["R"] = "idle" /\ HasResume(job) /\ Restorable(dur)
    /\ Spend("restores")
    /\ rec' = [rec EXCEPT !["R"] = dur]
    /\ Goto("R", "control")
    /\ out' = [out EXCEPT !["R"] = "none"]
    /\ UNCHANGED <<job, now, lease, seen, post, interrupted, remote>>

-----------------------------------------------------------------------------
(***************************************************************************)
(* GitHub, the git child and time                                          *)
(***************************************************************************)
Elsewhere == <<job, lease, pc, rec, seen, post, out, interrupted, scene>>

\* push_publication: the child sends its one push
Send ==
    /\ child /\ ~sent
    /\ sent' = TRUE /\ wire' = now /\ child' = FALSE
    /\ UNCHANGED <<now, ref, run, Elsewhere>>

\* The push takes effect, unless the ref is no longer absent (--force-with-lease)
Land ==
    /\ wire # 0
    /\ wire' = 0
    /\ ref' = IF ref = "absent" THEN "exact" ELSE ref
    /\ UNCHANGED <<now, child, sent, run, Elsewhere>>

Lost ==
    /\ wire # 0
    /\ wire' = 0
    /\ UNCHANGED <<now, child, sent, ref, run, Elsewhere>>

RunAppears ==
    /\ ref = "exact" /\ ~run
    /\ run' = TRUE
    /\ UNCHANGED <<now, child, sent, wire, ref, Elsewhere>>

\* Others may take the ref's name, or remove the ref once its run exists
OthersMoveRef ==
    /\ \/ ref = "absent" /\ ~run /\ ref' = "foreign"
       \/ ref = "exact" /\ run /\ ref' = "absent"
    /\ UNCHANGED <<now, child, sent, wire, run, Elsewhere>>

\* Time passes, but not past the bounds of a push under way and of an open call
Tick ==
    /\ now < Horizon
    /\ wire # 0 => now + 1 < wire + Propagation
    /\ \A p \in Procs : seen[p].at # 0 => now + 1 < seen[p].at + CallTime
    /\ now' = now + 1
    /\ UNCHANGED <<remote, Elsewhere>>

-----------------------------------------------------------------------------
(***************************************************************************)
(* submit                                                                  *)
(***************************************************************************)
Others == <<now, seen, post, out, interrupted, remote>>

With(r, kind, p) == [r EXCEPT !.events = Append(@, Event(kind, p))]

\* mark_publication_not_attempted
NotAttempted(r, p) ==
    LET m == [r EXCEPT !.uncertain = FALSE, !.absent = FALSE, !.notAttempted = TRUE,
                       !.obs = 0, !.firstObs = 0, !.refDeleted = FALSE,
                       !.deadline = IF r.started = 0 THEN Never
                                    ELSE QuiescenceDeadline(r.started, 0)] IN
    IF r.state \in BuildTerminal \cup Terminal THEN m
    ELSE With([m EXCEPT !.state = "Failed"], "failed", p)

\* submit: prepare reads that the ref is absent, the lease is taken, and the
\* prepared commit is checkpointed with its boundary unarmed
Prepare ==
    /\ pc["S"] = "prepare"
    /\ ref = "absent" /\ lease = "none"
    /\ Save("S", [rec["S"] EXCEPT !.prepared = TRUE, !.deadline = Never,
                                  !.intent = TRUE, !.fenced = scene.fenced],
            "boundary", "S", "control")
    /\ UNCHANGED Others

\* A check, the identity or the preparation fails, or the ref exists: nothing
\* was checkpointed
PrepareFails ==
    /\ pc["S"] = "prepare"
    /\ Goto("S", "control")
    /\ UNCHANGED <<job, lease, rec, scene, Others>>

\* Mutant: the boundary is armed in memory only
ArmInMemory ==
    /\ pc["S"] = "boundary" /\ ~interrupted
    /\ rec' = [rec EXCEPT !["S"] = [@ EXCEPT !.started = now,
                                             !.deadline = QuiescenceDeadline(now, 0)]]
    /\ Goto("S", "publish")
    /\ UNCHANGED <<job, lease, scene, Others>>

\* The last look before the push: identity still valid and not cancelled.  Then
\* the boundary is armed, durably, before the push
Arm ==
    /\ pc["S"] = "boundary" /\ ~interrupted
    /\ Save("S", [rec["S"] EXCEPT !.started = now,
                                  !.deadline = QuiescenceDeadline(now, 0)],
            "publish", lease, "control")
    /\ UNCHANGED Others

\* Either the boundary check (identity, cancellation) or the publisher's own
\* preparation (the ref must be absent, the commit the prepared one) fails: the
\* record says that nothing was attempted, and the lease goes
Refuse ==
    /\ pc["S"] \in {"boundary", "publish"}
    /\ Save("S", NotAttempted(rec["S"], "S"), "control", Released("S"), "control")
    /\ UNCHANGED Others

\* publish_prepared up to the spawn of git push
Publish ==
    /\ pc["S"] = "publish" /\ ref = "absent"
    /\ child' = TRUE
    /\ Goto("S", "pushing")
    /\ UNCHANGED <<job, now, lease, rec, seen, post, out, interrupted,
                   sent, wire, ref, run, scene>>

\* Mutant: the exit status of the push is believed
PushReturnsUnconfirmed(certain) ==
    /\ pc["S"] = "pushing"
    /\ certain => sent
    /\ child' = (child /\ ~scene.fenced)
    /\ Save("S", [rec["S"] EXCEPT !.dispatch = certain, !.uncertain = ~certain],
            "report", lease, "control")
    /\ UNCHANGED <<now, seen, post, out, interrupted, sent, wire, ref, run>>

\* push_publication returns: confirmed by reading the ref back, or uncertain
\* (the push failed or timed out, or the ref could not be confirmed)
PushReturns(certain) ==
    /\ pc["S"] = "pushing"
    /\ certain => sent /\ ref = "exact"
    /\ child' = (child /\ ~scene.fenced)
    /\ Save("S", [rec["S"] EXCEPT !.dispatch = certain, !.uncertain = ~certain],
            "report", lease, "control")
    /\ UNCHANGED <<now, seen, post, out, interrupted, sent, wire, ref, run>>

\* Mutant: a late cancellation is recorded without its state
ReportKeepsState ==
    /\ pc["S"] = "report"
    /\ LET r == rec["S"]
           n == IF r.uncertain THEN With(r, "warning", "S")
                ELSE With([r EXCEPT !.state = "Queued"], "queued", "S") IN
       Save("S", [n EXCEPT !.cancelReq = interrupted], "control",
            IF r.uncertain THEN lease ELSE Released("S"), "control")
    /\ UNCHANGED Others

\* submit after the push: queued or warned, cancelled if the user asked by now;
\* an uncertain publication keeps its lease
Report ==
    /\ pc["S"] = "report"
    /\ LET r == rec["S"]
           n == IF r.uncertain THEN With(r, "warning", "S")
                ELSE With([r EXCEPT !.state = "Queued"], "queued", "S")
           c == [n EXCEPT !.cancelReq = interrupted,
                          !.state = IF interrupted THEN "Cancelling" ELSE @] IN
       Save("S", c, "control", IF r.uncertain THEN lease ELSE Released("S"),
            "control")
    /\ UNCHANGED Others

-----------------------------------------------------------------------------
(***************************************************************************)
(* reconcile_restored_job: one call of the loop of                         *)
(* reconcile_submit_publication_with_cancellation                          *)
(***************************************************************************)
\* submit_publication_evidence
Evidence(r) ==
    CASE /\ r.dispatch /\ ~r.uncertain /\ ~r.absent /\ ~r.notAttempted -> "Mapped"
      [] r.notAttempted \/ (r.absent /\ r.obs >= 2 /\ r.fenced /\ r.refDeleted) -> "Absent"
      [] /\ r.state = "Failed" /\ ~r.dispatch /\ r.uncertain /\ ~r.absent
         /\ ~r.notAttempted /\ r.fenced /\ r.firstObs # 0 /\ r.obs >= 2 -> "Conflict"
      [] OTHER -> "Pending"

\* The loop calls again while the durable record decides nothing
Calls(p) ==
    /\ pc[p] = "control" /\ HasResume(job) /\ Evidence(dur) = "Pending"
    /\ ~(p = "S" /\ interrupted)

Known(r) == r.dispatch /\ ~r.uncertain

\* normalize_published_record, and the same lines of the recovered branches
Normalized(r, p) ==
    IF r.state = "Created" THEN With([r EXCEPT !.state = "Queued"], "queued", p) ELSE r

\* What the record already knows is checkpointed again
Restate(p) ==
    /\ Calls(p)
    /\ Known(rec[p]) \/ rec[p].absent \/ rec[p].notAttempted
    /\ Save(p, IF Known(rec[p]) THEN Normalized(rec[p], p) ELSE rec[p],
            IF rec[p].absent THEN "judge" ELSE "settled", Released(p), "erred")
    /\ UNCHANGED Others

Unsettled(p) == Calls(p) /\ ~Known(rec[p]) /\ ~rec[p].absent /\ ~rec[p].notAttempted

\* acquire_restored_publication_lease
Acquired(p) == lease \in {"none", p} /\ lease' = p

OwnerActive(p) ==
    /\ Unsettled(p)
    /\ lease \notin {"none", p}
    /\ Goto(p, "erred")
    /\ UNCHANGED <<job, lease, rec, scene, Others>>

\* A boundary that was never armed: no push can have started
NeverArmed(p) ==
    /\ Unsettled(p) /\ Unarmed(rec[p])
    /\ lease \in {"none", p}
    /\ Save(p, NotAttempted(rec[p], p), "settled", "none", "erred")
    /\ UNCHANGED Others

\* reconcile_temporary_ref: the remote ref is read
ReadRef(p) ==
    /\ Unsettled(p) /\ ~Unarmed(rec[p])
    /\ Acquired(p)
    /\ seen' = [seen EXCEPT ![p] = [ref |-> ref, at |-> now]]
    /\ Goto(p, "seen")
    /\ UNCHANGED <<job, now, rec, post, out, interrupted, remote, scene>>

\* The read, or a later request of the call, fails; the lease is kept.  In memory
\* the publication is uncertain from the moment the ref was not exact
CallFails(p) ==
    /\ pc[p] = "seen"
    /\ Fault
    /\ rec' = [rec EXCEPT ![p].uncertain = @ \/ seen[p].ref # "exact"]
    /\ seen' = [seen EXCEPT ![p] = NotSeen]
    /\ Goto(p, "erred")
    /\ UNCHANGED <<job, now, lease, post, out, interrupted, remote>>

Conclude(p, r, ok, held) ==
    /\ Save(p, r, ok, held, "erred")
    /\ seen' = [seen EXCEPT ![p] = NotSeen]
    /\ UNCHANGED <<now, post, out, interrupted, remote>>

\* The ref is at the prepared commit, or the prepared commit has a run.  The
\* sync that ends the call no longer touches the publication: see GithubJob
Recover(p) ==
    /\ pc[p] = "seen"
    /\ seen[p].ref = "exact" \/ run
    /\ LET n == [rec[p] EXCEPT !.dispatch = TRUE, !.uncertain = FALSE, !.absent = FALSE,
                               !.run = IF seen[p].ref = "exact" THEN @ ELSE "queued"] IN
       Conclude(p, IF seen[p].ref = "exact" THEN Normalized(n, p)
                   ELSE With(Normalized(n, p), "mapped", p),
                "settled", Released(p))

\* Mutant: observations are not capped
ObservedUncapped(r) ==
    [r EXCEPT !.uncertain = TRUE, !.absent = FALSE, !.obs = @ + 1,
              !.firstObs = IF @ = 0 THEN now ELSE @,
              !.deadline = IF r.firstObs = 0 THEN QuiescenceDeadline(r.started, now) ELSE @]

\* One more observation that neither the ref nor a run is there
Observed(r) ==
    LET first == IF r.firstObs = 0 THEN now ELSE r.firstObs IN
    [r EXCEPT !.uncertain = TRUE, !.absent = FALSE, !.firstObs = first,
              !.deadline = IF r.firstObs = 0 THEN QuiescenceDeadline(r.started, first) ELSE @,
              !.obs = IF @ < 2 THEN @ + 1 ELSE 2]

\* Mutant: time alone is evidence
StronglyResolvedUnfenced(r) == r.obs >= 2 /\ now >= r.deadline

StronglyResolved(r) == r.obs >= 2 /\ now >= r.deadline /\ r.fenced

\* The record once the window has passed
Resolved(r, missing, p) ==
    IF missing /\ ~r.dispatch
    THEN With([r EXCEPT !.uncertain = FALSE, !.absent = TRUE, !.refDeleted = TRUE,
                        !.state = IF r.cancelReq THEN "Cancelled" ELSE "Failed"],
              IF r.cancelReq THEN "cancelled" ELSE "failed", p)
    ELSE IF r.state \in BuildTerminal \cup Terminal THEN r
    ELSE With([r EXCEPT !.state = "Failed"], "failed", p)

NotFound(p) ==
    /\ pc[p] = "seen" /\ seen[p].ref # "exact" /\ ~run
    /\ LET o == Observed(rec[p])
           missing == seen[p].ref = "absent" IN
       IF StronglyResolved(o)
       THEN Conclude(p, Resolved(o, missing, p), IF missing THEN "judge" ELSE "settled",
                     Released(p))
       ELSE Conclude(p, o, "judge", lease)

-----------------------------------------------------------------------------
(***************************************************************************)
(* The commands                                                            *)
(***************************************************************************)
Leaves(p, result) ==
    /\ Ends(p, result)
    /\ UNCHANGED <<job, now, interrupted, sent, wire, ref, run, scene>>

\* reconcile_submit_attempt and the head of the loop: no record, a verdict, or an
\* interrupt ends the command
Control(p) ==
    /\ pc[p] = "control"
    /\ IF ~HasResume(job) THEN Leaves(p, "Failed")
       ELSE IF Evidence(dur) # "Pending" THEN Leaves(p, Evidence(dur))
       ELSE p = "S" /\ interrupted /\ Leaves(p, "Interrupted")

\* Mutant: attempts before the deadline count too
JudgeImpatient(p) ==
    /\ pc[p] \in {"judge", "erred", "settled"}
    /\ \/ /\ Evidence(dur) # "Pending" \/ pc[p] \in {"erred", "settled"}
          /\ Leaves(p, Evidence(dur))
       \/ /\ Evidence(dur) = "Pending" /\ pc[p] # "settled"
          /\ IF post[p] + 1 >= MaxPostDeadline THEN Leaves(p, "Pending")
             ELSE /\ post' = [post EXCEPT ![p] = @ + 1]
                  /\ Goto(p, "control")
                  /\ UNCHANGED <<job, now, lease, rec, seen, out, interrupted, remote, scene>>

\* The rest of the loop: what the call wrote, and whether to go on
Judge(p) ==
    /\ pc[p] \in {"judge", "erred", "settled"}
    /\ \/ /\ Evidence(dur) # "Pending" \/ pc[p] \in {"erred", "settled"}
          /\ Leaves(p, Evidence(dur))
       \/ /\ Evidence(dur) = "Pending" /\ pc[p] # "settled"
          /\ LET n == IF now >= dur.deadline THEN post[p] + 1 ELSE 0 IN
             IF n >= MaxPostDeadline THEN Leaves(p, "Pending")
             ELSE /\ post' = [post EXCEPT ![p] = n]
                  /\ Goto(p, "control")
                  /\ UNCHANGED <<job, now, lease, rec, seen, out, interrupted, remote, scene>>

\* provider.cancel by a restored command, while the publication is not mapped
CancelJob ==
    /\ scene.cancels /\ pc["R"] = "control"
    /\ rec["R"].intent /\ ~rec["R"].dispatch /\ ~rec["R"].cancelReq
    /\ rec["R"].state \notin BuildTerminal \cup Terminal
    /\ Save("R", [rec["R"] EXCEPT !.cancelReq = TRUE, !.state = "Cancelling"],
            "control", lease, "erred")
    /\ UNCHANGED Others

Submit ==
    \/ Prepare \/ PrepareFails \/ Arm \/ Refuse \/ Publish \/ Report
    \/ \E certain \in BOOLEAN : PushReturns(certain)

Reconcile(p) ==
    \/ Restate(p) \/ OwnerActive(p) \/ NeverArmed(p) \/ ReadRef(p)
    \/ CallFails(p) \/ Recover(p) \/ NotFound(p)

Step(p) == Reconcile(p) \/ Control(p) \/ Judge(p)

Remote == Send \/ Land \/ Lost \/ RunAppears \/ OthersMoveRef

Next ==
    \/ Submit \/ Remote \/ Tick \/ Interrupt \/ Restore \/ CancelJob
    \/ \E p \in Procs : Step(p) \/ Crash(p)

Spec == Init /\ [][Next]_vars

\* A live process goes on, a push under way ends, and time passes
FairSpec ==
    /\ Spec
    /\ WF_vars(Submit) /\ WF_vars(Tick) /\ WF_vars(Land \/ Lost)
    /\ \A p \in Procs : WF_vars(Step(p))

-----------------------------------------------------------------------------
(***************************************************************************)
(* Properties                                                              *)
(***************************************************************************)
Pcs == {"idle", "prepare", "boundary", "publish", "pushing", "report", "control",
        "seen", "judge", "erred", "settled", "end"}

\* Every variable has its type.
TypeOK ==
    /\ job \in StoredRecords(Procs)
    /\ now \in 1 .. Horizon
    /\ lease \in Procs \cup {"none"}
    /\ pc \in [Procs -> Pcs]
    /\ \A p \in Procs : rec[p] \in ResumeFields(Procs) \cup {NoResume}
    /\ seen \in [Procs -> [ref : {"none", "absent", "exact", "foreign"}, at : 0 .. Horizon]]
    /\ post \in [Procs -> 0 .. MaxPostDeadline]
    /\ child \in BOOLEAN /\ sent \in BOOLEAN /\ run \in BOOLEAN
    /\ wire \in 0 .. Horizon
    /\ ref \in {"absent", "exact", "foreign"}

\* publication_absent is a proof: once it is durable the prepared commit was not
\* published, and no child or push under way can still publish it
\* (reconcile_restored_job: strongly_resolved).
AbsenceTruthful ==
    HasResume(job) /\ dur.absent => ref # "exact" /\ ~run /\ wire = 0 /\ ~child

\* publication_not_attempted is a proof too: no push was or will be sent, whoever
\* recorded it (submit's refusals, or a command that found the boundary unarmed).
NotAttemptedTruthful ==
    HasResume(job) /\ dur.notAttempted => ~sent /\ ~child

\* A dispatch commit is durable only if the prepared commit reached GitHub.
DispatchTruthful ==
    HasResume(job) /\ dur.dispatch => sent /\ (ref = "exact" \/ run)

\* Every checkpoint the provider writes is one a later process can restore
\* (into_record accepts it), at every step of submit and reconcile.
DurableRestorable == HasResume(job) => Restorable(dur)

\* A push leaves the machine only after its armed boundary is durable (submit
\* checkpoints the push boundary before publish_prepared).
ArmedBeforePush ==
    [][~sent /\ sent' => HasResume(job) /\ dur.intent /\ dur.prepared /\ Armed(dur)]_vars

\* The verdict of a submission does not change: a publication once mapped, or
\* proved absent, stays so for every later command.
VerdictFinal ==
    [][HasResume(job) /\ Evidence(dur) \in {"Mapped", "Absent"}
           => Evidence(dur') = Evidence(dur)]_vars

\* An uninterrupted build whose child is fenced does not end with "pending": once
\* it observed the ref absent, it waits out the window and reports the publication
\* mapped, absent or in conflict (the loop of
\* reconcile_submit_publication_with_cancellation).
SubmissionSettles ==
    (HasResume(job) /\ dur.firstObs # 0 /\ dur.deadline <= Horizon)
        ~> (out["S"] \in {"Mapped", "Absent", "Conflict"})

\* A prepared publication is checkpointed before its boundary is armed: with a
\* sink that does not fail, submit goes on from there with a durable record.
PreparedIsDurable ==
    pc["S"] \in {"boundary", "control"} /\ rec["S"].intent => HasResume(job)

=============================================================================
