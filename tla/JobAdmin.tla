------------------------------ MODULE JobAdmin ------------------------------
(***************************************************************************)
(* The administrative operations of the job store                          *)
(* (crates/cargo-ferry/src/job_store/admin.rs): creating a job under a     *)
(* reservation of its provider operation, retrying a terminal job as a     *)
(* child, and pruning complete terminal lineages in two transactions (an   *)
(* authorization to release remote keepalives, then the deletion).         *)
(* Processes interleave between file-system steps; an error return and a   *)
(* dying process both drop every lock a process holds and nothing else.    *)
(*                                                                         *)
(* A job's revision chain is one atomic record here: RevisionStore shows   *)
(* that publication is atomic.  The prune cutoff lies in the future and    *)
(* its job limit never binds, so a plan selects every eligible lineage.    *)
(***************************************************************************)
EXTENDS Naturals, FiniteSets

CONSTANTS Procs,     \* processes that open the store
          Jobs,      \* local job identifiers; locks are taken in their order
          Ops,       \* provider operation identifiers
          MaxTasks,  \* operations begun in one behaviour
          NoProc, NoJob

ASSUME JobsAssumption == Jobs \subseteq Nat /\ NoJob \notin Jobs
ASSUME ProcsAssumption == NoProc \notin Procs
ASSUME MaxTasksAssumption == MaxTasks \in Nat

VARIABLES job,       \* what the directory of each job holds
          journal,   \* transactions published in _transactions (.json)
          done,      \* those with a completion marker (.done)
          used,      \* release authorizations with a consumption marker (.used)
          tombs,     \* job identifiers with a tombstone
          consumed,  \* operations with a permanent consumption marker
          admin,     \* holder of _admin.lock
          jlock,     \* holder of each job's lock
          lease,     \* holder and kind of each job's operation lease
          resv,      \* holder of each operation's reservation
          pc, task,  \* step and operation of each process
          begun,     \* operations begun so far
          owners     \* history: the jobs that ever published each operation

disk == <<job, journal, done, used, tombs, consumed, owners>>
locks == <<admin, jlock, lease, resv>>
vars == <<disk, locks, pc, task, begun>>

-----------------------------------------------------------------------------
(* Job directories, transactions and plans.                                *)

Absent  == [at |-> "absent"]
Bare    == [at |-> "bare"]     \* directories made, lock file not yet
Empty   == [at |-> "empty"]    \* complete layout without a revision
Partial == [at |-> "partial"]  \* a tree that remove_dir_all has begun to remove

\* The first revision of a job; keep is the phase of its remote keepalive
\* and auth the lineage a release of it was authorized for.
FirstRevision(o, parent) ==
    [at |-> "live", op |-> o, terminal |-> FALSE, rev |-> 1, parent |-> parent,
     kids |-> {}, keep |-> "held", auth |-> {}]

Live == {j \in Jobs : job[j].at = "live"}

RetryTx(q, j, o, before) ==
    [kind |-> "retry", parent |-> q, child |-> j, op |-> o, before |-> before]
ReleaseTx(plan) == [kind |-> "release", plan |-> plan]
PruneTx(plan) == [kind |-> "prune", plan |-> plan]

\* reject_pending_transaction_for_job: the jobs a transaction names.
Named(t) == IF t.kind = "retry" THEN {t.parent, t.child} ELSE DOMAIN t.plan
Pending == journal \ done
PendingFor(j) == \E t \in Pending : j \in Named(t)

\* scan_active_prune_release_authorizations
ActiveReleases == {t \in journal : t.kind = "release"} \ used

\* validate_retry_graph over the records R of the jobs in its domain.
Reciprocal(R) ==
    \A j \in DOMAIN R :
        /\ R[j].parent # NoJob => R[j].parent \in DOMAIN R /\ j \in R[R[j].parent].kids
        /\ \A k \in R[j].kids : k \in DOMAIN R /\ R[k].parent = j

\* lineage_component: the least set around j closed under lineage edges.
LineageClosed(C) == \A k \in C : /\ job[k].parent # NoJob => job[k].parent \in C
                                 /\ job[k].kids \subseteq C
Component(j) ==
    {k \in Live : \A C \in SUBSET Live : j \in C /\ LineageClosed(C) => k \in C}

\* plan_prune: prune_record_is_eligible for the whole component.
Eligible(j) == job[j].terminal
Selected == {j \in Live : \A k \in Component(j) : Eligible(k)}
CurrentPlan == [j \in Selected |-> job[j]]

\* validate_component_snapshot_release_authority
ReleaseAuthorityOK ==
    \A j \in Selected : job[j].keep # "held" => job[j].auth = Component(j)

\* scan_active_jobs: every job directory can be locked and read.
CanScan ==
    \A j \in Jobs \ {k \in Jobs : job[k] = Absent} :
        job[j].at \in {"empty", "live"} /\ jlock[j] = NoProc /\ ~PendingFor(j)
CanPlan ==
    /\ Pending = {}
    /\ CanScan
    /\ Reciprocal([j \in Live |-> job[j]])
    /\ ReleaseAuthorityOK

\* prune_plans_share_stable_authority: the same jobs with the same edges.
SameAuthority(P, Q) ==
    /\ DOMAIN P = DOMAIN Q
    /\ \A j \in DOMAIN P : P[j].parent = Q[j].parent /\ P[j].kids = Q[j].kids

\* scan_snapshot_operation_owner
Owner(o) == {j \in Live : job[j].op = o}

-----------------------------------------------------------------------------
(* Processes.                                                              *)

NoTx == [kind |-> "none"]
NoTask == [kind |-> "none", job |-> NoJob, parent |-> NoJob, op |-> NoJob, leased |-> FALSE,
           plan |-> << >>, release |-> NoTx, tx |-> NoTx, after |-> "leave"]
NoLease == [by |-> NoProc]
Lease(p, kind) == [by |-> p, kind |-> kind]

Create(j, o, leased) ==
    [NoTask EXCEPT !.kind = "create", !.job = j, !.op = o, !.leased = leased]
Retry(q, j, o, leased) ==
    [NoTask EXCEPT !.kind = "retry", !.parent = q, !.job = j, !.op = o, !.leased = leased]
Tasks ==
    {Create(j, o, b) : j \in Jobs, o \in Ops, b \in BOOLEAN}
    \cup {t \in {Retry(q, j, o, b) : q \in Jobs, j \in Jobs, o \in Ops, b \in BOOLEAN} :
              t.parent # t.job}
    \cup {[NoTask EXCEPT !.kind = k] : k \in {"prune", "open"}}

At(p, step) == pc[p] = step
Goto(p, step) == pc' = [pc EXCEPT ![p] = step]

\* Everything p holds is dropped: a return, an error or the death of p.
DropJobLocks(p) == jlock' = [j \in Jobs |-> IF jlock[j] = p THEN NoProc ELSE jlock[j]]
DropLeases(p) == lease' = [j \in Jobs |-> IF lease[j].by = p THEN NoLease ELSE lease[j]]
DropReservation(p) == resv' = [o \in Ops |-> IF resv[o] = p THEN NoProc ELSE resv[o]]
Leave(p) ==
    /\ Goto(p, "idle")
    /\ task' = [task EXCEPT ![p] = NoTask]
    /\ admin' = IF admin = p THEN NoProc ELSE admin
    /\ DropJobLocks(p) /\ DropLeases(p) /\ DropReservation(p)
    /\ UNCHANGED begun

\* Only the step of p changes.
Move(p, step) ==
    /\ Goto(p, step)
    /\ UNCHANGED <<locks, task, begun>>

FirstStep(t) == CASE t.kind = "create" -> IF t.leased THEN "reserveCheck" ELSE "createCheck"
                  [] t.kind = "retry" -> "leaseCheck"
                  [] t.kind = "prune" -> "prunePreview"
                  [] t.kind = "open" -> "openAdmin"

Begin(p, t) ==
    /\ At(p, "idle")
    /\ t.kind # "open" => begun < MaxTasks
    /\ begun' = IF t.kind = "open" THEN begun ELSE begun + 1
    /\ task' = [task EXCEPT ![p] = t]
    /\ Goto(p, FirstStep(t))
    /\ UNCHANGED <<disk, locks>>

Abort(p) ==
    /\ ~At(p, "idle")
    /\ Leave(p)
    /\ UNCHANGED disk

\* Mutant: a short write that ignores an unfinished transaction.
JobEndsUnchecked(j) ==
    /\ job[j].at = "live" /\ ~job[j].terminal
    /\ jlock[j] = NoProc
    /\ job' = [job EXCEPT ![j].terminal = TRUE, ![j].rev = @ + 1]
    /\ UNCHANGED <<journal, done, used, tombs, consumed, owners, locks, pc, task, begun>>

\* A short update by the process that runs the job: its build ends and is
\* cleaned up.  checkpoint_github_resume takes the job lock for it.
JobEnds(j) ==
    /\ job[j].at = "live" /\ ~job[j].terminal
    /\ jlock[j] = NoProc /\ ~PendingFor(j)
    /\ job' = [job EXCEPT ![j].terminal = TRUE, ![j].rev = @ + 1]
    /\ UNCHANGED <<journal, done, used, tombs, consumed, owners, locks, pc, task, begun>>

-----------------------------------------------------------------------------
(* create_initial_job_serialized and create_with_operation_lease.          *)

LockStep(p) == IF task[p].kind = "retry" THEN "retryLocks" ELSE "createLock"

\* A vacancy, when one is supplied, is acquired before either operation:
\* reserveCheck, reserve and scanVacancy come first, and the operation then
\* scans for an owner once more.
CreateCheck(p) ==
    /\ At(p, "createCheck")
    /\ task[p].job \notin tombs
    /\ Move(p, IF task[p].leased THEN "scanOwner" ELSE "reserveCheck")
    /\ UNCHANGED disk

ReserveCheck(p) ==
    /\ At(p, "reserveCheck")
    /\ Pending = {}
    /\ Move(p, "reserve")
    /\ UNCHANGED disk

\* Mutant: a reservation that excludes nobody.
ReserveShared(p) ==
    /\ At(p, "reserve")
    /\ task[p].op \notin consumed
    /\ resv' = [resv EXCEPT ![task[p].op] = p]
    /\ Goto(p, IF task[p].leased THEN "scanVacancy" ELSE "scanOwner")
    /\ UNCHANGED <<disk, admin, jlock, lease, task, begun>>

\* The exclusive reservation of the operation, unless it was consumed.
Reserve(p) ==
    /\ At(p, "reserve")
    /\ resv[task[p].op] = NoProc
    /\ task[p].op \notin consumed
    /\ resv' = [resv EXCEPT ![task[p].op] = p]
    /\ Goto(p, IF task[p].leased THEN "scanVacancy" ELSE "scanOwner")
    /\ UNCHANGED <<disk, admin, jlock, lease, task, begun>>

ScanVacancy(p) ==
    /\ At(p, "scanVacancy")
    /\ CanScan
    /\ Owner(task[p].op) = {}
    /\ task[p].op \notin consumed
    /\ Move(p, IF task[p].kind = "retry" THEN "retryCheck" ELSE "createCheck")
    /\ UNCHANGED disk

\* scan_snapshot_operation_owner: a new job needs a vacant operation.  When
\* the job itself owns it, create returns the idempotent receipt and a retry
\* without a supplied vacancy goes on to its own idempotent return.
ScanOwner(p) ==
    /\ At(p, "scanOwner")
    /\ CanScan
    /\ \/ Owner(task[p].op) = {}
       \/ task[p].kind = "retry" /\ ~task[p].leased /\ Owner(task[p].op) = {task[p].job}
    /\ task[p].op \notin consumed
    /\ Move(p, IF task[p].kind = "retry" THEN "retryAdmin" ELSE "checkLayout")
    /\ UNCHANGED disk

\* lock_job with create_layout.  A job without a lock file must not have a
\* tombstone; its directories are made after that check.
CheckLayout(p) ==
    LET j == task[p].job IN
    /\ At(p, "checkLayout")
    /\ ~PendingFor(j)
    /\ job[j] # Partial
    /\ IF job[j].at \in {"empty", "live"}
       THEN Move(p, LockStep(p))
       ELSE j \notin tombs /\ Move(p, "makeLayout")
    /\ UNCHANGED disk

MakeLayout(p) ==
    LET j == task[p].job IN
    /\ At(p, "makeLayout")
    /\ job[j] # Partial
    /\ job' = IF job[j] = Absent THEN [job EXCEPT ![j] = Bare] ELSE job
    /\ Move(p, LockStep(p))
    /\ UNCHANGED <<journal, done, used, tombs, consumed, owners>>

\* Mutant: the tombstone is not checked again under the lock.
CreateLockOnce(p) ==
    LET j == task[p].job IN
    /\ At(p, "createLock")
    /\ job[j] \in {Bare, Empty}
    /\ jlock[j] = NoProc
    /\ ~PendingFor(j)
    /\ job' = [job EXCEPT ![j] = Empty]
    /\ jlock' = [jlock EXCEPT ![j] = p]
    /\ Goto(p, "createPublish")
    /\ UNCHANGED <<journal, done, used, tombs, consumed, owners, admin, lease, resv, task, begun>>

\* Then the lock file, the exclusive lock and the checks repeated under it.
CreateLock(p) ==
    LET j == task[p].job IN
    /\ At(p, "createLock")
    /\ job[j] \in {Bare, Empty}
    /\ jlock[j] = NoProc
    /\ ~PendingFor(j) /\ j \notin tombs
    /\ job' = [job EXCEPT ![j] = Empty]
    /\ jlock' = [jlock EXCEPT ![j] = p]
    /\ Goto(p, "createPublish")
    /\ UNCHANGED <<journal, done, used, tombs, consumed, owners, admin, lease, resv, task, begun>>

\* The operation is checked for consumption once more, and revision one is
\* published.
CreatePublish(p) ==
    LET j == task[p].job IN
    /\ At(p, "createPublish")
    /\ task[p].op \notin consumed
    /\ job' = [job EXCEPT ![j] = FirstRevision(task[p].op, NoJob)]
    /\ owners' = [owners EXCEPT ![task[p].op] = @ \cup {j}]
    /\ IF task[p].leased THEN Move(p, "createLease") ELSE Leave(p)
    /\ UNCHANGED <<journal, done, used, tombs, consumed>>

\* acquire_operation_lease_from_locked; the job lock and the vacancy drop.
CreateLease(p) ==
    LET j == task[p].job IN
    /\ At(p, "createLease")
    /\ lease[j] = NoLease
    /\ lease' = [lease EXCEPT ![j] = Lease(p, "Build")]
    /\ jlock' = [jlock EXCEPT ![j] = NoProc]
    /\ resv' = [resv EXCEPT ![task[p].op] = NoProc]
    /\ Goto(p, "leaseHeld")
    /\ UNCHANGED <<disk, admin, task, begun>>

\* The bounded provider mutation under the Build lease ends.
DropLease(p) ==
    /\ At(p, "leaseHeld")
    /\ Leave(p)
    /\ UNCHANGED disk

-----------------------------------------------------------------------------
(* try_acquire_operation_lease for a retry, then create_retry_lineage.     *)

\* reject_pending_transaction_for_job and reject_active_prune_release_for_job
\* run before the job is locked.
LeaseCheck(p) ==
    /\ At(p, "leaseCheck")
    /\ Pending = {}
    /\ \A t \in ActiveReleases : task[p].parent \notin Named(t)
    /\ Move(p, "leaseLock")
    /\ UNCHANGED disk

\* Mutant: an operation lease that excludes nobody.
LeaseLockShared(p) ==
    LET q == task[p].parent IN
    /\ At(p, "leaseLock")
    /\ job[q].at = "live" /\ jlock[q] = NoProc /\ ~PendingFor(q)
    /\ lease' = [lease EXCEPT ![q] = Lease(p, "Retry")]
    /\ Goto(p, IF task[p].leased THEN "reserveCheck" ELSE "retryCheck")
    /\ UNCHANGED <<disk, admin, jlock, resv, task, begun>>

\* Under the job lock only pending transactions are checked again.
LeaseLock(p) ==
    LET q == task[p].parent IN
    /\ At(p, "leaseLock")
    /\ job[q].at = "live" /\ jlock[q] = NoProc /\ ~PendingFor(q)
    /\ lease[q] = NoLease
    /\ lease' = [lease EXCEPT ![q] = Lease(p, "Retry")]
    /\ Goto(p, IF task[p].leased THEN "reserveCheck" ELSE "retryCheck")
    /\ UNCHANGED <<disk, admin, jlock, resv, task, begun>>

\* The parent probe of create_retry_lineage_inner.
RetryCheck(p) ==
    LET q == task[p].parent IN
    /\ At(p, "retryCheck")
    /\ task[p].job \notin tombs
    /\ ~PendingFor(q)
    /\ job[q].at = "live" /\ jlock[q] = NoProc /\ lease[q] = Lease(p, "Retry")
    /\ Move(p, IF task[p].leased THEN "scanOwner" ELSE "reserveCheck")
    /\ UNCHANGED disk

\* ensure_admin_layout and recover_pending_transactions_locked.
TakeAdmin(p, step, after) ==
    /\ At(p, step)
    /\ admin = NoProc
    /\ admin' = p
    /\ task' = [task EXCEPT ![p].after = after]
    /\ Goto(p, "recover")
    /\ UNCHANGED <<disk, jlock, lease, resv, begun>>

RetryAdmin(p) == TakeAdmin(p, "retryAdmin", "checkLayout")

\* Parent and child are locked, in the order of their identifiers; try-locks
\* never wait, so a busy one makes the whole retry return.
RetryLocks(p) ==
    LET q == task[p].parent
        j == task[p].job IN
    /\ At(p, "retryLocks")
    /\ job[q].at = "live" /\ job[j] \in {Bare, Empty}
    /\ \A k \in {q, j} : jlock[k] = NoProc /\ ~PendingFor(k)
    /\ j \notin tombs
    /\ lease[q] = Lease(p, "Retry")
    /\ job' = [job EXCEPT ![j] = Empty]
    /\ jlock' = [k \in Jobs |-> IF k \in {q, j} THEN p ELSE jlock[k]]
    /\ Goto(p, "retryPublish")
    /\ UNCHANGED <<journal, done, used, tombs, consumed, owners, admin, lease, resv, task, begun>>

\* Mutant: the transaction file is never published.
RetryUnpublished(p) ==
    LET q == task[p].parent
        t == RetryTx(q, task[p].job, task[p].op, job[q].rev) IN
    /\ At(p, "retryPublish")
    /\ task[p].op \notin consumed
    /\ job[q].terminal
    /\ task' = [task EXCEPT ![p].tx = t, ![p].after = "own"]
    /\ Goto(p, "finishChild")
    /\ UNCHANGED <<journal, job, done, used, tombs, consumed, owners, locks, begun>>

\* validate_retry_child accepts only a terminal parent.  The transaction is
\* durable before either job changes.
RetryPublish(p) ==
    LET q == task[p].parent
        t == RetryTx(q, task[p].job, task[p].op, job[q].rev) IN
    /\ At(p, "retryPublish")
    /\ task[p].op \notin consumed
    /\ job[q].terminal
    /\ journal' = journal \cup {t}
    /\ task' = [task EXCEPT ![p].tx = t, ![p].after = "own"]
    /\ Goto(p, "finishChild")
    /\ UNCHANGED <<job, done, used, tombs, consumed, owners, locks, begun>>

\* finish_retry_transaction_with_locks: what the transaction wants is either
\* not begun or complete on each side.
ParentBefore(t) == job[t.parent].at = "live" /\ job[t.parent].rev = t.before
ParentNext(t) == /\ job[t.parent].at = "live" /\ job[t.parent].rev = t.before + 1
                 /\ t.child \in job[t.parent].kids
ChildComplete(t) == job[t.child] = FirstRevision(t.op, t.parent)

\* Mutant: the completion is published before the parent's edge.
FinishChildOnly(p) ==
    LET t == task[p].tx IN
    /\ At(p, "finishChild")
    /\ ParentBefore(t) \/ ParentNext(t)
    /\ job[t.child] = Empty \/ ChildComplete(t)
    /\ job' = [job EXCEPT ![t.child] = FirstRevision(t.op, t.parent)]
    /\ owners' = [owners EXCEPT ![t.op] = @ \cup {t.child}]
    /\ Move(p, "finishRetry")
    /\ UNCHANGED <<journal, done, used, tombs, consumed>>

FinishChild(p) ==
    LET t == task[p].tx IN
    /\ At(p, "finishChild")
    /\ ParentBefore(t) \/ ParentNext(t)
    /\ job[t.child] = Empty \/ ChildComplete(t)
    /\ job' = [job EXCEPT ![t.child] = FirstRevision(t.op, t.parent)]
    /\ owners' = [owners EXCEPT ![t.op] = @ \cup {t.child}]
    /\ Move(p, "finishParent")
    /\ UNCHANGED <<journal, done, used, tombs, consumed>>

FinishParent(p) ==
    LET t == task[p].tx IN
    /\ At(p, "finishParent")
    /\ job' = IF ParentNext(t) THEN job
              ELSE [job EXCEPT ![t.parent].kids = @ \cup {t.child}, ![t.parent].rev = @ + 1]
    /\ Move(p, IF task[p].leased /\ task[p].after = "own" THEN "retryLease" ELSE "finishRetry")
    /\ UNCHANGED <<journal, done, used, tombs, consumed, owners>>

\* The child's Build lease, taken before the completion is published.
RetryLease(p) ==
    LET j == task[p].job IN
    /\ At(p, "retryLease")
    /\ lease[j] = NoLease
    /\ lease' = [lease EXCEPT ![j] = Lease(p, "Build")]
    /\ jlock' = [jlock EXCEPT ![j] = NoProc]
    /\ Goto(p, "finishRetry")
    /\ UNCHANGED <<disk, admin, resv, task, begun>>

\* publish_admin_completion.  A retry returns, holding the child's Build lease
\* if it took one; recovery goes on to the next transaction.
FinishRetry(p) ==
    /\ At(p, "finishRetry")
    /\ done' = done \cup {task[p].tx}
    /\ IF task[p].after = "own" /\ ~task[p].leased
       THEN Leave(p)
       ELSE /\ DropJobLocks(p)
            /\ IF task[p].after = "own"
               THEN Goto(p, "leaseHeld") /\ admin' = NoProc /\ DropReservation(p)
               ELSE Goto(p, "recover") /\ UNCHANGED <<admin, resv>>
            /\ UNCHANGED <<lease, task, begun>>
    /\ UNCHANGED <<job, journal, used, tombs, consumed, owners>>

-----------------------------------------------------------------------------
(* recover_pending_transactions_locked, run by every opening of the store   *)
(* and by the operations that take the administrative lock.                 *)

OpenAdmin(p) == TakeAdmin(p, "openAdmin", "leave")

\* finish_retry_transaction locks both jobs and remakes a missing layout.
RecoverRetry(p) ==
    /\ At(p, "recover")
    /\ \E t \in Pending :
        /\ t.kind = "retry"
        /\ \A j \in Named(t) : /\ jlock[j] = NoProc /\ job[j] # Partial
                               /\ job[j] \in {Absent, Bare} => j \notin tombs
        /\ job' = [j \in Jobs |-> IF j \in Named(t) /\ job[j].at # "live" THEN Empty ELSE job[j]]
        /\ jlock' = [j \in Jobs |-> IF j \in Named(t) THEN p ELSE jlock[j]]
        /\ task' = [task EXCEPT ![p].tx = t]
    /\ Goto(p, "finishChild")
    /\ UNCHANGED <<journal, done, used, tombs, consumed, owners, admin, lease, resv, begun>>

RecoverRelease(p) ==
    /\ At(p, "recover")
    /\ \E t \in Pending : t.kind = "release" /\ done' = done \cup {t}
    /\ UNCHANGED <<job, journal, used, tombs, consumed, owners, locks, pc, task, begun>>

RecoverPrune(p) ==
    /\ At(p, "recover")
    /\ \E t \in Pending : t.kind = "prune" /\ task' = [task EXCEPT ![p].tx = t]
    /\ Goto(p, "prunePreflight")
    /\ UNCHANGED <<disk, locks, begun>>

\* reconcile_consumed_prune_release_authorizations: a release whose jobs are
\* all gone is consumed, given the completed deletion its tombstones name.
Gone(r) == \A j \in Named(r) : job[j] = Absent
Deleted(r) == \E t \in done : t.kind = "prune" /\ SameAuthority(r.plan, t.plan)
Reconcile(p) ==
    /\ At(p, "recover")
    /\ Pending = {}
    /\ \A r \in ActiveReleases : Gone(r) => Named(r) \subseteq tombs /\ Deleted(r)
    /\ used' = used \cup {r \in ActiveReleases : Gone(r)}
    /\ IF task[p].after = "leave" THEN Leave(p) ELSE Move(p, task[p].after)
    /\ UNCHANGED <<job, journal, done, tombs, consumed, owners>>

-----------------------------------------------------------------------------
(* The prune command (commands/jobs.rs) and the store operations it calls.  *)

\* replan_prune_with_stable_authority under the release r; the second and
\* later replans of one command go through it.
StableReplan(r) ==
    /\ ActiveReleases = {r}
    /\ CanPlan
    /\ SameAuthority(r.plan, CurrentPlan)

\* validate_prune_lease_set_against_plan: each candidate's lock is free, its
\* lease is ours and its record is the planned one.
LeasesCover(p, plan) == \A j \in DOMAIN plan : /\ jlock[j] = NoProc /\ ~PendingFor(j)
                                               /\ lease[j] = Lease(p, "Prune")
                                               /\ job[j] = plan[j]

\* The read-only preview the user confirms.
PrunePreview(p) ==
    /\ At(p, "prunePreview")
    /\ CanPlan
    /\ \/ ActiveReleases = {}
       \/ \E r \in ActiveReleases : StableReplan(r)
    /\ Selected # {}
    /\ task' = [task EXCEPT ![p].plan = CurrentPlan]
    /\ Goto(p, "pruneAdmin")
    /\ UNCHANGED <<disk, locks, begun>>

PruneAdmin(p) == TakeAdmin(p, "pruneAdmin", "pruneResume")

\* resume_prune_release_leases, under the administrative lock it then drops.
PruneResume(p) ==
    /\ At(p, "pruneResume")
    /\ IF ActiveReleases = {}
       THEN Goto(p, "pruneFresh") /\ UNCHANGED task
       ELSE /\ \E r \in ActiveReleases : task' = [task EXCEPT ![p].release = r]
            /\ Goto(p, "pruneLease")
    /\ admin' = NoProc
    /\ UNCHANGED <<disk, jlock, lease, resv, begun>>

\* Without one, the plan must still be the previewed plan.
PruneFresh(p) ==
    /\ At(p, "pruneFresh")
    /\ CanPlan /\ CurrentPlan = task[p].plan
    /\ ActiveReleases = {}
    /\ Move(p, "pruneLease")
    /\ UNCHANGED disk

\* The candidates whose lease p still lacks; leases are taken in their order.
Candidates(p) == IF task[p].release = NoTx THEN DOMAIN task[p].plan ELSE Named(task[p].release)
Unleased(p) == {j \in Candidates(p) : lease[j] # Lease(p, "Prune")}
PruneLease(p) ==
    /\ At(p, "pruneLease")
    /\ \E j \in Unleased(p) :
        /\ \A k \in Unleased(p) : j <= k
        /\ job[j].at = "live" /\ jlock[j] = NoProc /\ ~PendingFor(j)
        /\ lease[j] = NoLease
        /\ lease' = [lease EXCEPT ![j] = Lease(p, "Prune")]
        /\ Goto(p, IF Unleased(p) = {j} THEN "pruneObserve" ELSE "pruneLease")
    /\ UNCHANGED <<disk, admin, jlock, resv, task, begun>>

\* The full plan is validated again under all the leases.
PruneObserve(p) ==
    /\ At(p, "pruneObserve")
    /\ CanPlan /\ CurrentPlan = task[p].plan
    /\ LeasesCover(p, task[p].plan)
    /\ IF task[p].release = NoTx
       THEN Move(p, "pruneAuth")
       ELSE StableReplan(task[p].release) /\ Move(p, "pruneRelease")
    /\ UNCHANGED disk

PruneAuth(p) == TakeAdmin(p, "pruneAuth", "pruneAuthorize")

\* Mutant: the authorization does not look for an active one.
PruneAuthorizeAnother(p) ==
    /\ At(p, "pruneAuthorize")
    /\ journal' = journal \cup {ReleaseTx(task[p].plan)}
    /\ task' = [task EXCEPT ![p].release = ReleaseTx(task[p].plan)]
    /\ Goto(p, "pruneAuthorized")
    /\ UNCHANGED <<job, done, used, tombs, consumed, owners, locks, begun>>

\* The release authorization becomes durable before any keepalive goes.
PruneAuthorize(p) ==
    /\ At(p, "pruneAuthorize")
    /\ ActiveReleases = {}
    /\ journal' = journal \cup {ReleaseTx(task[p].plan)}
    /\ task' = [task EXCEPT ![p].release = ReleaseTx(task[p].plan)]
    /\ Goto(p, "pruneAuthorized")
    /\ UNCHANGED <<job, done, used, tombs, consumed, owners, locks, begun>>

PruneAuthorized(p) ==
    /\ At(p, "pruneAuthorized")
    /\ done' = done \cup {task[p].release}
    /\ admin' = NoProc
    /\ Goto(p, "pruneRelease")
    /\ UNCHANGED <<job, journal, used, tombs, consumed, owners, jlock, lease, resv, task, begun>>

\* snapshot_keepalive_releases lists the work; the plan's lineages are the
\* authority every release names.
PruneRelease(p) ==
    /\ At(p, "pruneRelease")
    /\ StableReplan(task[p].release)
    /\ LeasesCover(p, CurrentPlan)
    /\ task' = [task EXCEPT ![p].plan = [j \in Selected |-> Component(j)]]
    /\ Goto(p, "releaseJobs")
    /\ UNCHANGED <<disk, locks, begun>>

\* release_snapshot_keepalive_for_prune: the intent and then the release are
\* revisions of the job, published under its lock and the Prune lease.
NextPhase == [held |-> "intent", intent |-> "released"]
ReleaseJob(p) ==
    /\ At(p, "releaseJobs")
    /\ \E j \in Candidates(p) :
        /\ job[j].at = "live" /\ job[j].keep # "released"
        /\ \A k \in Candidates(p) : k < j => job[k].keep = "released"
        /\ jlock[j] = NoProc /\ ~PendingFor(j)
        /\ job' = [job EXCEPT ![j].keep = NextPhase[@], ![j].rev = @ + 1,
                              ![j].auth = task[p].plan[j]]
    /\ UNCHANGED <<journal, done, used, tombs, consumed, owners, locks, pc, task, begun>>


\* replan_prune_after_keepalive_releases
PruneReplan(p) ==
    /\ At(p, "releaseJobs")
    /\ StableReplan(task[p].release)
    /\ LeasesCover(p, CurrentPlan)
    /\ \A j \in Selected : job[j].keep = "released"
    /\ task' = [task EXCEPT ![p].plan = CurrentPlan]
    /\ Goto(p, "pruneAgain")
    /\ UNCHANGED <<disk, locks, begun>>

\* prune replans once more, then takes the administrative lock and recovers.
PruneAgain(p) ==
    /\ At(p, "pruneAgain")
    /\ StableReplan(task[p].release) /\ CurrentPlan = task[p].plan
    /\ Move(p, "pruneDelete")
    /\ UNCHANGED disk

PruneDelete(p) == TakeAdmin(p, "pruneDelete", "pruneLocks")

PruneLocks(p) ==
    /\ At(p, "pruneLocks")
    /\ LeasesCover(p, task[p].plan)
    /\ jlock' = [j \in Jobs |-> IF j \in DOMAIN task[p].plan THEN p ELSE jlock[j]]
    /\ Goto(p, "prunePublish")
    /\ UNCHANGED <<disk, admin, lease, resv, task, begun>>

\* The deletion is durable before the locks and leases are dropped.
PrunePublish(p) ==
    LET t == PruneTx(task[p].plan) IN
    /\ At(p, "prunePublish")
    /\ journal' = journal \cup {t}
    /\ task' = [task EXCEPT ![p].tx = t, ![p].after = "own"]
    /\ DropJobLocks(p) /\ DropLeases(p)
    /\ Goto(p, "prunePreflight")
    /\ UNCHANGED <<job, done, used, tombs, consumed, owners, admin, resv, begun>>

-----------------------------------------------------------------------------
(* finish_prune_transaction, for the prune itself and for its recovery.     *)

\* Nothing is touched until every candidate passes: gone with its tombstone,
\* or still exactly the planned record.
Removable(t) == \A j \in Named(t) : \/ job[j] = Absent /\ j \in tombs
                                    \/ job[j] = t.plan[j]
PrunePreflight(p) ==
    LET t == task[p].tx IN
    /\ At(p, "prunePreflight")
    /\ Removable(t)
    /\ \A j \in Named(t) : job[j] # Absent => jlock[j] = NoProc
    /\ Move(p, "consume")
    /\ UNCHANGED disk

\* Mutant: no consumption marker is written before the removals.
ConsumeNothing(p) ==
    LET t == task[p].tx
        left == {j \in Named(t) : t.plan[j].op \notin consumed} IN
    /\ At(p, "consume")
    /\ IF TRUE
       THEN Move(p, "bury") /\ UNCHANGED consumed
       ELSE /\ \E j \in left : consumed' = consumed \cup {t.plan[j].op}
            /\ UNCHANGED <<locks, pc, task, begun>>
    /\ UNCHANGED <<job, journal, done, used, tombs, owners>>

\* Operations are consumed first, one marker at a time, then the tombstones.
Consume(p) ==
    LET t == task[p].tx
        left == {j \in Named(t) : t.plan[j].op \notin consumed} IN
    /\ At(p, "consume")
    /\ IF left = {}
       THEN Move(p, "bury") /\ UNCHANGED consumed
       ELSE /\ \E j \in left : consumed' = consumed \cup {t.plan[j].op}
            /\ UNCHANGED <<locks, pc, task, begun>>
    /\ UNCHANGED <<job, journal, done, used, tombs, owners>>

Bury(p) ==
    LET left == Named(task[p].tx) \ tombs IN
    /\ At(p, "bury")
    /\ IF left = {}
       THEN Move(p, "remove") /\ UNCHANGED tombs
       ELSE /\ \E j \in left : tombs' = tombs \cup {j}
            /\ UNCHANGED <<locks, pc, task, begun>>
    /\ UNCHANGED <<job, journal, done, used, consumed, owners>>

\* remove_owned_job_tree is a remove_dir_all: it unlinks the entries of the
\* tree one at a time and the directory last.
RemoveEntries(p) ==
    /\ At(p, "remove")
    /\ \E j \in Named(task[p].tx) :
        /\ job[j].at = "live" /\ \A k \in Jobs : job[k] # Partial
        /\ job' = [job EXCEPT ![j] = Partial]
    /\ UNCHANGED <<journal, done, used, tombs, consumed, owners, locks, pc, task, begun>>

RemoveDirectory(p) ==
    /\ At(p, "remove")
    /\ \E j \in Named(task[p].tx) : job[j] = Partial /\ job' = [job EXCEPT ![j] = Absent]
    /\ UNCHANGED <<journal, done, used, tombs, consumed, owners, locks, pc, task, begun>>

FinishPrune(p) ==
    LET t == task[p].tx IN
    /\ At(p, "remove")
    /\ \A j \in Named(t) : job[j] = Absent
    /\ done' = done \cup {t}
    /\ Move(p, IF task[p].after = "own" THEN "useRelease" ELSE "recover")
    /\ UNCHANGED <<job, journal, used, tombs, consumed, owners>>

\* publish_prune_release_consumed
UseRelease(p) ==
    /\ At(p, "useRelease")
    /\ used' = used \cup {task[p].release}
    /\ Leave(p)
    /\ UNCHANGED <<job, journal, done, tombs, consumed, owners>>

-----------------------------------------------------------------------------
(* The specification.                                                      *)

\* An empty store, or one whose first job has ended.
Init ==
    /\ job \in {[j \in Jobs |-> Absent]} \cup
              {[j \in Jobs |-> IF j = k THEN [FirstRevision(o, NoJob) EXCEPT !.terminal = TRUE]
                               ELSE Absent] : k \in Jobs, o \in Ops}
    /\ owners = [o \in Ops |-> {j \in Jobs : job[j].at = "live" /\ job[j].op = o}]
    /\ journal = {} /\ done = {} /\ used = {} /\ tombs = {} /\ consumed = {}
    /\ admin = NoProc
    /\ jlock = [j \in Jobs |-> NoProc]
    /\ lease = [j \in Jobs |-> NoLease]
    /\ resv = [o \in Ops |-> NoProc]
    /\ pc = [p \in Procs |-> "idle"]
    /\ task = [p \in Procs |-> NoTask]
    /\ begun = 0

Creating(p) == \/ CreateCheck(p) \/ ReserveCheck(p) \/ Reserve(p) \/ ScanVacancy(p)
               \/ ScanOwner(p) \/ CheckLayout(p) \/ MakeLayout(p) \/ CreateLock(p)
               \/ CreatePublish(p) \/ CreateLease(p) \/ DropLease(p)
Retrying(p) == \/ LeaseCheck(p) \/ LeaseLock(p) \/ RetryCheck(p) \/ RetryAdmin(p)
               \/ RetryLocks(p) \/ RetryPublish(p) \/ FinishChild(p) \/ FinishParent(p)
               \/ RetryLease(p) \/ FinishRetry(p)
Recovering(p) == \/ OpenAdmin(p) \/ RecoverRetry(p) \/ RecoverRelease(p) \/ RecoverPrune(p)
                 \/ Reconcile(p)
Releasing(p) == \/ PrunePreview(p) \/ PruneAdmin(p) \/ PruneResume(p) \/ PruneFresh(p)
                \/ PruneLease(p) \/ PruneObserve(p) \/ PruneAuth(p) \/ PruneAuthorize(p)
                \/ PruneAuthorized(p) \/ PruneRelease(p) \/ ReleaseJob(p)
Deleting(p) == \/ PruneReplan(p) \/ PruneAgain(p) \/ PruneDelete(p) \/ PruneLocks(p)
               \/ PrunePublish(p) \/ PrunePreflight(p) \/ Consume(p) \/ Bury(p)
               \/ RemoveEntries(p) \/ RemoveDirectory(p) \/ FinishPrune(p) \/ UseRelease(p)

Next == \/ \E j \in Jobs : JobEnds(j)
        \/ \E p \in Procs :
            \/ \E t \in Tasks : Begin(p, t)
            \/ Creating(p) \/ Retrying(p) \/ Recovering(p) \/ Releasing(p) \/ Deleting(p)
            \/ Abort(p)

Spec == Init /\ [][Next]_vars

-----------------------------------------------------------------------------
(* Properties.                                                             *)

\* Every lock has one holder that exists, journal markers belong to published
\* transactions, and a job directory is in one of its five shapes.
TypeOK ==
    /\ \A j \in Jobs : job[j].at \in {"absent", "bare", "empty", "partial", "live"}
    /\ done \subseteq journal /\ used \subseteq journal
    /\ tombs \subseteq Jobs /\ consumed \subseteq Ops
    /\ admin \in Procs \cup {NoProc}
    /\ jlock \in [Jobs -> Procs \cup {NoProc}]
    /\ \A j \in Jobs : lease[j].by \in Procs \cup {NoProc}
    /\ resv \in [Ops -> Procs \cup {NoProc}]
    /\ owners \in [Ops -> SUBSET Jobs]
    /\ begun \in 0..MaxTasks

\* A provider operation is published by at most one job in the whole history
\* of the store, whatever creates, retries, prunes and crashes interleave
\* (the reservation, the owner scan and the consumed marker together).
OperationOwnedOnce == \A o \in Ops : Cardinality(owners[o]) <= 1

\* An operation that was ever published still has its live job, is being
\* pruned by a durable transaction, or carries its consumed marker: no crash
\* between the steps of finish_prune_transaction makes it vacant again.
OperationNeverVacant ==
    \A o \in Ops : owners[o] # {} =>
        o \in consumed \/ \E j \in owners[o] : job[j].at = "live" /\ job[j].op = o

\* reject_tombstoned_local_job_id under the job lock: once the tree of a
\* pruned job has begun to go, that identifier never holds a revision again.
NoResurrection ==
    [][\A j \in Jobs : j \in tombs /\ job[j].at # "live" => job'[j].at # "live"]_vars

\* Retry edges are reciprocal for every job no unfinished transaction names,
\* so an interrupted retry or prune is never visible as half an edge
\* (finish_retry_transaction, validate_retry_graph).
LineageReciprocal ==
    \A j \in Live : ~PendingFor(j) =>
        /\ job[j].parent # NoJob => job[j].parent \in Live /\ j \in job[job[j].parent].kids
        /\ \A k \in job[j].kids : k \in Live /\ job[k].parent = j

\* The administrative lock and the recovery that precedes every publication
\* keep at most one transaction unfinished and one release authorization active.
OneTransaction == Cardinality(Pending) <= 1 /\ Cardinality(ActiveReleases) <= 1

\* A durable retry can always be finished by recovery: nothing may move its
\* parent or child away from the state finish_retry_transaction_with_locks
\* accepts, although the locks were lost with the process.
RetryRecoverable ==
    \A t \in Pending : t.kind = "retry" =>
        /\ ParentBefore(t) \/ ParentNext(t)
        /\ job[t.child] \in {Absent, Bare, Empty} \/ ChildComplete(t)
        /\ t.child \notin tombs


\* While a prune holds its leases after the release is authorized, the
\* lineages it was authorized for do not change: no retry adds a child.
HeldLineageStable ==
    \A p \in Procs :
        pc[p] \in {"pruneAuthorized", "pruneRelease", "releaseJobs", "pruneAgain",
                  "pruneDelete", "pruneLocks", "prunePublish"} =>
            \A j \in Named(task[p].release) :
                /\ job[j].at = "live"
                /\ job[j].kids = task[p].release.plan[j].kids
                /\ job[j].parent = task[p].release.plan[j].parent

-----------------------------------------------------------------------------
(* Claims of the documentation and the tests that the code does not meet.   *)

\* "one crash-recoverable prune transaction" (PruneReceiptV1): whenever nobody
\* holds the administrative lock, finish_prune_transaction can finish.
PruneRecoverable ==
    \A t \in Pending : t.kind = "prune" /\ admin = NoProc => Removable(t)

=============================================================================
