# Verification of rustferry

TLA+ models of the parts of rustferry that keep state across processes, crashes
and remote calls, the TLC runs that check them on small instances, and TLAPS
proofs for every size. All paths are relative to the repository root.

## 1. The system

rustferry builds iPhone and Android applications, locally or on a remote builder.

| Part | Where | State that matters |
| --- | --- | --- |
| CLI `cargo ferry` | `src/crates/cargo-ferry` | the commands that drive one job; job store; deployment; IDE service |
| Job store | `cargo-ferry/src/job_store.rs`, `job_store/admin.rs` | one directory per job with immutable revision files; journal of administrative transactions; leases |
| GitHub provider | `rustferry-github/src/provider.rs` | in-memory record of a job, checkpointed after every change; temporary ref; Actions run |
| Remote protocol | `rustferry-remote` | job states and events; framed SSH snapshot session; source bundles |
| SSH client, macOS worker | `rustferry-ssh`, `rustferry-worker-macos` | session state, job roots, child processes, keychain |
| Runtime, core, codegen, toolchains | `rustferry`, `rustferry-core`, `rustferry-codegen`, `rustferry-android`, `rustferry-apple` | event bus; process control; otherwise pure pipelines |
| VS Code extension | `src/editors/vscode` | request queue to the IDE service |

How they interact. A build command creates a job in the store, submits it to a
provider and polls it; the SSH route has no job in the store and ends with its session. The provider never acts on the remote side before it has
handed a checkpoint of its record to the store, which validates it as a successor
of the previous one and folds it into the job's record. Any other command
(`jobs cancel`, `jobs retry`, `jobs prune`, a second build) may run at the same time
or after the first one died; it restores the checkpoint and goes on. Everything
hard in this program is there: which steps of two processes may interleave, what a
dead process left behind, and what may be concluded from what the remote side shows.

`PROJECT.json` lists every component with its status, and the hazards with the
line where each one bites.

## 2. Modules

| Module | Models | Depends on |
| --- | --- | --- |
| `RevisionLog` | what the store promises about one job: an append-only log | |
| `RevisionStore` | the revisions directory of one job: locking, recovery, scan, publication, receipts, I/O errors, crashes, power loss | `RevisionLog` (refined) |
| `RevisionStoreProofs` | the theorems about `RevisionStore` | `RevisionStore` |
| `JobAdmin` | creation under an operation reservation, retry lineages, release and deletion by prune, journal recovery | |
| `GithubResume` | the provider's checkpoint of one job: its fields, `validate_successor`, `into_record` | |
| `StoredJob` | the store's record of one job: state tables, validity, the reducer `project_github_resume` | `GithubResume` |
| `GithubJob` | a published job driven by its build and by `jobs cancel` at once: observation, cancellation, cleanup | `StoredJob` |
| `GithubPublish` | the push of the temporary ref and the proof that it did or did not happen | `StoredJob` |
| `SnapshotWire` | the framed stream of an SSH snapshot session, the OpenSSH child and the accidents | |
| `SnapshotWorker` | the worker's session thread, control thread and job root | `SnapshotWire` |
| `SnapshotClient` | the build command: framed session, spool, publication, rollback | `SnapshotWire` |
| `SshSession` | both halves together | `SnapshotClient`, `SnapshotWorker` |
| `MC...` | the instances TLC checks | the module named |

Composition. `GithubJob` and `GithubPublish` run on top of `StoredJob`, which stands
for one revision of the store: a store update is one atomic step there because
`RevisionStore` is shown to implement `RevisionLog`. `JobAdmin` uses the same
abstraction for each job's chain. `GithubPublish` ends where `GithubJob` begins: with
a record whose publication is certain.

### RevisionStore

Variables: the final links in the directory (`files`), the staging link, the set of
directory contents the disk may hold after a power loss (`images`, reset by a
directory sync), the exclusive lock, and for every process its step, operation and
target. A v2 revision embeds the digest of its predecessor, so a file of revision n
is identified with the sequence of the n records up to it. One action per system
call of `publish_revision` and of the recovery (`Stage`, `WriteStaging`, `LinkFinal`,
`FlushFinal`, `UnlinkStaging`, `ReadBack`, `SyncFinal`, ...); `StepFails`,
`DiscardStaging` and `CommitUncertain` are the error paths, `Crash` and `PowerLoss` the
environment. The Unix publication (hard link) is modelled, not the Windows one.

### JobAdmin

Variables: the shape of every job directory, the journal with its completion and
consumption markers, tombstones, consumed operations, the locks and leases, and a
program counter per process. Actions follow the file-system steps of
`create`, `create_retry_child`, `authorize_prune_release`, `prune_terminal` and of the
recovery that opens every administrative call. A crash and an error return have the
same effect: the locks go, the files stay.

### GithubResume and StoredJob

The data layer. `GithubResume` keeps the fields of `GithubJobResumeV1` the control flow
depends on; identities that never change in a legal history are left out. `StoredJob`
holds the state tables, the validity of a record and of a successor, and the reducer
that turns a checkpoint into the next record (`Project`). Both are definitions only.

### GithubJob

`B` is the submitting build (poll, interrupt, cancel, wait, download, cleanup), which
does not hold the operation lease while it polls; `C` is a `jobs cancel` session, which
does. Each has its own in-memory record (`rec`). They meet in `job` (the latest stored
revision) and in the remote run. A step is one call that leaves the process. The
provider's handlers are split exactly at their checkpoints and requests: `Observe`,
`Decide`, `Recheck`, `Post`, `Posted` are the parts of
`sync_job_with_cancel_policy_inner`. A store write may fail, or succeed and lose its
acknowledgement. How many do, how many sessions come, and whether the build is
alive at the start is the scenario of a behaviour (`Scenarios`), chosen by `Init`.

### GithubPublish

`S` submits, `R` restores. The git child, the request it sent (`wire`), the remote ref
and the run are separate variables because each may outlive what caused it. The code
relies on time: `Window` is the quiescence window, `Propagation` bounds how long a push
that GitHub received may take to show, and `CallTime` bounds one reconcile call from
its read of the ref to its decision. `PublishAssumption` requires
`Propagation + CallTime <= Window`; the 75 minutes of
`GITHUB_PUBLICATION_QUIESCENCE_WINDOW_MS` are meant to cover both. A process that is
suspended for longer than that between the read and the decision is outside the
assumption. A scenario (`Scenarios`) says whether the child is fenced (what
`process_tree_is_parent_fenced` returns: true on Windows only) and how many calls
fail, processes die, commands restore and interrupts come. `StoreSink` selects the job store or the bare contract of
`GithubJobCheckpointSink` as the checkpoint sink.

### SshSession

The client uploads a source, the worker compiles it and streams the artifact back, the
client publishes the artifact and sends a receipt, the worker removes its job root and
proves it. `up` and `down` are the two directions of the stream; a frame is a kind, a
sequence number and a body that is good, does not match its digest, or is torn.
`w` is the session thread of `Session::run` (one action per frame read or written, per
file-system effect and per check), `monitor` the control thread that reads the one frame
a client may still send, with its channel and the cancellation token. `c` is the thread of
`build_iphone` and `run_snapshot_session`: what it has written, whether a Cancel is still
owed, whether the spool is armed, registered and authorized; `disk` is what it has put
on the local disk. Worker replies become readable when they are written, not when they
are flushed: standard output passes on full buffers and lines by itself. A scenario says
how many faults, interrupts, expiries of the deadline, lost connections, deaths and
replacements of the artifact path may happen; each may happen at any step where the
code can meet it.

## 3. Runs

Passing runs (`tlc -config <cfg> <module>`):

| Run | Checks | Instance |
| --- | --- | --- |
| `revision_store` | `TypeOK`, `CrashConsistent`, `AckedDurable`, refinement of `RevisionLog` | 2 processes, 2 records, 2 revisions |
| `job_admin` | one owner per operation, no vacancy, reciprocal lineages, recoverable retries, authorized removal | 2 processes, 2 jobs, 2 operations, 4 calls |
| `github_job` | the record can be restored, says the truth about the run, cleanup never outruns the run, intent before request, one request from all sessions | 1 store fault; the build beside 1 session, or 3 sessions after it died |
| `github_build` | the build ends | build alone, 1 store fault |
| `publish` | verdicts about the push are true and final, boundary armed before the push, record restorable | 1 restoring command and one of: a crash and a cancel; a failed or unacknowledged call; a crash and an interrupt with an unfenced child |
| `publish_settles` | a submission without failures reports a verdict | no failures |
| `ssh_session` | receipt, cleanup confirmation, success and failure are what they claim; an abort never succeeds; both sides end | 1 event before and 1 after the compilation; a fault with another fault, an interrupt, a death or a replaced path; a death with an interrupt, the deadline or a lost connection |

Bounds. Two processes suffice for the lock and lease protocols, which never count
their clients. Two revisions reach the revision limit and every pair of neighbours; two
jobs give a lineage with both of its ends. One fault or crash at every possible step is
the granularity of the code's recovery, which always starts again from the durable
state. In `publish`, `Window = 3`, `Propagation = 1`, `CallTime = 2` are the smallest values
that let a call span an instant and make the assumption tight, and `Horizon = 5` lets a
first observation at instant 2 reach its deadline. Requests and attempts are counted only
as far as a property distinguishes them (`MaxPosts`, `MaxPostDeadline`).

`CHECK_DEADLOCK FALSE` appears where the commands come to their end; the two store
models never stop and are checked for deadlock.

Fairness. Only the three liveness checks need it. `github_build`: the build is a loop with
deadlines, so its own steps and its timeouts are weakly fair; the run on GitHub is not
assumed to progress. `publish_settles`: weak fairness of the process's steps, of the
clock, and of the fate of a push under way (it lands or is lost); nothing is assumed
about others. `ssh_session`: the client's thread, the worker's two threads and the exit
of OpenSSH are weakly fair. Every wait of the worker has a deadline and the client waits
only for the worker or the end of the stream, so the client's own deadline is not assumed
to pass.

Runs that end in a violation state what a comment, a document or a test says and the
code does not do. Each has a finding in `PROJECT.json` with the quotation.

| Run | What it shows |
| --- | --- |
| `prune_crash` | a process that dies inside `remove_dir_all` leaves a tree the recovery refuses |
| `cancel_twice` | the build repeats a cancel request whose answer was lost |
| `publish_store` | the store refuses the first checkpoint of every submission |
| `ssh_prejob` | the client rejects a worker error sent between allocation and acceptance of the job |
| `ssh_leftover` | a failure between linking and registering the artifact leaves the link behind |

Because of `publish_store`, `publish` and `publish_settles` run with the contract of the sink
rather than with the store, and `GithubJob` starts at an armed, published record.

## 4. Proofs

`RevisionStoreProofs` proves, for every set of processes and records, every successor
relation and every positive revision limit:

- `TypeCorrect`: `Spec => []TypeOK`;
- `CrashSafety`: `Spec => []CrashConsistent`: whatever a crash leaves can be read again;
- `ReceiptsAreDurable`: `Spec => []AckedDurable`: no receipt is ever lost;
- `StoreImplementsLog`: `Spec => ImplementsLog`: the store implements the append-only log.

Assumptions: the four named `ASSUME`s of `RevisionStore` (a positive limit, a Boolean
successor relation, and two markers that are not members of the sets they mark).

None of these is inductive. The invariant `IInv` adds what makes them so: only the
holder of the lock is between its first and last step (`Exclusive`); every directory the
disk may hold is a valid chain, possibly one file shorter than the visible one, plus at
most one recoverable staging link (`DiskOK`); and each process's program counter tells
how its target relates to the chain (`StepOK`). `StoreInvariant` proves `IInv`: one lemma per
group of actions, on top of lemmas about prefixes and appended chains. The refinement
maps `log` to the longest chain in the directory; publication is the step that links the
file, an acknowledgement is the return of a receipt, and a power loss takes away only
what no receipt covers.

Only model-checked: everything about `JobAdmin`, `GithubJob`, `GithubPublish`
and `SshSession`. Liveness
and `ENABLED` are out of the prover's reach, as is induction over data.

## 5. Not modelled

See `components` in `PROJECT.json` for each part with its reason. In short: parsing and
validation of documents, archives and configuration have no state; code generation and
the local toolchains are sequential pipelines of external tools; process spawning,
HTTP and the file system appear as steps that succeed, fail or lose their answer. Within
the modelled parts: the Windows publication path of the store, remote artifact removal,
and the documents inside the frames of a session, whose identities are taken as right.

## 6. Plan

Next, in this order:

1. `WorkflowDispatch` and `SnapshotSource`: the other trigger and the other source of the
   GitHub provider, with their own intent, receipt and ref phases.
2. `ManagedEvents` and `ArtifactRemoval`: the rest of `job_store/admin.rs`.
3. An abstract exchange (source, artifact, receipt, cleanup proof) that `SshSession`
   implements; then `WorkerJob`, `KeychainSession`.
4. `ArtifactStore`, `JobLogs`, `ProcessControl`, `RuntimeEvents`, `IdeService`,
   `VscodeClient`.
5. Proofs: the verdicts of `GithubPublish` (`AbsenceTruthful` and `NotAttemptedTruthful`
   from an invariant relating clock, window and push), single ownership in `JobAdmin`,
   and the session protocol.
