--------------------------- MODULE RevisionStore ---------------------------
(***************************************************************************)
(* The revisions directory of one job (crates/cargo-ferry/src/job_store.rs)*)
(* on Unix: processes that lock the job, recover staging, scan the chain,  *)
(* and publish one immutable revision through a staging file and a hard    *)
(* link, with an I/O failure or a crash possible at every step and a power *)
(* loss that undoes directory changes which were not synchronised.         *)
(*                                                                         *)
(* A v2 revision file embeds the SHA-256 of its predecessor file, so a     *)
(* file of revision n is identified with the sequence of the n records up  *)
(* to it; its name carries n and its own digest.                           *)
(***************************************************************************)
EXTENDS Naturals, Sequences, FiniteSets

CONSTANTS Procs,                \* processes that open the store
          Records,              \* record contents
          MaxRevisions,         \* MAX_REVISIONS_PER_JOB
          ValidSuccessor(_, _), \* validate_regular_successor
          NoProc, NoFile

ASSUME MaxRevisionsAssumption == MaxRevisions \in Nat \ {0}
ASSUME SuccessorAssumption == \A a, b \in Records : ValidSuccessor(a, b) \in BOOLEAN
ASSUME NoProcAssumption == NoProc \notin Procs
ASSUME NoFileAssumption ==
    NoFile \notin [data : Seq(Records), whole : BOOLEAN, linked : BOOLEAN]

VARIABLES files,    \* final links "<revision>-<sha256>.json" in the directory
          staging,  \* the ".revision-<uuid>.tmp" entry, or NoFile
          images,   \* directory contents the disk may hold after a power loss
          lock,     \* holder of the exclusive job lock
          pc,       \* step each process is at
          op,       \* operation each process executes
          target,   \* revision file each process publishes
          mode,     \* whether recovery opens an operation or settles one
          acked     \* revisions some caller holds a receipt for

vars == <<files, staging, images, lock, pc, op, target, mode, acked>>

Chains == {s \in Seq(Records) : Len(s) <= MaxRevisions}  \* revision_is_supported
Revisions == Chains \ {<< >>}
StagingFiles == [data : Revisions, whole : BOOLEAN, linked : BOOLEAN]
Directories == [files : SUBSET Revisions, staging : StagingFiles \cup {NoFile}]
Kinds == {"create", "append", "update", "read"}
Operations == [kind : Kinds, revision : 1..MaxRevisions, record : Records]
NoOperation == [kind |-> "none"]
Steps == {"idle", "lock", "recover", "syncRecovery", "decide", "stage", "write",
          "link", "flush", "unlink", "readBack", "syncDirectory", "durable", "confirm"}

-----------------------------------------------------------------------------
(* The chain a scan accepts.                                               *)

\* The revisions 1..Len(s) of the job whose latest revision is s.
PrefixesOf(s) == {SubSeq(s, 1, n) : n \in 1..Len(s)}

\* validate_successor between every two neighbours.
ValidChain(s) == \A n \in 1..(Len(s) - 1) : ValidSuccessor(s[n], s[n + 1])

\* scan_revision_files: contiguous from one, every file bound to its
\* predecessor's digest, every record a valid successor.
IsChainOf(F, s) == F = PrefixesOf(s) /\ ValidChain(s)

\* The last entry of a scan, << >> for an empty directory.
LatestOf(F) == CHOOSE s \in F \cup {<< >>} : \A t \in F : Len(t) <= Len(s)
Latest == LatestOf(files)
ScanAccepts(F) == IsChainOf(F, LatestOf(F))

\* A staging entry recover_revision_staging can settle: unpublished (one
\* link), or the publication pair of a canonical final link (two links).
RecoverableStaging(d) ==
    d.staging # NoFile /\ d.staging.linked => d.staging.whole /\ d.staging.data \in d.files

-----------------------------------------------------------------------------
(* The file system.                                                        *)

Here(F, s) == [files |-> F, staging |-> s]

\* A directory change: visible at once, on disk only some time later.
ChangeDirectory(F, s) ==
    /\ files' = F
    /\ staging' = s
    /\ images' = images \cup {Here(F, s)}

\* sync_directory: what is visible is what the disk holds.
SyncDirectory ==
    /\ images' = {Here(files, staging)}
    /\ UNCHANGED <<files, staging>>

Goto(p, step) == pc' = [pc EXCEPT ![p] = step]

\* The operation returns and its lock is dropped.
Return(p) ==
    /\ Goto(p, "idle")
    /\ lock' = IF lock = p THEN NoProc ELSE lock
    /\ op' = [op EXCEPT ![p] = NoOperation]
    /\ target' = [target EXCEPT ![p] = << >>]
    /\ mode' = [mode EXCEPT ![p] = "open"]

KeepCall == UNCHANGED <<lock, op, target, mode, acked>>
KeepDirectory == UNCHANGED <<files, staging, images>>

-----------------------------------------------------------------------------
(* One operation of process p, step by step.                               *)

\* A caller enters create, append, update_optional or latest.  A caller of
\* append names the revision it wants; the others take what they find.
Begin(p, o) ==
    /\ pc[p] = "idle"
    /\ o.kind # "append" => o.revision = 1
    /\ o.kind = "append" => o.revision > 1
    /\ Goto(p, "lock")
    /\ op' = [op EXCEPT ![p] = o]
    /\ UNCHANGED <<lock, target, mode, acked>>
    /\ KeepDirectory

\* Mutant of Lock: the result of try_lock_exclusive is ignored.
LockWithoutExclusion(p) ==
    /\ pc[p] = "lock"
    /\ lock' = p
    /\ Goto(p, "recover")
    /\ mode' = [mode EXCEPT ![p] = "open"]
    /\ UNCHANGED <<op, target, acked>>
    /\ KeepDirectory

\* lock_job_unchecked: try_lock_exclusive succeeds.
Lock(p) ==
    /\ pc[p] = "lock"
    /\ lock = NoProc
    /\ lock' = p
    /\ Goto(p, "recover")
    /\ mode' = [mode EXCEPT ![p] = "open"]
    /\ UNCHANGED <<op, target, acked>>
    /\ KeepDirectory

\* JobBusy after the last of the bounded attempts.
Busy(p) ==
    /\ pc[p] = "lock"
    /\ lock # NoProc
    /\ Return(p)
    /\ UNCHANGED acked
    /\ KeepDirectory

AfterRecovery(p) == IF mode[p] = "open" THEN "decide" ELSE "confirm"

\* recover_revision_staging: nothing to settle.
RecoverNothing(p) ==
    /\ pc[p] = "recover"
    /\ staging = NoFile
    /\ Goto(p, AfterRecovery(p))
    /\ KeepCall
    /\ KeepDirectory

\* Mutant of RecoverStaging: a publication pair is removed with both links.
RecoverBothLinks(p) ==
    /\ pc[p] = "recover"
    /\ staging # NoFile
    /\ RecoverableStaging(Here(files, staging))
    /\ ChangeDirectory(files \ {staging.data}, NoFile)
    /\ Goto(p, "syncRecovery")
    /\ KeepCall

\* recover_revision_staging: remove an unpublished staging file, or the
\* staging link of a published pair.
RecoverStaging(p) ==
    /\ pc[p] = "recover"
    /\ staging # NoFile
    /\ RecoverableStaging(Here(files, staging))
    /\ ChangeDirectory(files, NoFile)
    /\ Goto(p, "syncRecovery")
    /\ KeepCall

SyncRecovery(p) ==
    /\ pc[p] = "syncRecovery"
    /\ SyncDirectory
    /\ Goto(p, "recover")
    /\ KeepCall

\* The revision file the operation would publish after the chain c.
NextRevision(p, c) == Append(c, op[p].record)

\* Mutant of Publishable: the revision limit is not checked.
PublishableBeyondLimit(p) ==
    \/ op[p].kind = "create" /\ files = {}
    \/ /\ op[p].kind \in {"append", "update"}
       /\ files # {}
       /\ op[p].kind = "append" => op[p].revision = Len(Latest) + 1
       /\ ValidSuccessor(Latest[Len(Latest)], op[p].record)

\* append_inner, update_optional and create_initial_job_serialized: the
\* record may follow the latest revision.
Publishable(p) ==
    /\ op[p].kind # "read"
    /\ Len(Latest) < MaxRevisions
    /\ CASE op[p].kind = "create" -> files = {}
         [] op[p].kind = "append" -> /\ files # {}
                                     /\ op[p].revision = Len(Latest) + 1
                                     /\ ValidSuccessor(Latest[Len(Latest)], op[p].record)
         [] OTHER -> /\ files # {}
                     /\ op[p].record # Latest[Len(Latest)]
                     /\ ValidSuccessor(Latest[Len(Latest)], op[p].record)

\* The latest revision already is what the caller asks for.
AlreadyPresent(p) ==
    /\ op[p].kind # "read"
    /\ files # {}
    /\ op[p].kind \in {"create", "append"} => op[p].revision = Len(Latest)
    /\ op[p].record = Latest[Len(Latest)]

DecidePublish(p) ==
    /\ pc[p] = "decide"
    /\ ScanAccepts(files)
    /\ Publishable(p)
    /\ target' = [target EXCEPT ![p] = NextRevision(p, Latest)]
    /\ Goto(p, "stage")
    /\ UNCHANGED <<lock, op, mode, acked>>
    /\ KeepDirectory

DecidePresent(p) ==
    /\ pc[p] = "decide"
    /\ ScanAccepts(files)
    /\ AlreadyPresent(p)
    /\ target' = [target EXCEPT ![p] = Latest]
    /\ Goto(p, "durable")
    /\ UNCHANGED <<lock, op, mode, acked>>
    /\ KeepDirectory

\* A read returns; any other caller gets RevisionConflict, JobNotFound, an
\* invalid record or a malformed layout.
DecideReturn(p) ==
    /\ pc[p] = "decide"
    /\ ~(ScanAccepts(files) /\ (Publishable(p) \/ AlreadyPresent(p)))
    /\ Return(p)
    /\ UNCHANGED acked
    /\ KeepDirectory

\* The staging file of the revision p publishes: whether its bytes are
\* written and flushed, and whether it has the final name as a second link.
StagedAs(p, whole, linked) == [data |-> target[p], whole |-> whole, linked |-> linked]

\* publish_create_only_platform: create the staging file ...
Stage(p) ==
    /\ pc[p] = "stage"
    /\ ChangeDirectory(files, StagedAs(p, FALSE, FALSE))
    /\ Goto(p, "write")
    /\ KeepCall

\* ... write and flush its bytes ...
WriteStaging(p) ==
    /\ pc[p] = "write"
    /\ ChangeDirectory(files, StagedAs(p, TRUE, FALSE))
    /\ Goto(p, "link")
    /\ KeepCall

\* ... link it under the final name, which must not exist ...
LinkFinal(p) ==
    /\ pc[p] = "link"
    /\ target[p] \notin files
    /\ ChangeDirectory(files \cup {target[p]}, StagedAs(p, TRUE, TRUE))
    /\ Goto(p, "flush")
    /\ KeepCall

\* ... flush the file's metadata ...
FlushFinal(p) ==
    /\ pc[p] = "flush"
    /\ Goto(p, "unlink")
    /\ KeepCall
    /\ KeepDirectory

\* ... remove the staging link ...
UnlinkStaging(p) ==
    /\ pc[p] = "unlink"
    /\ ChangeDirectory(files, NoFile)
    /\ Goto(p, "readBack")
    /\ KeepCall

\* ... read the final file back ...
ReadBack(p) ==
    /\ pc[p] = "readBack"
    /\ target[p] \in files
    /\ Goto(p, "syncDirectory")
    /\ KeepCall
    /\ KeepDirectory

\* ... and synchronise the directory before the receipt is returned.
SyncFinal(p) ==
    /\ pc[p] = "syncDirectory"
    /\ SyncDirectory
    /\ acked' = acked \cup {target[p]}
    /\ Return(p)

\* Mutant of EnsureDurable: the receipt is given without the syncs.
EnsurePresent(p) ==
    /\ pc[p] = "durable"
    /\ acked' = acked \cup {target[p]}
    /\ Return(p)
    /\ KeepDirectory

\* ensure_revision_durable: an idempotent receipt is given only after the
\* existing file and the directory were synchronised.
EnsureDurable(p) ==
    /\ pc[p] = "durable"
    /\ SyncDirectory
    /\ acked' = acked \cup {target[p]}
    /\ Return(p)

\* publish_revision_with_reconciliation after CommitUncertain: the receipt
\* is given when the rescan's latest entry is exactly the published one.
Confirm(p) ==
    /\ pc[p] = "confirm"
    /\ ScanAccepts(files)
    /\ Latest = target[p]
    /\ SyncDirectory
    /\ acked' = acked \cup {target[p]}
    /\ Return(p)

-----------------------------------------------------------------------------
(* Failures.                                                               *)

\* A system call fails, or a check refuses, where the code just returns the
\* error: the failure of the last directory sync is an I/O error and not a
\* reconciled uncertainty; recovery that meets a staging entry it cannot
\* settle, and a rescan that does not end in the published file, return too.
StepFails(p) ==
    /\ pc[p] \in {"recover", "syncRecovery", "stage", "write", "link",
                  "syncDirectory", "durable", "confirm"}
    /\ Return(p)
    /\ UNCHANGED acked
    /\ KeepDirectory

\* fail_unpublished_unix_staging: the write or the link fails and the
\* staging file is removed before the error is returned.
DiscardStaging(p) ==
    /\ pc[p] \in {"write", "link"}
    /\ ChangeDirectory(files, NoFile)
    /\ Return(p)
    /\ UNCHANGED acked

\* CommitUncertain: the final link exists but a later step failed.
CommitUncertain(p) ==
    /\ pc[p] \in {"flush", "unlink", "readBack"}
    /\ Goto(p, "recover")
    /\ mode' = [mode EXCEPT ![p] = "settle"]
    /\ UNCHANGED <<lock, op, target, acked>>
    /\ KeepDirectory

\* The process dies; the operating system drops its lock.
Crash(p) ==
    /\ pc[p] # "idle"
    /\ Return(p)
    /\ UNCHANGED acked
    /\ KeepDirectory

\* The machine stops: every process is gone, the directory is one of the
\* contents it had since it was last synchronised.  (Directory changes reach
\* the disk in the order they were made, as a journaling file system writes
\* them; how many of them did is open.)
PowerLoss ==
    /\ \E d \in images : /\ files' = d.files
                         /\ staging' = d.staging
                         /\ images' = {d}
    /\ pc' = [p \in Procs |-> "idle"]
    /\ lock' = NoProc
    /\ op' = [p \in Procs |-> NoOperation]
    /\ target' = [p \in Procs |-> << >>]
    /\ mode' = [p \in Procs |-> "open"]
    /\ UNCHANGED acked

-----------------------------------------------------------------------------
Init ==
    /\ files = {}
    /\ staging = NoFile
    /\ images = {Here({}, NoFile)}
    /\ lock = NoProc
    /\ pc = [p \in Procs |-> "idle"]
    /\ op = [p \in Procs |-> NoOperation]
    /\ target = [p \in Procs |-> << >>]
    /\ mode = [p \in Procs |-> "open"]
    /\ acked = {}

Publication(p) ==
    \/ Stage(p) \/ WriteStaging(p) \/ LinkFinal(p) \/ FlushFinal(p)
    \/ UnlinkStaging(p) \/ ReadBack(p) \/ SyncFinal(p)

Progress(p) ==
    \/ Lock(p) \/ Busy(p)
    \/ RecoverNothing(p) \/ RecoverStaging(p) \/ SyncRecovery(p)
    \/ DecidePublish(p) \/ DecidePresent(p) \/ DecideReturn(p)
    \/ Publication(p)
    \/ EnsureDurable(p) \/ Confirm(p)

Failure(p) == StepFails(p) \/ DiscardStaging(p) \/ CommitUncertain(p) \/ Crash(p)

Next ==
    \/ \E p \in Procs : (\E o \in Operations : Begin(p, o)) \/ Progress(p) \/ Failure(p)
    \/ PowerLoss

Spec == Init /\ [][Next]_vars

-----------------------------------------------------------------------------
TypeOK ==
    /\ files \in SUBSET Revisions
    /\ staging \in StagingFiles \cup {NoFile}
    /\ images \in SUBSET Directories
    /\ lock \in Procs \cup {NoProc}
    /\ pc \in [Procs -> Steps]
    /\ op \in [Procs -> Operations \cup {NoOperation}]
    /\ target \in [Procs -> Chains]
    /\ mode \in [Procs -> {"open", "settle"}]
    /\ acked \in SUBSET Revisions

\* Whatever point a crash or a power loss interrupts publication at, the
\* directory it leaves is one that scan_revision_files accepts once
\* recover_revision_staging has settled the staging entry: the revisions are
\* contiguous from one, each names its exact predecessor, and a linked staging
\* file still has its final link.  Otherwise the job could never be read again.
CrashConsistent ==
    \A d \in images \cup {Here(files, staging)} :
        ScanAccepts(d.files) /\ RecoverableStaging(d)

\* A revision a caller holds a receipt for - from publication, from the
\* idempotent path or from a reconciled uncertainty - is in every directory a
\* power loss can leave, so nothing ever loses or replaces it.
AckedDurable ==
    \A d \in images \cup {Here(files, staging)} : acked \subseteq d.files

\* The store is an append-only log whose acknowledged part is never lost.
Abstract == INSTANCE RevisionLog WITH log <- Latest
ImplementsLog == Abstract!LogSpec
=============================================================================
