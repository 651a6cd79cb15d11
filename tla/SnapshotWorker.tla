--------------------------- MODULE SnapshotWorker ---------------------------
(***************************************************************************)
(* The worker's half of one SSH snapshot session                           *)
(* (crates/rustferry-worker-macos/src/snapshot_session.rs): the session    *)
(* thread, which owns the job root and writes the replies, and the control *)
(* thread, which waits for the one frame a client may still send while the *)
(* build runs.                                                             *)
(*                                                                         *)
(* A removal that only loses its final directory sync has removed the root *)
(* but confirms nothing.                                                   *)
(***************************************************************************)
EXTENDS SnapshotWire

VARIABLES
    w,         \* the session thread and its job root
    monitor    \* the control thread, its channel and the cancellation token

workerVars == <<w, monitor>>

InputStages == {"request", "descriptor", "archive"}
WriteStages == {"accept", "started", "flush_started", "artifact", "describe", "stream",
                "flush_artifact", "clean_event", "clean_done", "complete",
                "flush_complete", "error", "flush_error"}
WorkerStages == {"idle", "root", "extract", "compile", "check", "allow", "await",
                 "clean", "failing", "exited", "dead"} \cup InputStages \cup WriteStages

WorkerInit ==
    /\ w = [pc |-> "idle", op |-> FALSE, job |-> FALSE, root |-> "none", owned |-> FALSE,
            handle |-> FALSE, allow |-> FALSE, seqIn |-> 0, seqOut |-> 0, ev |-> 0,
            mute |-> FALSE, why |-> "none", proof |-> FALSE, ok |-> FALSE]
    /\ monitor = [pc |-> "off", queue |-> <<>>, token |-> FALSE]

WorkerTypeOK ==
    /\ w \in [pc : WorkerStages, op : BOOLEAN, job : BOOLEAN,
              root : {"none", "present", "removed"}, owned : BOOLEAN, handle : BOOLEAN,
              allow : BOOLEAN, seqIn : 0 .. 3, seqOut : Nat, ev : Nat, mute : BOOLEAN,
              why : {"none", "input", "internal", "compile", "cancelled", "control",
                     "output", "receipt", "cleanup"},
              proof : BOOLEAN, ok : BOOLEAN]
    /\ monitor \in [pc : {"off", "reading", "cancelling", "done"},
                    queue : Seq({"receipt", "cancelled", "disconnected", "failure"}),
                    token : BOOLEAN]

\* The session thread moves on, or returns a failure to serve_snapshot_session
Go(pc) == [w EXCEPT !.pc = pc]
Fail(why) == [w EXCEPT !.pc = "failing", !.why = why]

-----------------------------------------------------------------------------
(***************************************************************************)
(* Receiving the source                                                    *)
(***************************************************************************)
WorkerStarts ==
    /\ w.pc = "idle" /\ link
    /\ w' = Go("request")
    /\ UNCHANGED <<wireVars, scene, monitor>>

\* read_expected_header: in sequence and of the one kind expected here
Expected(f, kind) == f.body # "torn" /\ InOrder(f, w.seqIn) /\ f.kind = kind

\* One frame of the upload, and what a good one leads to
Receive(stage, kind, next) ==
    /\ w.pc = stage /\ up # <<>>
    /\ up' = Tail(up)
    /\ w' = IF Expected(Head(up), kind) /\ Head(up).body = "good"
              THEN [next EXCEPT !.seqIn = @ + 1]
              ELSE Fail("input")
    /\ UNCHANGED <<down, upClosed, link, child, scene, monitor>>

ReadRequest == Receive("request", "BuildRequest", [Go("descriptor") EXCEPT !.op = TRUE])
ReadDescriptor == Receive("descriptor", "SourceDescriptor", Go("root"))
ReadArchive == Receive("archive", "SourceArchive", Go("extract"))

\* InactivityReader: the stream ends, or nothing arrives before a deadline
InputEnds ==
    /\ w.pc \in InputStages /\ up = <<>>
    /\ w' = Fail("input")
    /\ UNCHANGED <<wireVars, scene, monitor>>

\* JobRootGuard::create; a root that cannot be marked is removed, if it can be
CreateRoot ==
    /\ w.pc = "root"
    /\ \/ /\ w' = [Go("archive") EXCEPT !.job = TRUE, !.root = "present", !.owned = TRUE,
                                        !.handle = TRUE]
          /\ NoAccident
       \/ /\ Accident("faults")
          /\ \E left \in {"none", "removed", "present"} : w' = [Fail("internal") EXCEPT !.root = left]
    /\ UNCHANGED <<wireVars, monitor>>

\* The archive on disk, its extraction and removal, the artifact directory, the control thread
Extract ==
    /\ w.pc = "extract"
    /\ \/ /\ w' = Go("accept") /\ monitor' = [monitor EXCEPT !.pc = "reading"]
          /\ NoAccident
       \/ /\ Accident("faults")
          /\ w' = Fail("internal") /\ UNCHANGED monitor
    /\ UNCHANGED wireVars

-----------------------------------------------------------------------------
(***************************************************************************)
(* Replies.  A frame is readable as soon as it is written: what the output *)
(* buffer holds back until the flush is a client that reads later.         *)
(***************************************************************************)
Put(f) == down' = IF link THEN Append(down, f) ELSE down

\* One frame is written, and what follows
Write(kind, job, proof, body, next) ==
    /\ ~w.mute
    /\ Put([Frame(kind, w.seqOut) EXCEPT !.job = job, !.proof = proof, !.body = body])
    /\ w' = [next EXCEPT !.seqOut = @ + 1]
    /\ UNCHANGED <<up, upClosed, link, child, monitor>>

Reply(stage, kind, next) ==
    /\ w.pc = stage
    /\ NoAccident
    /\ Write(kind, TRUE, FALSE, "good", next)

\* Mutant: one event more
EmitEventOneMore(stage, count, next) ==
    /\ w.pc = stage
    /\ NoAccident
    /\ Write("Event", TRUE, FALSE, "good",
             IF w.ev = count THEN [next EXCEPT !.ev = 0] ELSE [w EXCEPT !.ev = @ + 1])

\* emit_event; count says how many this stage has
EmitEvent(stage, count, next) ==
    /\ w.pc = stage /\ w.ev < count
    /\ NoAccident
    /\ Write("Event", TRUE, FALSE, "good",
             IF w.ev + 1 = count THEN [next EXCEPT !.ev = 0] ELSE [w EXCEPT !.ev = @ + 1])

Accept == Reply("accept", "JobAccepted", Go("started"))
EmitStarted == EmitEvent("started", StartEvents, Go("flush_started"))
EmitArtifact == EmitEvent("artifact", ArtifactEvents, Go("describe"))
Describe == Reply("describe", "ArtifactDescriptor", Go("stream"))

\* stream_artifact: the file may change, or end, under the stream
Stream ==
    /\ w.pc = "stream"
    /\ \/ /\ NoAccident
          /\ Write("Artifact", TRUE, FALSE, "good", Go("check"))
       \/ /\ Accident("faults")
          /\ \E body \in {"good", "bad", "torn"} : Write("Artifact", TRUE, FALSE, body, Fail("internal"))

\* stream_artifact: what was read is what was described
CheckStream ==
    /\ w.pc = "check"
    /\ w' = Go("allow")
    /\ UNCHANGED <<wireVars, scene, monitor>>

\* ControlPhase::allow_receipt
AllowReceipt ==
    /\ w.pc = "allow"
    /\ w' = [Go("flush_artifact") EXCEPT !.allow = TRUE]
    /\ UNCHANGED <<wireVars, scene, monitor>>

\* JobRootGuard: the root is gone; or the guard of a root it still owns is dropped
Removed(next) == [next EXCEPT !.root = "removed", !.owned = FALSE, !.handle = FALSE]
Dropped(next) == {next, IF next.owned /\ next.handle THEN Removed(next) ELSE next}

Flushes == [flush_started |-> "compile", flush_artifact |-> "await",
            flush_complete |-> "exited", flush_error |-> "exited"]

Flush ==
    /\ w.pc \in DOMAIN Flushes
    /\ LET next == Flushes[w.pc] IN
         w' \in IF next = "exited" THEN Dropped([Go(next) EXCEPT !.ok = TRUE]) ELSE {Go(next)}
    /\ UNCHANGED <<wireVars, scene, monitor>>

\* BoundedSessionOutput: a write fails, and with it every later one
OutputFails ==
    /\ w.pc \in WriteStages
    /\ \/ w.mute /\ NoAccident
       \/ ~w.mute /\ ~link /\ NoAccident
       \/ ~w.mute /\ Accident("faults")
    /\ LET muted == [w EXCEPT !.mute = TRUE] IN
         w' \in IF w.pc \in {"error", "flush_error"}
                  THEN Dropped([muted EXCEPT !.pc = "exited"])
                  ELSE {[muted EXCEPT !.pc = "failing", !.why = "output"]}
    /\ UNCHANGED <<wireVars, monitor>>

-----------------------------------------------------------------------------
(***************************************************************************)
(* The control thread: one frame, then it is done.  The message is queued  *)
(* before the token is set.                                                *)
(***************************************************************************)
\* What the one control frame means; a receipt only once it is allowed
Control(f) ==
    CASE f.body = "torn" \/ ~InOrder(f, w.seqIn) -> "failure"
      [] f.kind = "Cancel"                       -> "cancelled"
      [] f.kind = "ArtifactReceipt" /\ w.allow   -> "receipt"
      [] OTHER                                   -> "failure"

Queue(msg) == monitor' = [monitor EXCEPT !.queue = Append(@, msg),
                                         !.pc = IF msg = "receipt" THEN "done" ELSE "cancelling"]

MonitorReads ==
    /\ monitor.pc = "reading" /\ up # <<>>
    /\ Queue(Control(Head(up)))
    /\ up' = Tail(up)
    /\ UNCHANGED <<down, upClosed, link, child, scene, w>>

MonitorEnds ==
    /\ monitor.pc = "reading" /\ UpEnds
    /\ Queue("disconnected")
    /\ UNCHANGED <<wireVars, scene, w>>

MonitorCancels ==
    /\ monitor.pc = "cancelling"
    /\ monitor' = [monitor EXCEPT !.pc = "done", !.token = TRUE]
    /\ UNCHANGED <<wireVars, scene, w>>

-----------------------------------------------------------------------------
\* cancellation_failure and wait_for_receipt: what a control message stands for
Reason(msg) == IF msg = "failure" THEN "control" ELSE "cancelled"

\* The compiler returns; the token is read first, then its result
Compile ==
    /\ w.pc = "compile"
    /\ \/ /\ monitor.token
          /\ w' = Fail(Reason(Head(monitor.queue)))
          /\ monitor' = [monitor EXCEPT !.queue = Tail(@)]
          /\ NoAccident
       \/ /\ ~monitor.token
          /\ w' = Go(IF ArtifactEvents = 0 THEN "describe" ELSE "artifact")
          /\ NoAccident /\ UNCHANGED monitor
       \/ /\ ~monitor.token
          /\ Accident("faults")
          /\ w' = Fail("compile") /\ UNCHANGED monitor
    /\ UNCHANGED wireVars

WaitForReceipt ==
    /\ w.pc = "await" /\ monitor.queue # <<>>
    /\ w' = IF Head(monitor.queue) = "receipt" THEN Go("clean_event")
                                               ELSE Fail(Reason(Head(monitor.queue)))
    /\ monitor' = [monitor EXCEPT !.queue = Tail(@)]
    /\ UNCHANGED <<wireVars, scene>>

ReceiptTimesOut ==
    /\ w.pc = "await" /\ monitor.queue = <<>>
    /\ w' = Fail("receipt")
    /\ UNCHANGED <<wireVars, scene, monitor>>

-----------------------------------------------------------------------------
(***************************************************************************)
(* Cleanup.  An attempt to remove the root spends its directory handle.    *)
(***************************************************************************)
NotRemoved(next) == [next EXCEPT !.handle = FALSE]

\* cleanup_root, with what follows its success and its failure
CleanupRoot(confirmed, refused) ==
    \/ w.handle /\ NoAccident /\ w' = Removed(confirmed)
    \/ w.handle /\ Accident("faults") /\ w' \in {refused, NotRemoved(refused), Removed(refused)}
    \/ ~w.handle /\ NoAccident /\ w' = refused

EmitCleanupStarted == EmitEvent("clean_event", 1, Go("clean"))

\* Mutant: the removal is confirmed whatever came of it
CleanAfterReceiptUnchecked ==
    /\ w.pc = "clean"
    /\ LET confirmed == [Go("clean_done") EXCEPT !.proof = TRUE] IN CleanupRoot(confirmed, confirmed)
    /\ UNCHANGED <<wireVars, monitor>>

CleanAfterReceipt ==
    /\ w.pc = "clean"
    /\ CleanupRoot([Go("clean_done") EXCEPT !.proof = TRUE], Fail("cleanup"))
    /\ UNCHANGED <<wireVars, monitor>>

EmitCleanupFinished ==
    /\ w.pc = "clean_done"
    /\ NoAccident
    /\ Write("Event", TRUE, w.proof, "good", Go("complete"))

SendComplete ==
    /\ w.pc = "complete"
    /\ NoAccident
    /\ Write("Complete", TRUE, w.proof, "good", Go("flush_complete"))

\* finish_failure: a root still owned is removed before the failure is told
CleanAfterFailure ==
    /\ w.pc = "failing"
    /\ LET told == [Go("error") EXCEPT !.proof = FALSE] IN
         IF w.owned
           THEN CleanupRoot([told EXCEPT !.proof = TRUE], [told EXCEPT !.why = "cleanup"])
           ELSE w' = told /\ NoAccident
    /\ UNCHANGED <<wireVars, monitor>>

SendError ==
    /\ w.pc = "error"
    /\ NoAccident
    /\ Write("Error", w.job, w.proof, "good", Go("flush_error"))

\* The worker process or its host dies
WorkerDies ==
    /\ w.pc \notin {"idle", "exited", "dead"}
    /\ Accident("deaths")
    /\ w' = Go("dead")
    /\ monitor' = [monitor EXCEPT !.pc = "off"]
    /\ UNCHANGED wireVars

SessionThread ==
    \/ WorkerStarts \/ ReadRequest \/ ReadDescriptor \/ ReadArchive \/ InputEnds
    \/ CreateRoot \/ Extract \/ Accept \/ EmitStarted \/ EmitArtifact \/ Describe
    \/ Stream \/ CheckStream \/ AllowReceipt \/ Flush \/ OutputFails \/ Compile
    \/ WaitForReceipt \/ ReceiptTimesOut \/ EmitCleanupStarted \/ CleanAfterReceipt
    \/ EmitCleanupFinished \/ SendComplete \/ CleanAfterFailure \/ SendError

ControlThread == MonitorReads \/ MonitorEnds \/ MonitorCancels

WorkerNext == SessionThread \/ ControlThread \/ WorkerDies
=============================================================================
