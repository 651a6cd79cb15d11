--------------------------- MODULE SnapshotClient ---------------------------
(***************************************************************************)
(* The client's half of one SSH snapshot session: build_iphone             *)
(* (crates/cargo-ferry/src/commands/ssh_remote.rs) around                  *)
(* run_snapshot_session (crates/rustferry-ssh/src/process_session.rs and   *)
(* session.rs).                                                            *)
(*                                                                         *)
(* disk is what the build may leave behind: the private session directory, *)
(* the staging link of the artifact spool, the final artifact path and the *)
(* published event log.  Another program may put a file of its own at the  *)
(* final path.                                                             *)
(***************************************************************************)
EXTENDS SnapshotWire

VARIABLES
    c,          \* the build command and its session
    disk,       \* what it has put on disk
    cancelled,  \* the cancellation token
    expired     \* the session deadline has passed

clientVars == <<c, disk, cancelled, expired>>

Reading == {"accept", "events", "payload", "done"}
InSession == {"spawn", "upload", "flush", "verify", "register", "receipt", "close", "exit"} \cup Reading
Failing == {"fail", "unspool", "hangup", "reap", "abort", "source"}
Finalizing == {"log", "tidy", "commit", "settle", "rollback"}
ClientStages == {"ready", "prepare", "spool", "ended", "dead"} \cup InSession \cup Failing \cup Finalizing

ClientInit ==
    /\ c = [pc |-> "ready", sent |-> 0, output |-> "Uploading", guard |-> FALSE, seqIn |-> 0,
            ev |-> 0, pub |-> FALSE, armed |-> FALSE, authorized |-> FALSE,
            verified |-> FALSE, io |-> FALSE, prepared |-> FALSE, logFailed |-> FALSE,
            logLinked |-> FALSE, proven |-> FALSE, err |-> "none", next |-> "abort", report |-> "none"]
    /\ disk = [session |-> FALSE, staging |-> FALSE, final |-> "absent", log |-> FALSE]
    /\ cancelled = FALSE /\ expired = FALSE

Errors == {"none", "data", "server", "identity", "protocol", "verification", "local",
           "cancelled", "timed_out", "process", "cleanup"}

ClientTypeOK ==
    /\ c \in [pc : ClientStages, sent : 0 .. 3,
              output : {"Uploading", "Cancelable", "ReceiptStarted", "ReceiptSent", "CancelSent"},
              guard : BOOLEAN, seqIn : Nat, ev : Nat, pub : BOOLEAN, armed : BOOLEAN,
              authorized : BOOLEAN, verified : BOOLEAN, io : BOOLEAN, prepared : BOOLEAN,
              logFailed : BOOLEAN, logLinked : BOOLEAN, proven : BOOLEAN, err : Errors,
              next : {"hangup", "abort", "rollback"},
              report : {"none", "success", "failed", "uncertain"}]
    /\ disk \in [session : BOOLEAN, staging : BOOLEAN, final : {"absent", "ours", "foreign"},
                 log : BOOLEAN]
    /\ cancelled \in BOOLEAN /\ expired \in BOOLEAN

At(pc) == [c EXCEPT !.pc = pc]

\* run_snapshot_session_deferred returns an error: the cancel guard is dropped first
SessionFails(err) == [c EXCEPT !.pc = "fail", !.err = err, !.next = "hangup"]
\* An error without a session left to end: transport_error, then the caller's rollback
TransportFails(err) == [c EXCEPT !.pc = "unspool", !.err = err, !.next = "abort"]
\* abort_snapshot_transaction
Abort(err) == [c EXCEPT !.pc = "abort", !.err = err]
Ended(report) == [c EXCEPT !.pc = "ended", !.report = report]

\* AbortController::checkpoint
Aborted == cancelled \/ expired
AbortError == IF cancelled THEN "cancelled" ELSE "timed_out"

-----------------------------------------------------------------------------
(***************************************************************************)
(* Before the session                                                      *)
(***************************************************************************)
\* require_snapshot_endpoint_ready: handshake and doctor
Handshake ==
    /\ c.pc = "ready"
    /\ \/ ~cancelled /\ c' = At("prepare") /\ NoAccident
       \/ cancelled /\ c' = Ended("failed") /\ NoAccident
       \/ Accident("faults") /\ c' = Ended("failed")
    /\ UNCHANGED <<wireVars, disk, cancelled, expired>>

\* prepare_artifact_destination, then prepare_snapshot
Prepare ==
    /\ c.pc = "prepare"
    /\ \/ /\ disk.final # "absent" /\ c' = Ended("failed")
          /\ NoAccident /\ UNCHANGED disk
       \/ /\ disk.final = "absent" /\ c' = [At("spool") EXCEPT !.prepared = TRUE]
          /\ disk' = [disk EXCEPT !.session = TRUE] /\ NoAccident
       \/ /\ disk.final = "absent" /\ Accident("faults")
          /\ \/ c' = Ended("failed") /\ UNCHANGED disk
             \/ c' = Ended("uncertain") /\ disk' = [disk EXCEPT !.session = TRUE]
    /\ UNCHANGED <<wireVars, cancelled, expired>>

\* CreateOnlyArtifactSpool::create, create_event_log, build_ssh_session_invocation
CreateSpool ==
    /\ c.pc = "spool"
    /\ \/ cancelled /\ c' = Abort("cancelled") /\ NoAccident /\ UNCHANGED disk
       \/ /\ ~cancelled /\ c' = [At("spawn") EXCEPT !.armed = TRUE]
          /\ disk' = [disk EXCEPT !.staging = TRUE] /\ NoAccident
       \/ /\ ~cancelled /\ Accident("faults")
          /\ \/ c' = Abort("local") /\ UNCHANGED disk
             \/ /\ c' = [Abort("local") EXCEPT !.armed = TRUE]
                /\ disk' = [disk EXCEPT !.staging = TRUE]
    /\ UNCHANGED <<wireVars, cancelled, expired>>

\* ProcessSshRunner::run_snapshot_session up to the framed session
Spawn ==
    /\ c.pc = "spawn"
    /\ \/ cancelled /\ c' = TransportFails("cancelled") /\ NoAccident /\ UNCHANGED <<link, child>>
       \/ /\ ~cancelled /\ c' = At("upload") /\ NoAccident
          /\ link' = TRUE /\ child' = "running"
       \/ ~cancelled /\ Accident("faults") /\ c' = TransportFails("local") /\ UNCHANGED <<link, child>>
    /\ UNCHANGED <<up, down, upClosed, disk, cancelled, expired>>

-----------------------------------------------------------------------------
(***************************************************************************)
(* Writing.  A write that is refused, or abandoned half way, leaves its    *)
(* frame torn or unsent.                                                   *)
(***************************************************************************)
UpFrames == <<"BuildRequest", "SourceDescriptor", "SourceArchive">>

Carried(frames) == up' = IF link THEN up \o frames ELSE up
Half(f) == {<<>>, <<[f EXCEPT !.body = "torn"]>>}

\* The pipe to the child is gone
PipeBroken == child # "running" \/ ~link

\* A failed write, remembered by the AbortController unless an abort came first
Broken(next) == [next EXCEPT !.io = ~Aborted]

\* One frame written by the session: whole, or not because of an abort or a broken pipe
WriteFrame(f, next) ==
    \/ ~Aborted /\ Carried(<<f>>) /\ c' = next
    \/ /\ Aborted \/ PipeBroken
       /\ \E part \in Half(f) : Carried(part)
       /\ c' = Broken(SessionFails("data"))

\* write_request_frames: a source file that changed under the stream stops it
Upload ==
    /\ c.pc = "upload"
    /\ LET f == Frame(UpFrames[c.sent + 1], c.sent)
           next == [c EXCEPT !.sent = @ + 1, !.pc = IF c.sent = 2 THEN "flush" ELSE "upload"]
       IN \/ WriteFrame(f, next) /\ NoAccident
          \/ /\ ~Aborted /\ Accident("faults")
             /\ \E g \in {f, [f EXCEPT !.body = "bad"], [f EXCEPT !.body = "torn"]} : Carried(<<g>>)
             /\ c' = SessionFails("local")
    /\ UNCHANGED <<down, upClosed, link, child, disk, cancelled, expired>>

\* From here on a Cancel may be sent
FlushUpload ==
    /\ c.pc = "flush"
    /\ c' = IF Aborted THEN SessionFails("data")
                       ELSE [At("accept") EXCEPT !.output = "Cancelable", !.guard = TRUE]
    /\ UNCHANGED <<wireVars, scene, disk, cancelled, expired>>

-----------------------------------------------------------------------------
(***************************************************************************)
(* Reading.  A frame that has arrived may be read even after an abort.     *)
(***************************************************************************)
\* read_server_error: after acceptance an error names the job, before it none
ServerError(f, accepted) == IF f.job = accepted THEN "server" ELSE "identity"

Accepts == [accept |-> {"JobAccepted", "Error"}, events |-> {"Event", "ArtifactDescriptor", "Error"},
            payload |-> {"Artifact", "Error"}, done |-> {"Event", "Complete", "Error"}]

\* read_sequenced_header, and a kind this stage accepts
Sound(f) == f.body # "torn" /\ InOrder(f, c.seqIn) /\ f.kind \in Accepts[c.pc]

Got(stage, kind) ==
    /\ c.pc = stage /\ down # <<>>
    /\ Sound(Head(down)) /\ Head(down).kind = kind
    /\ down' = Tail(down)
    /\ UNCHANGED <<up, upClosed, link, child, disk, expired>>

Took(next) == c' = [next EXCEPT !.seqIn = @ + 1]

ReadAccepted ==
    /\ Got("accept", "JobAccepted")
    /\ Took(At("events"))
    /\ NoAccident /\ UNCHANGED cancelled

\* on_event and record_event: an event log that fails cancels the build, unless
\* the artifact is already verified
OnEvent(next) ==
    \/ Took(next) /\ NoAccident /\ UNCHANGED cancelled
    \/ /\ ~c.logFailed /\ Accident("faults")
       /\ Took([next EXCEPT !.logFailed = TRUE])
       /\ cancelled' = (cancelled \/ ~c.verified)

ReadEvent ==
    /\ \E stage \in {"events", "done"} : Got(stage, "Event")
    /\ OnEvent([c EXCEPT !.ev = @ + 1])

ReadDescriptorFrame ==
    /\ Got("events", "ArtifactDescriptor")
    /\ Took(At("payload"))
    /\ NoAccident /\ UNCHANGED cancelled

\* read_artifact_payload into the spool, and the check that progress was seen
ReadArtifact ==
    /\ Got("payload", "Artifact")
    /\ \/ /\ NoAccident
          /\ IF Head(down).body = "good" /\ c.ev > 0 THEN Took(At("verify")) ELSE c' = SessionFails("protocol")
       \/ Accident("faults") /\ c' = SessionFails("local")
    /\ UNCHANGED cancelled

ReadComplete ==
    /\ Got("done", "Complete")
    /\ Took([At("close") EXCEPT !.proven = Head(down).proof])
    /\ NoAccident /\ UNCHANGED cancelled

ReadError ==
    /\ \E stage \in Reading : Got(stage, "Error")
    /\ c' = [SessionFails(ServerError(Head(down), c.pc # "accept")) EXCEPT !.proven = Head(down).proof]
    /\ NoAccident /\ UNCHANGED cancelled

\* A torn frame, one out of sequence or one this stage does not accept
ReadRefused ==
    /\ c.pc \in Reading /\ down # <<>> /\ ~Sound(Head(down))
    /\ c' = SessionFails(IF Head(down).kind \in Accepts[c.pc] THEN "data" ELSE "protocol")
    /\ down' = Tail(down)
    /\ UNCHANGED <<up, upClosed, link, child, scene, disk, cancelled, expired>>

\* Mutant: a stream that ends is waited for
ReadEndsOnAbort ==
    /\ c.pc \in Reading /\ Aborted
    /\ c' = SessionFails("data")
    /\ UNCHANGED <<wireVars, scene, disk, cancelled, expired>>

\* The stream ends, or the read is aborted
ReadEnds ==
    /\ c.pc \in Reading /\ (DownEnds \/ Aborted)
    /\ c' = SessionFails("data")
    /\ UNCHANGED <<wireVars, scene, disk, cancelled, expired>>

-----------------------------------------------------------------------------
(***************************************************************************)
(* Publishing and acknowledging                                            *)
(***************************************************************************)
\* Mutant: the publication is not registered
VerifyUnregistered ==
    /\ c.pc = "verify"
    /\ disk.final = "absent"
    /\ disk' = [disk EXCEPT !.final = "ours"]
    /\ c' = [At("receipt") EXCEPT !.verified = TRUE]
    /\ UNCHANGED <<wireVars, scene, cancelled, expired>>

\* verify_and_publish_snapshot_artifact: a link that replaces nothing
Verify ==
    /\ c.pc = "verify"
    /\ \/ /\ disk.final = "absent" /\ NoAccident
          /\ disk' = [disk EXCEPT !.final = "ours"]
          /\ c' = [At("register") EXCEPT !.verified = TRUE]
       \/ /\ disk.final # "absent" /\ NoAccident
          /\ c' = SessionFails("verification") /\ UNCHANGED disk
       \/ Accident("faults") /\ c' = SessionFails("verification") /\ UNCHANGED disk
    /\ UNCHANGED <<wireVars, cancelled, expired>>

\* The spool is read again and register_publication binds the final path, syncs
\* file and directory; only a bound path is known to the rollback
Register ==
    /\ c.pc = "register"
    /\ \/ disk.final = "ours" /\ c' = [At("receipt") EXCEPT !.pub = TRUE] /\ NoAccident
       \/ disk.final # "ours" /\ c' = SessionFails("local") /\ NoAccident
       \/ /\ disk.final = "ours" /\ Accident("faults")
          /\ \E bound \in BOOLEAN : c' = [SessionFails("local") EXCEPT !.pub = bound]
    /\ UNCHANGED <<wireVars, disk, cancelled, expired>>

\* begin_receipt, the receipt, receipt_sent
SendReceipt ==
    /\ c.pc = "receipt"
    /\ LET started == [c EXCEPT !.output = "ReceiptStarted", !.guard = FALSE]
           f == Frame("ArtifactReceipt", 3)
       IN \/ /\ ~Aborted /\ Carried(<<f>>)
             /\ c' = [started EXCEPT !.pc = "done", !.output = "ReceiptSent"]
          \/ /\ Aborted \/ PipeBroken
             /\ \E part \in Half(f) \cup {<<f>>} : Carried(part)
             /\ c' = Broken([started EXCEPT !.pc = "fail", !.err = "data", !.next = "hangup"])
    /\ UNCHANGED <<down, upClosed, link, child, scene, disk, cancelled, expired>>

-----------------------------------------------------------------------------
(***************************************************************************)
(* Ending the child                                                        *)
(***************************************************************************)
\* terminate_child_bounded: what the worker still gets is what was under way
Kill ==
    /\ child' = IF child = "running" THEN "killed" ELSE child
    /\ link' = FALSE /\ down' = <<>>
    /\ up' \in IF link THEN Arrived(up) ELSE {up}

\* InterruptibleWriter::close
Close ==
    /\ c.pc = "close"
    /\ upClosed' = TRUE
    /\ \/ ~Aborted /\ c' = At("exit") /\ UNCHANGED <<up, down, link, child>>
       \/ Aborted /\ c' = TransportFails(AbortError) /\ Kill
    /\ UNCHANGED <<scene, disk, cancelled, expired>>


\* wait_for_successful_exit, then authorize_commit
Exit ==
    /\ c.pc = "exit"
    /\ \/ /\ Aborted /\ c' = TransportFails(AbortError) /\ Kill
       \/ /\ ~Aborted /\ child = "succeeded"
          /\ c' = [At("log") EXCEPT !.authorized = TRUE]
          /\ UNCHANGED <<up, down, link, child>>
       \/ /\ ~Aborted /\ child = "failed"
          /\ c' = TransportFails("process")
          /\ UNCHANGED <<up, down, link, child>>
    /\ UNCHANGED <<upClosed, scene, disk, cancelled, expired>>

\* The child ends with the remote command, or without it when the connection is gone
ChildExits(workerDone, workerOk) ==
    /\ child = "running"
    /\ ~link \/ workerDone
    /\ child' = IF link /\ workerOk THEN "succeeded" ELSE "failed"
    /\ UNCHANGED <<up, down, upClosed, link, scene, c, disk, cancelled, expired>>

-----------------------------------------------------------------------------
(***************************************************************************)
(* A failed session                                                        *)
(***************************************************************************)
\* PreReceiptCancelGuard::drop: a Cancel before any receipt; an abort while it
\* is written leaves it unmarked
DropGuard ==
    /\ c.pc = "fail"
    /\ LET owed == c.guard /\ c.output = "Cancelable"
           cancel == <<Frame("Cancel", 3)>>
           next == [At("unspool") EXCEPT !.guard = FALSE]
       IN \/ ~owed /\ c' = next /\ UNCHANGED up
          \/ /\ owed /\ ~Aborted /\ Carried(cancel)
             /\ c' = [next EXCEPT !.output = "CancelSent"]
          \/ /\ owed /\ (Aborted \/ PipeBroken)
             /\ \E part \in {<<>>, cancel} : Carried(part)
             /\ c' = Broken(next)
    /\ UNCHANGED <<down, upClosed, link, child, scene, disk, cancelled, expired>>

\* remove_owned_link of the bound publication and of the staging link; what is
\* not ours stays
Swept == [disk EXCEPT !.staging = FALSE, !.final = IF c.pub /\ @ = "ours" THEN "absent" ELSE @]
Partly == {[disk EXCEPT !.staging = s, !.final = f] :
              s \in {disk.staging, FALSE}, f \in {disk.final, Swept.final}}

\* CreateOnlyArtifactSpool::cleanup_failure, then next or, unproven, failed
CleanupFailure(next, failed) ==
    \/ ~c.armed /\ NoAccident /\ c' = next /\ UNCHANGED disk
    \/ /\ c.armed /\ NoAccident
       /\ disk' = Swept
       /\ c' = IF c.pub /\ disk.final = "foreign" THEN failed
                 ELSE [next EXCEPT !.armed = FALSE, !.pub = FALSE, !.authorized = FALSE]
    \/ /\ c.armed /\ Accident("faults")
       /\ disk' \in Partly
       /\ c' = failed

\* cleanup_session_error, transport_error, commit_with: the first rollback
Unspool ==
    /\ c.pc = "unspool"
    /\ CleanupFailure(At(c.next), [At(c.next) EXCEPT !.err = "cleanup"])
    /\ UNCHANGED <<wireVars, cancelled, expired>>

\* best_effort_cancel, which no abort stops, then the end of the upward stream
HangUp ==
    /\ c.pc = "hangup"
    /\ LET owed == c.output = "Cancelable"
           next == At("reap")
       IN \/ owed /\ Carried(<<Frame("Cancel", 3)>>) /\ c' = [next EXCEPT !.output = "CancelSent"]
          \/ ~owed /\ c' = next /\ UNCHANGED up
          \/ owed /\ PipeBroken /\ c' = next /\ UNCHANGED up
    /\ upClosed' = TRUE
    /\ UNCHANGED <<down, link, child, scene, disk, cancelled, expired>>

\* finish_failed_session: only a failed stream waits for the child, and not for long
Reap ==
    /\ c.pc = "reap"
    /\ LET stopped == Aborted /\ ~c.io
           seen == c.err = "data" /\ ~stopped /\ child # "running"
       IN \/ /\ seen /\ UNCHANGED <<up, down, link, child>>
             /\ c' = IF child = "failed" THEN Abort("process") ELSE At("abort")
          \/ /\ ~seen /\ Kill
             /\ c' = IF c.err = "data" /\ stopped THEN Abort(AbortError) ELSE At("abort")
    /\ UNCHANGED <<upClosed, scene, disk, cancelled, expired>>

-----------------------------------------------------------------------------
(***************************************************************************)
(* build_iphone: finalization, and abort_snapshot_transaction              *)
(***************************************************************************)
Rollback(err) == [c EXCEPT !.pc = "rollback", !.err = err]
CommitFails == [c EXCEPT !.pc = "unspool", !.err = "local", !.next = "rollback"]

\* The event log is linked to its public path and bound to the rollback
PublishLog ==
    /\ c.pc = "log"
    /\ \/ c.logFailed /\ c' = Rollback("local") /\ NoAccident /\ UNCHANGED disk
       \/ /\ ~c.logFailed /\ NoAccident
          /\ c' = [At("tidy") EXCEPT !.logLinked = TRUE]
          /\ disk' = [disk EXCEPT !.log = TRUE]
       \/ /\ ~c.logFailed /\ Accident("faults")
          /\ \E linked, bound \in BOOLEAN :
               /\ bound => linked
               /\ c' = [Rollback("local") EXCEPT !.logLinked = bound]
               /\ disk' = [disk EXCEPT !.log = linked]
    /\ UNCHANGED <<wireVars, cancelled, expired>>

\* PreparedSnapshot::cleanup takes the directory, whatever comes of it
Tidy ==
    /\ c.pc = "tidy"
    /\ \/ /\ NoAccident
          /\ c' = [At("commit") EXCEPT !.prepared = FALSE]
          /\ disk' = [disk EXCEPT !.session = FALSE]
       \/ /\ Accident("faults")
          /\ c' = [Rollback("cleanup") EXCEPT !.prepared = FALSE]
          /\ \E kept \in BOOLEAN : disk' = [disk EXCEPT !.session = kept]
    /\ UNCHANGED <<wireVars, cancelled, expired>>

\* commit: the publication is validated, the staging link removed
Commit ==
    /\ c.pc = "commit"
    /\ \/ /\ disk.final = "ours" /\ c.pub /\ c.authorized /\ NoAccident
          /\ c' = At("settle")
          /\ disk' = [disk EXCEPT !.staging = FALSE]
       \/ /\ ~(disk.final = "ours" /\ c.pub /\ c.authorized) /\ NoAccident
          /\ c' = CommitFails /\ UNCHANGED disk
       \/ /\ Accident("faults")
          /\ c' = CommitFails
          /\ \E kept \in BOOLEAN : disk' = [disk EXCEPT !.staging = kept]
    /\ UNCHANGED <<wireVars, cancelled, expired>>

\* Mutant: validated once only
SettleUnchecked ==
    /\ c.pc = "settle"
    /\ NoAccident
    /\ c' = [Ended("success") EXCEPT !.armed = FALSE]
    /\ UNCHANGED <<wireVars, disk, cancelled, expired>>

\* commit: the publication is validated once more, and success reported
Settle ==
    /\ c.pc = "settle"
    /\ \/ /\ disk.final = "ours" /\ NoAccident
          /\ c' = [Ended("success") EXCEPT !.armed = FALSE]
       \/ disk.final # "ours" /\ NoAccident /\ c' = CommitFails
       \/ Accident("faults") /\ c' = CommitFails
    /\ UNCHANGED <<wireVars, disk, cancelled, expired>>

\* ArtifactDownloadRollback::abort
RollBackLog ==
    /\ c.pc = "rollback"
    /\ \/ /\ NoAccident
          /\ c' = At("abort")
          /\ disk' = [disk EXCEPT !.log = @ /\ ~c.logLinked]
       \/ c.logLinked /\ Accident("faults") /\ c' = Abort("cleanup") /\ UNCHANGED disk
    /\ UNCHANGED <<wireVars, cancelled, expired>>

\* abort_snapshot_transaction: the spool once more ...
AbortSpool ==
    /\ c.pc = "abort"
    /\ CleanupFailure(At("source"), [At("source") EXCEPT !.err = "cleanup"])
    /\ UNCHANGED <<wireVars, cancelled, expired>>


\* ... then the private directory; a spool still armed is dropped with a last attempt
CleanSource ==
    /\ c.pc = "source"
    /\ \E d \in IF c.armed THEN Partly ELSE {disk} :
         \/ /\ NoAccident
            /\ disk' = [d EXCEPT !.session = @ /\ ~c.prepared]
            /\ c' = Ended(IF c.err = "cleanup" THEN "uncertain" ELSE "failed")
         \/ /\ c.prepared /\ Accident("faults")
            /\ \E kept \in BOOLEAN : disk' = [d EXCEPT !.session = kept]
            /\ c' = Ended("uncertain")
    /\ UNCHANGED <<wireVars, cancelled, expired>>

-----------------------------------------------------------------------------
(***************************************************************************)
(* What happens to the client                                              *)
(***************************************************************************)
Session == InSession \cup {"fail", "unspool", "hangup", "reap"}

\* with_interrupt_cancellation polls for an interrupt around these stages only
Interrupt ==
    /\ c.pc \in {"ready", "prepare"} \cup Session /\ ~cancelled
    /\ Accident("interrupts")
    /\ cancelled' = TRUE
    /\ UNCHANGED <<wireVars, c, disk, expired>>

Expire ==
    /\ c.pc \in Session /\ ~expired
    /\ Accident("expiries")
    /\ expired' = TRUE
    /\ UNCHANGED <<wireVars, c, disk, cancelled>>

\* Another program puts its own file at the final path
Replace ==
    /\ disk.final # "foreign" /\ c.pc \notin {"ended", "dead"}
    /\ Accident("replacements")
    /\ disk' = [disk EXCEPT !.final = "foreign"]
    /\ UNCHANGED <<wireVars, c, cancelled, expired>>

\* The client dies with whatever it was writing
ClientDies ==
    /\ c.pc \notin {"ended", "dead"}
    /\ Accident("deaths")
    /\ c' = At("dead")
    /\ upClosed' = TRUE
    /\ up' \in Arrived(up)
    /\ UNCHANGED <<down, link, child, disk, cancelled, expired>>

ClientThread ==
    \/ Handshake \/ Prepare \/ CreateSpool \/ Spawn \/ Upload \/ FlushUpload
    \/ ReadAccepted \/ ReadEvent \/ ReadDescriptorFrame \/ ReadArtifact \/ ReadComplete
    \/ ReadError \/ ReadRefused \/ ReadEnds \/ Verify \/ Register \/ SendReceipt
    \/ Close \/ Exit \/ DropGuard \/ Unspool \/ HangUp \/ Reap
    \/ PublishLog \/ Tidy \/ Commit \/ Settle \/ RollBackLog \/ AbortSpool \/ CleanSource

ClientAccidents == Interrupt \/ Expire \/ Replace \/ ClientDies
=============================================================================
