----------------------------- MODULE SshSession -----------------------------
(***************************************************************************)
(* One SSH snapshot build: the client, the worker and the connection       *)
(* between them.                                                           *)
(***************************************************************************)
EXTENDS SnapshotClient, SnapshotWorker

vars == <<wireVars, scene, clientVars, workerVars>>

Init == WireInit /\ ClientInit /\ WorkerInit

WorkerGone == w.pc \in {"exited", "dead"}
ClientGone == c.pc \in {"ended", "dead"}

\* The OpenSSH process ends with the remote command
ChildEnds == ChildExits(WorkerGone, w.pc = "exited" /\ w.ok) /\ UNCHANGED workerVars

Next ==
    \/ (ClientThread \/ ClientAccidents) /\ UNCHANGED workerVars
    \/ WorkerNext /\ UNCHANGED clientVars
    \/ LinkDrops /\ UNCHANGED <<clientVars, workerVars>>
    \/ ChildEnds

\* Every thread keeps running, and OpenSSH ends when its command does
Fairness ==
    /\ WF_vars(ClientThread /\ UNCHANGED workerVars)
    /\ WF_vars(SessionThread /\ UNCHANGED clientVars)
    /\ WF_vars(ControlThread /\ UNCHANGED clientVars)
    /\ WF_vars(ChildEnds)

Spec == Init /\ [][Next]_vars /\ Fairness

-----------------------------------------------------------------------------
\* Every variable has its type.
TypeOK == WireTypeOK /\ ClientTypeOK /\ WorkerTypeOK

\* The worker has taken the client's receipt
Acknowledged ==
    \/ "receipt" \in {monitor.queue[i] : i \in DOMAIN monitor.queue}
    \/ w.pc \in {"clean_event", "clean", "clean_done", "complete", "flush_complete"}

\* A worker that goes on to remove its job root for a receipt was sent one, and
\* sent no Cancel; unless the client has failed since, the artifact it
\* acknowledged is verified and known to the client's rollback (begin_receipt
\* after register_publication; monitor_client_control).
AcknowledgedIsPublished ==
    Acknowledged =>
        /\ c.output \in {"ReceiptStarted", "ReceiptSent"}
        /\ c.verified
        /\ c.pc \notin Failing \cup {"rollback", "ended", "dead"} => c.pub /\ disk.final # "absent"

\* A cleanup confirmation on the wire, or read by the client, is true: the job
\* root is gone; and a worker that exits leaving the root of an allocated job
\* has said that its cleanup failed (JobRootGuard::cleanup, finish_failure).
RetentionTold ==
    /\ c.proven \/ (\E i \in DOMAIN down : down[i].proof) => w.root = "removed"
    /\ w.pc = "exited" /\ w.job /\ w.root = "present" => w.why = "cleanup" /\ ~w.proof

\* A build reports success only with its artifact published and nothing of its
\* own left beside it, with the event log published, and after the worker
\* proved its job root gone (build_iphone, spool.commit).
SuccessProven ==
    [][c'.report = "success" /\ c.report # "success" =>
          /\ disk'.final = "ours" /\ disk'.log
          /\ ~disk'.staging /\ ~disk'.session
          /\ c.proven /\ w.root = "removed"]_vars



\* Whatever is lost, interrupted or killed, both sides come to an end.
SessionSettles == <>[](ClientGone /\ (WorkerGone \/ w.pc = "idle"))

-----------------------------------------------------------------------------
\* The client takes every error the worker sends for what it is
\* (read_server_error).
ServerErrorsUnderstood == c.err # "identity"

\* An ordinary failure leaves no artifact link of the build behind
\* (CreateOnlyArtifactSpool::abort).
FailureLeavesNothing == c.report = "failed" => disk.final # "ours"
=============================================================================
