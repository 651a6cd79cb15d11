---------------------------- MODULE SnapshotWire ----------------------------
(***************************************************************************)
(* The framed stream of one SSH snapshot session: what the client and the  *)
(* worker put on it (crates/rustferry-remote/src/data_plane.rs and         *)
(* snapshot_session.rs), the OpenSSH child that carries it and the         *)
(* accidents that may befall it.                                           *)
(*                                                                         *)
(* A frame is a header and a payload; its body is good, bad (the bytes do  *)
(* not match the digest declared for them) or torn (the stream ends inside *)
(* it).  Identities are right in every frame of the two programs, and only *)
(* whether a frame names a job is kept.                                    *)
(***************************************************************************)
EXTENDS Naturals, Sequences

CONSTANTS
    StartEvents,      \* events between JobAccepted and the compilation (8)
    ArtifactEvents,   \* events before the artifact descriptor (2)
    Scenarios         \* which accidents may happen in one behaviour

VARIABLES
    up,        \* frames the client wrote and the worker has not read
    down,      \* frames the worker wrote and the client has not read
    upClosed,  \* the client's end of the upward stream is closed
    link,      \* the connection carries data
    child,     \* the OpenSSH process at the client
    scene      \* the accidents that may still happen

wireVars == <<up, down, upClosed, link, child>>

UpKinds == {"BuildRequest", "SourceDescriptor", "SourceArchive", "ArtifactReceipt", "Cancel"}
DownKinds == {"JobAccepted", "Event", "ArtifactDescriptor", "Artifact", "Complete", "Error"}

\* One frame: its kind, sequence number and body, whether it names a job and
\* whether it carries a cleanup confirmation
Frames(kinds) == [kind : kinds, seq : 0 .. StartEvents + ArtifactEvents + 5,
                  body : {"good", "bad", "torn"}, job : BOOLEAN, proof : BOOLEAN]

Frame(kind, seq) == [kind |-> kind, seq |-> seq, body |-> "good", job |-> TRUE, proof |-> FALSE]

SceneType == [faults : Nat, interrupts : Nat, expiries : Nat, drops : Nat, deaths : Nat,
              replacements : Nat]

ASSUME WireAssumption ==
    /\ StartEvents \in Nat \ {0}
    /\ ArtifactEvents \in Nat
    /\ Scenarios \subseteq SceneType

WireInit ==
    /\ up = <<>> /\ down = <<>>
    /\ upClosed = FALSE /\ link = FALSE
    /\ child = "none"
    /\ scene \in Scenarios

WireTypeOK ==
    /\ up \in Seq(Frames(UpKinds))
    /\ down \in Seq(Frames(DownKinds))
    /\ upClosed \in BOOLEAN /\ link \in BOOLEAN
    /\ child \in {"none", "running", "succeeded", "failed", "killed"}
    /\ scene \in SceneType

\* One accident of the given kind happens
Accident(kind) == scene[kind] > 0 /\ scene' = [scene EXCEPT ![kind] = @ - 1]
NoAccident == UNCHANGED scene

\* WorkerDataPlaneSequence::accept
InOrder(f, expected) == f.seq = expected

\* The worker meets the end of the upward stream: the client closed it or is gone
UpEnds == up = <<>> /\ (upClosed \/ ~link)

\* The client meets the end of the downward stream
DownEnds == down = <<>> /\ (child # "running" \/ ~link)

\* What is left of the frames under way when the connection goes: the first of
\* them arrive, the last of these perhaps not whole
Torn(s) == [s EXCEPT ![Len(s)].body = "torn"]
Arrived(s) == UNION {{SubSeq(s, 1, k)} \cup (IF k = 0 THEN {} ELSE {Torn(SubSeq(s, 1, k))})
                      : k \in 0 .. Len(s)}

\* The connection is lost
LinkDrops ==
    /\ link
    /\ Accident("drops")
    /\ link' = FALSE
    /\ up' \in Arrived(up)
    /\ down' \in Arrived(down)
    /\ UNCHANGED <<upClosed, child>>
=============================================================================
