---------------------------- MODULE RevisionLog ----------------------------
(***************************************************************************)
(* What the job store promises about the revisions of one job: an          *)
(* append-only log of records.  A caller that was told its revision is     *)
(* stored never loses it; a revision nobody was told about may disappear   *)
(* with the machine, but only from the end of the log.                     *)
(***************************************************************************)
EXTENDS Naturals, Sequences

CONSTANTS Records,              \* record contents
          MaxRevisions,         \* MAX_REVISIONS_PER_JOB
          ValidSuccessor(_, _)  \* validate_regular_successor

VARIABLES log,    \* the records of the job, oldest first
          acked   \* the logs some caller was told are stored

logVars == <<log, acked>>

IsPrefixOf(s, t) == Len(s) <= Len(t) /\ s = SubSeq(t, 1, Len(s))

LogInit == log = << >> /\ acked = {}

\* One record becomes visible after the current last one.
Publish(r) ==
    /\ Len(log) < MaxRevisions
    /\ Len(log) > 0 => ValidSuccessor(log[Len(log)], r)
    /\ log' = Append(log, r)
    /\ UNCHANGED acked

\* A caller is told that the log up to its last record is stored.
Acknowledge ==
    /\ log # << >>
    /\ acked' = acked \cup {log}
    /\ UNCHANGED log

\* The machine loses power: records nobody was told about may be lost.
Lose(k) ==
    /\ log' = SubSeq(log, 1, k)
    /\ \A a \in acked : IsPrefixOf(a, log')
    /\ UNCHANGED acked

LogNext ==
    \/ \E r \in Records : Publish(r)
    \/ Acknowledge
    \/ \E k \in 0..Len(log) : Lose(k)

LogSpec == LogInit /\ [][LogNext]_logVars
=============================================================================
