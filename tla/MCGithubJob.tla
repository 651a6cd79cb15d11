---------------------------- MODULE MCGithubJob -----------------------------
(***************************************************************************)
(* One published job, the build that submitted it and a few cancel         *)
(* sessions.                                                               *)
(***************************************************************************)
EXTENDS GithubJob

Beside == [faults |-> 1, sessions |-> 1, build |-> TRUE]    \* build and session at once
After == [faults |-> 1, sessions |-> 3, build |-> FALSE]    \* sessions after the build died
Alone == [faults |-> 1, sessions |-> 0, build |-> TRUE]     \* the build alone

BesideAndAfter == {Beside, After}
OnlyAlone == {Alone}

\* Whether the build sent a request matters, and whether the sessions sent two
OneAndTwo == [B |-> 1, C |-> 2]
Two == [B |-> 2, C |-> 2]
=============================================================================
