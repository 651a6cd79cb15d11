-------------------------- MODULE MCGithubPublish ---------------------------
(***************************************************************************)
(* One publication, the build that submits it and a command that restores  *)
(* it, under the disturbances of one scenario.                             *)
(***************************************************************************)
EXTENDS GithubPublish

Quiet == [fenced |-> TRUE, cancels |-> FALSE, faults |-> 0, crashes |-> 0,
          restores |-> 0, interrupts |-> 0]

\* A process dies and a later command takes over or cancels
Dies == [Quiet EXCEPT !.cancels = TRUE, !.crashes = 1, !.restores = 1]
\* A checkpoint or a read fails, while another command looks on
Fails == [Quiet EXCEPT !.faults = 1, !.restores = 1]
\* The git child may outlive its parent, which is interrupted or dies
Orphan == [Quiet EXCEPT !.fenced = FALSE, !.crashes = 1, !.restores = 1, !.interrupts = 1]

Disturbed == {Dies, Fails, Orphan}
Undisturbed == {Quiet}
=============================================================================
