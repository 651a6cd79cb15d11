---------------------------- MODULE MCSshSession ----------------------------
(***************************************************************************)
(* SshSession with one event before the compilation and one after it, and  *)
(* at most two accidents.                                                  *)
(***************************************************************************)
EXTENDS SshSession

Quiet == [faults |-> 0, interrupts |-> 0, expiries |-> 0, drops |-> 0, deaths |-> 0,
          replacements |-> 0]

Both(a, b) == [[Quiet EXCEPT ![a] = @ + 1] EXCEPT ![b] = @ + 1]

\* A fault with any accident of the client, and a death with any of the session
TwoAccidents ==
    {Both("faults", b) : b \in {"faults", "interrupts", "deaths", "replacements"}}
    \cup {Both("deaths", b) : b \in {"interrupts", "expiries", "drops"}}

\* A single local fault
OneFault == {[Quiet EXCEPT !.faults = 1]}
=============================================================================
