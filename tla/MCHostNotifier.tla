--------------------------- MODULE MCHostNotifier ---------------------------
(* Small instances of HostNotifier for TLC.                                *)
EXTENDS HostNotifier

Environment(full, stray, restarts) ==
    [hidden |-> {}, noReport |-> {}, full |-> full, stray |-> stray, restarts |-> restarts]

Plain == Environment(TRUE, FALSE, FALSE)   \* a host that may be full
Orderly == Environment(TRUE, FALSE, TRUE)  \* and a daemon that restarts
Roomy == Environment(FALSE, TRUE, TRUE)    \* a host never full, that answers in any order
Early == Environment(FALSE, TRUE, FALSE)   \* the same, and the daemon keeps running

\* Everything at once, with a PEL an HMC may take and one not for the host.
Stray == [Environment(TRUE, TRUE, TRUE) EXCEPT !.hidden = {2}, !.noReport = {3}]

AllEnvironments == {Orderly, Roomy, Stray}
OnlyPlain == {Plain}
OnlyEarly == {Early}
=============================================================================
