---------------------------- MODULE HostInterface ----------------------------
(***************************************************************************)
(* What HostInterface (host_interface.hpp) promises its only user, the     *)
(* HostNotifier: a command that was sent ends in one call of the response  *)
(* function, unless it is cancelled or another send takes its place, and   *)
(* the response function is never called otherwise.                        *)
(***************************************************************************)
VARIABLES
    inProgress, \* _inProgress: is a response awaited?
    outcome     \* what has become of the latest command

Outcomes == {"none", "waiting", "success", "failure", "cancelled", "notsent"}

Init == inProgress = FALSE /\ outcome = "none"

sendNewLogCmd ==
    \/ inProgress' = TRUE /\ outcome' = "waiting"
    \/ inProgress' = FALSE /\ outcome' = "notsent"

callResponseFunc ==
    /\ inProgress
    /\ inProgress' = FALSE
    /\ outcome' \in {"success", "failure"}

cancelCmd == inProgress /\ inProgress' = FALSE /\ outcome' = "cancelled"

\* The daemon restarts.
Restart == Init'

Next == sendNewLogCmd \/ callResponseFunc \/ cancelCmd \/ Restart

Spec == Init /\ [][Next]_<<inProgress, outcome>>
=============================================================================
