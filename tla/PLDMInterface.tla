---------------------------- MODULE PLDMInterface ----------------------------
(***************************************************************************)
(* The command interface to the host (pldm_interface.cpp): one PLDM        *)
(* command at a time tells the host of a new PEL.  A command has an        *)
(* instance id from a database it shares with other programs, a socket, an *)
(* I/O source that waits for the response and a timer that gives up on it. *)
(* The host answers late, or not at all; its answer carries the instance   *)
(* id and not the PEL.                                                     *)
(***************************************************************************)
EXTENDS FiniteSets

CONSTANTS
    InstanceIDs, \* the instance ids of the host's terminus (32 in PLDM)
    LogIDs       \* PELs the host is told of

None == "none"

VARIABLES
    instanceID,    \* the id held, or None
    inProgress,    \* _inProgress
    pelID,         \* the PEL of the latest command, or None
    fd, source, receiveTimer, \* is the socket open, the source set up, the timer running?
    requestHeader, \* instance id of the latest request sent
    idb,           \* who holds each id: "ours", "others" or "free"
    requests,      \* requests the host has not answered: their id, their PEL, and
                   \* are they of a process of before the last restart?
    outcome,       \* history: what has become of the latest command
    kept           \* history: was the id held used by an earlier command too, or
                   \* by a request of before the last restart?

vars == <<instanceID, inProgress, pelID, fd, source, receiveTimer, requestHeader,
          idb, requests, outcome, kept>>

Init ==
    /\ instanceID = None
    /\ inProgress = FALSE
    /\ pelID = None
    /\ fd = FALSE /\ source = FALSE /\ receiveTimer = FALSE
    /\ requestHeader = None
    /\ idb = [i \in InstanceIDs |-> "free"]
    /\ requests = {}
    /\ outcome = "none"
    /\ kept = FALSE

-----------------------------------------------------------------------------
(* Instance ids.  The database hands out the ids in turn: an id comes      *)
(* round again only when no answer to its last request can come any more.  *)
(* The turn is kept in memory: a new process knows nothing of the requests *)
(* of the one before it and starts over.                                   *)

FreeIDs ==
    {i \in InstanceIDs : idb[i] = "free" /\ \A r \in requests : r.old \/ r.iid # i}

\* An id that is still held is used again.
allocIID ==
    IF instanceID # None
    THEN UNCHANGED <<instanceID, idb>>
    ELSE \E i \in FreeIDs :
            /\ instanceID' = i
            /\ idb' = [idb EXCEPT ![i] = "ours"]

freeIID ==
    /\ instanceID' = None
    /\ idb' = IF instanceID = None THEN idb ELSE [idb EXCEPT ![instanceID] = "free"]

-----------------------------------------------------------------------------

cleanupCmd ==
    /\ inProgress' = FALSE
    /\ source' = FALSE
    /\ receiveTimer' = FALSE
    /\ fd' = FALSE

\* Seeded fault: the timer is only started for a new socket.
startUntimed ==
    /\ inProgress' = TRUE
    /\ fd' = TRUE
    /\ source' = TRUE
    /\ receiveTimer' = (receiveTimer \/ (~fd /\ instanceID = None))

\* startCommand: socket, source, request, timer.
startCommand ==
    /\ inProgress' = TRUE
    /\ fd' = TRUE
    /\ source' = TRUE
    /\ receiveTimer' = TRUE

doSend(p) ==
    /\ requestHeader' = instanceID'
    /\ requests' = requests \cup {[iid |-> instanceID', pel |-> p, old |-> FALSE]}

sendNewLogCmd(p) ==
    /\ pelID' = p
    /\ allocIID
    /\ startCommand
    /\ doSend(p)
    /\ kept' = (instanceID # None \/ \E r \in requests : r.old /\ r.iid = instanceID')
    /\ outcome' = "waiting"

\* Every id is in use, with no command in progress to clean up after.
sendWithoutID(p) ==
    /\ pelID' = p
    /\ instanceID = None /\ FreeIDs = {}
    /\ inProgress' = FALSE
    /\ outcome' = "notsent"
    /\ UNCHANGED <<instanceID, idb, fd, source, receiveTimer, requestHeader, requests, kept>>

\* The socket does not open, or the message is not sent; the id stays.
startCommandFails(p) ==
    /\ pelID' = p
    /\ allocIID
    /\ cleanupCmd
    /\ kept' = (instanceID # None /\ kept)
    /\ outcome' = "notsent"
    /\ UNCHANGED <<requestHeader, requests>>

\* Seeded fault: the header is not compared.
correlateAny(r) == TRUE

\* pldm_msg_hdr_correlate_response, which knows ids and not PELs.
correlate(r) == r.iid = requestHeader

\* A message arrives: someone else's is ignored; the answer to the request, as
\* it seems, ends the command and its id.
receive(r) ==
    /\ source
    /\ requests' = requests \ {r}
    /\ IF correlate(r)
       THEN /\ cleanupCmd
            /\ freeIID
            /\ outcome' \in {"success", "failure"}
       ELSE UNCHANGED <<inProgress, source, receiveTimer, fd, instanceID, idb, outcome>>
    /\ UNCHANGED <<pelID, requestHeader, kept>>

\* pldm_transport_recv_msg fails.
receiveFails ==
    /\ source
    /\ cleanupCmd
    /\ freeIID
    /\ outcome' = "failure"
    /\ UNCHANGED <<pelID, requestHeader, requests, kept>>

\* Nobody listens when the answer comes, or it never comes.
answerLost(r) ==
    /\ requests' = requests \ {r}
    /\ UNCHANGED <<instanceID, inProgress, pelID, fd, source, receiveTimer,
                   requestHeader, idb, outcome, kept>>

\* The id stays: the host did not respond.
receiveTimerExpired ==
    /\ receiveTimer
    /\ cleanupCmd
    /\ outcome' = "failure"
    /\ UNCHANGED <<instanceID, pelID, requestHeader, idb, requests, kept>>

cancelCmd ==
    /\ freeIID
    /\ cleanupCmd
    /\ outcome' = IF inProgress THEN "cancelled" ELSE outcome
    /\ UNCHANGED <<pelID, requestHeader, requests, kept>>

\* The daemon restarts, or dies of an error of the database that nobody
\* catches; the locks on its ids go with it.
Restart ==
    /\ instanceID' = None
    /\ inProgress' = FALSE
    /\ pelID' = None
    /\ fd' = FALSE /\ source' = FALSE /\ receiveTimer' = FALSE
    /\ requestHeader' = None
    /\ idb' = [i \in InstanceIDs |-> IF idb[i] = "ours" THEN "free" ELSE idb[i]]
    /\ outcome' = "none"
    /\ kept' = FALSE
    /\ requests' = {[r EXCEPT !.old = TRUE] : r \in requests}

\* Other requesters take and give back ids.
OthersUseID(i) ==
    /\ idb[i] # "ours"
    /\ idb' = [idb EXCEPT ![i] = IF @ = "free" THEN "others" ELSE "free"]
    /\ UNCHANGED <<instanceID, inProgress, pelID, fd, source, receiveTimer,
                   requestHeader, requests, outcome, kept>>

Next ==
    \/ \E p \in LogIDs : sendNewLogCmd(p) \/ sendWithoutID(p) \/ startCommandFails(p)
    \/ \E r \in requests : receive(r) \/ answerLost(r)
    \/ receiveFails \/ receiveTimerExpired \/ cancelCmd \/ Restart
    \/ \E i \in InstanceIDs : OthersUseID(i)

Spec == Init /\ [][Next]_vars

-----------------------------------------------------------------------------
(* Properties.                                                             *)

\* Type invariant: every variable of the interface holds a value of its type.
TypeOK ==
    /\ instanceID \in InstanceIDs \cup {None}
    /\ inProgress \in BOOLEAN /\ fd \in BOOLEAN
    /\ source \in BOOLEAN /\ receiveTimer \in BOOLEAN /\ kept \in BOOLEAN
    /\ pelID \in LogIDs \cup {None}
    /\ requestHeader \in InstanceIDs \cup {None}
    /\ idb \in [InstanceIDs -> {"ours", "others", "free"}]
    /\ requests \subseteq [iid : InstanceIDs, pel : LogIDs, old : BOOLEAN]
    /\ outcome \in {"none", "waiting", "success", "failure", "cancelled", "notsent"}

\* A command waits for its response with everything it needs to end, the
\* timer included, on the id it was sent with; and nothing is left of a
\* command that has ended: no callback can come for it.
WaitIsArmed ==
    /\ inProgress = source /\ inProgress = receiveTimer /\ inProgress = fd
    /\ inProgress <=> outcome = "waiting"
    /\ inProgress => instanceID # None /\ requestHeader = instanceID

\* No id leaks: the database has exactly the id the interface holds as taken.
NoIDLeaks ==
    {i \in InstanceIDs : idb[i] = "ours"} = {instanceID} \ {None}

\* A command can always end, and an ended one leaves nothing behind: no source,
\* timer, socket or instance id is missing or left over on any path of
\* sendNewLogCmd, receive, receiveTimerExpired and cancelCmd.
CommandCanEnd == TypeOK /\ WaitIsArmed /\ NoIDLeaks

\* A PEL is reported as received by the host on the host's answer about this
\* PEL, unless the id was kept over from an earlier command that timed out or
\* was replaced, or a request from before a restart has the same id: an answer
\* to a command that was cancelled, or that has failed otherwise, is never taken
\* for one to a later command of the same process.
AnswerIsForPEL ==
    [][outcome = "waiting" /\ outcome' = "success" =>
          \E r \in requests \ requests' : r.pel = pelID \/ kept]_vars

Promise == INSTANCE HostInterface

\* The interface keeps HostInterface's promise to HostNotifier: one call of
\* the response function for each command sent and not cancelled or replaced.
OneResponse == Promise!Spec
=============================================================================
