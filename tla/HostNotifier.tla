---------------------------- MODULE HostNotifier ----------------------------
(***************************************************************************)
(* The part of the openpower-pels extension that tells the host firmware   *)
(* about platform event logs: HostNotifier (host_notifier.cpp), with the   *)
(* host's answers as hostAck and hostReject of the PEL Manager pass them   *)
(* on, the transmission states the Repository keeps with each PEL, and the *)
(* command interface as HostNotifier sees it (a command is in progress     *)
(* until its response, its timeout or its cancellation).                   *)
(*                                                                         *)
(* The daemon is single threaded: each callback is one action.  Callbacks  *)
(* come from several event sources (timers, the PLDM socket, the deferred  *)
(* dispatcher, D-Bus) and interleave freely, with one exception: the       *)
(* dispatcher was made pending by the message the D-Bus connection has     *)
(* just delivered, so it runs before that connection's next message.       *)
(***************************************************************************)
EXTENDS Integers, SequencesExt

CONSTANTS
    N,                \* bound on PELs
    maxRetryAttempts, \* retries before giving up (15 in the code)
    Environments      \* the environments of interest

PELs == 1..N

\* An environment: the PELs with the hidden action flag; the PELs not for the
\* host (the "do not report" flag, or manufacturing has turned the sending of
\* PELs off); can the host reject a PEL for lack of space? can a verdict
\* overtake the response to the command, or arrive after the host has gone
\* down? does the daemon restart?
EnvironmentRecord ==
    [hidden : SUBSET PELs, noReport : SUBSET PELs,
     full : BOOLEAN, stray : BOOLEAN, restarts : BOOLEAN]

ASSUME NotifierAssumption ==
    /\ N \in Nat
    /\ maxRetryAttempts \in Nat \ {0}
    /\ Environments \subseteq EnvironmentRecord

VARIABLES
    repo,          \* PEL -> its host transmission state, or not (any longer) there
    hmcAcked,      \* PELs the HMC has acked
    hmcManaged,    \* is the system managed by an HMC?
    pelQueue,      \* PELs to send
    sentPELs,      \* PELs sent and not yet acked
    inProgressPEL, \* PEL whose command awaits its response, or 0
    cmdInProgress, \* does the host interface await a response?
    retryCount,
    hostFull,      \* has the host said that it is full?
    retryTimer, hostFullTimer, hostUpTimer, \* is the timer running?
    dispatcher,    \* is a dispatch() pending in the event loop?
    hostUp,        \* the state of the host, as the data interface has it
    told,          \* PELs the host has been told of and may still answer for
    env            \* the environment, the same throughout a behaviour

Hidden == env.hidden
NoReport == env.noReport
HostMayBeFull == env.full
StrayVerdicts == env.stray
DaemonRestarts == env.restarts

memory == <<pelQueue, sentPELs, inProgressPEL, cmdInProgress, retryCount, hostFull,
            retryTimer, hostFullTimer, hostUpTimer, dispatcher>>
fixed == <<hmcAcked, hmcManaged, env>>
vars == <<repo, hmcAcked, hmcManaged, pelQueue, sentPELs, inProgressPEL,
          cmdInProgress, retryCount, hostFull, retryTimer, hostFullTimer,
          hostUpTimer, dispatcher, hostUp, told, env>>

States == {"new", "sent", "acked", "bad"}
Known(p) == repo[p] \in States

Init ==
    /\ repo = [p \in PELs |-> "none"]
    /\ hmcAcked = {} /\ hmcManaged = FALSE
    /\ pelQueue = << >> /\ sentPELs = << >>
    /\ inProgressPEL = 0 /\ cmdInProgress = FALSE
    /\ retryCount = 0
    /\ hostFull = FALSE
    /\ retryTimer = FALSE /\ hostFullTimer = FALSE /\ hostUpTimer = FALSE
    /\ dispatcher = FALSE
    /\ hostUp = FALSE
    /\ told = {}
    /\ env \in Environments

-----------------------------------------------------------------------------
(* Which PELs go on the queue, and which go from it to the host.           *)

enqueueRequired(r, p) ==
    /\ p \notin NoReport
    /\ r[p] \in {"new", "sent"}
    /\ ~(p \in Hidden /\ p \in hmcAcked)

\* Seeded fault: the queue is trusted.
notifyAlways(r, p) == r[p] \in States

notifyRequired(r, p) ==
    /\ r[p] \in {"new", "sent", "bad"}
    /\ p \in Hidden => p \notin hmcAcked /\ ~hmcManaged

\* Repository::setPELHostTransState: nothing happens to a PEL that is gone.  (A
\* write that fails removes the PEL's file, upon which inotify has the PEL deleted:
\* PELRepository has that.)
setPELHostTransState(r, S, state) ==
    [p \in PELs |-> IF p \in S /\ r[p] \in States THEN state ELSE r[p]]

\* Does doNewLogNotify() return at once?
Held(rt, ft) == ~hostUp \/ rt \/ ft

GivesUp(count) == count >= maxRetryAttempts

\* HostInterface::cancelCmd: no response to command cmd is awaited any more.
cancelCmd(cmd) == FALSE

\* Where in queue q the PEL to send is, or 0.
FirstRequired(r, q) ==
    LET required == {n \in DOMAIN q : notifyRequired(r, q[n])}
    IN  IF required = {} THEN 0 ELSE Min(required)

\* Seeded fault: the PEL is not put back.
Dropped(p, q) == q

PutBack(p, q) == <<p>> \o q

\* A send replaces whatever command was in progress.
sendNewLogCmd(p, rest) ==
    /\ pelQueue' = rest
    /\ inProgressPEL' = p
    /\ cmdInProgress' = TRUE
    /\ retryTimer' = FALSE
    /\ told' = told \cup {p}

\* Seeded fault: no retry is set up.
sendNewLogCmdForgets(p, rest) ==
    /\ pelQueue' = PutBack(p, rest)
    /\ inProgressPEL' = 0
    /\ cmdInProgress' = FALSE
    /\ UNCHANGED <<retryTimer, told>>

sendNewLogCmdFails(p, rest) ==
    /\ pelQueue' = PutBack(p, rest)
    /\ inProgressPEL' = 0
    /\ cmdInProgress' = FALSE
    /\ retryTimer' = TRUE
    /\ UNCHANGED told

\* doNewLogNotify(), called when the PELs' states are r, the queue is q, the
\* PEL and the command in progress are prog and cmd, the retry and host full
\* timers are rt and ft, and the retry count is count.
doNewLogNotify(r, q, prog, cmd, rt, ft, count) ==
    LET first == FirstRequired(r, q)
        rest == SubSeq(q, first + 1, Len(q))
    IN  IF ~Held(rt, ft) /\ ~GivesUp(count) /\ first # 0
        THEN sendNewLogCmd(q[first], rest) \/ sendNewLogCmdFails(q[first], rest)
        ELSE /\ pelQueue' = IF Held(rt, ft) \/ GivesUp(count) THEN q ELSE << >>
             /\ inProgressPEL' = prog
             /\ cmdInProgress' = IF ~Held(rt, ft) /\ count = maxRetryAttempts
                                 THEN cancelCmd(cmd) ELSE cmd
             /\ retryTimer' = rt
             /\ UNCHANGED told

-----------------------------------------------------------------------------
(* PELs come and go.                                                       *)

\* Seeded fault: the queue is expected to be empty, with the new PEL on it.
StartsIfEmpty(q) ==
    /\ hostUp /\ ~hostFull /\ ~hostUpTimer
    /\ inProgressPEL = 0 /\ ~cmdInProgress /\ ~retryTimer
    /\ Len(q) = 0 \/ GivesUp(retryCount)

\* Is the new PEL at the end of q the one to start the sending?
Starts(q) ==
    /\ hostUp /\ ~hostFull /\ ~hostUpTimer
    /\ inProgressPEL = 0 /\ ~cmdInProgress /\ ~retryTimer
    /\ Len(q) = 1 \/ GivesUp(retryCount)

\* Repository::add, which calls newLogCallback().  Ids are handed out in order.
newLogCallback(p) ==
    /\ repo[p] = "none"
    /\ p > 1 => repo[p - 1] # "none"
    /\ repo' = [repo EXCEPT ![p] = "new"]
    /\ IF enqueueRequired(repo', p)
       THEN LET q == Append(pelQueue, p)
            IN  /\ pelQueue' = q
                /\ retryCount' = IF Starts(q) THEN 0 ELSE retryCount
                /\ dispatcher' = (dispatcher \/ Starts(q))
       ELSE UNCHANGED <<pelQueue, retryCount, dispatcher>>
    /\ UNCHANGED <<fixed, sentPELs, inProgressPEL, cmdInProgress, hostFull, retryTimer,
                   hostFullTimer, hostUpTimer, hostUp, told>>

\* Repository::remove or prune, which call deleteLogCallback().
deleteLogCallback(p) ==
    /\ Known(p)
    /\ repo' = [repo EXCEPT ![p] = "deleted"]
    /\ pelQueue' = RemoveFirst(pelQueue, p)
    /\ sentPELs' = RemoveFirst(sentPELs, p)
    /\ UNCHANGED <<fixed, inProgressPEL, cmdInProgress, retryCount, hostFull, retryTimer,
                   hostFullTimer, hostUpTimer, dispatcher, hostUp, told>>

-----------------------------------------------------------------------------
(* Event loop callbacks.                                                   *)

dispatch ==
    /\ dispatcher
    /\ dispatcher' = FALSE
    /\ doNewLogNotify(repo, pelQueue, inProgressPEL, cmdInProgress, retryTimer,
                      hostFullTimer, retryCount)
    /\ UNCHANGED <<repo, fixed, sentPELs, retryCount, hostFull, hostFullTimer,
                   hostUpTimer, hostUp>>

retryTimerExpired ==
    /\ retryTimer
    /\ IF hostUp
       THEN /\ retryCount' = retryCount + 1
            /\ doNewLogNotify(repo, pelQueue, inProgressPEL, cmdInProgress, FALSE,
                              hostFullTimer, retryCount + 1)
       ELSE /\ retryTimer' = FALSE
            /\ UNCHANGED <<retryCount, pelQueue, inProgressPEL, cmdInProgress, told>>
    /\ UNCHANGED <<repo, fixed, sentPELs, hostFull, hostFullTimer, hostUpTimer,
                   dispatcher, hostUp>>

\* The delay (60 s) is longer than a command (45 s) and its retry delay (1 s),
\* and as long as that of the host up timer, which was started first unless
\* a verdict came with the host down.
hostFullTimerExpired ==
    /\ hostFullTimer
    /\ ~cmdInProgress /\ ~retryTimer
    /\ StrayVerdicts \/ ~hostUpTimer
    /\ hostFullTimer' = FALSE
    /\ doNewLogNotify(repo, pelQueue, inProgressPEL, cmdInProgress, retryTimer,
                      FALSE, retryCount)
    /\ UNCHANGED <<repo, fixed, sentPELs, retryCount, hostFull, hostUpTimer,
                   dispatcher, hostUp>>

hostUpTimerExpired ==
    /\ hostUpTimer
    /\ hostUpTimer' = FALSE
    /\ doNewLogNotify(repo, pelQueue, inProgressPEL, cmdInProgress, retryTimer,
                      hostFullTimer, retryCount)
    /\ UNCHANGED <<repo, fixed, sentPELs, retryCount, hostFull, hostFullTimer,
                   dispatcher, hostUp>>

\* The command succeeded.
commandResponseSuccess ==
    /\ cmdInProgress
    /\ retryCount' = 0
    /\ sentPELs' = Append(sentPELs, inProgressPEL)
    /\ repo' = setPELHostTransState(repo, {inProgressPEL}, "sent")
    /\ IF hostFull
       THEN /\ inProgressPEL' = 0
            /\ cmdInProgress' = FALSE
            /\ UNCHANGED <<pelQueue, retryTimer, told>>
       ELSE doNewLogNotify(repo', pelQueue, 0, FALSE, retryTimer, hostFullTimer, 0)
    /\ UNCHANGED <<fixed, hostFull, hostFullTimer, hostUpTimer, dispatcher, hostUp>>

\* The command failed or timed out; the host may have seen it even so.
commandResponseFailure ==
    /\ cmdInProgress
    /\ pelQueue' = PutBack(inProgressPEL, pelQueue)
    /\ inProgressPEL' = 0
    /\ cmdInProgress' = FALSE
    /\ retryTimer' = TRUE
    /\ UNCHANGED <<repo, fixed, sentPELs, retryCount, hostFull, hostFullTimer,
                   hostUpTimer, dispatcher, hostUp, told>>

-----------------------------------------------------------------------------
(* The host changes state.                                                 *)

hostStateChangeUp ==
    /\ ~hostUp
    /\ ~dispatcher
    /\ hostUp' = TRUE
    /\ retryCount' = 0
    /\ hostFull' = FALSE
    /\ hostUpTimer' = (hostUpTimer \/ pelQueue # << >>)
    /\ UNCHANGED <<repo, fixed, pelQueue, sentPELs, inProgressPEL, cmdInProgress,
                   retryTimer, hostFullTimer, dispatcher, told>>

\* stopCommand(), and what was sent is sent again when the host is back.
hostStateChangeDown ==
    /\ hostUp
    /\ ~dispatcher
    /\ hostUp' = FALSE
    /\ retryCount' = 0
    /\ hostFull' = FALSE
    /\ pelQueue' = (IF inProgressPEL # 0 THEN <<inProgressPEL>> ELSE << >>)
                   \o pelQueue \o sentPELs
    /\ sentPELs' = << >>
    /\ inProgressPEL' = 0
    /\ cmdInProgress' = cancelCmd(cmdInProgress)
    /\ repo' = setPELHostTransState(repo, ToSet(sentPELs), "new")
    /\ retryTimer' = FALSE
    /\ hostFullTimer' = FALSE
    /\ hostUpTimer' = FALSE
    /\ told' = IF StrayVerdicts THEN told ELSE {}
    /\ UNCHANGED <<fixed, dispatcher>>

-----------------------------------------------------------------------------
(* The host's verdicts, which the PLDM daemon passes on over D-Bus.        *)

Verdict(p) ==
    /\ ~dispatcher
    /\ p \in told
    /\ StrayVerdicts \/ p # inProgressPEL
    /\ Known(p)
    /\ told' = told \ {p}
    /\ UNCHANGED <<fixed, inProgressPEL, cmdInProgress, retryCount, retryTimer,
                   hostUpTimer, hostUp>>

\* Seeded fault: the PEL stays on the sent list.
LeftOnList(p) == sentPELs

OffSentList(p) == RemoveFirst(sentPELs, p)

ackPEL(p) ==
    /\ Verdict(p)
    /\ repo' = setPELHostTransState(repo, {p}, "acked")
    /\ sentPELs' = OffSentList(p)
    /\ hostFullTimer' = FALSE
    /\ hostFull' = FALSE
    /\ dispatcher' = (dispatcher \/ (hostFull /\ pelQueue # << >>))
    /\ UNCHANGED pelQueue

setHostFull(p) ==
    /\ HostMayBeFull
    /\ Verdict(p)
    /\ hostFull' = TRUE
    /\ hostFullTimer' = TRUE
    /\ IF p \in ToSet(sentPELs)
       THEN /\ sentPELs' = OffSentList(p)
            /\ repo' = setPELHostTransState(repo, {p}, "new")
            /\ pelQueue' = IF p \in ToSet(pelQueue) THEN pelQueue ELSE PutBack(p, pelQueue)
       ELSE UNCHANGED <<sentPELs, repo, pelQueue>>
    /\ UNCHANGED dispatcher

setBadPEL(p) ==
    /\ Verdict(p)
    /\ repo' = setPELHostTransState(repo, {p}, "bad")
    /\ sentPELs' = OffSentList(p)
    /\ UNCHANGED <<pelQueue, hostFull, hostFullTimer, dispatcher>>

-----------------------------------------------------------------------------
(* The rest of the world.                                                  *)

\* ManagementSystemAck is set, or cleared, on the PEL's D-Bus object.
managementSystemAck(p) ==
    /\ Known(p)
    /\ p \in Hidden
    /\ hmcAcked' = IF p \in hmcAcked THEN hmcAcked \ {p} ELSE hmcAcked \cup {p}
    /\ UNCHANGED <<repo, hmcManaged, memory, hostUp, told, env>>

hmcComesOrGoes ==
    /\ Hidden # {}
    /\ hmcManaged' = ~hmcManaged
    /\ UNCHANGED <<repo, hmcAcked, memory, hostUp, told, env>>

\* Repository::restore has what the host was sent and has not acked sent again, and
\* the constructor queues every PEL of the repository that needs it.
restart ==
    /\ DaemonRestarts
    /\ LET required == {p \in PELs : enqueueRequired(repo, p)}
       IN  \E q \in [1..Cardinality(required) -> required] :
              /\ ToSet(q) = required
              /\ \A m, n \in DOMAIN q : m < n => q[m] < q[n]
              /\ pelQueue' = q
              /\ hostUpTimer' = (hostUp /\ required # {})
    /\ sentPELs' = << >>
    /\ inProgressPEL' = 0
    /\ cmdInProgress' = FALSE
    /\ retryCount' = 0
    /\ hostFull' = FALSE
    /\ retryTimer' = FALSE
    /\ hostFullTimer' = FALSE
    /\ dispatcher' = FALSE
    /\ repo' = setPELHostTransState(repo, {p \in PELs : repo[p] = "sent"}, "new")
    /\ UNCHANGED <<fixed, hostUp, told>>

-----------------------------------------------------------------------------
Callbacks ==
    \/ dispatch
    \/ retryTimerExpired
    \/ hostFullTimerExpired
    \/ hostUpTimerExpired

Responses == commandResponseSuccess \/ commandResponseFailure

Next ==
    \/ \E p \in PELs : newLogCallback(p) \/ deleteLogCallback(p)
    \/ Callbacks
    \/ Responses
    \/ hostStateChangeUp \/ hostStateChangeDown
    \/ \E p \in PELs : ackPEL(p) \/ setHostFull(p) \/ setBadPEL(p)
    \/ \E p \in PELs : managementSystemAck(p)
    \/ hmcComesOrGoes
    \/ restart

Spec == Init /\ [][Next]_vars

\* Timers expire, the event loop runs deferred work, and a command ends with
\* its response or with the receive timer; the daemon does not restart for ever.
FairSpec ==
    /\ Spec
    /\ WF_vars(dispatch)
    /\ WF_vars(retryTimerExpired)
    /\ WF_vars(hostFullTimerExpired)
    /\ WF_vars(hostUpTimerExpired)
    /\ WF_vars(Responses)
    /\ <>[][~restart]_vars

-----------------------------------------------------------------------------
(* Properties.                                                             *)

\* Type invariant: every variable of the notifier holds a value of its type.
TypeOK ==
    /\ repo \in [PELs -> States \cup {"none", "deleted"}]
    /\ hmcAcked \subseteq PELs /\ hmcManaged \in BOOLEAN
    /\ pelQueue \in Seq(PELs) /\ sentPELs \in Seq(PELs)
    /\ inProgressPEL \in {0} \cup PELs /\ cmdInProgress \in BOOLEAN
    /\ retryCount \in 0..maxRetryAttempts
    /\ hostFull \in BOOLEAN
    /\ retryTimer \in BOOLEAN /\ hostFullTimer \in BOOLEAN /\ hostUpTimer \in BOOLEAN
    /\ dispatcher \in BOOLEAN /\ hostUp \in BOOLEAN
    /\ told \subseteq PELs

NoDups(q) == \A m, n \in DOMAIN q : q[m] = q[n] => m = n

\* A PEL is at one place of its way to the host at a time: on the queue, in
\* the command in progress, or on the sent list, and there once; and the command
\* interface and the notifier agree on whether a response is due.
OnePlace ==
    /\ TypeOK
    /\ cmdInProgress <=> inProgressPEL # 0
    /\ NoDups(pelQueue) /\ NoDups(sentPELs)
    /\ ToSet(pelQueue) \cap ToSet(sentPELs) = {}
    /\ inProgressPEL \notin ToSet(pelQueue) \cup ToSet(sentPELs)

\* host_notifier.hpp: a PEL that is not acked "will" be sent again when the host
\* is rebooted.  No PEL that the host still has to be told of, or has yet to
\* ack, gets lost: it is on the queue, in progress, or on the sent list that
\* hostStateChange puts back on the queue when the host goes down.  (Hidden
\* PELs may be left to an HMC.)
NoPELLost ==
    \A p \in PELs \ (NoReport \cup Hidden) :
        repo[p] \in {"new", "sent"} =>
            p \in ToSet(pelQueue) \cup ToSet(sentPELs) \cup {inProgressPEL}

\* When the host is never full no PEL gets lost, whatever the order of verdicts
\* and responses and wherever the daemon restarts.
RoomyHostLosesNone == ~HostMayBeFull => NoPELLost

\* Something will look at the queue again: with a host that answers in order, a
\* PEL never waits with the host up, not full, and nothing pending, unless the
\* retries were used up.
QueueIsServed ==
    ~StrayVerdicts /\ hostUp /\ ~hostFull /\ retryCount < maxRetryAttempts
    /\ (\E n \in DOMAIN pelQueue : notifyRequired(repo, pelQueue[n])) =>
        cmdInProgress \/ retryTimer \/ hostFullTimer \/ hostUpTimer \/ dispatcher

Begins(p) == inProgressPEL' = p /\ inProgressPEL # p

\* host_notifier.hpp: an acked PEL "never needs to be sent up again".  The ack is
\* final: no later step sends the PEL or takes the ack back.
AckIsFinal ==
    [][\A p \in PELs : repo[p] = "acked" =>
          repo'[p] \in {"acked", "deleted"} /\ ~Begins(p)]_vars

\* The ack of a host that answers in order is final: no timer, retry, reboot or
\* restart sends the PEL again or takes the ack back.
OrderlyAckIsFinal ==
    [][~StrayVerdicts => \A p \in PELs : repo[p] = "acked" =>
          repo'[p] \in {"acked", "deleted"} /\ ~Begins(p)]_vars

\* Nothing is sent that must not be: a command starts only with the host up,
\* not for a deleted PEL or one not for the host, not while the host full
\* timer runs, and not for a hidden PEL that an HMC takes.
SendsOnlyWanted ==
    [][\A p \in PELs : Begins(p) =>
          /\ hostUp /\ ~hostFullTimer'
          /\ Known(p) /\ p \notin NoReport
          /\ p \in Hidden => p \notin hmcAcked /\ ~hmcManaged]_vars

\* While the host stays up and answers in order, the queue is worked off or the
\* retries are used up: a failed send or a lost response leaves no PEL waiting.
QueueDrains ==
    (~StrayVerdicts /\ hostUp /\ ~hostFull /\ pelQueue # << >>) ~>
        (pelQueue = << >> \/ ~hostUp \/ hostFull \/ retryCount = maxRetryAttempts)

-----------------------------------------------------------------------------
(* What comments say of the code, and the code does not do.                *)

\* host_notifier.hpp: after setHostFull() a timer will "issue another send": a
\* full host with PELs waiting is tried again.  Either something is pending that
\* sends, or the host has yet to answer for a PEL it was sent.
FullHostIsRetried ==
    hostUp /\ hostFull /\ pelQueue # << >> /\ retryCount < maxRetryAttempts =>
        \/ hostFullTimer \/ cmdInProgress \/ retryTimer \/ hostUpTimer \/ dispatcher
        \/ ToSet(sentPELs) \cap told # {}
=============================================================================
