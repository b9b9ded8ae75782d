------------------------ MODULE PLDMInterfaceProofs ------------------------
(***************************************************************************)
(* For any set of instance ids and of PELs: a command always has what it   *)
(* needs to end and no instance id leaks, and the PLDM interface keeps the *)
(* promise of HostInterface.                                               *)
(***************************************************************************)
EXTENDS PLDMInterface, TLAPS

\* The interface starts with nothing in progress and no id taken.
LEMMA InitCanEnd == Init => CommandCanEnd
  BY DEF Init, CommandCanEnd, TypeOK, WaitIsArmed, NoIDLeaks, None

\* Sending takes an id only if none is held, and either everything is set up
\* or everything is cleaned up (sendNewLogCmd, startCommand).
LEMMA SendCanEnd ==
  ASSUME None \notin InstanceIDs, CommandCanEnd,
         NEW p \in LogIDs,
         sendNewLogCmd(p) \/ sendWithoutID(p) \/ startCommandFails(p)
  PROVE  CommandCanEnd'
<1> USE DEF CommandCanEnd, WaitIsArmed, NoIDLeaks
<1>1. CASE sendNewLogCmd(p)
  <2> USE <1>1 DEF sendNewLogCmd, startCommand, doSend
  <2>1. TypeOK' /\ instanceID' # None
    <3>1. instanceID' \in InstanceIDs
      BY DEF allocIID, FreeIDs, TypeOK
    <3> DEFINE new == [iid |-> instanceID', pel |-> p, old |-> FALSE]
    <3>a. new \in [iid : InstanceIDs, pel : LogIDs, old : BOOLEAN]
      BY <3>1
    <3>b. requests' = requests \cup {new}
      OBVIOUS
    <3>2. requests' \subseteq [iid : InstanceIDs, pel : LogIDs, old : BOOLEAN]
      <4> HIDE DEF new
      <4> QED  BY <3>a, <3>b, Zenon DEF TypeOK
    <3>3. kept' \in BOOLEAN
      BY Zenon
    <3>4. idb' \in [InstanceIDs -> {"ours", "others", "free"}]
      BY DEF allocIID, FreeIDs, TypeOK
    <3> QED  BY <3>1, <3>2, <3>3, <3>4 DEF TypeOK
  <2>2. WaitIsArmed'
    BY <2>1
  <2>3. NoIDLeaks'
    BY DEF allocIID, FreeIDs, TypeOK
  <2> QED  BY <2>1, <2>2, <2>3
<1>2. CASE sendWithoutID(p)
  BY <1>2 DEF sendWithoutID, TypeOK
<1>3. CASE startCommandFails(p)
  <2> USE <1>3 DEF startCommandFails, cleanupCmd
  <2>1. TypeOK'
    BY DEF allocIID, FreeIDs, TypeOK
  <2>2. WaitIsArmed'
    OBVIOUS
  <2>3. NoIDLeaks'
    BY DEF allocIID, FreeIDs, TypeOK
  <2> QED  BY <2>1, <2>2, <2>3
<1> QED  BY <1>1, <1>2, <1>3

\* Giving the id back leaves the database without an id of the interface.
LEMMA FreeLeavesNone ==
  ASSUME None \notin InstanceIDs, TypeOK, NoIDLeaks, freeIID
  PROVE  /\ instanceID' = None
         /\ idb' \in [InstanceIDs -> {"ours", "others", "free"}]
         /\ NoIDLeaks'
  BY DEF TypeOK, NoIDLeaks, freeIID

\* An answer, a failing read, a timeout or a cancellation ends the command with
\* its source, timer and socket (receive, receiveTimerExpired, cancelCmd).
LEMMA EndCanEnd ==
  ASSUME None \notin InstanceIDs, CommandCanEnd,
         \/ \E r \in requests : receive(r) \/ answerLost(r)
         \/ receiveFails \/ receiveTimerExpired \/ cancelCmd
  PROVE  CommandCanEnd'
<1>1. TypeOK /\ WaitIsArmed /\ NoIDLeaks
  BY DEF CommandCanEnd
<1>2. ASSUME NEW r \in requests, receive(r)
      PROVE  CommandCanEnd'
  <2>1. CASE correlate(r)
    <3>1. cleanupCmd /\ freeIID /\ outcome' \in {"success", "failure"}
      BY <1>2, <2>1 DEF receive
    <3>2. instanceID' = None /\ idb' \in [InstanceIDs -> {"ours", "others", "free"}] /\ NoIDLeaks'
      BY <1>1, <3>1, FreeLeavesNone
    <3> QED  BY <1>1, <1>2, <3>1, <3>2 DEF receive, cleanupCmd, CommandCanEnd, TypeOK, WaitIsArmed
  <2>2. CASE ~correlate(r)
    BY <1>1, <1>2, <2>2 DEF receive, CommandCanEnd, TypeOK, WaitIsArmed, NoIDLeaks
  <2> QED  BY <2>1, <2>2
<1>3. ASSUME NEW r \in requests, answerLost(r)
      PROVE  CommandCanEnd'
  BY <1>1, <1>3 DEF answerLost, CommandCanEnd, TypeOK, WaitIsArmed, NoIDLeaks
<1>4. CASE receiveFails
  <2>1. cleanupCmd /\ freeIID
    BY <1>4 DEF receiveFails
  <2>2. instanceID' = None /\ idb' \in [InstanceIDs -> {"ours", "others", "free"}] /\ NoIDLeaks'
    BY <1>1, <2>1, FreeLeavesNone
  <2> QED  BY <1>1, <1>4, <2>1, <2>2 DEF receiveFails, cleanupCmd, CommandCanEnd, TypeOK, WaitIsArmed
<1>5. CASE receiveTimerExpired
  BY <1>1, <1>5 DEF receiveTimerExpired, cleanupCmd, CommandCanEnd, TypeOK, WaitIsArmed, NoIDLeaks
<1>6. CASE cancelCmd
  <2>1. cleanupCmd /\ freeIID
    BY <1>6 DEF cancelCmd
  <2>2. instanceID' = None /\ idb' \in [InstanceIDs -> {"ours", "others", "free"}] /\ NoIDLeaks'
    BY <1>1, <2>1, FreeLeavesNone
  <2> QED  BY <1>1, <1>6, <2>1, <2>2 DEF cancelCmd, cleanupCmd, CommandCanEnd, TypeOK, WaitIsArmed
<1> QED  BY <1>2, <1>3, <1>4, <1>5, <1>6

\* A restart drops the locks with everything else, and other requesters touch
\* only ids the interface does not hold.
LEMMA EnvironmentCanEnd ==
  ASSUME None \notin InstanceIDs, CommandCanEnd,
         Restart \/ \E i \in InstanceIDs : OthersUseID(i)
  PROVE  CommandCanEnd'
<1> USE DEF CommandCanEnd, WaitIsArmed, NoIDLeaks
<1>1. CASE Restart
  <2>1. \A r \in requests : [r EXCEPT !.old = TRUE] \in [iid : InstanceIDs, pel : LogIDs, old : BOOLEAN]
    BY DEF TypeOK
  <2>2. requests' \subseteq [iid : InstanceIDs, pel : LogIDs, old : BOOLEAN]
    BY <1>1, <2>1 DEF Restart
  <2> QED  BY <1>1, <2>2 DEF Restart, TypeOK
<1>2. ASSUME NEW i \in InstanceIDs, OthersUseID(i)
      PROVE  CommandCanEnd'
  BY <1>2 DEF OthersUseID, TypeOK
<1> QED  BY <1>1, <1>2

\* A command always has what it needs to end, nothing is left of one that has
\* ended, and the database has exactly the id the interface holds as taken,
\* whatever the ids and the PELs are (PLDMInterface).
THEOREM CommandsEnd ==
  ASSUME None \notin InstanceIDs
  PROVE  Spec => []CommandCanEnd
<1>1. CommandCanEnd /\ [Next]_vars => CommandCanEnd'
  <2> SUFFICES ASSUME CommandCanEnd, [Next]_vars  PROVE CommandCanEnd'
    OBVIOUS
  <2>1. CASE Next
    BY <2>1, SendCanEnd, EndCanEnd, EnvironmentCanEnd DEF Next
  <2>2. CASE UNCHANGED vars
    BY <2>2 DEF vars, CommandCanEnd, TypeOK, WaitIsArmed, NoIDLeaks
  <2> QED  BY <2>1, <2>2
<1> QED  BY <1>1, InitCanEnd, PTL DEF Spec

\* Every step is a step of HostInterface or changes nothing it promises: a
\* command sent and not cancelled or replaced gets one response.
THEOREM KeepsPromise ==
  ASSUME None \notin InstanceIDs
  PROVE  Spec => OneResponse
<1>1. Init => Promise!Init
  BY DEF Init, Promise!Init
<1>2. CommandCanEnd /\ [Next]_vars => [Promise!Next]_<<inProgress, outcome>>
  <2> SUFFICES ASSUME CommandCanEnd, [Next]_vars
               PROVE  [Promise!Next]_<<inProgress, outcome>>
    OBVIOUS
  <2> USE DEF Promise!Next, Promise!sendNewLogCmd, Promise!callResponseFunc,
              Promise!cancelCmd, Promise!Restart, Promise!Init
  <2>1. /\ inProgress \in BOOLEAN
        /\ inProgress = source /\ inProgress = receiveTimer
        /\ inProgress <=> outcome = "waiting"
    BY DEF CommandCanEnd, TypeOK, WaitIsArmed
  <2>2. ASSUME NEW p \in LogIDs,
               sendNewLogCmd(p) \/ sendWithoutID(p) \/ startCommandFails(p)
        PROVE  Promise!sendNewLogCmd
    BY <2>2 DEF sendNewLogCmd, startCommand, sendWithoutID, startCommandFails, cleanupCmd
  <2>3. ASSUME NEW r \in requests, receive(r) \/ answerLost(r)
        PROVE  Promise!callResponseFunc \/ UNCHANGED <<inProgress, outcome>>
    BY <2>1, <2>3 DEF receive, answerLost, cleanupCmd
  <2>4. CASE receiveFails \/ receiveTimerExpired
    BY <2>1, <2>4 DEF receiveFails, receiveTimerExpired, cleanupCmd
  <2>5. CASE cancelCmd
    BY <2>1, <2>5 DEF cancelCmd, cleanupCmd
  <2>6. CASE Restart
    BY <2>6 DEF Restart
  <2>7. ASSUME NEW i \in InstanceIDs, OthersUseID(i)
        PROVE  UNCHANGED <<inProgress, outcome>>
    BY <2>7 DEF OthersUseID
  <2>8. CASE UNCHANGED vars
    BY <2>8 DEF vars
  <2> QED  BY <2>2, <2>3, <2>4, <2>5, <2>6, <2>7, <2>8 DEF Next
<1> QED  BY <1>1, <1>2, CommandsEnd, PTL DEF Spec, OneResponse, Promise!Spec
\* While a command waits on an id no earlier command had, each request with
\* that id is about its PEL.
OwnAnswers ==
    inProgress /\ ~kept => \A r \in requests : r.iid = requestHeader => r.pel = pelID

\* An id that was taken anew has no request under way but those of before the
\* last restart.
LEMMA OwnAnswersKept ==
  ASSUME None \notin InstanceIDs, CommandCanEnd, OwnAnswers, [Next]_vars
  PROVE  OwnAnswers'
<1> USE DEF OwnAnswers
<1>1. ASSUME NEW p \in LogIDs, sendNewLogCmd(p)
      PROVE  OwnAnswers'
  <2>1. /\ pelID' = p /\ requestHeader' = instanceID'
        /\ requests' = requests \cup {[iid |-> instanceID', pel |-> p, old |-> FALSE]}
        /\ kept' = (instanceID # None \/ \E r \in requests : r.old /\ r.iid = instanceID')
        /\ allocIID
    BY <1>1 DEF sendNewLogCmd, doSend
  <2>2. CASE kept'
    BY <2>2
  <2>3. CASE ~kept'
    <3>1. \A r \in requests : r.iid # instanceID'
      BY <2>1, <2>3 DEF allocIID, FreeIDs
    <3> QED  BY <2>1, <3>1
  <2> QED  BY <2>2, <2>3
<1>2. ASSUME NEW p \in LogIDs, sendWithoutID(p) \/ startCommandFails(p)
      PROVE  OwnAnswers'
  BY <1>2 DEF sendWithoutID, startCommandFails, cleanupCmd
<1>3. ASSUME NEW r \in requests, receive(r) \/ answerLost(r)
      PROVE  OwnAnswers'
  BY <1>3 DEF receive, answerLost, cleanupCmd
<1>4. CASE receiveFails \/ receiveTimerExpired \/ cancelCmd \/ Restart
  BY <1>4 DEF receiveFails, receiveTimerExpired, cancelCmd, Restart, cleanupCmd
<1>5. ASSUME NEW i \in InstanceIDs, OthersUseID(i)
      PROVE  OwnAnswers'
  BY <1>5 DEF OthersUseID
<1>6. CASE UNCHANGED vars
  BY <1>6 DEF vars
<1> QED  BY <1>1, <1>2, <1>3, <1>4, <1>5, <1>6 DEF Next

\* Success is reported on an answer about this PEL, unless an earlier request had
\* the id and may still be answered (PLDMInterface::receive, pldm_msg_hdr_correlate_response).
THEOREM AnswersForPEL ==
  ASSUME None \notin InstanceIDs
  PROVE  Spec => AnswerIsForPEL
<1>1. Init => OwnAnswers
  BY DEF Init, OwnAnswers
<1>2. CommandCanEnd /\ OwnAnswers /\ [Next]_vars => OwnAnswers'
  BY OwnAnswersKept
<1>3. CommandCanEnd /\ OwnAnswers /\ [Next]_vars =>
        [outcome = "waiting" /\ outcome' = "success" =>
            \E r \in requests \ requests' : r.pel = pelID \/ kept]_vars
  <2> SUFFICES ASSUME CommandCanEnd, OwnAnswers, Next, outcome = "waiting", outcome' = "success"
               PROVE  \E r \in requests \ requests' : r.pel = pelID \/ kept
    BY DEF vars
  <2>1. inProgress
    BY DEF CommandCanEnd, WaitIsArmed
  <2>2. PICK r \in requests : receive(r)
    BY DEF Next, sendNewLogCmd, sendWithoutID, startCommandFails, receiveFails, answerLost,
           receiveTimerExpired, cancelCmd, Restart, OthersUseID
  <2>3. correlate(r) /\ requests' = requests \ {r}
    BY <2>2 DEF receive
  <2> QED  BY <2>1, <2>3 DEF OwnAnswers, correlate
<1> QED  BY <1>1, <1>2, <1>3, CommandsEnd, PTL DEF Spec, AnswerIsForPEL
=============================================================================
