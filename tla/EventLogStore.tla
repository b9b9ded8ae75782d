---------------------------- MODULE EventLogStore ----------------------------
(***************************************************************************)
(* What clients of the event log are promised: a map from ids to events    *)
(* that outlives the daemon.  There is no crash and no restart in this     *)
(* specification; LogManager implements it when no crash tears a file.     *)
(***************************************************************************)
EXTENDS Integers

CONSTANTS MaxId, Content, None

VARIABLE logs

Ids == 1..MaxId

Used == {i \in Ids : logs[i] # None}

\* The oldest event of a class, if there is one.
Oldest(info) ==
    {i \in Used : logs[i].info = info /\ \A j \in Used : logs[j].info = info => i <= j}

StoreInit == logs = [i \in Ids |-> None]

\* A new event is numbered above all the others and is not resolved yet.  It
\* may push out the oldest event of its own class.
Add(i, event) ==
    /\ \A j \in Used : j < i
    /\ ~event.resolved
    /\ \E out \in SUBSET Oldest(event.info) :
          logs' = [j \in Ids |-> IF j = i THEN event
                                 ELSE IF j \in out THEN None ELSE logs[j]]

\* Severity and callouts are fixed once createEntry has returned: an extension
\* changes the severity inside of it, before the event can be read, and Add
\* takes the event as it is then (or, after a crash in between, as it was).
Update(i, event) ==
    /\ i \in Used
    /\ event.info = logs[i].info /\ event.callout = logs[i].callout
    /\ logs' = [logs EXCEPT ![i] = event]

Remove(i) ==
    /\ i \in Used
    /\ logs' = [logs EXCEPT ![i] = None]

StoreNext ==
    \E i \in Ids :
        \/ \E event \in Content : Add(i, event) \/ Update(i, event)
        \/ Remove(i)

StoreSpec == StoreInit /\ [][StoreNext]_logs
=============================================================================
