----------------------------- MODULE EventLogger -----------------------------
(***************************************************************************)
(* The queue of errors the PEL code itself wants to log.  Each is created  *)
(* from the event loop, through the log manager, which calls the PEL code  *)
(* back; what that wants to log then is dropped, or there would be no end. *)
(***************************************************************************)
EXTENDS Naturals, Sequences, FiniteSets

CONSTANTS
    Events,     \* the errors
    MaxQueued   \* a bound on the errors that wait

VARIABLES
    eventsToCreate,     \* _eventsToCreate
    eventSource,        \* _eventSource: the deferred call of create()
    inEventCreation     \* _inEventCreation

vars == <<eventsToCreate, eventSource, inEventCreation>>

Init ==
    /\ eventsToCreate = <<>>
    /\ eventSource = FALSE
    /\ inEventCreation = FALSE

log(e) ==
    /\ ~inEventCreation
    /\ Len(eventsToCreate) < MaxQueued
    /\ eventsToCreate' = Append(eventsToCreate, e)
    /\ eventSource' = TRUE
    /\ UNCHANGED inEventCreation

\* From inside of _creator.
logIgnored(e) ==
    /\ inEventCreation
    /\ UNCHANGED vars

\* create(), up to the call of _creator.
createStarts ==
    /\ eventSource /\ ~inEventCreation
    /\ IF eventsToCreate = <<>> THEN UNCHANGED <<eventsToCreate, inEventCreation>>
       ELSE /\ eventsToCreate' = Tail(eventsToCreate)
            /\ inEventCreation' = TRUE
    /\ eventSource' = FALSE

\* Seeded fault: the next one is not scheduled.
createStops ==
    /\ inEventCreation
    /\ inEventCreation' = FALSE
    /\ UNCHANGED <<eventsToCreate, eventSource>>

\* _creator has returned, or thrown.
createEnds ==
    /\ inEventCreation
    /\ inEventCreation' = FALSE
    /\ eventSource' = (eventSource \/ eventsToCreate # <<>>)
    /\ UNCHANGED eventsToCreate

Next ==
    \/ \E e \in Events : log(e) \/ logIgnored(e)
    \/ createStarts \/ createEnds

Spec == Init /\ [][Next]_vars

-----------------------------------------------------------------------------
(* Properties.                                                             *)

\* No error is forgotten: while one waits, a call of create() is scheduled or will
\* be at the end of the one that runs (EventLogger::log, EventLogger::create).
EventsAreServed == eventsToCreate # <<>> => eventSource \/ inEventCreation
=============================================================================
