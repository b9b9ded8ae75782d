---------------------------- MODULE DataInterface ----------------------------
(***************************************************************************)
(* How the daemon's view of the system follows D-Bus: the properties it    *)
(* keeps copies of, the subscriber to the host state, and the hot plug     *)
(* watches.  The daemon has one thread.  A signal is queued for it when it *)
(* has a match for it on the bus at the time the signal is sent, and       *)
(* handled when the thread is back in its loop; a call blocks the thread,  *)
(* and the bus goes on meanwhile.                                          *)
(* A service that has come to the bus stays on it: the watchers do not     *)
(* look for owners that leave, and after such a loss the copies would      *)
(* stay as they were until the service is back and sends a change.         *)
(***************************************************************************)
EXTENDS Naturals, Sequences, FiniteSets

CONSTANTS
    Frus,           \* the inventory paths of fans and power supplies
    PLDMFrus,       \* those that are hosted by PLDM
    MaxSignals      \* a bound on the signals that wait

VARIABLES
    onBus,          \* the watched properties, or Absent
    watcher,          \* for each, how far its PropertyWatcher is
    unreadProps,         \* the watchers whose read failed, and who heard nothing since
    values,         \* the copies: _bootState, _bmcState, ...
    hostUp,         \* _hostUp
    told,           \* what the subscriber to the host state knows, {} if there is none
    signals,        \* the signals that wait for the thread
    frusOnBus,      \* the FRUs in the inventory
    plugWatch,      \* how far startFruPlugWatch is, "off" or "idle" when not in it
    paths,          \* the paths getPaths has returned to it
    unlisted,       \* the last getPaths failed
    invIaMatch,     \* the match for InterfacesAdded
    invPresentMatches,  \* the FRUs with a match for their properties
    frusTold        \* the FRUs setFruPresent was called for

vars == <<onBus, watcher, unreadProps, values, hostUp, told, signals, frusOnBus, plugWatch,
          paths, unlisted, invIaMatch, invPresentMatches, frusTold>>

fruVars == <<frusOnBus, plugWatch, paths, unlisted, invIaMatch, invPresentMatches,
             frusTold>>

Absent == "absent"
Props == {"BootProgress", "CurrentBMCState"}
Values(p) == IF p = "BootProgress" THEN {"Unspecified", "OSRunning"} ELSE {"NotReady", "Ready"}

Init ==
    /\ onBus \in [Props -> {Absent, "OSRunning", "Ready"}]
    /\ \A p \in Props : onBus[p] \in Values(p) \cup {Absent}
    /\ watcher = [p \in Props |-> "none"]
    /\ unreadProps = {}
    /\ values = [p \in Props |-> Absent]
    /\ hostUp = FALSE
    /\ told = {}
    /\ signals = <<>>
    /\ frusOnBus = {}
    /\ plugWatch = "off"
    /\ paths = {}
    /\ unlisted = FALSE
    /\ invIaMatch = FALSE
    /\ invPresentMatches = {}
    /\ frusTold = {}

-----------------------------------------------------------------------------
(* Callbacks of the watchers.                                              *)

\* Every change runs the callbacks; there are none before the constructor ends.
setHostUp(up) ==
    /\ hostUp' = up
    /\ told' = IF up # hostUp /\ told # {} THEN {up} ELSE told

\* The function that is given to the watcher of p.  BMC ready starts the
\* watch for plugs, in the same call.
setFunc(p, v) ==
    /\ values' = [values EXCEPT ![p] = v]
    /\ unreadProps' = unreadProps \ {p}
    /\ IF p = "BootProgress" THEN setHostUp(v = "OSRunning") ELSE UNCHANGED <<hostUp, told>>
    /\ plugWatch' = IF p = "CurrentBMCState" /\ v = "Ready" THEN "start" ELSE plugWatch

-----------------------------------------------------------------------------
(* PropertyWatcher and InterfaceWatcher: the matches, then the read.       *)

Idle == plugWatch \in {"off", "idle"}
Started == told # {}

\* One watcher after the other.
addMatches(p) ==
    /\ Idle /\ watcher[p] = "none" /\ \A q \in Props : watcher[q] # "matched"
    /\ watcher' = [watcher EXCEPT ![p] = "matched"]
    /\ UNCHANGED <<onBus, unreadProps, values, hostUp, told, signals, fruVars>>

Read(p, v) ==
    IF v = Absent THEN UNCHANGED <<values, unreadProps, hostUp, told, plugWatch>>
    ELSE setFunc(p, v)

\* A read that finds no service is over; one that times out throws.
read(p) ==
    /\ Idle /\ watcher[p] = "matched"
    /\ watcher' = [watcher EXCEPT ![p] = "on"]
    /\ \/ Read(p, onBus[p])
       \/ /\ onBus[p] # Absent
          /\ unreadProps' = unreadProps \cup {p}
          /\ UNCHANGED <<values, hostUp, told, plugWatch>>
    /\ UNCHANGED <<onBus, signals, frusOnBus, paths, unlisted, invIaMatch,
                   invPresentMatches, frusTold>>

\* The subscriber asks for the state when it subscribes (HostNotifier).
subscribeToHostStateChange ==
    /\ Idle /\ ~Started /\ \A p \in Props : watcher[p] = "on"
    /\ told' = {hostUp}
    /\ UNCHANGED <<onBus, watcher, unreadProps, values, hostUp, signals, fruVars>>

-----------------------------------------------------------------------------
(* startFruPlugWatch.                                                      *)

addIaMatch ==
    /\ plugWatch = "start"
    /\ invIaMatch' = TRUE
    /\ plugWatch' = "matched"
    /\ UNCHANGED <<onBus, watcher, unreadProps, values, hostUp, told, signals, frusOnBus, paths,
                   unlisted, invPresentMatches, frusTold>>

getPaths ==
    /\ plugWatch = "matched"
    /\ \/ paths' = frusOnBus /\ unlisted' = FALSE /\ plugWatch' = "listed"
       \/ paths' = {} /\ unlisted' = TRUE /\ plugWatch' = "idle"
    /\ UNCHANGED <<onBus, watcher, unreadProps, values, hostUp, told, signals, frusOnBus,
                   invIaMatch, invPresentMatches, frusTold>>

\* All matches are removed and made again: what happens in between is unseen.
clearMatches ==
    /\ plugWatch = "listed"
    /\ invPresentMatches' = {}
    /\ plugWatch' = "cleared"
    /\ UNCHANGED <<onBus, watcher, unreadProps, values, hostUp, told, signals, frusOnBus, paths,
                   unlisted, invIaMatch, frusTold>>

addHotplugWatches ==
    /\ plugWatch = "cleared"
    /\ invPresentMatches' = paths
    /\ plugWatch' = "idle"
    /\ UNCHANGED <<onBus, watcher, unreadProps, values, hostUp, told, signals, frusOnBus, paths,
                   unlisted, invIaMatch, frusTold>>

-----------------------------------------------------------------------------
(* Signals and their handlers.                                             *)

Send(signal) == signals' = Append(signals, signal)

\* The property of a service changes, or the service starts.
PropertyChanges(p) ==
    /\ Len(signals) < MaxSignals
    /\ \E v \in Values(p) \ {onBus[p]} :
          /\ onBus' = [onBus EXCEPT ![p] = v]
          /\ IF watcher[p] = "none" THEN UNCHANGED signals
             ELSE Send([kind |-> "property", of |-> p, value |-> v])
    /\ UNCHANGED <<watcher, unreadProps, values, hostUp, told, fruVars>>

FruAdded(f) ==
    /\ Len(signals) < MaxSignals
    /\ f \notin frusOnBus
    /\ frusOnBus' = frusOnBus \cup {f}
    /\ \E present \in BOOLEAN :
          IF invIaMatch THEN Send([kind |-> "added", of |-> f, value |-> present])
          ELSE UNCHANGED signals
    /\ UNCHANGED <<onBus, watcher, unreadProps, values, hostUp, told, plugWatch, paths, unlisted,
                   invIaMatch, invPresentMatches, frusTold>>

\* Without a match for the FRU nobody sees it.
FruPlugged(f) ==
    /\ Len(signals) < MaxSignals
    /\ f \in frusOnBus
    /\ f \in invPresentMatches
    /\ Send([kind |-> "present", of |-> f, value |-> TRUE])
    /\ UNCHANGED <<onBus, watcher, unreadProps, values, hostUp, told, fruVars>>

Handles(kind) == Idle /\ Started /\ signals # <<>> /\ Head(signals).kind = kind

propChanged ==
    /\ Handles("property")
    /\ setFunc(Head(signals).of, Head(signals).value)
    /\ signals' = Tail(signals)
    /\ UNCHANGED <<onBus, watcher, frusOnBus, paths, unlisted, invIaMatch,
                   invPresentMatches, frusTold>>

setFruPresent(f) == frusTold' = frusTold \cup {f}

\* The location code may not be there; FRUs of PLDM are of no interest.
notifyPresenceSubscribers(f, present) ==
    \/ /\ present /\ f \notin PLDMFrus
       /\ setFruPresent(f)
    \/ UNCHANGED frusTold

\* Seeded fault: a new FRU is watched only if it is present.
watchPresentOnly ==
    /\ Handles("added")
    /\ LET s == Head(signals)
       IN  /\ invPresentMatches' = invPresentMatches \cup
                 (IF s.value THEN {s.of} ELSE {})
           /\ notifyPresenceSubscribers(s.of, s.value)
    /\ signals' = Tail(signals)
    /\ UNCHANGED <<onBus, watcher, unreadProps, values, hostUp, told, frusOnBus, plugWatch, paths,
                   unlisted, invIaMatch>>

inventoryIfaceAdded ==
    /\ Handles("added")
    /\ LET s == Head(signals)
       IN  /\ invPresentMatches' = invPresentMatches \cup {s.of}
           /\ notifyPresenceSubscribers(s.of, s.value)
    /\ signals' = Tail(signals)
    /\ UNCHANGED <<onBus, watcher, unreadProps, values, hostUp, told, frusOnBus, plugWatch, paths,
                   unlisted, invIaMatch>>

presenceChanged ==
    /\ Handles("present")
    /\ IF Head(signals).of \in invPresentMatches
       THEN notifyPresenceSubscribers(Head(signals).of, Head(signals).value)
       ELSE UNCHANGED frusTold
    /\ signals' = Tail(signals)
    /\ UNCHANGED <<onBus, watcher, unreadProps, values, hostUp, told, frusOnBus, plugWatch, paths,
                   unlisted, invIaMatch, invPresentMatches>>

Next ==
    \/ \E p \in Props : addMatches(p) \/ read(p) \/ PropertyChanges(p)
    \/ subscribeToHostStateChange
    \/ addIaMatch \/ getPaths \/ clearMatches \/ addHotplugWatches
    \/ \E f \in Frus : FruAdded(f) \/ FruPlugged(f)
    \/ propChanged \/ inventoryIfaceAdded \/ presenceChanged

Spec == Init /\ [][Next]_vars

-----------------------------------------------------------------------------
(* Properties.                                                             *)

Waits(kind, of) == \E i \in DOMAIN signals : signals[i].kind = kind /\ signals[i].of = of

\* Whatever changes on the bus while the constructor and startFruPlugWatch run,
\* each copy of a property is that on the bus or a signal with news of it waits,
\* unless its only read failed; hostUp and the subscriber agree with the copy
\* of the boot progress (PropertyWatcher, setHostUp).  And once the watch for
\* plugs is on, each FRU in the inventory has its match or will get it from a
\* signal that waits, unless the mapper did not answer (startFruPlugWatch).
ViewCatchesUp ==
    /\ \A p \in Props :
          watcher[p] = "on" /\ p \notin unreadProps =>
              \/ Waits("property", p)
              \/ values[p] = onBus[p]
    /\ hostUp <=> values["BootProgress"] = "OSRunning"
    /\ Started => told = {hostUp}
    /\ plugWatch = "idle" /\ ~unlisted =>
          \A f \in frusOnBus : f \in invPresentMatches \/ Waits("added", f)
    /\ frusTold \cap PLDMFrus = {}
=============================================================================
