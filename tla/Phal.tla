-------------------------------- MODULE Phal --------------------------------
(***************************************************************************)
(* When the PHAL libraries become usable, and what is remembered of the    *)
(* answers they give.  The device tree they need is put there by the       *)
(* service obmc-recover-pnor, which may finish before the daemon starts,   *)
(* after it has subscribed to systemd's signals, or in between.            *)
(***************************************************************************)
EXTENDS Naturals, FiniteSets

CONSTANTS
    LocCodes, DIMMs,    \* location codes, and which are those of DIMMs
    MaxJobs             \* a bound on the runs of the service that wait

VARIABLES
    devTree,        \* the device tree exists
    systemdSlot,    \* the pending call: "none", "subscribe" or "unsubscribe"
    systemdMatch,   \* the match for JobRemoved
    jobs,           \* JobRemoved signals that wait
    phalReady,      \* pdbg and libekb have been initialised
    running,        \* the DataInterface has been constructed
    locationCache,  \* DataInterfaceBase::_locationCache
    owed            \* the service finished while it was watched, and no
                    \* initialisation has been tried since

vars == <<devTree, systemdSlot, systemdMatch, jobs, phalReady, running, locationCache, owed>>

Init ==
    /\ devTree \in BOOLEAN
    /\ systemdSlot = "none" /\ systemdMatch = FALSE /\ jobs = 0
    /\ phalReady = FALSE /\ running = FALSE
    /\ locationCache = <<>>
    /\ owed = FALSE

isPHALDevTreeExist == devTree

\* pdbg_targets_init or libekb_init may fail.
initPHAL == phalReady' \in {TRUE, phalReady}

\* The end of the constructor.
construct ==
    /\ ~running /\ running' = TRUE
    /\ IF isPHALDevTreeExist THEN initPHAL /\ UNCHANGED systemdSlot
       ELSE systemdSlot' = "subscribe" /\ UNCHANGED phalReady
    /\ UNCHANGED <<devTree, systemdMatch, jobs, locationCache, owed>>

\* The callbacks of the two calls; an error leaves the match as it is.
subscribed ==
    /\ systemdSlot = "subscribe"
    /\ systemdSlot' = "none"
    /\ systemdMatch' \in BOOLEAN
    /\ UNCHANGED <<devTree, jobs, phalReady, running, locationCache, owed>>

unsubscribed ==
    /\ systemdSlot = "unsubscribe"
    /\ systemdSlot' = "none"
    /\ \/ systemdMatch' = FALSE /\ jobs' = 0 /\ owed' = FALSE
       \/ UNCHANGED <<systemdMatch, jobs, owed>>
    /\ UNCHANGED <<devTree, phalReady, running, locationCache>>

\* obmc-recover-pnor is done, which makes the tree.
RecoverPNOR ==
    /\ jobs < MaxJobs
    /\ devTree' = TRUE
    /\ jobs' = IF systemdMatch THEN jobs + 1 ELSE jobs
    /\ owed' = (owed \/ systemdMatch)
    /\ UNCHANGED <<systemdSlot, systemdMatch, phalReady, running, locationCache>>

jobRemoved ==
    /\ jobs > 0 /\ jobs' = jobs - 1
    /\ initPHAL
    /\ owed' = FALSE
    /\ systemdSlot' = "unsubscribe"
    /\ UNCHANGED <<devTree, systemdMatch, running, locationCache>>

\* What libphal says of a location code; nothing before it is initialised.
getFRUType(l) ==
    IF phalReady THEN {"unknown", IF l \in DIMMs THEN "DIMM" ELSE "other"}
    ELSE {"unknown"}

addDIMMLocCode(l, isDIMMFRU) ==
    locationCache' = [m \in DOMAIN locationCache \cup {l} |->
                          IF m = l THEN isDIMMFRU ELSE locationCache[m]]

\* Seeded fault: that nothing is known is remembered as an answer.
isDIMMAnswered(l) ==
    /\ running
    /\ l \notin DOMAIN locationCache
    /\ \E type \in getFRUType(l) : addDIMMLocCode(l, type = "DIMM")
    /\ UNCHANGED <<devTree, systemdSlot, systemdMatch, jobs, phalReady, running, owed>>

\* A location code that is in the cache is answered from there, for good.
isDIMM(l) ==
    /\ running
    /\ l \notin DOMAIN locationCache
    /\ \E type \in getFRUType(l) :
          IF type = "unknown" THEN UNCHANGED locationCache
          ELSE addDIMMLocCode(l, type = "DIMM")
    /\ UNCHANGED <<devTree, systemdSlot, systemdMatch, jobs, phalReady, running, owed>>

\* A PEL with callouts that have a location code is created; whether the details
\* of a DIMM can then be read changes nothing here.
addAdDetailsForDIMMsCallout == \E l \in LocCodes : isDIMM(l)

Restart ==
    /\ running
    /\ running' = FALSE /\ systemdSlot' = "none" /\ systemdMatch' = FALSE /\ jobs' = 0
    /\ phalReady' = FALSE /\ locationCache' = <<>> /\ owed' = FALSE
    /\ UNCHANGED devTree

Next ==
    \/ construct \/ subscribed \/ unsubscribed \/ RecoverPNOR \/ jobRemoved
    \/ addAdDetailsForDIMMsCallout
    \/ Restart

Spec == Init /\ [][Next]_vars

-----------------------------------------------------------------------------
(* Properties.                                                             *)

\* What is remembered is true: a question asked before PHAL could answer it, or
\* that it failed to answer, is asked again, however the start of PHAL and the
\* PELs that ask for DIMMs interleave (DataInterfaceBase::isDIMM).  And when the
\* service finishes while it is watched, its signal waits until PHAL is
\* initialised (subscribeToSystemdSignals).
DIMMCacheIsTrue ==
    /\ \A l \in DOMAIN locationCache : locationCache[l] <=> l \in DIMMs
    /\ owed => jobs > 0
=============================================================================
