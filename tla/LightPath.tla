------------------------------ MODULE LightPath ------------------------------
(***************************************************************************)
(* What becomes of the callouts of a PEL: the service indicators that are  *)
(* turned on for them when the PEL is added, the boot block, and the       *)
(* deconfigured flag that is cleared when a part they name is replaced.    *)
(* The PELs are those of event logs the BMC creates; a PEL of the host     *)
(* goes through activate and checkPelAndQuiesce too, but its SRC is data.  *)
(***************************************************************************)
EXTENDS SRC

VARIABLES
    active,         \* the indicators of this PEL have been set
    serviceable,    \* a BMC PEL with the service action flag
    powerThermal,   \* the component is power and thermal, or fans
    lamps,          \* the FRUs that were made not functional
    critical,       \* the FRUs with a critical association
    unwritten,      \* the FRUs for which one of the two writes failed
    sai,            \* the system attention indicator is on
    dbusDeconfig,   \* the property Deconfig of the PEL's D-Bus object
    eventLog,       \* what the event log says of the SRC, <<>> before
    quiesced        \* the event log blocks the boot: for a key of its data
                    \* ("log"), for a callout ("pel"), or not ("")

lightVars == <<active, serviceable, powerThermal, lamps, critical, unwritten,
               sai, dbusDeconfig, eventLog, quiesced>>

LightInit ==
    /\ Init
    /\ active = FALSE
    /\ serviceable = FALSE
    /\ powerThermal = FALSE
    /\ lamps = {}
    /\ critical = {}
    /\ unwritten = {}
    /\ sai = FALSE
    /\ dbusDeconfig = FALSE
    /\ eventLog = <<>>
    /\ quiesced = ""

-----------------------------------------------------------------------------

isHardwareCallout(c) == c.loc # "" /\ c.kind \in {"hardware", "trusted"}

isRequiredPriority(p) == p \in {"H", "M", "A"}

\* The callouts that follow the first with its priority; a medium one is alone.
FirstGroup ==
    IF callouts[1].priority = "M" THEN {1}
    ELSE {i \in DOMAIN callouts : \A j \in 1..i : callouts[j].priority = callouts[1].priority}

getLocationCodes ==
    IF \/ callouts = <<>>
       \/ ~isRequiredPriority(callouts[1].priority)
       \/ \E i \in FirstGroup : ~isHardwareCallout(callouts[i])
    THEN {} ELSE {callouts[i].loc : i \in FirstGroup}

\* The FRUs at an expanded code, when they are found.
getInventoryFromLocCode(code, found) == {l \in DOMAIN Expand : Expand[l] = code /\ l \in found}

\* Seeded fault: a code that leads nowhere is passed over.
getKnownPaths(codes, found) == UNION {getInventoryFromLocCode(code, found) : code \in codes}

\* None when one of the codes leads nowhere: it was not expanded, or the lookup
\* fails.
getInventoryPaths(codes, found) ==
    IF \E code \in codes : getInventoryFromLocCode(code, found) = {} THEN {}
    ELSE UNION {getInventoryFromLocCode(code, found) : code \in codes}

\* The writes may fail, each for itself: one that fails is logged, and the others
\* are made all the same.
setNotFunctional(paths) == lamps' \in SUBSET paths

createCriticalAssociation(paths) == critical' \in SUBSET paths

\* The write of the LED group may fail.
assertLEDGroup == sai' \in BOOLEAN

-----------------------------------------------------------------------------
(* The event log.                                                          *)

\* The event id has all of the hex words.
getEventId == flags

\* One line for each callout, in their order.
getResolution == [i \in DOMAIN callouts |-> <<callouts[i].loc, callouts[i].priority, callouts[i].id>>]

\* For a PEL of the BMC.
getDeconfigFlag == "deconfigured" \in flags

isHwCalloutPresent == \E i \in DOMAIN callouts : callouts[i].kind = "hardware"

\* Not for every severity and creator, and only where QuiesceOnHwError is set.  An
\* event log that blocks the boot already gets no second block.
checkPelAndQuiesce ==
    quiesced' \in {quiesced, IF isHwCalloutPresent /\ quiesced = "" THEN "pel" ELSE quiesced}

\* The keys with CALLOUT_ in them.
isCalloutPresent(ad) ==
    DOMAIN ad \cap {"CALLOUT_INVENTORY_PATH", "CALLOUT_PRIORITY", "CALLOUT_DEVICE_PATH",
                    "CALLOUT_ERRNO", "CALLOUT_IIC_BUS", "CALLOUT_IIC_ADDR"} # {}

\* Manager::createEntry goes by the AdditionalData, before there is a PEL, when
\* QuiesceOnHwError is set and the severity is one of an error; then comes the
\* constructor of the PEL.
createEntry(ad) ==
    /\ quiesced' \in {"", IF isCalloutPresent(ad) THEN "log" ELSE ""}
    /\ construct(ad)
    /\ UNCHANGED <<active, serviceable, powerThermal, lamps, critical, unwritten, sai,
                   dbusDeconfig, eventLog>>

\* The end of createPEL: LightPath::activate, updateEventId, updateResolution, createPELEntry and checkPelAndQuiesce.
activate ==
    /\ todo = <<>> /\ ~active
    /\ \E canService, thermal \in BOOLEAN,
          found \in SUBSET {l \in DOMAIN Expand : Expand[l] \in getLocationCodes} :
          LET paths == getInventoryPaths(getLocationCodes, found)
          IN  /\ serviceable' = canService
              /\ powerThermal' = thermal
              /\ IF canService THEN setNotFunctional(paths) /\ createCriticalAssociation(paths)
                 ELSE lamps' = {} /\ critical' = {}
              /\ unwritten' = IF canService THEN paths \ (lamps' \cap critical') ELSE {}
              /\ IF canService /\ paths = {} THEN assertLEDGroup ELSE sai' = FALSE
    /\ checkPelAndQuiesce
    /\ eventLog' = [eventId |-> getEventId, resolution |-> getResolution]
    /\ active' = TRUE
    /\ dbusDeconfig' = getDeconfigFlag
    /\ UNCHANGED vars

\* Manager::hardwarePresent with clearPowerThermalDeconfigFlag, for a FRU that
\* appears.  The PEL may fail to be written: then nothing changes.
hardwarePresent(l) ==
    /\ active /\ getDeconfigFlag /\ powerThermal
    /\ \E i \in DOMAIN callouts :
          callouts[i].loc = Expand[l] /\ callouts[i].kind \in {"hardware", "trusted"}
    /\ flags' = flags \ {"deconfigured"}
    /\ dbusDeconfig' = FALSE
    /\ UNCHANGED <<todo, callouts, wordLength, hexData, debug, requested, records,
                   active, serviceable, powerThermal, lamps, critical, unwritten, sai,
                   eventLog, quiesced>>

nextPEL ==
    /\ active
    /\ NextPEL
    /\ active' = FALSE /\ serviceable' = FALSE /\ powerThermal' = FALSE
    /\ lamps' = {} /\ critical' = {} /\ unwritten' = {} /\ sai' = FALSE
    /\ dbusDeconfig' = FALSE /\ eventLog' = <<>> /\ quiesced' = ""

Build == addInventoryCallout \/ addDevicePathCallout
         \/ addRegistryCallout \/ addJSONCallout \/ createServiceActions

LightNext ==
    \/ \E ad \in ADs : createEntry(ad)
    \/ Build /\ UNCHANGED lightVars
    \/ activate
    \/ \E l \in DOMAIN Expand : hardwarePresent(l)
    \/ nextPEL

LightSpec == LightInit /\ [][LightNext]_<<vars, lightVars>>

-----------------------------------------------------------------------------
(* Properties.                                                             *)

\* The lamps of a PEL are those of its whole first group of callouts, which are
\* all hardware: a FRU of each of them has its lamp and its critical
\* association, or a write for it failed, and nothing else is lit.  A code that
\* leads nowhere or a callout that is no hardware keeps all of the lamps off
\* (LightPath::activate, getLocationCodes, getInventoryPaths).  A failed write
\* does leave a group lit in part (setNotFunctional).
LampsShowGroup ==
    active /\ lamps \cup critical # {} =>
        /\ serviceable /\ ~sai
        /\ \A i \in FirstGroup :
              /\ isHardwareCallout(callouts[i])
              /\ \E l \in (lamps \cap critical) \cup unwritten : Expand[l] = callouts[i].loc
        /\ \A l \in lamps \cup critical \cup unwritten :
              \E i \in FirstGroup : callouts[i].loc = Expand[l]
        /\ \A i \in DOMAIN callouts : Rank(callouts[i]) <= Rank(callouts[1])

\* The D-Bus property Deconfig says what the PEL does, before and after a part
\* is replaced (createPELEntry, hardwarePresent), and the event log lists the
\* callouts of the PEL and its flags; only a deconfigured flag that has been
\* cleared since stays in its event id (updateEventId).
DeconfigIsShown ==
    active => /\ dbusDeconfig <=> "deconfigured" \in flags
              /\ eventLog.resolution = getResolution
              /\ \/ eventLog.eventId = flags
                 \/ powerThermal /\ eventLog.eventId = flags \cup {"deconfigured"}

\* When the boot is blocked for the callouts of the PEL, the resolution in the
\* event log names the location of a part to replace (checkPelAndQuiesce,
\* getResolution).  A block that createEntry sets for a CALLOUT_ key comes before
\* the callouts are looked up, and its resolution may name nothing.
BlockNamesPart ==
    quiesced = "pel" =>
        active /\ \E i \in DOMAIN eventLog.resolution : eventLog.resolution[i][1] # ""

\* Hardware is taken out of service only as the PEL says, or said when it was
\* created, or the PEL has debug data that tells what went wrong
\* (createServiceActions, addJSONCallout, clearPowerThermalDeconfigFlag).
RecordsAreShown ==
    \A r \in records : debug \/ r[1] \in (IF active THEN eventLog.eventId ELSE flags)
==============================================================================
