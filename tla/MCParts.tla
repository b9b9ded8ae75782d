------------------------------ MODULE MCParts ------------------------------
(***************************************************************************)
(* Small instances of the parts of the system that share no state with the *)
(* log manager's model: each behaviour is one of one part, chosen by the   *)
(* initial state, and the variables of the other parts stay as they are.   *)
(***************************************************************************)
EXTENDS Integers, Sequences, FiniteSets, TLC

CONSTANTS
    InstanceIDs, LogIDs, Names, IPv6, Scoped, Invalid, Ports,
    Clients, Txns, Meta, MaxErrors, MaxTraces, M, NoPosition, Position,
    SyncedIDs, MaxCreates, MaxSyncs, LastID, BMCs, OtherBMCs,
    maxNumberOfCallouts, Expand, Length, RegistryFiles, Messages, ADs,
    SystemNames, DeviceFiles, DeviceJSON, JSONCallouts, maxPELSize, FixedSize,
    DataSizes, MaxUserData, RegHeaders, RawPELs, LogSeverities, Frus,
    PLDMFrus, MaxSignals, Events, MaxQueued, LocCodes, DIMMs, MaxJobs

VARIABLES
    part,
    instanceID, inProgress, pelID, fd, source, receiveTimer, requestHeader,
    idb, requests, outcome, kept,
    settings, confFile, rsyslogConf, restartQueued, unread, diverged,
    txn, logged, client, inbox, journal, stamp, calls, pc, watch, event,
    sawSync, committed,
    entries, errors, pels, pelIndex, pendingPELs, entryId, bmcPosition,
    errEvents, pelEvents, refused, borrowed, creates, syncs,
    idFile, checked, pelPosition, pelIDs, used,
    todo, callouts, wordLength, flags, hexData, debug, requested, records,
    active, serviceable, powerThermal, lamps, critical, unwritten, sai,
    dbusDeconfig, eventLog, quiesced,
    stage, sections, sectionCount, severity, eventType, actionFlags, given,
    external, terminateBit, pelLog,
    onBus, watcher, unreadProps, values, hostUp, told, signals, frusOnBus,
    plugWatch, paths, unlisted, invIaMatch, invPresentMatches, frusTold,
    eventsToCreate, eventSource, inEventCreation,
    devTree, systemdSlot, systemdMatch, jobs, phalReady, running,
    locationCache, owed

PLDM == INSTANCE PLDMInterface
Rsyslog == INSTANCE ServerConf
Journal == INSTANCE JournalCommit
Sync == INSTANCE BMCSync
Ids == INSTANCE LogId
Light == INSTANCE LightPath
Pel == INSTANCE PEL
Data == INSTANCE DataInterface
Logger == INSTANCE EventLogger
PHAL == INSTANCE Phal

SmallExpand == [P1 |-> "U78-P1", P2 |-> "U78-P2"]

SmallLength == "P1" :> 2 @@ "P2" :> 2 @@ "U78-P1" :> 75 @@ "U78-P2" :> 79

SmallRegistryFiles ==
    LET default == [name |-> "Default", reasonCode |-> 1, invalid |-> {},
                    flags |-> {}, hexwords |-> <<>>]
        bus == [name |-> "Bus", reasonCode |-> 2, invalid |-> {}, flags |-> {"deconfigured"},
                hexwords |-> (6 :> "CALLOUT_PRIORITY") @@ (5 :> "WORD"),
                callouts |-> [callouts |->
                    << [systems |-> {"s1"}, list |-> <<[LocCode |-> "P1", Priority |-> "M"],
                                     [SymbolicFRU |-> "notInTable", Priority |-> "L"]>>],
                       [systems |-> {}, list |-> <<[Procedure |-> "BMC0001"]>>],
                       [systems |-> {"s1", "s2"}, list |->
                                   <<[LocCode |-> "P2", Priority |-> "L"]>>] >>]]
        fan == [name |-> "Fan", reasonCode |-> 3, invalid |-> {}, type |-> "11",
                componentID |-> 1, flags |-> {"checkstop"}, hexwords |-> <<>>,
                callouts |-> [ADName |-> "PROC_NUM",
                    byValue |-> << [value |-> 0, callouts |->
                        << [systems |-> {}, list |->
                            <<[SymbolicFRUTrusted |-> "air_mover", LocCode |-> "P2",
                               UseInventoryLocCode |-> TRUE, Priority |-> "L"]>>] >>] >>,
                    whenNoMatch |->
                        << [systems |-> {}, list |-> <<[Procedure |-> "BMC0002"]>>] >>]]
        installed == [isJSON |-> TRUE, entries |-> <<bus, fan, [name |-> "Late"], default>>]
    IN  {[installed |-> installed],
         [installed |-> installed, debug |-> [isJSON |-> FALSE, entries |-> <<>>]],
         [installed |-> installed,
          debug |-> [isJSON |-> TRUE,
                     entries |-> << [fan EXCEPT !.invalid = {"Severity"}], default >>]]}

SmallADs ==
    {[CALLOUT_DEVICE_PATH |-> [words |-> {"i2c-"}, keys |-> [bus |-> 114]], PROC_NUM |-> 0],
     [CALLOUT_INVENTORY_PATH |-> "P1", CALLOUT_PRIORITY |-> "L", PROC_NUM |-> 0],
     [CALLOUT_IIC_BUS |-> 14], [PROC_NUM |-> 0],
     [CALLOUT_IIC_BUS |-> -1, CALLOUT_INVENTORY_PATH |-> "P2", CALLOUT_PRIORITY |-> "A"],
     [CALLOUT_DEVICE_PATH |-> [words |-> {"fsi-master", "i2c-"}, keys |-> [bus |-> 1]], PROC_NUM |-> 7]}

SmallDeviceJSON ==
    << "usr", "s1" >> :> << [type |-> "I2C", keys |-> [bus |-> 14],
                             callouts |-> << [LocationCode |-> "P1", Name |-> "a", Priority |-> "A"],
                                             [LocationCode |-> "P2", Name |-> "b", Priority |-> "X"] >>] >>
    @@ << "etc", "" >> :> << >>

SmallDeviceFiles == ("s1" :> {"usr"}) @@ ("s2" :> {}) @@ ("" :> {"etc"})

SmallJSONCallouts ==
    {<<>>,
     << [Priority |-> "H", LocationCode |-> "P1", Deconfigured |-> TRUE, Guarded |-> TRUE, EntityPath |-> "proc0",
         MRUs |-> [i \in 1..17 |-> IF i = 1 THEN [ID |-> i] ELSE [ID |-> i, Priority |-> "H"]]] >>,
     << [Priority |-> "M", SymbolicFRU |-> "pgood_part", LocationCode |-> "P2", TrustedLocationCode |-> TRUE],
        [Priority |-> "Z", Procedure |-> "BMC0003"], [Priority |-> "H", Procedure |-> "BMC0001"] >>,
     << [Priority |-> "L"], [Priority |-> "L", InventoryPath |-> "P2", Guarded |-> TRUE, EntityPath |-> "proc1"] >>}

SmallSystemNames == {<<"s2">>, <<"s2", "s1">>}

SmallRawPELs ==
    LET s(id, version, size) == [id |-> id, version |-> version, size |-> size, data |-> size - 8]
        head == <<s("PH", 1, 48), s("UH", 1, 24)>>
        user == <<s("UD", 1, 12), s("XX", 1, 12)>>
        pel(n, extra) == [count |-> n, sections |-> head \o extra]
    IN  {pel(4, user), pel(1, user), pel(5, user), pel(3, <<s("UD", 1, 8)>>),
         pel(3, <<s("XX", 1, 8)>>), [count |-> 0, sections |-> <<>>],
         [count |-> 2, sections |-> <<head[1], head[1]>>],
         pel(5, <<s("PS", 2, 80), s("EH", 1, 76), s("MT", 1, 28)>>),
         pel(4, <<s("ED", 1, 24), s("UH", 1, 24)>>), pel(3, <<s("ED", 1, 12)>>),
         pel(3, <<head[1] @@ [count |-> 2]>>), pel(3, <<head[1] @@ [count |-> 1]>>),
         pel(3, <<s("PS", 1, 80)>>), pel(3, <<s("EH", 2, 76)>>), pel(3, <<s("MT", 2, 28)>>)}

SmallRegHeaders ==
    {[severity |-> <<>>, mfgSeverity |-> <<>>, actionFlags |-> {"unset"}, mfgActionFlags |-> {},
      eventType |-> "unset"],
     [severity |-> << [system |-> "", sev |-> "recovered"], [system |-> "s1", sev |-> "critical"] >>,
      mfgSeverity |-> << [system |-> "s1", sev |-> "symptom"] >>, actionFlags |-> {"unset"},
      mfgActionFlags |-> {"report", "hidden"}, eventType |-> "tracing"],
     [severity |-> << [system |-> "s2", sev |-> "predictive"] >>, mfgSeverity |-> <<>>,
      actionFlags |-> {"report"}, mfgActionFlags |-> {}, eventType |-> "notApplicable"]}

SmallMeta == [open |-> {"ERRNO", "PATH"}, read |-> {"ERRNO"}]

pldmVars == <<instanceID, inProgress, pelID, fd, source, receiveTimer,
    requestHeader, idb, requests, outcome, kept>>
rsyslogVars == <<settings, confFile, rsyslogConf, restartQueued, unread,
    diverged>>
journalVars == <<txn, logged, client, inbox, journal, stamp, calls, pc, watch,
    event, sawSync, committed>>
syncVars == <<entries, errors, pels, pelIndex, pendingPELs, entryId,
    bmcPosition, errEvents, pelEvents, refused, borrowed, creates, syncs>>
idsVars == <<idFile, checked, pelPosition, pelIDs, used>>
calloutsVars == <<todo, callouts, wordLength, flags, hexData, debug,
    requested, records, active, serviceable, powerThermal, lamps, critical,
    unwritten, sai, dbusDeconfig, eventLog, quiesced>>
pelVars == <<stage, sections, sectionCount, severity, eventType, actionFlags,
    given, external, terminateBit, pelLog>>
dataifVars == <<onBus, watcher, unreadProps, values, hostUp, told, signals,
    frusOnBus, plugWatch, paths, unlisted, invIaMatch, invPresentMatches,
    frusTold>>
eventsVars == <<eventsToCreate, eventSource, inEventCreation>>
phalVars == <<devTree, systemdSlot, systemdMatch, jobs, phalReady, running,
    locationCache, owed>>

\* A part that is not the one of the behaviour has one initial state.
Init ==
    /\ part \in {"pldm", "rsyslog", "journal", "sync", "ids", "callouts",
                "pel", "dataif", "events", "phal"}
    /\ PLDM!Init
    /\ Rsyslog!Init
    /\ part # "rsyslog" => confFile = Rsyslog!Null
    /\ Journal!Init
    /\ part # "journal" => txn = [c \in Clients |-> 1] /\ stamp = "old"
    /\ Sync!Init
    /\ part # "sync" => bmcPosition = Position
    /\ Ids!Init
    /\ part # "ids" => pelPosition = 0
    /\ Light!LightInit
    /\ Pel!Init
    /\ Data!Init
    /\ part # "dataif" => onBus = [p \in Data!Props |-> Data!Absent]
    /\ Logger!Init
    /\ PHAL!Init
    /\ part # "phal" => devTree = FALSE

\* Every part but p stays as it is.
Only(p) ==
    /\ part = p /\ UNCHANGED part
    /\ IF p = "pldm" THEN TRUE ELSE UNCHANGED pldmVars
    /\ IF p = "rsyslog" THEN TRUE ELSE UNCHANGED rsyslogVars
    /\ IF p = "journal" THEN TRUE ELSE UNCHANGED journalVars
    /\ IF p = "sync" THEN TRUE ELSE UNCHANGED syncVars
    /\ IF p = "ids" THEN TRUE ELSE UNCHANGED idsVars
    /\ IF p = "callouts" THEN TRUE ELSE UNCHANGED calloutsVars
    /\ IF p = "pel" THEN TRUE ELSE UNCHANGED pelVars
    /\ IF p = "dataif" THEN TRUE ELSE UNCHANGED dataifVars
    /\ IF p = "events" THEN TRUE ELSE UNCHANGED eventsVars
    /\ IF p = "phal" THEN TRUE ELSE UNCHANGED phalVars

Next ==
    \/ Only("pldm") /\ PLDM!Next
    \/ Only("rsyslog") /\ Rsyslog!Next
    \/ Only("journal") /\ Journal!Next
    \/ Only("sync") /\ Sync!Next
    \/ Only("ids") /\ Ids!Next
    \/ Only("callouts") /\ Light!LightNext
    \/ Only("pel") /\ Pel!Next
    \/ Only("dataif") /\ Data!Next
    \/ Only("events") /\ Logger!Next
    \/ Only("phal") /\ PHAL!Next

Spec == Init /\ [][Next]_<<part, pldmVars, rsyslogVars, journalVars, syncVars,
    idsVars, calloutsVars, pelVars, dataifVars, eventsVars, phalVars>>

-----------------------------------------------------------------------------
(* Properties of the parts.                                                *)

\* PLDMInterface: a command waits with all it needs to end, nothing is left of
\* one that has ended, and the instance id database has exactly the id the
\* interface holds as taken.
CommandCanEnd == PLDM!CommandCanEnd

\* PLDMInterface: success is reported on an answer about this PEL, unless the
\* id was kept from an earlier command or one of before a restart had it too, and
\* each command sent and not cancelled or replaced gets one response (refinement
\* of HostInterface).
AnswersAreRight == PLDM!AnswerIsForPEL /\ PLDM!OneResponse

\* ServerConf: after any mix of changes, failures and restarts the file sends
\* the logs where the properties say, and rsyslog works with the file or a
\* restart is queued that makes it.
LogsGoWhereTold == Rsyslog!PropertiesTellTarget /\ Rsyslog!RsyslogFollowsFile

\* JournalCommit: after a journalSync that saw a fresh stamp, all the caller
\* has logged is in the journal; a sync that took place before poll() has left
\* its inotify event; getMessages returns the latest messages of a program,
\* oldest first; and an entry has the metadata logged with its error, all of
\* it and none of another's.
JournalIsUpToDate == []Journal!SyncFlushesCaller /\ []Journal!NoLostWakeup /\ []Journal!LatestMessages /\ Journal!MetadataIsOwn

\* BMCSync: once the file events are handled, the entries are those on disk,
\* save for ids whose last event could not be applied, and an event log whose
\* PEL is there is linked to it, whichever came first.
EntriesFollowFiles == Sync!EntriesFollowFiles /\ Sync!PELsAreLinked

\* BMCSync: a new event log of a BMC that knows its position has an id of its
\* own, unless eraseAll has taken the last id from the other BMC.
OwnIDsFresh == Sync!OwnIDsFresh

\* LogId: a counter's id has a number the prefix leaves alone and the position
\* of a BMC, and the counter's ids are handed out once, across failed writes,
\* crashes and restarts.
CounterIDsOnce == []Ids!IDsWellFormed /\ Ids!CounterIDsOnce

\* LightPath: no FRU is called out twice, each has the highest priority it was
\* requested with, one is left out only when the list is full, and the lengths
\* are right; a location code the registry calls trusted has been expanded, or
\* has come from the inventory; and a guard or deconfiguration record is shown
\* in the PEL, or its debug data tells why not.
CalloutsAreRight == Light!CalloutsSound /\ Light!TrustedCodesAreExpanded /\ Light!RecordsAreShown

\* LightPath: lamps point at a whole first group of hardware callouts, but for
\* failed writes, and D-Bus tells whether a part is deconfigured, before and
\* after it is replaced; the event log shows the SRC, and names a part when the
\* boot is blocked for a callout of the PEL.
IndicatorsAreRight == Light!LampsShowGroup /\ Light!DeconfigIsShown /\ Light!BlockNamesPart

\* PEL: the sections are found again by their lengths and the PEL is in its
\* limit, unless a length overflowed its 16 bits.
SectionsReadBack == Pel!SectionsReadBack

\* PEL: the severity, Hidden and Notify of the event log agree with a PEL the
\* BMC made.
LogAgreesWithPEL == Pel!LogAgreesWithPEL

\* DataInterface: whatever changes on the bus meanwhile, the copies of
\* properties, the subscriber and the hot plug watches catch up with it.
ViewCatchesUp == Data!ViewCatchesUp

\* EventLogger: no error the PEL code wants to log is forgotten: while one
\* waits, a call that creates it is scheduled, or will be when the one that
\* runs ends.
EventsAreServed == Logger!EventsAreServed

\* Phal: what is remembered of PHAL's answers is true, and the service that
\* makes its device tree is not missed while it is watched.
DIMMCacheIsTrue == PHAL!DIMMCacheIsTrue
=============================================================================
