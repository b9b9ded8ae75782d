# phosphor-logging: TLA+ models, checks and proofs

This directory holds TLA+ specifications of phosphor-logging, the TLC
configurations that check them on small instances, and proofs that TLAPS checks
for all instances.  Line numbers refer to the repository; PROJECT.json maps
every definition to the lines it stands for.

## 1. The system

`phosphor-log-manager` is one single-threaded process around an sd-event loop.
Clients reach it over D-Bus; extensions are linked into it.  The one extension
of the repository that is modelled, openpower-pels, keeps a Platform Event Log
(PEL) beside each event log and sends PELs to the host firmware.
`phosphor-rsyslog-config` is a second daemon.

| Component | State | Operations | Hard behaviour | Correct means | Module |
|---|---|---|---|---|---|
| Log manager (`log_manager.cpp`) | `entries`, `realErrors`, `infoErrors`, `entryId` | create, erase, eraseAll/deleteAll, restore | crash between file operations, id reuse, caps, eraseAll against a changing isolation service | lists index the entries, ids are fresh, caps hold, files mirror the entries | LogManager |
| Entries and persistence (`elog_entry.cpp`, `elog_serialize.cpp`) | properties, the private copy `assocs`, two files per entry | resolved, eventId, resolution, persist, (de)serialize | two copies written one after the other; torn files | an event lives from its first write to its deletion, whatever crashes | LogManager, EventLogStore |
| Boot blocks (`log_manager.cpp`, `elog_block.hpp`) | `blockingErrors`, signals in flight | quiesceOnError, onEntryResolve | signals handled late, after ids were reused | a block lasts as long as its open error | LogManager |
| Redundant BMC sync (`log_manager.cpp:819-1027`, `bmc_pos_mgr.cpp`, `manager.cpp`, `repository.cpp`) | inotify queues, BMC position, pending PELs | errorFileChanged, restoreFromDisk, refreshFromDisk, pelFileChanged, linkPELToEventLog | events handled late and in either order | entries follow the files, PELs are linked, ids are this BMC's own | BMCSync |
| commit and the journal (`log_manager.cpp:84-217`, `util.cpp`, `lib/elog.cpp`) | transaction id, journal, synced stamp | elog, commit, journalSync, the scan, getMessages | programs, journald and the daemon run concurrently | an entry has the metadata of its own error | JournalCommit |
| rsyslog configuration (`server-conf.cpp`) | address, port, transport, a file, a service | property setters, restore | failing writes and restarts, crashes between them | logs go where the properties say | ServerConf |
| Host notification (`host_notifier.cpp`) | queue, sent list, command, retries, host full flag, three timers, dispatcher | every callback and timer | verdicts, responses, timeouts, host reboots, daemon restarts in any order | no PEL lost, no acked PEL sent again, the queue is served | HostNotifier |
| PLDM interface (`pldm_interface.cpp`) | instance id, socket, source, receive timer | sendNewLogCmd, receive, timeout, cancelCmd | a late answer to an earlier try; error paths that leak an id | one answer per command, for the right PEL | PLDMInterface, HostInterface |
| PEL repository (`repository.cpp`) | attributes, sizes, archive | add, remove, restore, prune, transmission states | partial deletes, peltool, size accounting | sizes agree with the files, prune spares what it must | PELRepository |
| PEL ids (`log_id.cpp`) | a counter in a file, the BMC's position | generatePELID | lost, zeroed, unwritable file; wrap | a counter's id is handed out once | LogId |
| PEL contents (`pel.cpp`, `user_header.cpp`, `user_data.cpp`, `section_factory.cpp`, ...) | sections, header fields | construct, addUserDataSection, checkRulesAndFix, valid, updateDBusSeverity | 16 bit lengths, limits, several sources of severity | sections read back; event log and PEL agree | PEL |
| Callouts (`src.cpp`, `callouts.cpp`, `registry.cpp`, `device_callouts.cpp`, `phal_service_actions.cpp`) | callouts, flags, records | lookups, addCallout, JSON callouts, guard and deconfiguration records | each lookup may fail; the list is limited | each FRU once, with its highest priority; records are shown | Registry, SRC |
| Service indicators (`service_indicators.cpp`, parts of `manager.cpp`) | lamps, event id, resolution, Deconfig | activate, updateEventId, updateResolution, hardwarePresent, checkPelAndQuiesce | partial failures, stale flags | lamps show a whole group; D-Bus shows the PEL | LightPath |
| Data interface (`data_interface.cpp`, `dbus_watcher.hpp`) | copies of properties, matches, PHAL state, DIMM cache | constructor, watchers, startFruPlugWatch, isDIMM | the bus changes while calls block | the view catches up with the bus | DataInterface, Phal |
| Event logger (`event_logger.hpp`) | queue, event source, flag | log, create | re-entrance | nothing that waits is forgotten | EventLogger |
| Client formatting, tools, generators, FAPI/SBE FFDC | none of interest | | | | not modelled |

## 2. The modules

A handler is one action, with all it calls; where a handler blocks on something
others can change meanwhile (files under a crash, the bus, journald), it is cut
at that point.  Lookups that may fail are nondeterministic choices.

### LogManager and EventLogStore

The log manager, its entries, both persistent copies and the boot blocks, in the
build without the redundant-bmc option.

* `entries[i]` is the Entry object (or `None`): severity class (`info`, at or
  past `sevLowerLimit`), callout present, Resolved, associations present, and
  one text for the eventId/resolution properties.  The other properties are read
  by nobody in the daemon; the generated base class lets clients write them, in
  memory only, which is left out.
* `cereal[i]` and `json[i]` are the two files: contents, `None`, or `Torn`.
* `signals[i]` counts the PropertiesChanged signals that the daemon's own match
  has yet to handle; `assocs` is the unpersisted copy `Entry::assocs`.
* `isolated` and `mapperUp` are the hardware isolation service and the object
  mapper (external); they may change between two iterations of eraseAll.
* `createEntry` includes the extension's part of it (`doExtensionLogCreate`,
  `createPEL` in the PEL manager), which runs in the same handler: the entry may
  get another severity class and texts, both files are written again
  (`RewriteCuts` has the crashes in between), and the boot may be blocked for the
  callouts of the PEL, with or without a `CALLOUT_` key.
* `realErrors` and `infoErrors` are kept in a build without the PEL extension
  only.  With it the caps are off, nothing reads the lists, and they are no index
  of the entries any more once a severity has changed; `Listed` leaves them empty.
* The loops of eraseAll and restore take one iteration per step.
* `Crash` stops the daemon between handlers, the `CrashIn...` actions inside
  one, with the files as they are at that point (`WriteCuts`, `RemoveCuts`).
  With `TornWrites` the file being written is left torn.

`EventLogStore` is what clients are promised: a map from ids to events that
crashes do not touch.  `LogManager` implements it (`ImplementsStore`) with
`logs[i] = IF json[i] # None THEN json[i] ELSE cereal[i]`.  The severity of an
event is fixed from the end of the handler that logs it; what the PEL extension
makes of it is part of that handler, and a crash inside it leaves the event with
one or the other.

### HostNotifier, PLDMInterface and HostInterface

`HostNotifier` has every callback and timer of the class, the PEL's transmission
state in the repository, and the command as the notifier sees it.  `told` holds
the PELs the host may still give a verdict on; verdicts come through
`hostAck`/`hostReject` of the PEL manager.

* `doNewLogNotify` takes the values its C++ counterpart reads at the point of
  the call, since callers change them first.  A send replaces whatever command
  was in progress, as `sendNewLogCmd` does.
* Time: the host full delay (60 s) is longer than a command (45 s) plus its
  retry delay (1 s), and no command starts while that timer runs, so it expires
  with no command in progress.  It is as long as the host up delay, so the timer
  started first expires first.  No other timing is assumed.
* The dispatcher is an sd-event deferred source, which runs before the next
  message of the D-Bus connection; verdicts and host state changes wait for it.
* The initial state chooses an environment: `full` (the host may reject a PEL for
  lack of space), `stray` (a verdict may be handled before the response, or after
  the host went down), `restarts`, and which PELs are hidden or not to be
  reported (the latter also stands for manufacturing turning the sending off).

`PLDMInterface` is the command itself: the instance id taken from a database
shared with other programs, the socket, the I/O source and the timer, the answer
that carries the instance id and not the PEL, and every way a send can fail.
Ids are handed out in turn, so that within a process an id comes round again only
when no answer to its last request can come; the turn starts over in a new process
(`old` marks requests of the one before).  `kept` remembers that the instance id
was kept from an earlier command or had by a request of before a restart.  It
implements `HostInterface`, which is the interface class as HostNotifier uses it.
In `HostNotifier` a restart finds the PELs it had sent as new again, as
`Repository::restore` writes them.

### PELRepository

`Repository` and the paths of the PEL manager into and out of it.

* `pelAttributes` is the index, `files` the PEL files, `sizes` the seven running
  totals, `archive` the size of the archive folder and `archiveSize` the running
  total kept of it.  A PEL has the number of its event log; numbers grow with the
  commit time, by which file names sort.
* Ways in: `createPEL`, `addPEL`, a file that cannot be written, a hostboot PEL
  whose ID is taken, an invalid PEL.  Each includes `sizeWarning`.
* Ways out: `pruneRepo` with `pruneLog`, `erase`, `peltoolDelete` followed, later,
  by `handlePELDelete` (inotify), and a torn file at `restart`.
* `mapperUp` is the object mapper.  While it does not answer, the question for
  isolated event logs throws and nothing is pruned (`pruneRepoFails`), and the one
  that prohibits a client's deletion is taken for a no (`isDeleteProhibited`).
  `Associated` are the event logs that error log associations of other objects may
  name; pruning spares them like isolated ones.
* `removePELs` states the four passes without a loop: the PELs of the class that
  are not isolated are ordered by pass and age, and one is removed exactly if the
  class is still over its limit without those before it.

### BMCSync

The build with a redundant BMC.  `errors` and `pels` are the files, `entries`,
`pelIndex` and `pendingPELs` what the daemon knows, `errEvents` and `pelEvents`
the inotify queues, which also get the events of the daemon's own deletions.  A
sync tool (external) moves files in and deletes them.  An entry has one property
whose setter writes the file and one whose setter does not, so that
`Entry::operator=` is modelled with what it writes.  Ids have the BMC's position
in front (`Width`, `M`).

An event may be impossible to apply: the file does not parse (it is then saved
elsewhere) or has another id in it, or the entry is one of isolated hardware and
may be neither deleted nor resolved.  The handler gives up and the event is gone;
`refused` holds the ids whose last event went this way.  `deleteAll` keeps any set
of entries (isolated, or refused by the extension) and takes the last id from the
largest of them, whichever BMC's it is (`LastKept`, `borrowed`); without a list of
isolated entries it ends at the first refusal (`deleteAllEnds`).  `addEntry` is the
part of createEntry that follows, with its second look at the position.  An id that
is taken is refused by the bus, and the event lost.

### JournalCommit

Clients log traces and errors under a transaction id and call Commit; messages
travel through `inbox` to `journal`; `journalSync` is cut into its looks at the
stamp, the request, the watch and the poll, since journald runs concurrently.  A
stamp is fresh if it is from after the start of the sync in progress.
`getMessages` is a pure operator, compared with a reference definition.

### ServerConf, LogId, EventLogger

`ServerConf`: `settings` are the D-Bus properties, `confFile` the file,
`rsyslogConf` what rsyslog has read; `diverged` and `unread` note that a write or
a restart has failed.  The file is parsed back as the code does it, which loses
addresses with a zone.  `LogId`: the counter's file may be absent, empty, zeroed
or unwritable; on a full disk the code does not notice, hands the number out and
leaves an empty file (`generateUnflushed`).  `EventLogger`: `createStarts` and `createEnds` are the two halves
of `create()`, between which the log manager calls the PEL code back.

### Registry, SRC, LightPath

`Registry` has the lookups in the message registry and in the device callout
files as pure operators; a JSON object is a record of the keys it has, a throw
is a value.  `SRC` builds the callouts of one PEL after the other: inventory
path, device path, registry, JSON, each with D-Bus lookups that may fail, then
the guard and deconfiguration records.  `requested` records what was asked for.
`LightPath` extends it by what is made of the callouts: lamps, critical
associations, event id, resolution, Deconfig and the boot block, and the
replacement of a part.  A block is set by `createEntry` of the log manager for a
`CALLOUT_` key, before the callouts are looked up ("log"), or by the PEL manager
for a hardware callout in the PEL ("pel").  `unwritten` are the FRUs for which the
write of the lamp or of the association failed.  PELs of the host, which come with
their callouts, are not among the PELs of this part.

### PEL

The headers (severity from manufacturing, registry or event log; event type;
action flags and `pel_rules`), the user data and journal sections with their 16
bit length, padding and shrinking, the validity of a PEL from outside, the system
data written over the extended user data of a hostboot PEL, and the severity,
Hidden and Notify that the event log gets.

### DataInterface, Phal

`DataInterface` cuts the constructor and `startFruPlugWatch` at each blocking
call; a signal is queued when there is a match for it at the time it is sent.
Services come to the bus and stay there.
`Phal` has the race between the service that makes PHAL's device tree and the
subscription to its end, and the cache of `isDIMM`.

### MC modules and proofs

`MCLogManager`, `MCHostNotifier` and `MCPELRepository` instantiate one module
each.  `MCParts` instantiates ten further parts side by side: its variable `part`
chooses one in the initial state, the variables of the others stay constant, and
their initial choices are fixed, so that the state graph is the disjoint union of
the parts' graphs.  The parts share no state in the code (they are other
daemons, or objects of the event loop with variables of their own), so a product
would add nothing.  `Loops` has two loops that several modules run, a sum over a
list and the elements of a set in their order, as recursive functions, so that
they can be evaluated and proved about.  The proofs are in `LogManagerProofs`,
`LogManagerFileProofs`, `HostNotifierProofs`, `PELRepositoryProofs`,
`PLDMInterfaceProofs`, `LogIdProofs` and `PartsProofs`, and facts about the loops
and about lists in `LoopsProofs`.

## 3. The runs

| Run | Checks | Shows |
|---|---|---|
| `log_caps` | TypeOK, FilesMirrorEntries, ListsIndexEntries, CapsHold, EvictsOldestOfFullClass, ImplementsStore | caps at their limits, eviction order, lists, files and entries agree; crashes invisible to clients |
| `log_isolation` | NoEntryAboveLastId, ClearedBehindCursor, BlockOutlivesOpenError, IsolatedEntrySurvives | deleteAll against isolation and a mapper that change under it, with the PEL extension |
| `log_live` | BlocksAreOpenErrors, ResolvedErrorUnblocks, LoopsEnd | blocks, those of the PEL extension too, when crashes tear files; liveness |
| `host` | OnePlace, RoomyHostLosesNone, QueueIsServed, OrderlyAckIsFinal, SendsOnlyWanted, QueueDrains | three environments: a full host that answers in order, a roomy one that answers in any order, everything at once with an HMC; daemon restarts |
| `repository` | SizesAddUp, IndexMatchesFiles, ArchiveAccounted, PruneReachesLimits, PruneTakesLeastNeeded, IsolatedPELKept, LogGoesWithPEL | the repository under failing writes, crashes, peltool, isolation, a failing mapper and pruning |
| `parts` | see below | the ten further parts |

| Property of `parts` | Part | States |
|---|---|---|
| CommandCanEnd | PLDMInterface | a command that waits has source, timer, socket and id; nothing is left of one that ended; the id database agrees |
| AnswersAreRight | PLDMInterface | success is reported on an answer about this PEL unless the id was kept, or had by a request of before a restart; refinement of HostInterface |
| LogsGoWhereTold | ServerConf | file and rsyslog follow the properties, restarts of the daemon included |
| JournalIsUpToDate | JournalCommit | a seen sync flushed the caller's messages; no wake-up is lost; metadata is the error's own; getMessages matches its reference |
| EntriesFollowFiles | BMCSync | with no event pending, entries and files agree, but for ids whose last event was refused, and PELs are linked |
| OwnIDsFresh | BMCSync | a new event log takes no id in use on either BMC, unless deleteAll kept entries and took the last id from the other BMC's |
| CounterIDsOnce | LogId | the counter's ids are well formed and handed out once |
| CalloutsAreRight | SRC, LightPath | each FRU once with its highest priority, left out only when full; all are read again by the lengths written; trusted codes expanded; a record is shown in the PEL, or was when the PEL was created |
| IndicatorsAreRight | LightPath | the lamps of the whole first group are lit or none, but for single writes that failed; event log and Deconfig show the PEL; a block for callouts of the PEL has a resolution that names a part |
| SectionsReadBack | PEL | sections are found again by their lengths, within the maximum size, unless a length wrapped |
| LogAgreesWithPEL | PEL | severity, Hidden and Notify agree with the PEL |
| ViewCatchesUp | DataInterface | copies, subscriber and hot plug watches catch up with the bus |
| EventsAreServed | EventLogger | while an error waits, a call that creates it is scheduled or will be |
| DIMMCacheIsTrue | Phal | what is remembered is true; the service is not missed while it is watched |

Six runs expect a violation and document where a comment and the code differ:

* `log_fallback`: restore() does not read the cereal file of an entry whose JSON
  file is corrupt.
* `log_reopen`: after a restart, resolving and reopening an error loses its
  associations.
* `host_lost`: an ack from a host that was full dispatches a second command over
  the one in progress; the first command's PEL is then on no list.
* `host_stuck`: when the PEL that met the full host is deleted or rejected before
  the host full timer expires, `_hostFull` stays set with no timer running, no
  command under way and no PEL the host has yet to answer for; new PELs wait for a
  host reboot or a restart.  A PEL that was sent again and whose verdict is awaited
  is no violation: its ack clears the flag.
* `host_ack`: an ack handled before its command's response is overwritten by it.
* `sync_cleared`: with redundant BMCs, deleteAll removes the file of event log 1
  and gives that id to the event log that records the clearing; the inotify event
  of the removal then erases the new event log.

**Bounds.**  Three ids (two in `log_live`) fill a class of two, evict from it,
delete in any order and number anew; `MaxSignals` 1 or 2 lets a signal be handled
after its entry was resolved, reopened or replaced.  Three PELs give one in each
place (queue, command, sent list); two retries let the counter reach its limit
(15 in the code, where only the comparison matters).  In `repository` three PELs
pass both the number limit and the warning size; one informational PEL fits the
share of its class, so that pruning has to choose, and no guarding PEL does, so
that isolation alone can keep the repository over its limit; one PEL may be named
by another object.  The run lets writes and deletions fail, so that the second half
of ArchiveAccounted is not tested there, only proved.  `log_isolation` has one kind
of input, an error without a `CALLOUT_` key: severity, block and text are up to the
extension.  In `parts`: two
instance ids and two PELs (an id kept or taken, one of others or free); two
clients that may share a transaction, two errors and a trace; ids of four numbers
for each of two positions, two own creations and two syncs, of an own and of a
foreign id, so that an id is deleted and used again by either side while events wait; a PEL id counter that
wraps after four; three callouts in a list of three, with FRUs requested twice;
user data that fits, that has to be shrunk, that does not fit and that overflows
16 bits; two FRUs and three queued signals; two errors in a queue of three.

**Fairness.**  `LogManager!FairSpec`: a loop that a handler runs is taken to its
end, and a D-Bus signal in the daemon's own queue is dispatched (strongly fair:
other handlers may run in between, but the bus delivers in order).
`HostNotifier!FairSpec`: armed timers expire, deferred work runs, a command ends
by response or by the 45 s receive timer, and the daemon does not restart for
ever.  Nothing is assumed of the host, the verdicts or the success of a send.
The parts have safety properties only: what must eventually happen there is
stated as "something that will do it is pending".

## 4. The proofs

`LogManagerProofs` proves for every `MaxId`, `MaxSignals`, cap, build option and
set of inputs allowed by the module's assumptions (bounds are natural numbers,
caps are positive, `None` and `Torn` differ from all contents and each other):

* `TypeCorrect`, `ListsCorrect`, `IdsFresh`, `ClearCorrect`, `BlocksCorrect`:
  the invariants of the same runs (the lists in builds without the PEL extension,
  as stated);
* `BlocksOutliveOpenErrors`: the action property `BlockOutlivesOpenError`.

They rest on one inductive invariant, `IndInv`.  Its parts need each other:
evicting `front()` is sound only if the lists index the entries; the lists stay
sorted under `push_back` only if the new id is above all others; that needs,
in deleteAll, that nothing is left behind the iterator when entryId goes back to
0, and, in restore, that entries lie below the cursor; a stale signal is
harmless only because a block whose error is resolved has a signal of its own in
flight.  One lemma per group of actions (`HandlersKeepInv`, `LoopsKeepInv`,
`CrashesKeepInv`, `SignalKeepsInv`, ...) uses the lemmas about lists
(`AppendAscending`, `RemoveAscending`) and about adding and removing an entry
(`CreateEntryKeepsIndex`, `RemoveEntryKeepsIndex`, `RestoredKeepsIndex`).

`PLDMInterfaceProofs` proves, for any instance ids other than `None` and any PELs,
`CommandsEnd` (the invariant `CommandCanEnd`, which is inductive: every end of a
command goes through the same cleanup, and the id database changes only together
with the id held) and `KeepsPromise`, the refinement of HostInterface: given
`CommandCanEnd`, each step is a send, a response, a cancellation or a restart of
HostInterface, or leaves its variables alone.  `AnswersForPEL` adds that success is
reported on an answer about this PEL, unless the instance id was kept from an
earlier command or a request of before a restart has it: `OwnAnswers`, the requests
with an id that was taken anew are this command's.

`LogIdProofs` proves, for any counter of at least two numbers, `NumbersOnce` (the
action property `CounterIDsOnce`) and `WellFormed`.  The inductive invariant
`FileIsAhead` says that a number in the file is above all numbers handed out since
the counter last started: a failing write, a full disk or a crash leaves the file
as it is or makes it unreadable, and from an unreadable file no number is taken.

`LogManagerFileProofs` is about what is on disk, under `~TornWrites` (a file that
has been written is whole; `log_live` checks what a torn one does): `FilesCorrect`,
`CapsCorrect`, `IsolatedSurvives` and `StoreRefined`, the refinement of
EventLogStore, and without that condition `EvictionCorrect`.  `FileIndInv` adds to
`IndInv` that the entries the running process has settled are those of the files
(`SettledMirrors`, where restore settles them one by one), that only the PEL
extension knows of isolation (`IsolationIsPEL`), and that the files a restore would
read fit the caps at any moment (`StoredCapsHold`).  The last one makes CapsHold
survive a crash: restore does not look at the caps, so what it finds must fit them,
and does since createEntry evicts before it writes.  In the refinement an event
lives from its first write to its last deletion, so a crash that cuts an operation
short maps to that operation or to none.

`HostNotifierProofs` proves OnePlace, RoomyHostLosesNone, QueueIsServed,
SendsOnlyWanted and OrderlyAckIsFinal, for any PELs, retries and environment.  Its
`IndInv` says, beside OnePlace, that PELs on the lists are for this host
(`OnlyReportable`), that a retry is due only after a command has ended and while one
is left (`RetriesLeft`), and that a queue has a command, a timer or a dispatch that
will look at it (`Served`: QueueIsServed for any queue that is not empty, since a PEL
left to an HMC keeps the others waiting no less); and, by environment, what an
orderly host (`Orderly`) and one that is never full (`Roomy`) leave behind.

`PELRepositoryProofs` proves all seven properties of `repository`, for any PELs,
sizes, limits and failures.  `IndInv` says that the totals are sums over the index,
index and files agree up to the deletions inotify has yet to report, and the
archive is charged with no more than it holds.  Adding, removing and changing a PEL
changes one summand (`SumGrows`, `SumReplaced` of `LoopsProofs`).  Pruning takes PELs of a class in the order of the four passes, oldest first in
each, leaves what is isolated and stops when the class is in its limit; so no PEL
goes while one that precedes it stays (PruneTakesLeastNeeded), and a class above its
limit afterwards has only PELs left that are isolated or that another object names
(PruneReachesLimits).

`PartsProofs` proves the properties of `parts` of the specification that the run
checks, `MCParts!Spec`, for any constants.  `OneAtATime` (a step of one part leaves
the variables of the others alone) reduces each to its own part:

| Theorem | Condition | Inductive invariant and what it is needed for |
|---|---|---|
| `CommandsCanEnd`, `AnswersRight` | `None` is no instance id | those of PLDMInterfaceProofs, instantiated |
| `CounterOnce` | two numbers or more | `FileIsAhead`, instantiated |
| `LogsGoRight` | | `ConfInv`: the file is one without a rule, or a rule made of settings that a setter accepts, so that what restore parses is what was set |
| `EntriesFollow` | `SyncConstants` | `SyncInv`: while an entry and its file disagree an event for the id waits, whose last tells which of the two goes, or the last one was refused |
| `IDsFresh` | `SyncConstants`, `CounterLasts` | `LastIsLargest`: no own event log is above the last id, unless that was borrowed; `CounterLasts` says that the counter does not come to its end, where the code starts again at 1 |
| `CalloutsRight` | `CalloutData` | `SoundInv`: the list answers all requests so far (`Answers`), the word length is the sum of the sizes (`Takes`), and what service actions will do is already flagged or a callout that flags it is still to come (`Due`) |
| `IndicatorsRight` | `LocationData` | `LightInv`: callouts are in order and every hardware callout has a location, and the list does not change once lamps are lit; a group is lit but for what was not written |
| `SectionsCorrect` | `PELConstants` | `SectionsInv`: each section has the length of its data in whole words, or one has overflowed |
| `LogAgrees` | | `LogInv`: the flags the rules give go with the severity type (`RuledFlags`), and a terminate bit with the severity critical |
| `ViewCorrect` | | `DataInv`: a copy differs from the bus only if a signal for it waits, the last of which has the value on the bus; what the mapper did not list was announced after the match was made |
| `EventsServed` | | the property itself |
| `DIMMCacheTrue` | | `PhalInv`: the property and that jobs are counted |
| `JournalSynced` | `JournalConstants` | `JournalInv`: a program whose call is handled waits, with one call only, so nothing of it reaches the inbox after the sync; the watch is installed before the last look at the stamp |

The conditions say what the code and its data guarantee and what TLC confirms for
the constants of `parts`: `PELConstants` that the fixed sections fit and user data
sections are not empty; `SyncConstants` that ids have room for the positions;
`LocationData` that location codes are not empty and that the codes and paths in
the data files are of this system; `CalloutData` in addition that location codes
have at most 79 characters, as `LocationCode` cuts them, and that guard and
deconfiguration are asked for with hardware; `JournalConstants` that no error is
named like a state of the model.  Without the third part of `CalloutData` a procedure
callout with an entity path would lead to a record that no flag shows.

`CalloutsRight` rests on `SortIs` (the sort gives a permutation of the list, ordered
by priority), on `SumPermuted` (another order takes as much room) and on
`AllAreRead`: sizes are positive, so the sums grow and the reading loop stops exactly
at the last callout.

One attempt failed for a good reason.  RecordsAreShown used to say that hardware
out of service is always shown in the PEL; the proof stopped at hardwarePresent,
which clears the deconfigured flag while the record stays.  TLC had not seen it
since the data of the run always left debug data as well.  The property now says
what the code keeps (the event log has the flag the PEL was created with), and the
data of the run has a callout without debug data.

Only model-checked: liveness (`ResolvedErrorUnblocks`, `LoopsEnd`, `QueueDrains`),
which is out of the prover's reach, and two of the four parts of
`JournalIsUpToDate`, MetadataIsOwn and LatestMessages, whose loops are folds of
operators over the journal.

## 5. What is not modelled, and what is left

* Encoding of single fields (BCD time, MTMS, SRC words), the printing of PELs as
  JSON and the rest of peltool: formatting without state.
* FAPI and SBE FFDC: data of platform libraries that are not in the repository.
* Client formatting (lg2, elog), code generators, registry data.
* The many D-Bus getters of the data interface: they are inputs of the modules.
* The crash between the removal of an event log's files and of its PEL, with the
  reuse of its id: it needs LogManager and PELRepository in one state space.
* A severity that changes class leaves the entry's id on the wrong list: in the
  builds where that happens (a synced file, `log_manager.cpp:1022`; the PEL
  extension, `manager.cpp:1007`) nothing reads the lists.
* Services that leave the bus (the copies of their properties stay as they were).
* Known to the models and not promised by the code, hence not stated: a callout
  dropped for lower ones when the list is full (`callouts.cpp:64`); a callout list
  for any system used beside a later list for this one (`registry.cpp:419`); a PEL
  rejected while it waits for a retry is sent again (`host_notifier.cpp:479`); a
  user data section whose length wrapped is not shrunk (`user_data.cpp:57`); a plug
  while the presence matches are made anew is missed (`data_interface.cpp:917`);
  PHAL's device tree that appears between the look for it and the subscription
  (`data_interface.cpp:1034`); a group of lamps lit in part when a single write
  fails (`service_indicators.cpp:214`, although the comment at 204 has all or none);
  with redundant BMCs, ids that repeat after deleteAll kept entries of both BMCs
  (`log_manager.cpp:601`, although README.md:519 has ids unique); an isolated PEL
  that a client deletes while the mapper does not answer (`data_interface.cpp:884`);
  a late answer to a request that timed out, counted for the retry with the same
  instance id (`pldm_interface.cpp:355`).

Proofs worth adding next: MetadataIsOwn and LatestMessages, with the two loops over
the journal written as recursive functions like those of `Loops`; the invariant
needs the order of a program's messages through inbox and journal.
