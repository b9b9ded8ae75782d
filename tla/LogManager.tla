----------------------------- MODULE LogManager -----------------------------
(***************************************************************************)
(* The event log daemon: phosphor::logging::internal::Manager              *)
(* (log_manager.cpp), its Entry objects (elog_entry.cpp) and the two       *)
(* persistent copies of every entry, the cereal file errors/<id> and the   *)
(* JSON file errors-json/<id>.json (elog_serialize.cpp).                   *)
(*                                                                         *)
(* The daemon is single threaded: a D-Bus method call or signal is handled *)
(* to its end before the next one, so every handler is one action.  Three  *)
(* things do interleave with handlers and are actions of their own: the    *)
(* delivery of the daemon's own PropertiesChanged signals, the hardware    *)
(* isolation service, and a crash.  A crash may fall between two file      *)
(* operations of a handler; the CrashIn... actions leave the files as they *)
(* then are.  The loops of eraseAll and restore are taken one iteration    *)
(* per step, because the isolation service and a crash can fall between    *)
(* two iterations.                                                         *)
(*                                                                         *)
(* The build modelled is the one without the redundant-bmc option.         *)
(***************************************************************************)
EXTENDS Integers, SequencesExt

CONSTANTS
    MaxId,           \* bound on entry ids (uint32_t in the code)
    MaxSignals,      \* bound on Resolved signals in flight for one entry
    ERROR_CAP,       \* most errors kept
    ERROR_INFO_CAP,  \* most informational entries kept
    PELExtension,    \* is the openpower-pels extension linked in?
    TornWrites,      \* can a crash leave a partly written file?
    Inputs,          \* the kinds of event clients log
    QuiesceSettings, \* values the QuiesceOnHwError setting may read as
    Texts, NoText,   \* values of the eventId and resolution strings
    None,            \* no entry, no file
    Torn             \* a file whose contents do not parse

Ids == 1..MaxId

\* What an entry holds and its files store: severity at or past sevLowerLimit,
\* a CALLOUT_ key in AdditionalData, the Resolved property, a non-empty
\* Associations property, and the eventId/resolution text.
Content == [info: BOOLEAN, callout: BOOLEAN, resolved: BOOLEAN,
            assoc: BOOLEAN, text: Texts]

Kinds == [info: BOOLEAN, callout: BOOLEAN, assoc: BOOLEAN]

ASSUME BoundsAssumption == MaxId \in Nat /\ MaxSignals \in Nat
ASSUME CapAssumption == ERROR_CAP \in Nat \ {0} /\ ERROR_INFO_CAP \in Nat \ {0}
ASSUME FlagAssumption == PELExtension \in BOOLEAN /\ TornWrites \in BOOLEAN
ASSUME InputAssumption ==
    Inputs \subseteq Kinds /\ QuiesceSettings \subseteq BOOLEAN /\ NoText \in Texts
ASSUME MarkerAssumption == None \notin Content /\ Torn \notin Content /\ None # Torn

VARIABLES
    entries,                  \* id -> the Entry object's contents, or None
    assocs,                   \* ids whose Entry holds its private copy of
                              \* non-empty associations (Entry::assocs)
    realErrors, infoErrors,   \* the two lists of ids, oldest first
    entryId,                  \* id of the last entry created
    blockingErrors,           \* ids with a Block object
    propChangedEntryCallback, \* ids with a PropertiesChanged match
    signals,                  \* id -> Resolved signals sent, not yet handled
    cereal, json,             \* id -> contents of the entry's two files
    isolated,                 \* ids with unresolved hardware isolation
    mapperUp,                 \* do queries to the object mapper succeed?
    logIDWithHwIsolation,     \* the ids eraseAll found isolated
    pc, cursor                \* what the daemon is in the middle of

entryVars == <<entries, assocs, realErrors, infoErrors>>
blockVars == <<blockingErrors, propChangedEntryCallback>>
files == <<cereal, json>>
isolation == <<isolated, mapperUp>>
control == <<logIDWithHwIsolation, pc, cursor>>
vars == <<entries, assocs, realErrors, infoErrors, entryId, blockingErrors,
          propChangedEntryCallback, signals, cereal, json, isolated, mapperUp,
          logIDWithHwIsolation, pc, cursor>>

NoEntries == [i \in Ids |-> None]

Present == {i \in Ids : entries[i] # None}

Without(f, S) == [i \in Ids |-> IF i \in S THEN None ELSE f[i]]

Init ==
    /\ entries = NoEntries
    /\ assocs = {}
    /\ realErrors = << >>
    /\ infoErrors = << >>
    /\ entryId = 0
    /\ blockingErrors = {}
    /\ propChangedEntryCallback = {}
    /\ signals = [i \in Ids |-> 0]
    /\ cereal = NoEntries
    /\ json = NoEntries
    /\ isolated = {}
    /\ mapperUp = TRUE
    /\ logIDWithHwIsolation = {}
    /\ pc = "down"
    /\ cursor = 1

-----------------------------------------------------------------------------
(* Crashes.  Memory is lost; of the files, cut[1] and cut[2] are left.     *)

CrashLeaving(cut) ==
    /\ entries' = NoEntries
    /\ assocs' = {}
    /\ realErrors' = << >>
    /\ infoErrors' = << >>
    /\ entryId' = 0
    /\ blockingErrors' = {}
    /\ propChangedEntryCallback' = {}
    /\ signals' = [i \in Ids |-> 0]
    /\ cereal' = cut[1]
    /\ json' = cut[2]
    /\ logIDWithHwIsolation' = {}
    /\ pc' = "down"
    /\ cursor' = 1
    /\ UNCHANGED isolation

Crash ==
    /\ pc # "down"
    /\ CrashLeaving(files)

\* persist() and createEntry() write the cereal file, then the JSON file.
\* Each is truncated when it is opened.
WriteCuts(c, j, i, content) ==
    LET written == [c EXCEPT ![i] = content]
    IN  {<<written, j>>} \cup
        (IF TornWrites THEN {<<[c EXCEPT ![i] = Torn], j>>,
                             <<written, [j EXCEPT ![i] = Torn]>>}
                       ELSE {})

\* erase() removes the cereal file, then the JSON file.
RemoveCuts(S) == {<<Without(cereal, S), json>>, <<Without(cereal, S), Without(json, S)>>}

\* Seeded fault: the JSON copy is not rewritten.
PersistCerealOnly(i, content) ==
    /\ cereal' = [cereal EXCEPT ![i] = content]
    /\ UNCHANGED json

Persist(i, content) ==
    /\ cereal' = [cereal EXCEPT ![i] = content]
    /\ json' = [json EXCEPT ![i] = content]

-----------------------------------------------------------------------------
(* Removing entries.                                                       *)

\* Seeded fault: the check looks at the list eraseAll made, not at the mapper.
ProhibitedByList(i) == PELExtension /\ i \in logIDWithHwIsolation

\* The extension prohibits deleting and resolving an entry whose hardware is
\* isolated; a query that fails counts as "not prohibited".
Prohibited(i) == PELExtension /\ mapperUp /\ i \in isolated

\* Seeded fault: the id stays on the list.
RealKeeping(S) == realErrors

\* An entry is taken off the list its severity selects.
RealWithout(S) ==
    IF \E i \in S : ~entries[i].info
    THEN RemoveFirst(realErrors, CHOOSE i \in S : ~entries[i].info)
    ELSE realErrors
InfoWithout(S) ==
    IF \E i \in S : entries[i].info
    THEN RemoveFirst(infoErrors, CHOOSE i \in S : entries[i].info)
    ELSE infoErrors

\* Seeded fault: blocks are left behind.
KeepBlocks(blocks, S) == blocks

\* The blocks, or the callbacks, that checkAndRemoveBlockingError leaves when
\* it is called for each id of S.
WithoutBlocks(blocks, S) == blocks \ S

RemoveEntry(i) ==
    /\ entries' = Without(entries, {i})
    /\ assocs' = assocs \ {i}
    /\ realErrors' = RealWithout({i})
    /\ infoErrors' = InfoWithout({i})
    /\ cereal' = Without(cereal, {i})
    /\ json' = Without(json, {i})
    /\ blockingErrors' = WithoutBlocks(blockingErrors, {i})
    /\ propChangedEntryCallback' = WithoutBlocks(propChangedEntryCallback, {i})

erase(i) ==
    /\ pc = "idle"
    /\ i \in Present
    /\ ~Prohibited(i)
    /\ RemoveEntry(i)
    /\ UNCHANGED <<entryId, signals, isolation, control>>

CrashInErase(i) ==
    /\ pc = "idle"
    /\ i \in Present
    /\ ~Prohibited(i)
    /\ \E cut \in RemoveCuts({i}) : CrashLeaving(cut)

-----------------------------------------------------------------------------
(* Creating entries.                                                       *)

\* Seeded faults: > for >=, and the newest entry for the oldest.
EvictedLate(in) ==
    IF PELExtension THEN {}
    ELSE IF in.info
         THEN IF Len(infoErrors) > ERROR_INFO_CAP THEN {Head(infoErrors)} ELSE {}
         ELSE IF Len(realErrors) > ERROR_CAP THEN {Head(realErrors)} ELSE {}
EvictedNewest(in) ==
    IF PELExtension THEN {}
    ELSE IF in.info
         THEN IF Len(infoErrors) >= ERROR_INFO_CAP THEN {Last(infoErrors)} ELSE {}
         ELSE IF Len(realErrors) >= ERROR_CAP THEN {Last(realErrors)} ELSE {}

\* The oldest entry of the same class makes room when the class is full.
Evicted(in) ==
    IF PELExtension THEN {}
    ELSE IF in.info
         THEN IF Len(infoErrors) >= ERROR_INFO_CAP THEN {Head(infoErrors)} ELSE {}
         ELSE IF Len(realErrors) >= ERROR_CAP THEN {Head(realErrors)} ELSE {}

NewContent(in) == [info |-> in.info, callout |-> in.callout, resolved |-> FALSE,
                   assoc |-> in.assoc, text |-> NoText]

NextId(last) == last + 1

\* With the extension the caps are off and nothing reads the two lists; the
\* model leaves them empty there.  (The code appends to them, by the severity
\* the event came with, and looks for the id by the one its PEL gave it.)
Listed(ids, id) == IF PELExtension THEN ids ELSE Append(ids, id)

\* What the extension makes of a new event: the severity class of its PEL, the
\* eventId and resolution found in it, and whether checkPelAndQuiesce blocks
\* the boot for it, with or without a CALLOUT_ key.  That PEL is an error; the
\* entry is one too, unless it came informational with a PEL of the host's,
\* which changes no severity.  Without the extension nothing happens.
doExtensionLogCreate(in) ==
    IF PELExtension
    THEN {pel \in [info: BOOLEAN, text: Texts, blocks: BOOLEAN] :
             pel.blocks => TRUE \in QuiesceSettings /\ (pel.info => in.info)}
    ELSE {[info |-> in.info, text |-> NoText, blocks |-> FALSE]}

\* The entry when createEntry returns: serializeLogEntry has written it again.
LoggedContent(in, pel) ==
    [NewContent(in) EXCEPT !.info = pel.info, !.text = pel.text]

\* The block of createEntry, if the setting asks for one: it never blocks a
\* boot for an informational event or one without a CALLOUT_ key.
quiesceOnError(in, quiesce, id) == IF quiesce /\ ~in.info /\ in.callout THEN {id} ELSE {}

\* createEntry(), the last id being `last`.  `quiesce` is the value read of
\* the QuiesceOnHwError setting, `pel` what the extension did.
createEntry(in, quiesce, pel, last) ==
    LET id == NextId(last)
        out == Evicted(in)
        blocked == quiesceOnError(in, quiesce, id) \cup (IF pel.blocks THEN {id} ELSE {})
    IN  /\ entryId' = id
        /\ entries' = [Without(entries, out) EXCEPT ![id] = LoggedContent(in, pel)]
        /\ assocs' = (assocs \ out) \cup (IF in.assoc THEN {id} ELSE {})
        /\ realErrors' = IF in.info THEN RealWithout(out)
                                    ELSE Listed(RealWithout(out), id)
        /\ infoErrors' = IF in.info THEN Listed(InfoWithout(out), id)
                                    ELSE InfoWithout(out)
        /\ cereal' = [Without(cereal, out) EXCEPT ![id] = LoggedContent(in, pel)]
        /\ json' = [Without(json, out) EXCEPT ![id] = LoggedContent(in, pel)]
        /\ blockingErrors' = WithoutBlocks(blockingErrors, out) \cup blocked
        /\ propChangedEntryCallback' =
               WithoutBlocks(propChangedEntryCallback, out) \cup blocked
        /\ UNCHANGED <<signals, isolation>>

Create(in, quiesce) ==
    /\ pc = "idle"
    /\ entryId < MaxId
    /\ \E pel \in doExtensionLogCreate(in) : createEntry(in, quiesce, pel, entryId)
    /\ UNCHANGED control

\* The extension writes the files again, over the two just written.
RewriteCuts(in, pel, id) ==
    LET c == [cereal EXCEPT ![id] = NewContent(in)]
        j == [json EXCEPT ![id] = NewContent(in)]
    IN  {<<c, j>>} \cup WriteCuts(c, j, id, LoggedContent(in, pel))

CreateCuts(in, last) ==
    LET out == Evicted(in)
    IN  WriteCuts(Without(cereal, out), Without(json, out), NextId(last), NewContent(in))
        \cup (IF out = {} THEN {} ELSE RemoveCuts(out))
        \cup (IF PELExtension
              THEN UNION {RewriteCuts(in, pel, NextId(last)) : pel \in doExtensionLogCreate(in)}
              ELSE {})

CrashInCreate(in) ==
    /\ pc = "idle"
    /\ entryId < MaxId
    /\ \E cut \in CreateCuts(in, entryId) : CrashLeaving(cut)

-----------------------------------------------------------------------------
(* Setting an entry's properties.                                          *)

\* Resolving drops the associations, un-resolving puts the copy back.
Resolving(i, value) == [entries[i] EXCEPT !.resolved = value,
                                          !.assoc = ~value /\ i \in assocs]

\* The setter announces the new value; a match for the entry queues it.
resolved(i, value) ==
    /\ pc = "idle"
    /\ i \in Present
    /\ entries[i].resolved # value
    /\ ~Prohibited(i)
    /\ signals[i] < MaxSignals
    /\ entries' = [entries EXCEPT ![i] = Resolving(i, value)]
    /\ Persist(i, Resolving(i, value))
    /\ signals' = IF i \in propChangedEntryCallback
                  THEN [signals EXCEPT ![i] = @ + 1] ELSE signals
    /\ UNCHANGED <<assocs, realErrors, infoErrors, entryId, blockVars, isolation, control>>

CrashInResolved(i, value) ==
    /\ pc = "idle"
    /\ i \in Present
    /\ entries[i].resolved # value
    /\ ~Prohibited(i)
    /\ \E cut \in WriteCuts(cereal, json, i, Resolving(i, value)) : CrashLeaving(cut)

\* The eventId and resolution setters.
setText(i, value) ==
    /\ pc = "idle"
    /\ i \in Present
    /\ entries[i].text # value
    /\ entries' = [entries EXCEPT ![i].text = value]
    /\ Persist(i, [entries[i] EXCEPT !.text = value])
    /\ UNCHANGED <<assocs, realErrors, infoErrors, entryId, blockVars, signals,
                   isolation, control>>

CrashInSetText(i, value) ==
    /\ pc = "idle"
    /\ i \in Present
    /\ entries[i].text # value
    /\ \E cut \in WriteCuts(cereal, json, i, [entries[i] EXCEPT !.text = value]) :
            CrashLeaving(cut)

\* Seeded faults: every block is dropped, and none is.
dropAllBlocks(blocks) == {}
dropNoBlocks(blocks) == blocks

\* A match sees the signal only if it is still registered when the signal is
\* dispatched; it then drops the blocks of every resolved entry.
findAndRemoveResolvedBlocks(blocks) ==
    WithoutBlocks(blocks, {j \in Present : entries[j].resolved})

onEntryResolve(i) ==
    /\ pc = "idle"
    /\ signals[i] > 0
    /\ signals' = [signals EXCEPT ![i] = @ - 1]
    /\ IF i \in propChangedEntryCallback
       THEN /\ blockingErrors' = findAndRemoveResolvedBlocks(blockingErrors)
            /\ propChangedEntryCallback' =
                   findAndRemoveResolvedBlocks(propChangedEntryCallback)
       ELSE UNCHANGED blockVars
    /\ UNCHANGED <<entryVars, entryId, files, isolation, control>>

-----------------------------------------------------------------------------
(* deleteAll(): eraseAll(), then a LoggingCleared entry.                   *)

\* The ids to keep.  When the query fails the list stays empty.
eraseAllStart ==
    /\ pc = "idle"
    /\ entryId < MaxId
    /\ pc' = "clearing"
    /\ cursor' = 1
    /\ logIDWithHwIsolation' = IF PELExtension /\ mapperUp THEN isolated ELSE {}
    /\ UNCHANGED <<entryVars, entryId, blockVars, signals, files, isolation>>

\* Seeded fault: a prohibited entry never ends the loop.
KeptIfProhibited(i) == i \notin Present \/ i \in logIDWithHwIsolation \/ Prohibited(i)

\* Is the entry at the cursor passed over?
Kept(i) ==
    \/ i \notin Present
    \/ i \in logIDWithHwIsolation
    \/ logIDWithHwIsolation # {} /\ Prohibited(i)

\* Seeded fault: the iterator is not advanced past an entry that is kept.
eraseAllStay ==
    /\ pc = "clearing"
    /\ cursor <= MaxId
    /\ Kept(cursor)
    /\ UNCHANGED vars

eraseAllKeep ==
    /\ pc = "clearing"
    /\ cursor <= MaxId
    /\ Kept(cursor)
    /\ cursor' = cursor + 1
    /\ UNCHANGED <<entryVars, entryId, blockVars, signals, files, isolation,
                   logIDWithHwIsolation, pc>>

eraseAllErase ==
    /\ pc = "clearing"
    /\ cursor <= MaxId
    /\ ~Kept(cursor)
    /\ ~Prohibited(cursor)
    /\ RemoveEntry(cursor)
    /\ cursor' = cursor + 1
    /\ UNCHANGED <<entryId, signals, isolation, logIDWithHwIsolation, pc>>

CrashInEraseAll ==
    /\ pc = "clearing"
    /\ cursor <= MaxId
    /\ ~Kept(cursor)
    /\ ~Prohibited(cursor)
    /\ \E cut \in RemoveCuts({cursor}) : CrashLeaving(cut)

\* With no list the exception of erase() leaves eraseAll() and deleteAll().
eraseAllThrows ==
    /\ pc = "clearing"
    /\ cursor <= MaxId
    /\ ~Kept(cursor)
    /\ Prohibited(cursor)
    /\ pc' = "idle"
    /\ cursor' = 1
    /\ logIDWithHwIsolation' = {}
    /\ UNCHANGED <<entryVars, entryId, blockVars, signals, files, isolation>>

\* Seeded fault: ids start over although entries were kept.
ZeroAfterClear == 0

LastIdAfterClear == IF logIDWithHwIsolation = {} \/ Present = {} THEN 0 ELSE Max(Present)

LoggingCleared == [info |-> TRUE, callout |-> FALSE, assoc |-> FALSE]

deleteAllFinish ==
    /\ pc = "clearing"
    /\ cursor > MaxId
    /\ \E quiesce \in QuiesceSettings, pel \in doExtensionLogCreate(LoggingCleared) :
           createEntry(LoggingCleared, quiesce, pel, LastIdAfterClear)
    /\ pc' = "idle"
    /\ cursor' = 1
    /\ logIDWithHwIsolation' = {}

CrashInDeleteAllFinish ==
    /\ pc = "clearing"
    /\ cursor > MaxId
    /\ \E cut \in CreateCuts(LoggingCleared, LastIdAfterClear) : CrashLeaving(cut)

-----------------------------------------------------------------------------
(* restore(): one entry per file, JSON files before cereal files.          *)

\* What the "empty" constructor makes when the cereal file does not parse.
EmptyEntry == [info |-> FALSE, callout |-> FALSE, resolved |-> FALSE,
               assoc |-> FALSE, text |-> NoText]

Restart ==
    /\ pc = "down"
    /\ pc' = "restoring"
    /\ UNCHANGED <<entryVars, entryId, blockVars, signals, files, isolation,
                   logIDWithHwIsolation, cursor>>

Restored(content) ==
    /\ entries' = [entries EXCEPT ![cursor] = content]
    /\ realErrors' = IF content.info THEN realErrors ELSE Listed(realErrors, cursor)
    /\ infoErrors' = IF content.info THEN Listed(infoErrors, cursor) ELSE infoErrors

Restoring(i) ==
    /\ pc = "restoring"
    /\ i = cursor
    /\ i <= MaxId
    /\ cursor' = cursor + 1
    /\ UNCHANGED <<assocs, entryId, blockVars, signals, isolation,
                   logIDWithHwIsolation, pc>>

restoreNothing(i) ==
    /\ Restoring(i)
    /\ json[i] = None
    /\ cereal[i] = None
    /\ UNCHANGED <<entries, realErrors, infoErrors, files>>

deserializeJSON(i) ==
    /\ Restoring(i)
    /\ json[i] \notin {None, Torn}
    /\ Restored(json[i])
    /\ UNCHANGED files

\* The corrupt file is moved away; the cereal file is not looked at.
deserializeJSONFails(i) ==
    /\ Restoring(i)
    /\ json[i] = Torn
    /\ json' = [json EXCEPT ![i] = None]
    /\ UNCHANGED <<entries, realErrors, infoErrors, cereal>>

deserialize(i) ==
    /\ Restoring(i)
    /\ json[i] = None
    /\ cereal[i] \notin {None, Torn}
    /\ Restored(cereal[i])
    /\ json' = [json EXCEPT ![i] = cereal[i]]
    /\ UNCHANGED cereal

\* The corrupt file is moved away; restore() does not look at the result.
deserializeFails(i) ==
    /\ Restoring(i)
    /\ json[i] = None
    /\ cereal[i] = Torn
    /\ Restored(EmptyEntry)
    /\ cereal' = [cereal EXCEPT ![i] = None]
    /\ json' = [json EXCEPT ![i] = EmptyEntry]

\* Seeded faults: the next id for the last one, and a count for the highest.
NextRestoredId == IF Present = {} THEN entryId ELSE Max(Present) + 1
CountRestored == Cardinality(Present)

LastRestoredId == IF Present = {} THEN entryId ELSE Max(Present)

restoreFinish ==
    /\ pc = "restoring"
    /\ cursor > MaxId
    /\ entryId' = LastRestoredId
    /\ pc' = "idle"
    /\ cursor' = 1
    /\ UNCHANGED <<entryVars, blockVars, signals, files, isolation, logIDWithHwIsolation>>

\* restore() rewrites the JSON file of an entry it read from cereal.
CrashInRestore(i) ==
    /\ TornWrites
    /\ pc = "restoring"
    /\ i = cursor
    /\ json[i] = None
    /\ cereal[i] # None
    /\ LET left == IF cereal[i] = Torn THEN [cereal EXCEPT ![i] = None] ELSE cereal
       IN  \E j \in {None, Torn} : CrashLeaving(<<left, [json EXCEPT ![i] = j]>>)

-----------------------------------------------------------------------------
(* The hardware isolation service and the object mapper.                   *)

Isolate(i) ==
    /\ PELExtension
    /\ i \in Present
    /\ isolated' = isolated \cup {i}
    /\ UNCHANGED <<entryVars, entryId, blockVars, signals, files, mapperUp, control>>

Deisolate(i) ==
    /\ i \in isolated
    /\ isolated' = isolated \ {i}
    /\ UNCHANGED <<entryVars, entryId, blockVars, signals, files, mapperUp, control>>

MapperChanges ==
    /\ PELExtension
    /\ mapperUp' = ~mapperUp
    /\ UNCHANGED <<entryVars, entryId, blockVars, signals, files, isolated, control>>

-----------------------------------------------------------------------------
Handlers ==
    \/ \E in \in Inputs, quiesce \in QuiesceSettings : Create(in, quiesce)
    \/ \E i \in Ids : erase(i)
    \/ \E i \in Ids, value \in BOOLEAN : resolved(i, value)
    \/ \E i \in Ids, value \in Texts : setText(i, value)
    \/ eraseAllStart

Loops ==
    \/ eraseAllKeep
    \/ eraseAllErase
    \/ eraseAllThrows
    \/ deleteAllFinish
    \/ \E i \in Ids :
          \/ restoreNothing(i)
          \/ deserializeJSON(i)
          \/ deserializeJSONFails(i)
          \/ deserialize(i)
          \/ deserializeFails(i)
    \/ restoreFinish

Crashes ==
    \/ Crash
    \/ \E in \in Inputs : CrashInCreate(in)
    \/ \E i \in Ids : CrashInErase(i)
    \/ \E i \in Ids, value \in BOOLEAN : CrashInResolved(i, value)
    \/ \E i \in Ids, value \in Texts : CrashInSetText(i, value)
    \/ CrashInEraseAll
    \/ CrashInDeleteAllFinish
    \/ \E i \in Ids : CrashInRestore(i)

Environment ==
    \/ \E i \in Ids : Isolate(i)
    \/ \E i \in Ids : Deisolate(i)
    \/ MapperChanges

Next ==
    \/ Handlers
    \/ \E i \in Ids : onEntryResolve(i)
    \/ Loops
    \/ Restart
    \/ Crashes
    \/ Environment

Spec == Init /\ [][Next]_vars

\* A handler's loop runs to its end; a queued signal is dispatched before the calls that arrive after it.
FairSpec ==
    /\ Spec
    /\ WF_vars(Loops)
    /\ \A i \in Ids : SF_vars(onEntryResolve(i))

-----------------------------------------------------------------------------
(* Properties.                                                             *)

Stores == [Ids -> Content \cup {None}]

\* Type invariant: every variable of the daemon holds a value of its type.
TypeOK ==
    /\ entries \in Stores
    /\ assocs \subseteq Ids
    /\ realErrors \in Seq(Ids) /\ infoErrors \in Seq(Ids)
    /\ entryId \in 0..MaxId
    /\ blockingErrors \subseteq Ids /\ propChangedEntryCallback \subseteq Ids
    /\ signals \in [Ids -> 0..MaxSignals]
    /\ cereal \in [Ids -> Content \cup {None, Torn}]
    /\ json \in [Ids -> Content \cup {None, Torn}]
    /\ isolated \subseteq Ids /\ mapperUp \in BOOLEAN
    /\ logIDWithHwIsolation \subseteq Ids
    /\ pc \in {"down", "restoring", "idle", "clearing"}
    /\ cursor \in 1..(MaxId + 1)

Ascending(ids) == \A m, n \in DOMAIN ids : m < n => ids[m] < ids[n]

\* Where the caps apply (no PEL extension), createEntry, erase, eraseAll and
\* restore keep the two lists an exact, duplicate-free index of the entries map
\* by severity, oldest first, so that front() is always an entry that exists
\* and is the oldest of its class.
ListsIndexEntries ==
    ~PELExtension =>
        /\ Ascending(realErrors) /\ Ascending(infoErrors)
        /\ ToSet(realErrors) = {i \in Present : ~entries[i].info}
        /\ ToSet(infoErrors) = {i \in Present : entries[i].info}

\* The model leaves the lists empty where nothing reads them.
ListsUnused == PELExtension => realErrors = << >> /\ infoErrors = << >>

\* createEntry numbers a new entry entryId + 1 without looking whether that
\* id is taken: whatever mix of erase, deleteAll and restart came before, no
\* entry lies above entryId (above the cursor while restore is under way).
NoEntryAboveLastId ==
    \A i \in Present : IF pc = "restoring" THEN i < cursor ELSE i <= entryId

\* eraseAll sets entryId back to 0 when it found no isolated entry; by then
\* every entry the loop has passed is really gone.
ClearedBehindCursor ==
    pc = "clearing" /\ logIDWithHwIsolation = {} =>
        \A i \in Present : i >= cursor

\* A process that has not started yet holds nothing, and deleteAll starts
\* only where the model has an id left for the LoggingCleared entry.
StartsFresh ==
    /\ pc = "down" => Present = {} /\ cursor = 1
    /\ pc = "clearing" => entryId < MaxId

\* Every Block object belongs to an existing entry and has its
\* PropertiesChanged match; when that entry is resolved, the signal that will
\* remove the Block (onEntryResolve) is still on its way.  Without the PEL
\* extension the entry is an error with a callout; with it a Block may also
\* stand for a callout in the PEL, and the severity may have changed since.
BlocksAreOpenErrors ==
    /\ blockingErrors = propChangedEntryCallback
    /\ \A i \in blockingErrors :
          /\ i \in Present
          /\ ~PELExtension => ~entries[i].info /\ entries[i].callout
          /\ entries[i].resolved => signals[i] > 0

\* The inductive invariant behind the four properties above.
IndInv ==
    /\ TypeOK
    /\ ListsIndexEntries
    /\ ListsUnused
    /\ NoEntryAboveLastId
    /\ ClearedBehindCursor
    /\ StartsFresh
    /\ BlocksAreOpenErrors

\* Unless a crash can tear a file, the JSON files are the entries, and no
\* cereal file is left without its entry, whenever a handler can run: the
\* number createEntry takes next has no file either.
FilesMirrorEntries ==
    pc \in {"idle", "clearing"} =>
        /\ json = entries
        /\ \A i \in Ids : cereal[i] # None => i \in Present

\* Unless a crash can tear a file, the caps hold in every state, through
\* evictions, crashes in the middle of one, and restarts.
CapsHold ==
    ~PELExtension => Len(realErrors) <= ERROR_CAP /\ Len(infoErrors) <= ERROR_INFO_CAP

\* While the daemon lives a boot block goes away only with its entry, or
\* after its entry was resolved: neither a stale signal for a reused id nor
\* deleteAll lets the host boot past an open error.
DropsNoOpenBlock ==
    \A i \in blockingErrors \ blockingErrors' :
        pc' = "down" \/ entries'[i] = None \/ entries[i].resolved

BlockOutlivesOpenError == [][DropsNoOpenBlock]_vars

\* What restore would find of entry i.
Stored(i) == IF json[i] # None THEN json[i] ELSE cereal[i]

\* An entry whose hardware is isolated, and that the mapper can tell us so,
\* keeps its stored copy whatever the daemon does, deleteAll and crashes
\* included, and is not resolved either.
IsolatedEntrySurvives ==
    [][\A i \in isolated :
          mapperUp /\ Stored(i) # None =>
              /\ Stored(i)' # None
              /\ Stored(i)'.resolved = Stored(i).resolved]_vars

\* An entry that goes away in the step that creates another one is the oldest
\* of the new entry's class, and that class was full.
EvictsOldestOfFullClass ==
    [][\A i \in Present \ Present' :
          (pc' = "idle" /\ entryId' > entryId) =>
              LET class == {j \in Present : entries[j].info = entries'[entryId'].info}
              IN  /\ i \in class
                  /\ \A j \in class : i <= j
                  /\ Cardinality(class) >=
                         IF entries[i].info THEN ERROR_INFO_CAP ELSE ERROR_CAP]_vars

\* A resolved error stops blocking the boot, unless it is reopened first.
ResolvedErrorUnblocks ==
    \A i \in Ids :
        (i \in blockingErrors /\ i \in Present /\ entries[i].resolved) ~>
            (i \notin blockingErrors \/ ~entries[i].resolved)

\* eraseAll and restore end, whatever isolation does in the meantime.
LoopsEnd ==
    /\ pc = "clearing" ~> pc \in {"idle", "down"}
    /\ pc = "restoring" ~> pc \in {"idle", "down"}

\* Clients of the event log see a map that crashes and restarts do not touch:
\* an event is there from the moment its first file is written.
Store == INSTANCE EventLogStore WITH logs <- [i \in Ids |-> Stored(i)]

ImplementsStore == Store!StoreSpec

-----------------------------------------------------------------------------
(* What comments and documents say of the code, and the code does not do.  *)

\* restore(), log_manager.cpp: an entry "corrupted" in JSON is read from its
\* cereal file and its JSON is rewritten.
CorruptJSONFallsBackToCereal ==
    [][pc = "restoring" /\ pc' = "idle" =>
          \A i \in Ids : cereal[i] \in Content => i \in Present']_vars

\* elog_entry.hpp: the copy of the associations is kept "in case we need to
\* recreate"; an error that is not resolved has its associations.
OpenErrorHasAssociations ==
    \A i \in Present : ~entries[i].resolved /\ ~entries[i].info => entries[i].assoc
=============================================================================
