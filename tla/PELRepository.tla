---------------------------- MODULE PELRepository ---------------------------
(***************************************************************************)
(* The store of platform event logs of the openpower-pels extension:       *)
(* Repository (repository.cpp), and the parts of the PEL Manager           *)
(* (manager.cpp) that put PELs into it and take them out: arrival of a     *)
(* PEL, pruning, deletion of event logs, and deletion of PEL files by the  *)
(* command line tool peltool, a process of its own, which the daemon hears *)
(* of through inotify.                                                     *)
(*                                                                         *)
(* Event logs are numbered by arrival and a PEL has the number of its      *)
(* event log.  File names begin with the commit time, so names sort by     *)
(* number (the clock is assumed not to step back).                         *)
(*                                                                         *)
(* The daemon is single threaded: a callback is one action.  Pruning is    *)
(* two kinds of step, as a crash may come between the removal of the PELs  *)
(* and that of their event logs; while it lasts the daemon does nothing    *)
(* else.  Deferred work runs before the D-Bus connection's next message,   *)
(* which is how PELs not made by the BMC come in.                          *)
(***************************************************************************)
EXTENDS Integers, FiniteSetsExt, Functions, SequencesExt, Loops

CONSTANTS
    MaxPELs,      \* bound on event logs
    MaxDeletions, \* bound on file deletions inotify has yet to report
    _maxRepoSize, \* disk space for PELs
    _maxNumPELs,
    Kinds,        \* the PELs that arrive: who made them, severity, are they hidden
                  \* from the host, do they guard hardware, their size on disk
    HostStates,   \* the host transmission states that occur
    Associated,   \* event logs that objects other than isolation entries may name as
                  \* their error_log
    WritesFail,   \* can the file system fail?
    Crashes,      \* can the daemon die in the middle of a handler?
    PeltoolRuns   \* is peltool used to delete PELs?

Severities == {"nonError", "recovered", "predictive", "unrecoverable", "critical",
               "diagnostic", "symptom_recovered", "symptom_predictive",
               "symptom_unrecoverable", "symptom_critical", "symptom_diag_err"}

ASSUME RepositoryAssumption ==
    /\ MaxPELs \in Nat /\ MaxDeletions \in Nat
    /\ _maxRepoSize \in Nat /\ _maxNumPELs \in Nat
    /\ \A k \in Kinds :
           /\ k.creator \in {"bmc", "hostboot", "other"}
           /\ k.severity \in Severities
           /\ k.hidden \in BOOLEAN /\ k.guard \in BOOLEAN
           /\ k.sizeOnDisk \in Nat \ {0}
    /\ "new" \in HostStates /\ HostStates \subseteq {"new", "sent", "acked", "bad"}
    /\ WritesFail \in BOOLEAN /\ Crashes \in BOOLEAN /\ PeltoolRuns \in BOOLEAN

VARIABLES
    pelAttributes, \* the index: PEL -> its attributes
    files,         \* PEL files: PEL -> what the file says
    sizes,         \* running totals of the sizes on disk
    archive,       \* size on disk of the files in the archive folder
    archiveSize,   \* running total of the archive
    logs,          \* event logs
    isolated,      \* event logs that an unresolved hardware isolation entry names
    mapperUp,      \* does the object mapper answer?
    lastLog,       \* number of the newest event log
    deletions,     \* file deletions inotify has yet to report, in order
    prunePending,  \* is pruneRepo() pending in the event loop?
    logToDelete,   \* event log deleteObmcLog() is pending for, or 0
    idsToDelete    \* event logs pruneRepo() has still to erase

vars == <<pelAttributes, files, sizes, archive, archiveSize, logs, isolated,
          mapperUp, lastLog, deletions, prunePending, logToDelete, idsToDelete>>

Stats == {"total", "bmc", "bmcServiceable", "bmcInfo",
          "nonBMC", "nonBMCServiceable", "nonBMCInfo"}

HMCStates == {"new", "acked"}

PELs == DOMAIN pelAttributes

Without(f, S) == Restrict(f, DOMAIN f \ S)
With(f, p, pel) == [q \in DOMAIN f \cup {p} |-> IF q = p THEN pel ELSE f[q]]

\* LogManager erases event logs; the object mapper then drops what is
\* associated with them.
EraseLogs(S) ==
    /\ logs' = logs \ S
    /\ isolated' = isolated \ S
    /\ UNCHANGED mapperUp

Init ==
    /\ pelAttributes = << >> /\ files = << >>
    /\ sizes = [c \in Stats |-> 0]
    /\ archive = 0 /\ archiveSize = 0
    /\ logs = {} /\ isolated = {} /\ mapperUp \in BOOLEAN /\ lastLog = 0
    /\ deletions = << >>
    /\ prunePending = FALSE /\ logToDelete = 0 /\ idsToDelete = {}

-----------------------------------------------------------------------------
(* Sizes.                                                                  *)

isBMC(pel) == pel.creator = "bmc"

\* Severities by the type in their upper digit; symptoms by their name.
isServiceableSev(pel) ==
    \/ pel.severity \in {"predictive", "unrecoverable", "critical", "symptom_predictive",
                         "symptom_unrecoverable", "symptom_critical"}
    \/ pel.severity \in {"recovered", "symptom_recovered"} /\ ~pel.hidden

\* The totals that a PEL counts in.
StatsOf(pel) ==
    {"total"} \cup IF isBMC(pel)
                   THEN {"bmc", IF isServiceableSev(pel) THEN "bmcServiceable" ELSE "bmcInfo"}
                   ELSE {"nonBMC", IF isServiceableSev(pel) THEN "nonBMCServiceable"
                                                         ELSE "nonBMCInfo"}

\* The sum of numbers x, one for each event log, from the oldest to the newest.
Total(x) == SumTo(x, MaxPELs)

\* The space the PELs S of index f take in total c.
SizeOf(f, S, c) ==
    Total([p \in 1..MaxPELs |-> IF p \in S /\ c \in StatsOf(f[p]) THEN f[p].sizeOnDisk ELSE 0])

\* updateRepoStats for PELs S of index f that are added.
StatsWith(s, f, S) == [c \in Stats |-> s[c] + SizeOf(f, S, c)]

\* Seeded fault: only the grand total is kept up.
StatsWithoutTotal(s, f, S) ==
    [c \in Stats |-> IF c = "total" THEN Max({s[c] - SizeOf(f, S, c), 0}) ELSE s[c]]

\* updateRepoStats for PELs S of index f that are removed.
StatsWithout(s, f, S) == [c \in Stats |-> Max({s[c] - SizeOf(f, S, c), 0})]

WarningSize == (_maxRepoSize * 95) \div 100

-----------------------------------------------------------------------------
(* Repository::remove, for PELs S at once: the file, if there still is     *)
(* one, goes to the archive.                                               *)

\* Seeded fault: a PEL is counted whether or not its file was moved.
CountGone(S) ==
    LET moved == S \cap DOMAIN files
    IN  /\ files' = Without(files, moved)
        /\ archive' = archive + SizeOf(files, moved, "total")
        /\ archiveSize' = archiveSize + SizeOf(pelAttributes, S, "total")

MoveToArchive(S) ==
    LET moved == S \cap DOMAIN files
    IN  /\ files' = Without(files, moved)
        /\ archive' = archive + SizeOf(files, moved, "total")
        /\ archiveSize' = archiveSize + SizeOf(files, moved, "total")

remove(S) ==
    /\ sizes' = StatsWithout(sizes, pelAttributes, S \cap PELs)
    /\ pelAttributes' = Without(pelAttributes, S)
    /\ MoveToArchive(S \cap PELs)

-----------------------------------------------------------------------------
(* Arrival of a PEL with a new event log.                                  *)

idle == idsToDelete = {}

NewLog ==
    /\ idle
    /\ lastLog < MaxPELs
    /\ lastLog' = lastLog + 1
    /\ logs' = logs \cup {lastLog + 1}
    /\ UNCHANGED mapperUp

\* PELs the BMC did not make come over D-Bus.
fromDBus == ~prunePending /\ logToDelete = 0

overWarning(total, count) == total > WarningSize \/ count > _maxNumPELs

\* sizeWarning: an archive that no longer fits is deleted, as far as the file
\* system lets it be, before the repository's own size is looked at.
sizeWarning ==
    /\ IF archiveSize > 0 /\ sizes'["total"] + archiveSize > WarningSize
       THEN /\ archiveSize' = 0
            /\ archive' \in IF WritesFail THEN 0..archive ELSE {0}
       ELSE UNCHANGED <<archive, archiveSize>>
    /\ prunePending' = (prunePending
                        \/ overWarning(sizes'["total"], Cardinality(DOMAIN pelAttributes')))

\* The PEL is stored as new to the host and to the HMC.
add(kind) ==
    LET pel == [creator |-> kind.creator, severity |-> kind.severity,
                hidden |-> kind.hidden, guard |-> kind.guard,
                sizeOnDisk |-> kind.sizeOnDisk, hostState |-> "new", hmcState |-> "new"]
    IN  /\ NewLog
        /\ pelAttributes' = With(pelAttributes, lastLog + 1, pel)
        /\ files' = With(files, lastLog + 1, pel)
        /\ sizes' = StatsWith(sizes, pelAttributes', {lastLog + 1})
        /\ sizeWarning
        /\ UNCHANGED <<isolated, deletions, logToDelete, idsToDelete>>

\* The PEL of an event of the BMC, and one that its creator has passed in.
createPEL(kind) == isBMC(kind) /\ add(kind)
addPEL(kind) == ~isBMC(kind) /\ fromDBus /\ add(kind)

\* The PEL's file cannot be written (or the raw PEL it is made from not read):
\* the event log stays, without a PEL.  What was written of the file is
\* removed, which inotify reports to no effect.
addFails ==
    /\ WritesFail
    /\ NewLog
    /\ UNCHANGED <<pelAttributes, files, sizes, archive, archiveSize, isolated,
                   deletions, prunePending, logToDelete, idsToDelete>>

\* A hostboot PEL has its ID from hostboot.  One whose ID is in the repository
\* goes straight to the archive, and its event log is to go.
addDuplicate(kind) ==
    /\ kind.creator = "hostboot" /\ fromDBus
    /\ \E p \in PELs : pelAttributes[p].creator = "hostboot"
    /\ NewLog
    /\ archive' = archive + kind.sizeOnDisk
    /\ archiveSize' = archiveSize + kind.sizeOnDisk
    /\ logToDelete' = lastLog + 1
    /\ UNCHANGED <<pelAttributes, files, sizes, isolated, deletions, prunePending,
                   idsToDelete>>

\* So is that of a raw PEL that is not valid.
addInvalid ==
    /\ fromDBus
    /\ NewLog
    /\ logToDelete' = lastLog + 1
    /\ UNCHANGED <<pelAttributes, files, sizes, archive, archiveSize, isolated,
                   deletions, prunePending, idsToDelete>>

deleteObmcLog ==
    /\ idle
    /\ logToDelete # 0
    /\ EraseLogs({logToDelete})
    /\ logToDelete' = 0
    /\ UNCHANGED <<pelAttributes, files, sizes, archive, archiveSize, lastLog, deletions,
                   prunePending, idsToDelete>>

-----------------------------------------------------------------------------
(* Transmission states.                                                    *)

\* Seeded fault: the index is not brought up to date.
fileOnly(p, pel) ==
    /\ files' = [files EXCEPT ![p] = pel]
    /\ UNCHANGED <<pelAttributes, deletions>>

\* updatePEL for PEL p, whose file is there.  A file that cannot be written is
\* removed, behind the back of the index.
updatePEL(p, pel) ==
    /\ pelAttributes' = [pelAttributes EXCEPT ![p] = pel]
    /\ \/ /\ files' = [files EXCEPT ![p] = pel]
          /\ UNCHANGED deletions
       \/ /\ WritesFail /\ Len(deletions) < MaxDeletions
          /\ files' = Without(files, {p})
          /\ deletions' = Append(deletions, p)

\* HostNotifier's calls; without a file the call is logged and has no effect.
setPELHostTransState(p, state) ==
    /\ idle
    /\ p \in DOMAIN files /\ pelAttributes[p].hostState # state
    /\ updatePEL(p, [files[p] EXCEPT !.hostState = state])
    /\ UNCHANGED <<sizes, archive, archiveSize, logs, isolated, mapperUp, lastLog,
                   prunePending, logToDelete, idsToDelete>>

\* PELEntry::managementSystemAck, which the HMC sets.
setPELHMCTransState(p, state) ==
    /\ idle
    /\ p \in DOMAIN files /\ pelAttributes[p].hmcState # state
    /\ updatePEL(p, [files[p] EXCEPT !.hmcState = state])
    /\ UNCHANGED <<sizes, archive, archiveSize, logs, isolated, mapperUp, lastLog,
                   prunePending, logToDelete, idsToDelete>>

-----------------------------------------------------------------------------
(* Pruning.  An index and its totals are a record [pels, sizes].           *)

\* Seeded fault: PELs the host has not acked go before those it has.
SentFirst(pel) ==
    CASE pel.hmcState = "acked"   -> 1
      [] pel.hostState = "sent"   -> 2
      [] pel.hostState = "acked"  -> 3
      [] OTHER                    -> 4

\* The first of the four passes that takes the PEL.
Pass(pel) ==
    CASE pel.hmcState = "acked"   -> 1
      [] pel.hostState = "acked"  -> 2
      [] pel.hostState = "sent"   -> 3
      [] OTHER                    -> 4

\* Passes go over the PELs from the oldest to the newest.
Precedes(f, p, q) ==
    \/ Pass(f[p]) < Pass(f[q])
    \/ Pass(f[p]) = Pass(f[q]) /\ p < q

Drop(r, S) == [pels |-> Without(r.pels, S), sizes |-> StatsWithout(r.sizes, r.pels, S)]

\* Seeded fault: no isolation entry is found.
noIds(named) == named

\* DataInterface's answer: the event logs that unresolved isolation entries name,
\* and those, named, that another object has as its error_log.
getLogIDWithHwIsolation(named) == isolated \cup named

Percent(stat) == IF stat \in {"bmcInfo", "nonBMCInfo"} THEN 15 ELSE 30

\* Seeded fault: the share is rounded up.
OverRoundedShare(r, stat) == r.sizes[stat] > (_maxRepoSize * Percent(stat) + 99) \div 100

OverShare(r, stat) == r.sizes[stat] > (_maxRepoSize * Percent(stat)) \div 100

\* A class of PELs is a total they count in; all of them together are limited
\* by number.
isOverLimit(r, stat) ==
    IF stat = "total" THEN Cardinality(DOMAIN r.pels) > (_maxNumPELs * 80) \div 100
                      ELSE OverShare(r, stat)

\* A PEL is removed if those before it were not enough; those of event logs ids
\* are spared.
removePELs(r, stat, ids) ==
    LET pels == {p \in DOMAIN r.pels \ ids : stat \in StatsOf(r.pels[p])}
    IN  Drop(r, {p \in pels :
                     isOverLimit(Drop(r, {q \in pels : Precedes(r.pels, q, p)}), stat)})

prune(r, ids) ==
    LET left1 == removePELs(r, "bmcInfo", ids)
        left2 == removePELs(left1, "bmcServiceable", ids)
        left3 == removePELs(left2, "nonBMCInfo", ids)
        left4 == removePELs(left3, "nonBMCServiceable", ids)
    IN  IF Cardinality(DOMAIN left4.pels) > _maxNumPELs
        THEN removePELs(left4, "total", ids)
        ELSE left4

pruneRepo(named) ==
    LET r == prune([pels |-> pelAttributes, sizes |-> sizes], getLogIDWithHwIsolation(named))
        removed == PELs \ DOMAIN r.pels
    IN  /\ idle
        /\ prunePending /\ mapperUp
        /\ prunePending' = FALSE
        /\ UNCHANGED <<logs, isolated, mapperUp, lastLog, deletions, logToDelete>>
        /\ pelAttributes' = r.pels
        /\ sizes' = r.sizes
        /\ MoveToArchive(removed)
        /\ idsToDelete' = removed

\* Without the mapper the question throws out of the handler: nothing is pruned
\* until a PEL that is too much arrives again.
pruneRepoFails ==
    /\ idle
    /\ prunePending /\ ~mapperUp
    /\ prunePending' = FALSE
    /\ UNCHANGED <<pelAttributes, files, sizes, archive, archiveSize, logs, isolated,
                   mapperUp, lastLog, deletions, logToDelete, idsToDelete>>

\* ... and its loop over the event logs; their PELs are gone, so that nothing
\* prohibits it.
pruneLog ==
    \E id \in idsToDelete :
        /\ idsToDelete' = idsToDelete \ {id}
        /\ EraseLogs({id})
        /\ UNCHANGED <<pelAttributes, files, sizes, archive, archiveSize, lastLog,
                       deletions, prunePending, logToDelete>>

-----------------------------------------------------------------------------
(* Deletion.                                                               *)

\* The PEL's D-Bus object, which has the guard flag, is there when the PEL is: it
\* is made in the handler that adds the PEL and when PELs are restored.  A mapper
\* that does not answer is taken for one that knows of no isolation entry.
isDeleteProhibited(id) ==
    id \in PELs /\ pelAttributes[id].guard /\ id \in isolated /\ mapperUp

\* Deletion of an event log by a client of the LogManager.
erase(id) ==
    /\ idle
    /\ id \in logs /\ ~isDeleteProhibited(id)
    /\ EraseLogs({id})
    /\ remove({id})
    /\ UNCHANGED <<lastLog, deletions, prunePending, logToDelete, idsToDelete>>

\* peltool deletes a file.
peltoolDelete(p) ==
    /\ PeltoolRuns
    /\ Len(deletions) < MaxDeletions
    /\ p \in DOMAIN files
    /\ files' = Without(files, {p})
    /\ deletions' = Append(deletions, p)
    /\ UNCHANGED <<pelAttributes, sizes, archive, archiveSize, logs, isolated, mapperUp,
                   lastLog, prunePending, logToDelete, idsToDelete>>

\* Seeded fault: the event log is looked up once the PEL is gone.
logAfter(p) == {p} \cap DOMAIN pelAttributes'

\* The event log of the PEL that remove() returns.
removedLogID(p) == {p} \cap PELs

handlePELDelete ==
    /\ idle
    /\ deletions # << >>
    /\ deletions' = Tail(deletions)
    /\ remove({Head(deletions)})
    /\ EraseLogs(removedLogID(Head(deletions)))
    /\ UNCHANGED <<lastLog, prunePending, logToDelete, idsToDelete>>

-----------------------------------------------------------------------------
(* Hardware isolation, another service: entries come for PELs that guard   *)
(* hardware, and are resolved.                                             *)

Isolate(p) ==
    /\ p \in PELs \cap logs /\ pelAttributes[p].guard
    /\ isolated' = isolated \cup {p}
    /\ UNCHANGED <<pelAttributes, files, sizes, archive, archiveSize, logs, mapperUp,
                   lastLog, deletions, prunePending, logToDelete, idsToDelete>>

Release(p) ==
    /\ p \in isolated
    /\ isolated' = isolated \ {p}
    /\ UNCHANGED <<pelAttributes, files, sizes, archive, archiveSize, logs, mapperUp,
                   lastLog, deletions, prunePending, logToDelete, idsToDelete>>

\* The object mapper goes away or comes back.
MapperChanges ==
    /\ mapperUp' = ~mapperUp
    /\ UNCHANGED <<pelAttributes, files, sizes, archive, archiveSize, logs, isolated,
                   lastLog, deletions, prunePending, logToDelete, idsToDelete>>

-----------------------------------------------------------------------------
(* The daemon starts again, after a stop between two handlers or, if       *)
(* Crashes, a crash within one: in the middle of writing a file, which is  *)
(* then invalid and removed; or of the erasure of an event log, whose file *)
(* is gone while its PEL is not.  A failure to write a PEL that is to be   *)
(* sent again removes its file, upon which getFileDiskSize() aborts the    *)
(* daemon; it then starts without that PEL.                                *)

\* restore: a PEL the host was sent but has not acked goes out again.
restored(pel) ==
    IF pel.hostState = "sent" THEN [pel EXCEPT !.hostState = "new"] ELSE pel

Restart(torn, cut) ==
    LET intact == [p \in DOMAIN files \ torn |-> restored(files[p])]
    IN  /\ files' = intact
        /\ pelAttributes' = intact
        /\ sizes' = StatsWith([c \in Stats |-> 0], intact, DOMAIN intact)
        /\ archiveSize' = archive
        /\ EraseLogs(cut)
        /\ deletions' = << >> /\ prunePending' = FALSE
        /\ logToDelete' = 0 /\ idsToDelete' = {}
        /\ UNCHANGED <<archive, lastLog>>

restart ==
    \/ Restart({}, {})
    \/ \E p \in {q \in DOMAIN files : Crashes \/ (WritesFail /\ files[q].hostState = "sent")} :
           Restart({p}, {})
    \/ Crashes /\ \E id \in logs : ~isDeleteProhibited(id) /\ Restart({}, {id})

-----------------------------------------------------------------------------
Next ==
    \/ \E kind \in Kinds : createPEL(kind) \/ addPEL(kind) \/ addDuplicate(kind)
    \/ addFails \/ addInvalid \/ deleteObmcLog
    \/ \E p \in PELs :
           \/ \E state \in HostStates : setPELHostTransState(p, state)
           \/ \E state \in HMCStates : setPELHMCTransState(p, state)
    \/ \E named \in SUBSET Associated : pruneRepo(named)
    \/ pruneRepoFails \/ pruneLog
    \/ \E id \in logs : erase(id)
    \/ \E p \in DOMAIN files : peltoolDelete(p)
    \/ handlePELDelete
    \/ \E p \in PELs : Isolate(p)
    \/ \E p \in isolated : Release(p)
    \/ MapperChanges
    \/ restart

Spec == Init /\ [][Next]_vars

-----------------------------------------------------------------------------
(* Properties.                                                             *)

PELRecord == [creator : {"bmc", "hostboot", "other"}, severity : Severities,
              hidden : BOOLEAN, guard : BOOLEAN, sizeOnDisk : Nat,
              hostState : HostStates, hmcState : HMCStates]

\* Every variable has its type.
TypeOK ==
    /\ PELs \subseteq 1..MaxPELs /\ \A p \in PELs : pelAttributes[p] \in PELRecord
    /\ DOMAIN files \subseteq 1..MaxPELs /\ \A p \in DOMAIN files : files[p] \in PELRecord
    /\ sizes \in [Stats -> Nat]
    /\ archive \in Nat /\ archiveSize \in Nat
    /\ logs \subseteq 1..MaxPELs /\ isolated \subseteq 1..MaxPELs
    /\ mapperUp \in BOOLEAN
    /\ lastLog \in 0..MaxPELs
    /\ \A i \in DOMAIN deletions : deletions[i] \in 1..MaxPELs
    /\ prunePending \in BOOLEAN
    /\ logToDelete \in 0..MaxPELs
    /\ idsToDelete \subseteq 1..MaxPELs

\* The running totals updateRepoStats keeps are the totals of the index: none
\* drifts, and the clamp at zero never hides a loss.
SizesAddUp == TypeOK /\ \A c \in Stats : sizes[c] = SizeOf(pelAttributes, PELs, c)

\* The index says what the files say: a PEL without its file is one that a
\* pending inotify event will remove, and no file is unknown to the index.
IndexMatchesFiles ==
    /\ DOMAIN files \subseteq PELs
    /\ \A p \in PELs : \/ p \in DOMAIN files /\ files[p] = pelAttributes[p]
                       \/ p \notin DOMAIN files /\ Contains(deletions, p)

\* The archive's running total never exceeds what the archive folder holds, and
\* when deletion of archived files cannot fail it is exactly that (the run lets it
\* fail: there the second half is proved only).
ArchiveAccounted ==
    archiveSize <= archive /\ (~WritesFail => archiveSize = archive)

\* After pruneRepo each of the four kinds of PEL is within its share of the
\* space, the PELs together take at most nine tenths of it and there are at
\* most as many as allowed, save where only PELs are left that are isolated or
\* that another object names (a step that leaves more is no pruneRepo).
PruneReachesLimits ==
    [][\A named \in SUBSET Associated :
        LET left == DOMAIN pelAttributes'
            spared == isolated \cup named
            within(stat, percent) ==
                \/ sizes'[stat] <= (_maxRepoSize * percent) \div 100
                \/ \A p \in left : stat \in StatsOf(pelAttributes'[p]) => p \in spared
        IN  \/ /\ within("bmcInfo", 15) /\ within("bmcServiceable", 30)
               /\ within("nonBMCInfo", 15) /\ within("nonBMCServiceable", 30)
               /\ Cardinality(left) <= _maxNumPELs \/ left \subseteq spared
               /\ left \cap spared = {} => 10 * sizes'["total"] <= 9 * _maxRepoSize
            \/ ~pruneRepo(named)]_vars

\* pruneRepo never gives up a PEL for one of the same kind that an earlier pass
\* takes, or an older one of the same pass, unless that one is spared: what the
\* HMC has acked goes first, then what the host has acked, then what it was sent.
PruneTakesLeastNeeded ==
    [][\A p \in PELs \ DOMAIN pelAttributes', q \in PELs \cap DOMAIN pelAttributes' :
        LET rank(pel) == CASE pel.hmcState = "acked"  -> 1
                           [] pel.hostState = "acked" -> 2
                           [] pel.hostState = "sent"  -> 3
                           [] OTHER                   -> 4
            gone == rank(pelAttributes[p])
            left == rank(pelAttributes[q])
            misplaced == StatsOf(pelAttributes[p]) = StatsOf(pelAttributes[q])
                         /\ (left < gone \/ (left = gone /\ q < p))
        IN  misplaced => \A named \in SUBSET Associated :
                             pruneRepo(named) => q \in isolated \cup named]_vars

\* The PEL that an unresolved hardware isolation entry names leaves the index
\* only once its file has been deleted (by peltool, by a failed write) or torn
\* by a crash, or when a client deletes its event log while the object mapper does
\* not answer, which lifts the prohibition.  Pruning never removes it, with the
\* mapper or without.
IsolatedPELKept ==
    [][\A p \in isolated \cap DOMAIN files :
        \/ p \in DOMAIN pelAttributes' \/ restart
        \/ ~mapperUp /\ erase(p)]_vars

\* A PEL is not removed alone: unless the daemon goes down, the step that takes
\* a PEL out of the index erases its event log or is a prune that has yet to.
LogGoesWithPEL ==
    [][\A p \in PELs \ DOMAIN pelAttributes' : p \notin logs' \/ p \in idsToDelete' \/ restart]_vars
=============================================================================
