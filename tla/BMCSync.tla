------------------------------ MODULE BMCSync ------------------------------
(***************************************************************************)
(* The log manager of a BMC with a redundant partner (the redundant-bmc    *)
(* build option).  A sync tool, another program, moves files of event logs *)
(* and of PELs into this BMC's directories and deletes them; inotify       *)
(* queues an event for each such change, and for the files the log manager *)
(* itself deletes.  The handlers bring the entries, the PEL index and the  *)
(* links between them up to date.  The BMC's position is the upper byte of *)
(* the ids of its event logs.                                              *)
(*                                                                         *)
(* The PEL of an event log is named by the event log's id.                 *)
(*                                                                         *)
(* An event log with a PEL may be of hardware that is isolated: then it    *)
(* can be neither deleted nor resolved.  The records of that are another   *)
(* program's and can be different at each look, so that a handler may or   *)
(* may not be refused.                                                     *)
(***************************************************************************)
EXTENDS Integers, Sequences, FiniteSets

CONSTANTS
    M,          \* values of the lower bytes of an id (2^24 in the code)
    NoPosition, \* the position of a BMC that does not know it (255 in the code)
    Position,   \* the position of this BMC
    SyncedIDs,  \* ids the sync tool handles
    MaxCreates, \* bound on event logs created here
    MaxSyncs    \* bound on what the sync tool does

Width == M * (NoPosition + 1)
IDs == 0..(Width - 1)

\* What an event log says: a property whose setter writes the file, and one
\* whose setter does not.
Fresh == [resolved |-> FALSE, message |-> "old"]
Changed == [resolved |-> TRUE, message |-> "new"]

VARIABLES
    entries,     \* id -> content, of the entries in memory
    errors,      \* id -> content, of the files of the event logs
    pels,        \* ids with a PEL file
    pelIndex,    \* ids with a PEL in the repository's index
    pendingPELs, \* ids with a PEL that waits for its event log
    entryId,     \* the last id
    bmcPosition, \* the position as far as it is known
    errEvents, pelEvents, \* the inotify queues
    refused,     \* (history) ids of which the last event could not be applied
    borrowed,    \* (history) the numbering went on from an id of the other BMC,
                 \* and not all has been deleted since
    creates, syncs        \* counts, for the bounds

logs == <<entries, errors, entryId, bmcPosition, errEvents, refused, borrowed>>
repo == <<pels, pelIndex, pendingPELs, pelEvents>>
vars == <<entries, errors, pels, pelIndex, pendingPELs, entryId, bmcPosition,
          errEvents, pelEvents, refused, borrowed, creates, syncs>>

Without(f, S) == [i \in DOMAIN f \ S |-> f[i]]
With(f, i, c) == [j \in DOMAIN f \cup {i} |-> IF j = i THEN c ELSE f[j]]
Deleted(S) == {<<"DELETE", i>> : i \in S}
MovedTo(i) == <<"MOVED_TO", i>>

\* The event for the deletion of the file of i, if it is one of S.
Queue(i, S) == IF i \in S THEN << <<"DELETE", i>> >> ELSE << >>

\* Events for the deletion of the files of S, in the order of the ids: a set
\* with the one such sequence.
Queues(S) ==
    {q \in [1..Cardinality(S) -> Deleted(S)] :
        /\ \A m, n \in DOMAIN q : m < n => q[m][2] < q[n][2]
        /\ \A e \in Deleted(S) : \E n \in DOMAIN q : q[n] = e}

Init ==
    /\ entries = << >> /\ errors = << >>
    /\ pels = {} /\ pelIndex = {} /\ pendingPELs = {}
    /\ entryId = 0
    /\ bmcPosition \in {Position, NoPosition}
    /\ errEvents = << >> /\ pelEvents = << >>
    /\ refused = {} /\ borrowed = FALSE
    /\ creates = 0 /\ syncs = 0

-----------------------------------------------------------------------------
(* Ids.                                                                    *)

idContainsCurrentPosition(i, p) == i \div M = p

Largest(S) == CHOOSE i \in S : \A j \in S : j <= i

\* The largest id of this BMC's among the entries with ids S, or 0.
LastOwn(S, p) ==
    Largest({i \in S : idContainsCurrentPosition(i, p)} \cup {0})

\* setPrefixInEntryId and checkEntryIdRollover.
processEntryId(i, p) == p * M + (IF i % M = M - 1 THEN 0 ELSE i % M)

\* The ids createEntry may take after last, for a BMC at position p: the next
\* one, or one made from the time (uint32_t arithmetic).
NextIDs(last, p) ==
    IF p = NoPosition
    THEN {(p * M + t + 1) % Width : t \in 0..(M - 1)}
    ELSE {processEntryId(last, p) + 1}

-----------------------------------------------------------------------------
(* The log manager's own operations.                                       *)

\* The delete prohibited functions, for an event log that may be of isolated
\* hardware: Manager::isDeleteProhibited looks only at those with a PEL.
MayBeProhibited(i) == i \in pelIndex

\* erase() of the entries S, the PELs included, which go to the archive.
Erase(S) ==
    /\ entries' = Without(entries, S)
    /\ errors' = Without(errors, S)
    /\ pelIndex' = pelIndex \ S
    /\ pels' = pels \ (S \cap pelIndex)
    /\ refused' = refused \ S

\* The file with the position may be missing, or of no use.
readBMCPosition == bmcPosition' \in {NoPosition, Position}

\* The rest of createEntry(), where kept is what is left of the entries and
\* last is the last id.  A position that was not known is looked up again.
\* A second entry of the same id is refused by the bus before it is written:
\* the event is lost.
addEntry(kept, last) ==
    /\ IF bmcPosition = NoPosition THEN readBMCPosition ELSE UNCHANGED bmcPosition
    /\ LET gone == DOMAIN entries \ kept
           from == IF bmcPosition' # bmcPosition THEN LastOwn(kept, bmcPosition') ELSE last
       IN  \E i \in NextIDs(from, bmcPosition') :
              LET new == {i} \ kept
              IN  /\ entryId' = i
                  /\ entries' = [j \in kept \cup new |-> IF j \in new THEN Fresh ELSE entries[j]]
                  /\ errors' = [j \in (DOMAIN errors \ gone) \cup new |->
                                   IF j \in new THEN Fresh ELSE errors[j]]
                  /\ pels' = (pels \ (gone \cap pelIndex)) \cup new
                  /\ pelIndex' = (pelIndex \ gone) \cup new
                  /\ refused' = refused \ (gone \cup new)

createEntry ==
    /\ creates < MaxCreates
    /\ creates' = creates + 1
    /\ addEntry(DOMAIN entries, entryId)
    /\ UNCHANGED <<pendingPELs, errEvents, pelEvents, borrowed, syncs>>

\* A client deletes an event log (and a call that is refused does nothing).
erase(i) ==
    /\ i \in DOMAIN entries
    /\ Erase({i})
    /\ errEvents' = errEvents \o Queue(i, DOMAIN errors)
    /\ UNCHANGED <<pendingPELs, entryId, bmcPosition, pelEvents, borrowed, creates, syncs>>

\* eraseAll()'s last id: of the entries kept the largest, whose ever it is.
LastKept(kept) == IF kept = {} THEN 0 ELSE Largest(kept)

\* deleteAll(): eraseAll(), which keeps the entries of the isolation list and
\* those whose deletion is refused, then the entry that says so.
deleteAll ==
    /\ creates < MaxCreates
    /\ creates' = creates + 1
    /\ \E kept \in SUBSET DOMAIN entries :
          /\ addEntry(kept, LastKept(kept))
          /\ borrowed' = (/\ kept # {}
                          /\ \/ borrowed
                             \/ /\ bmcPosition # NoPosition
                                /\ ~idContainsCurrentPosition(LastKept(kept), bmcPosition))
          /\ \E q \in Queues((DOMAIN entries \ kept) \cap DOMAIN errors) :
                errEvents' = errEvents \o q
    /\ UNCHANGED <<pendingPELs, pelEvents, syncs>>

\* eraseAll() without an isolation list ends at the first refusal, and the
\* exception ends deleteAll() too.
deleteAllEnds(i) ==
    /\ MayBeProhibited(i)
    /\ LET gone == {j \in DOMAIN entries : j < i}
       IN  /\ Erase(gone)
           /\ \E q \in Queues(gone \cap DOMAIN errors) : errEvents' = errEvents \o q
    /\ UNCHANGED <<pendingPELs, entryId, bmcPosition, pelEvents, borrowed, creates, syncs>>

-----------------------------------------------------------------------------
(* The sync tool.                                                          *)

Sync == syncs < MaxSyncs /\ syncs' = syncs + 1 /\ UNCHANGED creates

SyncLog(i, c) ==
    /\ Sync
    /\ errors' = With(errors, i, c)
    /\ errEvents' = Append(errEvents, MovedTo(i))
    /\ UNCHANGED <<entries, entryId, bmcPosition, refused, borrowed, repo>>

SyncLogGone(i) ==
    /\ Sync
    /\ i \in DOMAIN errors
    /\ errors' = Without(errors, {i})
    /\ errEvents' = errEvents \o Queue(i, DOMAIN errors)
    /\ UNCHANGED <<entries, entryId, bmcPosition, refused, borrowed, repo>>

SyncPEL(i) ==
    /\ Sync
    /\ pels' = pels \cup {i}
    /\ pelEvents' = Append(pelEvents, MovedTo(i))
    /\ UNCHANGED <<logs, pelIndex, pendingPELs>>

SyncPELGone(i) ==
    /\ Sync
    /\ i \in pels
    /\ pels' = pels \ {i}
    /\ pelEvents' = pelEvents \o Queue(i, pels)
    /\ UNCHANGED <<logs, pelIndex, pendingPELs>>

-----------------------------------------------------------------------------
(* errorFileChanged().                                                     *)

ErrEvent(kind, i) ==
    /\ errEvents # << >>
    /\ Head(errEvents) = <<kind, i>>
    /\ UNCHANGED <<creates, syncs>>

\* completePELLink(): a PEL that waits, of those waiting, enters the index.
completePELLink(i, waiting) ==
    /\ pelIndex' = IF i \in waiting THEN pelIndex \cup {i} ELSE pelIndex
    /\ pendingPELs' = waiting \ {i}

\* Seeded fault: only an entry whose file is new to the log manager is linked.
linkNothing(i, loaded, waiting) ==
    /\ pelIndex' = pelIndex
    /\ pendingPELs' = waiting

\* linkPELToEventLog(): the PEL is indexed once both it and the event log, of
\* those loaded, are there.
linkPELToEventLog(i, loaded, waiting) ==
    IF i \in loaded THEN completePELLink(i, waiting)
    ELSE pelIndex' = pelIndex /\ pendingPELs' = waiting

\* Seeded fault: the last id is left alone.
lastUnchanged(i) == entryId

\* An own event log that comes back counts for the numbering.
lastWith(i) ==
    IF idContainsCurrentPosition(i, bmcPosition) /\ i > entryId THEN i ELSE entryId

\* deserialize() of a file that was moved in may fail: the file is saved
\* elsewhere, of which inotify tells nothing.
corruptError(i) == errors' = Without(errors, {i})

\* The file of i is read into a new entry, or does not parse, or has the id of
\* another event log in it, with which it stays where it is.
restoreFromDisk(i) ==
    /\ ErrEvent("MOVED_TO", i)
    /\ i \notin DOMAIN entries
    /\ errEvents' = Tail(errEvents)
    /\ \/ /\ i \in DOMAIN errors
          /\ entries' = With(entries, i, errors[i])
          /\ linkPELToEventLog(i, DOMAIN entries', pendingPELs)
          /\ entryId' = lastWith(i)
          /\ refused' = refused \ {i}
          /\ UNCHANGED errors
       \/ /\ i \in DOMAIN errors
          /\ corruptError(i) \/ UNCHANGED errors
          /\ refused' = refused \cup {i}
          /\ UNCHANGED <<entries, pelIndex, pendingPELs, entryId>>
       \/ /\ i \notin DOMAIN errors
          /\ UNCHANGED <<entries, errors, pelIndex, pendingPELs, entryId, refused>>
    /\ UNCHANGED <<bmcPosition, borrowed, pels, pelEvents>>

\* Entry::operator=: setting the one property writes the file as the entry
\* is before the other one is set.
assignEntry(i) ==
    /\ entries' = With(entries, i, errors[i])
    /\ errors' = IF entries[i].resolved = errors[i].resolved THEN errors
                 ELSE With(errors, i, [entries[i] EXCEPT !.resolved = errors[i].resolved])
    /\ refused' = refused \ {i}

\* The file of i is read into its entry; or it does not parse; or the entry
\* may not be resolved, or reopened, which leaves it as it is.
refreshFromDisk(i) ==
    /\ ErrEvent("MOVED_TO", i)
    /\ i \in DOMAIN entries
    /\ errEvents' = Tail(errEvents)
    /\ \/ i \in DOMAIN errors /\ assignEntry(i)
       \/ /\ i \in DOMAIN errors
          /\ \/ corruptError(i)
             \/ /\ MayBeProhibited(i) /\ entries[i].resolved # errors[i].resolved
                /\ UNCHANGED errors
          /\ refused' = refused \cup {i}
          /\ UNCHANGED entries
       \/ i \notin DOMAIN errors /\ UNCHANGED <<entries, errors, refused>>
    /\ UNCHANGED <<entryId, bmcPosition, borrowed, repo>>

\* The entry is erased, and the file with it if there is one again; or it may
\* not be, and stays.
errorFileDeleted(i) ==
    /\ ErrEvent("DELETE", i)
    /\ \/ /\ i \in DOMAIN entries
          /\ Erase({i})
          /\ errEvents' = Tail(errEvents) \o Queue(i, DOMAIN errors)
       \/ /\ MayBeProhibited(i)
          /\ errEvents' = Tail(errEvents)
          /\ refused' = refused \cup {i}
          /\ UNCHANGED <<entries, errors, pelIndex, pels>>
       \/ /\ i \notin DOMAIN entries
          /\ errEvents' = Tail(errEvents)
          /\ UNCHANGED <<entries, errors, pelIndex, pels, refused>>
    /\ UNCHANGED <<pendingPELs, entryId, bmcPosition, pelEvents, borrowed>>

-----------------------------------------------------------------------------
(* pelFileChanged().                                                       *)

PELEvent(kind, i) ==
    /\ pelEvents # << >>
    /\ Head(pelEvents) = <<kind, i>>
    /\ pelEvents' = Tail(pelEvents)
    /\ UNCHANGED <<creates, syncs>>

\* The file may be gone again when its event is handled.
parsePELFile(i) == i \in pels

importPELFromFile(i) == pendingPELs \cup {i}

\* Only attributes of the PEL change, which the index has here no room for.
updatePELFromFile == UNCHANGED <<pelIndex, pendingPELs>>

\* refreshPELFromDisk for a PEL that is known, else restorePELFromDisk.
handlePELMovedTo(i) ==
    /\ PELEvent("MOVED_TO", i)
    /\ CASE i \in pelIndex -> updatePELFromFile
         [] i \notin pelIndex /\ parsePELFile(i) ->
                linkPELToEventLog(i, DOMAIN entries, importPELFromFile(i))
         [] OTHER -> UNCHANGED <<pelIndex, pendingPELs>>
    /\ UNCHANGED <<logs, pels>>

\* The PEL leaves the index and takes its event log with it, which nothing
\* prohibits without the PEL.
handlePELDelete(i) ==
    /\ PELEvent("DELETE", i)
    /\ IF i \in pelIndex
       THEN /\ Erase({i})
            /\ errEvents' = errEvents \o Queue(i, DOMAIN entries \cap DOMAIN errors)
       ELSE UNCHANGED <<entries, errors, pelIndex, pels, refused, errEvents>>
    /\ UNCHANGED <<pendingPELs, entryId, bmcPosition, borrowed>>

-----------------------------------------------------------------------------
SyncTool ==
    \E i \in SyncedIDs :
        \/ \E c \in {Fresh, Changed} : SyncLog(i, c)
        \/ SyncLogGone(i) \/ SyncPEL(i) \/ SyncPELGone(i)

Handlers ==
    \E i \in IDs :
        \/ restoreFromDisk(i) \/ refreshFromDisk(i) \/ errorFileDeleted(i)
        \/ handlePELMovedTo(i) \/ handlePELDelete(i)

\* The bounds are reached and there is nothing left to do.
Done ==
    /\ creates = MaxCreates /\ syncs = MaxSyncs
    /\ errEvents = << >> /\ pelEvents = << >> /\ entries = << >>
    /\ UNCHANGED vars

Next ==
    \/ createEntry \/ deleteAll
    \/ \E i \in IDs : erase(i) \/ deleteAllEnds(i)
    \/ SyncTool
    \/ Handlers
    \/ Done

Spec == Init /\ [][Next]_vars

-----------------------------------------------------------------------------
(* Properties.                                                             *)

Quiet == errEvents = << >> /\ pelEvents = << >>

\* Once the events are handled, the entries in memory are those on disk, and
\* agree with them on what setters write, save where the last event of an id
\* could not be applied: no order of local operations, moved in files and
\* deletions leaves another entry without its file or the reverse, and an id
\* that was refused is up to date again with the next event that is not.
EntriesFollowFiles ==
    errEvents = << >> =>
        \A i \in (DOMAIN entries \cup DOMAIN errors) \ refused :
            /\ i \in DOMAIN entries /\ i \in DOMAIN errors
            /\ entries[i].resolved = errors[i].resolved

\* Once the events are handled, every event log whose PEL is there is linked
\* to it, whichever of the two files came first.
PELsAreLinked == Quiet => DOMAIN entries \cap pels \subseteq pelIndex

\* A new event log of a BMC that knows its position has an id of its own: not
\* that of another event log of either BMC, which would be the loss of the
\* event.  (Not so once eraseAll has kept entries and taken the last id from
\* an event log of the other BMC: own ones that were kept are met again.)
OwnIDsFresh ==
    [][createEntry /\ bmcPosition' # NoPosition /\ ~borrowed =>
          entryId' \notin DOMAIN entries]_vars

-----------------------------------------------------------------------------
(* What a comment says of the code, and the code does not do.              *)

\* log_manager.cpp, setupErrorFileWatch: a deletion event removes the entry
\* of a file that the sync removed.  (It also removes an entry whose file is
\* there, such as the one that deleteAll has just created.)
OnlyRemovedFilesErase ==
    [][\A i \in DOMAIN entries :
          errorFileDeleted(i) /\ i \notin DOMAIN entries' => i \notin DOMAIN errors]_vars
=============================================================================
