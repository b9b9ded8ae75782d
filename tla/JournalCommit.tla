--------------------------- MODULE JournalCommit ---------------------------
(***************************************************************************)
(* How an error gets from a program into the log manager by way of the     *)
(* journal: the program logs the error with its metadata and calls Commit  *)
(* (lib/elog.cpp); the log manager has journald sync (util.cpp,            *)
(* journalSync), reads the journal backwards for the metadata of the       *)
(* caller's transaction (log_manager.cpp, _commit) and creates the entry.  *)
(* Programs, journald and the log manager run concurrently, so each step   *)
(* of journalSync that another of them can notice is an action.            *)
(*                                                                         *)
(* A time stamp is abstracted to whether it is from after the start of the *)
(* journalSync in progress.                                                *)
(***************************************************************************)
EXTENDS Integers, SequencesExt

CONSTANTS
    Clients,     \* programs that log errors, one commit at a time
    Txns,        \* transaction ids
    Meta,        \* error type -> the metadata variables it is defined with
    MaxErrors,   \* bound on errors
    MaxTraces    \* bound on trace messages in the journal

Errors == DOMAIN Meta
PID == "_PID"

VARIABLES
    txn,     \* client -> its transaction id
    logged,  \* number of errors logged
    client,  \* client -> "running", the error it has logged, or "waiting" for its reply
    inbox,   \* messages sent to journald and not yet in the journal
    journal, \* messages in the journal
    stamp,   \* the synced file: "absent", "old" or "fresh"
    calls,   \* Commit calls not yet handled
    pc,      \* where the log manager is
    watch,   \* is the inotify watch installed?
    event,   \* has inotify an event to report?
    sawSync, \* did journalSync see a fresh stamp?
    committed  \* the entries created (the latest one: nothing reads the others)

daemon == <<calls, pc, watch, event, sawSync, committed>>
vars == <<txn, logged, client, inbox, journal, stamp, calls, pc, watch, event,
          sawSync, committed>>

Init ==
    /\ txn \in [Clients -> Txns]
    /\ logged = 0
    /\ client = [c \in Clients |-> "running"]
    /\ inbox = << >> /\ journal = << >>
    /\ stamp \in {"absent", "old"}
    /\ calls = << >>
    /\ pc = "idle"
    /\ watch = FALSE /\ event = FALSE
    /\ sawSync = FALSE
    /\ committed = {}

-----------------------------------------------------------------------------
(* The programs.                                                           *)

\* The message journald gets: metadata variable -> value.  Every message has
\* the sender's process id.
Message(c, names, value) ==
    [from |-> c, txn |-> txn[c],
     data |-> [v \in names \cup {PID} |-> IF v = PID THEN <<c>> ELSE <<c, value>>]]

Traces == Len(SelectSeq(journal \o inbox, LAMBDA m : DOMAIN m.data = {PID}))

trace(c) ==
    /\ client[c] # "waiting"
    /\ Traces < MaxTraces
    /\ inbox' = Append(inbox, Message(c, {}, 0))
    /\ UNCHANGED <<txn, logged, client, journal, stamp, daemon>>

\* elog(): the error is logged, then thrown.
elog(c, e) ==
    /\ client[c] = "running"
    /\ logged < MaxErrors
    /\ logged' = logged + 1
    /\ client' = [client EXCEPT ![c] = e]
    /\ inbox' = Append(inbox, Message(c, Meta[e], logged'))
    /\ UNCHANGED <<txn, journal, stamp, daemon>>

\* details::commit(), once the error is caught; the call blocks.
commit(c) ==
    /\ client[c] \in Errors
    /\ client' = [client EXCEPT ![c] = "waiting"]
    /\ calls' = Append(calls, [from |-> c, error |-> client[c]])
    /\ UNCHANGED <<txn, logged, inbox, journal, stamp, pc, watch, event, sawSync, committed>>

-----------------------------------------------------------------------------
(* journald.                                                               *)

journaldReceives ==
    /\ inbox # << >>
    /\ journal' = Append(journal, Head(inbox))
    /\ inbox' = Tail(inbox)
    /\ UNCHANGED <<txn, logged, client, stamp, daemon>>

\* The sync that SIGRTMIN+1 asks for, here or from elsewhere: everything sent
\* is in the journal before the stamp is renamed into place.
journaldSyncs ==
    /\ journal' = journal \o inbox
    /\ inbox' = << >>
    /\ stamp' = IF pc = "idle" THEN "old" ELSE "fresh"
    /\ event' = (event \/ watch)
    /\ UNCHANGED <<txn, logged, client, calls, pc, watch, sawSync, committed>>

\* Some other file is renamed in the watched directory.
otherFile ==
    /\ watch
    /\ event' = TRUE
    /\ UNCHANGED <<txn, logged, client, inbox, journal, stamp, calls, pc, watch,
                   sawSync, committed>>

-----------------------------------------------------------------------------
(* journalSync().                                                          *)

World == <<txn, logged, client, inbox, journal>>

\* Commit is called: journalSync takes the time.
journalSync ==
    /\ pc = "idle" /\ calls # << >>
    /\ pc' = "read1"
    /\ stamp' = IF stamp = "fresh" THEN "old" ELSE stamp
    /\ sawSync' = FALSE
    /\ UNCHANGED <<World, calls, watch, event, committed>>

isFresh == stamp = "fresh"

\* The stamp is read at the top of each of the three rounds; a file that is
\* there and cannot be read ends them.
readStamp(from, to) ==
    /\ pc = from
    /\ \/ isFresh /\ pc' = "scan" /\ sawSync' = TRUE
       \/ ~isFresh /\ pc' = to /\ UNCHANGED sawSync
       \/ stamp # "absent" /\ pc' = "scan" /\ UNCHANGED sawSync
    /\ UNCHANGED <<World, stamp, calls, watch, event, committed>>

\* KillUnit is called, or the call fails.
requestSync ==
    /\ pc = "request"
    /\ pc' \in {"read2", "scan"}
    /\ UNCHANGED <<World, stamp, calls, watch, event, sawSync, committed>>

\* The watch is installed, or that fails.
installWatch ==
    /\ pc = "watch"
    /\ \/ pc' = "read3" /\ watch' = TRUE
       \/ pc' = "scan" /\ UNCHANGED watch
    /\ UNCHANGED <<World, stamp, calls, event, sawSync, committed>>

\* poll() returns with an event, a time out or an error; this is the last round.
poll ==
    /\ pc = "poll"
    /\ pc' = "scan"
    /\ UNCHANGED <<World, stamp, calls, watch, event, sawSync, committed>>

-----------------------------------------------------------------------------
(* _commit().                                                              *)

\* Seeded fault: the first value found is replaced by older ones.
TakeOldest(found, m) == m.data @@ found

\* What a message adds to the metadata found in newer ones.
Take(found, m) == found @@ m.data

\* The values of the variables in metalist that the loop over the journal,
\* newest message first, collects for transaction t.
Collect(t, metalist) ==
    LET all == FoldRight(LAMBDA m, found : IF m.txn = t THEN Take(found, m) ELSE found,
                         journal, << >>)
    IN  [v \in metalist \cap DOMAIN all |-> all[v]]

Reply ==
    LET c == Head(calls).from
    IN  /\ client' = [client EXCEPT ![c] = "running"]
        /\ calls' = Tail(calls)
        /\ pc' = "idle"
        /\ watch' = FALSE
        /\ event' = FALSE
        /\ UNCHANGED <<txn, logged, inbox, journal, stamp, sawSync>>

scan ==
    /\ pc = "scan"
    /\ LET call == Head(calls)
       IN  committed' = {[from |-> call.from,
                        data |-> Collect(txn[call.from], Meta[call.error] \cup {PID})]}
    /\ Reply

\* The journal does not open: no entry, and the reply has the id of the last one.
scanFails ==
    /\ pc = "scan"
    /\ Reply
    /\ UNCHANGED committed

-----------------------------------------------------------------------------
(* Journal::getMessages reads backwards too, and stops at max messages.    *)

InsertFirst(m, lines) == <<m>> \o lines

getMessages(c, max) ==
    FoldRight(LAMBDA m, lines : IF m.from = c /\ Len(lines) < max
                                THEN InsertFirst(m, lines) ELSE lines,
              journal, << >>)

-----------------------------------------------------------------------------
Programs == \E c \in Clients : trace(c) \/ commit(c) \/ \E e \in Errors : elog(c, e)

Journald == journaldReceives \/ journaldSyncs \/ otherFile

LogManager ==
    \/ journalSync
    \/ readStamp("read1", "request") \/ readStamp("read2", "watch") \/ readStamp("read3", "poll")
    \/ requestSync \/ installWatch \/ poll
    \/ scan \/ scanFails

Next == Programs \/ Journald \/ LogManager

Spec == Init /\ [][Next]_vars

-----------------------------------------------------------------------------
(* Properties.                                                             *)

\* A journalSync that saw a fresh stamp has done its work: nothing that the
\* caller has logged is still on its way to the journal.
SyncFlushesCaller ==
    pc = "scan" /\ sawSync => \A n \in DOMAIN inbox : inbox[n].from # Head(calls).from

\* No wake-up is lost: when the log manager goes to sleep in poll() and the
\* sync has taken place already, inotify has its event.
NoLostWakeup == pc = "poll" /\ stamp = "fresh" => event

\* The error the client has logged last: its message is the newest of the
\* client that has metadata.
LastError(c) ==
    LET own == SelectSeq(journal, LAMBDA m : m.from = c /\ DOMAIN m.data # {PID})
    IN  IF own = << >> THEN << >> ELSE own[Len(own)].data

Alone(c) == \A d \in Clients \ {c} : txn[d] # txn[c]

\* The entry has the metadata the program logged with this error, all of it
\* and none of an earlier error or another program, if the sync worked and
\* the program shares its transaction with no other.
MetadataIsOwn ==
    [][\A e \in committed' :
          scan /\ sawSync /\ Alone(e.from) => e.data = LastError(e.from)]_vars

\* Journal::getMessages, which the openpower-pels extension puts into a PEL,
\* returns the latest messages of the program, as many as asked for or as
\* there are, oldest first.
LatestMessages ==
    \A c \in Clients, max \in 0..2 :
        LET all == SelectSeq(journal, LAMBDA m : m.from = c)
            n == Len(all)
        IN  getMessages(c, max) = SubSeq(all, IF n > max THEN n - max + 1 ELSE 1, n)
=============================================================================
