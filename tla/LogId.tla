------------------------------- MODULE LogId -------------------------------
(***************************************************************************)
(* PEL ids (log_id.cpp): a counter in a file, with the BMC's position in   *)
(* front of it.  The file may be cut off by a crash or a full disk, filled *)
(* with zeros by a power loss or refuse to be opened; an id is then made   *)
(* from the time.                                                          *)
(***************************************************************************)
EXTENDS Integers

CONSTANTS
    LastID,    \* where the counter wraps (0x00FFFFFF in the code)
    BMCs,      \* positions in the ids of event logs that are valid
    OtherBMCs  \* other values of the position byte, 0xFF among them

InvalidPosition == 15

\* Contents of the file that are no number.
Absent == 0
Empty == -1
Zeros == -2
Unreadable == {Empty, Zeros}

VARIABLES
    idFile,      \* the counter, or what there is instead
    checked,     \* has this process looked at the file for zeros?
    pelPosition, \* position::bmcPosition
    pelIDs,      \* the latest id: where it comes from, its position and number
    used         \* history: the counter's numbers handed out since it started

vars == <<idFile, checked, pelPosition, pelIDs, used>>

Init ==
    /\ idFile = Absent
    /\ checked = FALSE
    /\ pelPosition \in BMCs
    /\ pelIDs = {}
    /\ used = {}

\* The first call of the process looks for a file of zeros and removes it; in
\* an empty file it looks at a character that was never read.
checkFileForZeroData ==
    /\ ~checked
    /\ checked' = TRUE
    /\ IF idFile \in Unreadable
       THEN \/ idFile' = Absent /\ used' = {}
            \/ idFile = Empty /\ UNCHANGED <<idFile, used>>
       ELSE UNCHANGED <<idFile, used>>
    /\ UNCHANGED <<pelPosition, pelIDs>>

\* A new event log names the position.
extractBMCPositionFromLogID(p) ==
    /\ pelPosition' = IF p \in BMCs THEN p ELSE InvalidPosition
    /\ UNCHANGED <<idFile, checked, pelIDs, used>>

\* The number to hand out.
counter == IF idFile = Absent \/ idFile = LastID THEN 1 ELSE idFile

\* The numbers handed out since the counter last started from 1.
Used == IF idFile \in {Absent, LastID} THEN {} ELSE used

addLogIDPrefix(n) == [kind |-> "counter", pos |-> pelPosition, n |-> n % (LastID + 1)]

getTimeBasedLogID == [kind |-> "time", pos |-> pelPosition]

newID == IF pelPosition = InvalidPosition THEN getTimeBasedLogID ELSE addLogIDPrefix(counter)

\* The file is there and does not parse.
generateUnreadable ==
    /\ checked
    /\ idFile \in Unreadable
    /\ pelIDs' = {getTimeBasedLogID}
    /\ UNCHANGED <<idFile, checked, pelPosition, used>>

generatePELID ==
    /\ checked
    /\ idFile \notin Unreadable
    /\ idFile' = counter + 1
    /\ used' = Used \cup {counter}
    /\ pelIDs' = {newID}
    /\ UNCHANGED <<checked, pelPosition>>

\* Seeded fault: the number is handed out all the same.
generateUnwrittenID ==
    /\ checked
    /\ idFile \notin Unreadable
    /\ pelIDs' = {newID}
    /\ used' = Used \cup {counter}
    /\ UNCHANGED <<idFile, checked, pelPosition>>

\* The file does not open for writing.
generateUnwritten ==
    /\ checked
    /\ idFile \notin Unreadable
    /\ pelIDs' = {getTimeBasedLogID}
    /\ UNCHANGED <<idFile, checked, pelPosition, used>>

\* The disk is full: the stream is asked before its buffer is written, so the
\* number is handed out, and the truncated file stays empty.
generateUnflushed ==
    /\ checked
    /\ idFile \notin Unreadable
    /\ idFile' = Empty
    /\ used' = Used \cup {counter}
    /\ pelIDs' = {newID}
    /\ UNCHANGED <<checked, pelPosition>>

\* The daemon dies, perhaps while it writes the file, or the BMC loses power.
Crash ==
    /\ checked' = FALSE
    /\ pelPosition' \in BMCs
    /\ idFile' \in {idFile} \cup (IF idFile = Absent THEN {} ELSE Unreadable)
    /\ pelIDs' = {}
    /\ UNCHANGED used

Next ==
    \/ checkFileForZeroData
    \/ \E p \in BMCs \cup OtherBMCs : extractBMCPositionFromLogID(p)
    \/ generatePELID \/ generateUnreadable \/ generateUnwritten \/ generateUnflushed
    \/ Crash

Spec == Init /\ [][Next]_vars

-----------------------------------------------------------------------------
(* Properties.                                                             *)

\* "Just make up an ID so we don't reuse one next time": the counter's ids
\* are handed out once, across failed writes, crashes and restarts, until the
\* counter wraps or its file is found full of zeros.
CounterIDsOnce ==
    [][generatePELID \/ generateUnwritten \/ generateUnflushed =>
          \A id \in pelIDs' : id.kind = "counter" => id.n \notin Used]_vars

\* A counter's id has a number the masking of the prefix leaves alone, never
\* the 0 that a late wrap would give, and the position of a BMC.
IDsWellFormed ==
    \A id \in pelIDs : id.kind = "counter" => id.n \in 1..(LastID - 1) /\ id.pos \in BMCs
=============================================================================
