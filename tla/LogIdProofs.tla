---------------------------- MODULE LogIdProofs ----------------------------
(***************************************************************************)
(* For any length of the counter and any positions: the numbers in PEL ids *)
(* are handed out once.  The reason is that whatever is in the file, if it *)
(* is a number, is above all numbers handed out since the counter last     *)
(* started; a failed write or a crash leaves the file or makes it          *)
(* unreadable, and an unreadable file gives no number at all.              *)
(***************************************************************************)
EXTENDS LogId, TLAPS

\* The file holds no number or one above all that were handed out, and the
\* position is that of a BMC or invalid.
FileIsAhead ==
    /\ idFile \in {Absent, Empty, Zeros} \cup 2..LastID
    /\ used \subseteq 1..(LastID - 1)
    /\ idFile \in 2..LastID => \A n \in used : n < idFile
    /\ pelPosition \in BMCs \cup {InvalidPosition}

\* The masking of the prefix leaves a number of the counter alone.
LEMMA SmallMod ==
  ASSUME NEW m \in Nat, NEW n \in 0..m
  PROVE  n % (m + 1) = n
  OBVIOUS

\* The number to hand out is in range and is not one of those handed out.
LEMMA CounterIsNew ==
  ASSUME LastID \in Nat \ {0, 1}, FileIsAhead, idFile \notin Unreadable
  PROVE  /\ counter \in 1..(LastID - 1)
         /\ \A n \in Used : n < counter
         /\ Used \subseteq 1..(LastID - 1)
<1>1. idFile \in {0} \cup 2..LastID /\ used \subseteq 1..(LastID - 1)
  BY DEF FileIsAhead, Unreadable, Absent, Empty, Zeros
<1>2. CASE idFile \in {0, LastID}
  <2>1. counter = 1 /\ Used = {}
    BY <1>2 DEF counter, Used, Absent
  <2> QED  BY <2>1
<1>3. CASE idFile \notin {0, LastID}
  <2>1. counter = idFile /\ Used = used
    BY <1>3 DEF counter, Used, Absent
  <2>2. idFile \in 2..(LastID - 1)
    BY <1>1, <1>3
  <2> QED  BY <1>1, <2>1, <2>2 DEF FileIsAhead
<1> QED  BY <1>2, <1>3

\* Every call, crash and change of position keeps the file ahead.
LEMMA FileStaysAhead ==
  ASSUME LastID \in Nat \ {0, 1}, FileIsAhead, [Next]_vars
  PROVE  FileIsAhead'
<1> USE DEF Absent, Empty, Zeros, Unreadable
<1>1. CASE checkFileForZeroData
  BY <1>1 DEF checkFileForZeroData, FileIsAhead
<1>2. ASSUME NEW p \in BMCs \cup OtherBMCs, extractBMCPositionFromLogID(p)
      PROVE  FileIsAhead'
  BY <1>2 DEF extractBMCPositionFromLogID, FileIsAhead
<1>3. CASE generatePELID \/ generateUnflushed
  <2>1. /\ counter \in 1..(LastID - 1)
        /\ \A n \in Used : n < counter
        /\ Used \subseteq 1..(LastID - 1)
    BY <1>3, CounterIsNew DEF generatePELID, generateUnflushed
  <2>2. idFile' \in {counter + 1, Empty} /\ used' = Used \cup {counter} /\ pelPosition' = pelPosition
    BY <1>3 DEF generatePELID, generateUnflushed
  <2> QED  BY <2>1, <2>2 DEF FileIsAhead
<1>4. CASE generateUnreadable
  BY <1>4 DEF generateUnreadable, FileIsAhead
<1>5. CASE generateUnwritten
  BY <1>5 DEF generateUnwritten, FileIsAhead
<1>6. CASE Crash
  BY <1>6 DEF Crash, FileIsAhead
<1>7. CASE UNCHANGED vars
  BY <1>7 DEF vars, FileIsAhead
<1> QED  BY <1>1, <1>2, <1>3, <1>4, <1>5, <1>6, <1>7 DEF Next

\* The file is ahead of all numbers handed out, in every state.
THEOREM AlwaysAhead ==
  ASSUME LastID \in Nat \ {0, 1}
  PROVE  Spec => []FileIsAhead
<1>1. Init => FileIsAhead
  BY DEF Init, FileIsAhead
<1>2. FileIsAhead /\ [Next]_vars => FileIsAhead'
  BY FileStaysAhead
<1> QED  BY <1>1, <1>2, PTL DEF Spec

\* A number of the counter is handed out once, across failed writes, crashes
\* and restarts, until the counter wraps or its file is found full of zeros
\* (generatePELID).
THEOREM NumbersOnce ==
  ASSUME LastID \in Nat \ {0, 1}
  PROVE  Spec => CounterIDsOnce
<1>1. FileIsAhead /\ [Next]_vars =>
        [generatePELID \/ generateUnwritten \/ generateUnflushed =>
            \A id \in pelIDs' : id.kind = "counter" => id.n \notin Used]_vars
  <2> SUFFICES ASSUME FileIsAhead, generatePELID \/ generateUnwritten \/ generateUnflushed,
                      NEW id \in pelIDs', id.kind = "counter"
               PROVE  id.n \notin Used
    OBVIOUS
  <2>1. CASE generateUnwritten
    BY <2>1 DEF generateUnwritten, getTimeBasedLogID
  <2>2. CASE generatePELID \/ generateUnflushed
    <3>1. counter \in 1..(LastID - 1) /\ \A n \in Used : n < counter
      BY <2>2, CounterIsNew DEF generatePELID, generateUnflushed
    <3>2. id.n = counter % (LastID + 1)
      BY <2>2 DEF generatePELID, generateUnflushed, newID, addLogIDPrefix, getTimeBasedLogID
    <3>3. counter \in 0..LastID
      BY <3>1
    <3>4. id.n = counter
      BY <3>2, <3>3, SmallMod
    <3> QED  BY <3>1, <3>4
  <2> QED  BY <2>1, <2>2
<1> QED  BY <1>1, AlwaysAhead, PTL DEF Spec, CounterIDsOnce

\* A counter's id has a number in range and the position of a BMC.
THEOREM WellFormed ==
  ASSUME LastID \in Nat \ {0, 1}
  PROVE  Spec => []IDsWellFormed
<1>1. Init => IDsWellFormed
  BY DEF Init, IDsWellFormed
<1>2. FileIsAhead /\ IDsWellFormed /\ [Next]_vars => IDsWellFormed'
  <2> SUFFICES ASSUME FileIsAhead, IDsWellFormed, [Next]_vars
               PROVE  IDsWellFormed'
    OBVIOUS
  <2>1. CASE generatePELID \/ generateUnflushed
    <3>1. counter \in 1..(LastID - 1)
      BY <2>1, CounterIsNew DEF generatePELID, generateUnflushed
    <3>2. counter \in 0..LastID
      BY <3>1
    <3>3. counter % (LastID + 1) = counter
      BY <3>2, SmallMod
    <3>4. ASSUME NEW id \in pelIDs', id.kind = "counter"
          PROVE  id.n \in 1..(LastID - 1) /\ id.pos \in BMCs
      <4>1. pelPosition # InvalidPosition /\ id = addLogIDPrefix(counter)
        BY <2>1, <3>4 DEF generatePELID, generateUnflushed, newID, getTimeBasedLogID
      <4> QED  BY <3>1, <3>3, <4>1 DEF addLogIDPrefix, FileIsAhead
    <3> QED  BY <3>4 DEF IDsWellFormed
  <2>2. CASE generateUnreadable \/ generateUnwritten
    BY <2>2 DEF generateUnreadable, generateUnwritten, getTimeBasedLogID, IDsWellFormed
  <2>3. CASE checkFileForZeroData \/ UNCHANGED vars
    BY <2>3 DEF checkFileForZeroData, vars, IDsWellFormed
  <2>4. ASSUME NEW p \in BMCs \cup OtherBMCs, extractBMCPositionFromLogID(p)
        PROVE  IDsWellFormed'
    BY <2>4 DEF extractBMCPositionFromLogID, IDsWellFormed
  <2>5. CASE Crash
    BY <2>5 DEF Crash, IDsWellFormed
  <2> QED  BY <2>1, <2>2, <2>3, <2>4, <2>5 DEF Next
<1> QED  BY <1>1, <1>2, AlwaysAhead, PTL DEF Spec
=============================================================================
