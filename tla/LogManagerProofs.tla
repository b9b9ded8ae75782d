-------------------------- MODULE LogManagerProofs --------------------------
(***************************************************************************)
(* Proofs about LogManager for every bound, cap, build option and set of   *)
(* inputs its assumptions allow.                                           *)
(***************************************************************************)
EXTENDS LogManager, SequenceTheorems, WellFoundedInduction, TLAPS

-----------------------------------------------------------------------------
(* The list operations.                                                    *)

\* push_back of an id above all others keeps a list ascending and adds the id.
LEMMA AppendAscending ==
    ASSUME NEW ids \in Seq(Ids), NEW id \in Ids, Ascending(ids),
           \A k \in ToSet(ids) : k < id
    PROVE  /\ Append(ids, id) \in Seq(Ids)
           /\ Ascending(Append(ids, id))
           /\ ToSet(Append(ids, id)) = ToSet(ids) \cup {id}
<1> DEFINE t == Append(ids, id)
<1>1. t \in Seq(Ids) /\ Len(t) = Len(ids) + 1 /\ t[Len(ids) + 1] = id
  OBVIOUS
<1>2. \A n \in 1..Len(ids) : t[n] = ids[n]
  OBVIOUS
<1>3. Ascending(t)
  BY <1>1, <1>2 DEF Ascending, ToSet, Ids
<1>4. ToSet(t) = ToSet(ids) \cup {id}
  BY <1>1, <1>2 DEF ToSet
<1> QED  BY <1>1, <1>3, <1>4

\* removeId() takes exactly its id out of an ascending list.
LEMMA RemoveAscending ==
    ASSUME NEW ids \in Seq(Ids), NEW id \in Ids, Ascending(ids)
    PROVE  /\ RemoveFirst(ids, id) \in Seq(Ids)
           /\ Ascending(RemoveFirst(ids, id))
           /\ ToSet(RemoveFirst(ids, id)) = ToSet(ids) \ {id}
<1>1. CASE ~\E n \in 1..Len(ids) : ids[n] = id
  BY <1>1 DEF RemoveFirst, ToSet
<1>2. CASE \E n \in 1..Len(ids) : ids[n] = id
  <2>1. PICK m \in 1..Len(ids) : ids[m] = id
    BY <1>2
  <2> DEFINE I == {n \in 1..Len(ids) : ids[n] = id}
             u == SubSeq(ids, 1, m - 1)
             v == SubSeq(ids, m + 1, Len(ids))
             t == u \o v
  <2>2. I = {m}
    BY <2>1 DEF Ascending, Ids
  <2>3. Min(I) = m
    BY <2>2 DEF Min
  <2>4. RemoveFirst(ids, id) = t
    BY <1>2, <2>2, <2>3 DEF RemoveFirst, RemoveAt, SelectInSeq
  <2>5. u \in Seq(Ids) /\ Len(u) = m - 1 /\ \A n \in 1..(m - 1) : u[n] = ids[n]
    BY SubSeqProperties
  <2>6. v \in Seq(Ids) /\ Len(v) = Len(ids) - m
        /\ \A n \in 1..(Len(ids) - m) : v[n] = ids[m + n]
    BY SubSeqProperties
  <2> HIDE DEF u, v
  <2>9. /\ t \in Seq(Ids) /\ Len(t) = Len(ids) - 1
        /\ \A n \in 1..Len(t) : t[n] = IF n < m THEN ids[n] ELSE ids[n + 1]
    <3>1. /\ t \in Seq(Ids) /\ Len(t) = Len(u) + Len(v)
          /\ \A n \in 1..(Len(u) + Len(v)) :
                t[n] = IF n <= Len(u) THEN u[n] ELSE v[n - Len(u)]
      BY <2>5, <2>6, ConcatProperties
    <3>2. Len(t) = Len(ids) - 1
      BY <2>5, <2>6, <3>1
    <3>3. ASSUME NEW n \in 1..Len(t)
          PROVE  t[n] = IF n < m THEN ids[n] ELSE ids[n + 1]
      <4>1. CASE n < m
        BY <2>5, <2>6, <3>1, <4>1
      <4>2. CASE n >= m
        <5>1. n - (m - 1) \in 1..(Len(ids) - m) /\ m + (n - (m - 1)) = n + 1
          BY <3>2, <4>2
        <5> QED  BY <2>5, <2>6, <3>1, <4>2, <5>1
      <4> QED  BY <4>1, <4>2
    <3> QED  BY <3>1, <3>2, <3>3
  <2> HIDE DEF t
  <2>7. Ascending(t)
    <3>1. DOMAIN t = 1..Len(t) /\ DOMAIN ids = 1..Len(ids)
      BY <2>9
    <3>2. ASSUME NEW p \in 1..Len(t), NEW q \in 1..Len(t), p < q
          PROVE  t[p] < t[q]
      <4> DEFINE sh(n) == IF n < m THEN n ELSE n + 1
      <4>1. sh(p) \in DOMAIN ids /\ sh(q) \in DOMAIN ids /\ sh(p) < sh(q)
        BY <2>9, <3>1, <3>2
      <4>2. t[p] = ids[sh(p)] /\ t[q] = ids[sh(q)]
        BY <2>9
      <4> QED  BY <4>1, <4>2 DEF Ascending
    <3> QED  BY <3>1, <3>2 DEF Ascending
  <2>8. ToSet(t) = ToSet(ids) \ {id}
    <3>1. ASSUME NEW x \in ToSet(t) PROVE x \in ToSet(ids) \ {id}
      <4>1. PICK n \in 1..Len(t) : t[n] = x
        BY <3>1, <2>9 DEF ToSet
      <4>2. PICK n2 \in 1..Len(ids) : ids[n2] = x /\ n2 # m
        BY <4>1, <2>9
      <4> QED  BY <4>2, <2>2 DEF ToSet
    <3>2. ASSUME NEW x \in ToSet(ids) \ {id} PROVE x \in ToSet(t)
      <4>1. PICK n \in 1..Len(ids) : ids[n] = x
        BY <3>2 DEF ToSet
      <4>2. CASE n < m
        BY <4>1, <4>2, <2>9 DEF ToSet
      <4>3. CASE n > m
        <5>1. n - 1 \in 1..Len(t) /\ ~(n - 1 < m) /\ (n - 1) + 1 = n
          BY <4>3, <2>9
        <5>2. t[n - 1] = x /\ DOMAIN t = 1..Len(t)
          BY <5>1, <4>1, <2>9
        <5> QED  BY <5>1, <5>2 DEF ToSet
      <4> QED  BY <4>1, <4>2, <4>3, <2>1, <3>2
    <3> QED  BY <3>1, <3>2
  <2> QED  BY <2>4, <2>7, <2>8, <2>9
<1> QED  BY <1>1, <1>2

\* The highest id of a non-empty set of ids.
LEMMA MaxOfIds ==
    ASSUME NEW S, S \subseteq Ids, S # {}
    PROVE  Max(S) \in S /\ \A i \in S : i <= Max(S)
<1> DEFINE T == {MaxId - i : i \in S}
           R == OpToRel(<, Nat)
<1>1. T \subseteq Nat /\ T # {}
  <2>1. \A i \in S : MaxId - i \in Nat
    BY BoundsAssumption DEF Ids
  <2> QED  BY <2>1
<1>2. \E x \in T : \A y \in T : ~(<<y, x>> \in R)
  <2>1. IsWellFoundedOn(R, Nat)
    BY NatLessThanWellFounded
  <2> HIDE DEF T, R
  <2> QED  BY <1>1, <2>1, WFMin
<1>3. PICK x \in T : \A y \in T : ~(y < x)
  BY <1>1, <1>2 DEF OpToRel
<1>4. PICK m \in S : x = MaxId - m
  OBVIOUS
<1>5. \A i \in S : m >= i
  BY <1>3, <1>4, BoundsAssumption DEF Ids
<1> QED  BY <1>5 DEF Max, Ids

-----------------------------------------------------------------------------
(* Removing, adding and restoring one entry.                               *)

\* The part of the invariant that entries, lists and blocks carry.
Indexed == ListsIndexEntries /\ ListsUnused /\ BlocksAreOpenErrors

USE DEF Ids

\* The lists are ascending in both builds, and nothing is taken off an empty one.
LEMMA ListsAscend ==
    ASSUME Indexed
    PROVE  /\ Ascending(realErrors) /\ Ascending(infoErrors)
           /\ \A i : RemoveFirst(<< >>, i) = << >>
           /\ \A S : PELExtension => RealWithout(S) = << >> /\ InfoWithout(S) = << >>
<1>1. Ascending(<< >>)
  BY DEF Ascending
<1>2. \A i : RemoveFirst(<< >>, i) = << >>
  BY DEF RemoveFirst
<1> QED  BY <1>1, <1>2, FlagAssumption
         DEF Indexed, ListsIndexEntries, ListsUnused, RealWithout, InfoWithout

\* erase() of one entry keeps the index and the blocks.
LEMMA RemoveEntryKeepsIndex ==
    ASSUME TypeOK, Indexed, NEW i \in Present, RemoveEntry(i), UNCHANGED signals
    PROVE  /\ Indexed' /\ Present' = Present \ {i}
           /\ entries' \in Stores /\ assocs' \subseteq Ids
           /\ realErrors' \in Seq(Ids) /\ infoErrors' \in Seq(Ids)
           /\ blockingErrors' \subseteq Ids /\ propChangedEntryCallback' \subseteq Ids
           /\ cereal' \in [Ids -> Content \cup {None, Torn}]
           /\ json' \in [Ids -> Content \cup {None, Torn}]
<1>1. i \in Ids /\ entries[i] # None /\ entries[i] \in Content
  BY DEF TypeOK, Present, Stores
<1>2. entries' \in Stores /\ entries'[i] = None
      /\ \A j \in Ids \ {i} : entries'[j] = entries[j]
  BY <1>1 DEF TypeOK, RemoveEntry, Without, Stores
<1>3. Present' = Present \ {i}
  BY <1>2 DEF Present
<1>4. /\ cereal' \in [Ids -> Content \cup {None, Torn}]
      /\ json' \in [Ids -> Content \cup {None, Torn}]
      /\ assocs' \subseteq Ids
      /\ blockingErrors' \subseteq Ids /\ propChangedEntryCallback' \subseteq Ids
  BY DEF TypeOK, RemoveEntry, Without, WithoutBlocks
<1>5. ASSUME entries[i].info
      PROVE  ListsIndexEntries' /\ ListsUnused' /\ realErrors' \in Seq(Ids) /\ infoErrors' \in Seq(Ids)
  <2>1. realErrors' = realErrors /\ infoErrors' = RemoveFirst(infoErrors, i)
    BY <1>5 DEF RemoveEntry, RealWithout, InfoWithout
  <2>2. /\ infoErrors' \in Seq(Ids) /\ Ascending(infoErrors')
        /\ ToSet(infoErrors') = ToSet(infoErrors) \ {i}
    BY <1>1, <2>1, RemoveAscending, ListsAscend DEF TypeOK
  <2>3. ListsIndexEntries'
    BY <1>2, <1>3, <1>5, <2>1, <2>2 DEF Indexed, ListsIndexEntries, Present
  <2>4. ListsUnused'
    BY <2>1, ListsAscend DEF Indexed, ListsUnused
  <2> QED  BY <2>1, <2>2, <2>3, <2>4 DEF TypeOK
<1>6. ASSUME ~entries[i].info
      PROVE  ListsIndexEntries' /\ ListsUnused' /\ realErrors' \in Seq(Ids) /\ infoErrors' \in Seq(Ids)
  <2>1. infoErrors' = infoErrors /\ realErrors' = RemoveFirst(realErrors, i)
    BY <1>6 DEF RemoveEntry, RealWithout, InfoWithout
  <2>2. /\ realErrors' \in Seq(Ids) /\ Ascending(realErrors')
        /\ ToSet(realErrors') = ToSet(realErrors) \ {i}
    BY <1>1, <2>1, RemoveAscending, ListsAscend DEF TypeOK
  <2>3. ListsIndexEntries'
    BY <1>2, <1>3, <1>6, <2>1, <2>2 DEF Indexed, ListsIndexEntries, Present
  <2>4. ListsUnused'
    BY <2>1, ListsAscend DEF Indexed, ListsUnused
  <2> QED  BY <2>1, <2>2, <2>3, <2>4 DEF TypeOK
<1>7. BlocksAreOpenErrors'
  BY <1>1, <1>2, <1>3 DEF TypeOK, Indexed, BlocksAreOpenErrors, RemoveEntry, WithoutBlocks
<1> QED  BY <1>2, <1>3, <1>4, <1>5, <1>6, <1>7 DEF Indexed

\* What the extension may do to a new event; nothing where there is none.
LEMMA ExtensionOutcome ==
    ASSUME NEW in \in Kinds, NEW pel \in doExtensionLogCreate(in)
    PROVE  /\ pel.info \in BOOLEAN /\ pel.text \in Texts
           /\ ~PELExtension => pel.info = in.info /\ ~pel.blocks
<1>1. CASE PELExtension
  <2>1. pel \in [info: BOOLEAN, text: Texts, blocks: BOOLEAN]
    BY <1>1 DEF doExtensionLogCreate
  <2> QED  BY <1>1, <2>1
<1>2. CASE ~PELExtension
  <2>1. pel = [info |-> in.info, text |-> NoText, blocks |-> FALSE]
    BY <1>2 DEF doExtensionLogCreate
  <2> QED  BY <1>2, <2>1, InputAssumption DEF Kinds
<1> QED  BY <1>1, <1>2

\* createEntry(), whose id lies above every entry, keeps them too, whether or
\* not it evicts the front of a full list first.
LEMMA CreateEntryKeepsIndex ==
    ASSUME TypeOK, Indexed, NEW in \in Kinds, NEW quiesce \in BOOLEAN,
           NEW pel \in doExtensionLogCreate(in),
           NEW last \in Nat, last < MaxId, \A i \in Present : i <= last,
           createEntry(in, quiesce, pel, last)
    PROVE  /\ Indexed' /\ \A i \in Present' : i <= entryId'
           /\ entries' \in Stores /\ assocs' \subseteq Ids
           /\ entryId' \in 0..MaxId
           /\ realErrors' \in Seq(Ids) /\ infoErrors' \in Seq(Ids)
           /\ blockingErrors' \subseteq Ids /\ propChangedEntryCallback' \subseteq Ids
           /\ cereal' \in [Ids -> Content \cup {None, Torn}]
           /\ json' \in [Ids -> Content \cup {None, Torn}]
<1> DEFINE id == last + 1
           out == Evicted(in)
           c == LoggedContent(in, pel)
<1>0. /\ c \in Content /\ c.callout = in.callout /\ c.resolved = FALSE
      /\ ~PELExtension => c.info = in.info /\ ~pel.blocks
  <2>1. pel.info \in BOOLEAN /\ pel.text \in Texts
        /\ (~PELExtension => pel.info = in.info /\ ~pel.blocks)
    BY ExtensionOutcome
  <2> QED  BY <2>1, InputAssumption DEF LoggedContent, NewContent, Content, Kinds
<1> HIDE DEF c
<1>1. id \in Ids /\ entries[id] = None /\ id \notin Present /\ c \in Content /\ c # None
  <2>1. id \in Ids /\ id \notin Present
    BY BoundsAssumption DEF Present
  <2> QED  BY <1>0, <2>1, MarkerAssumption DEF Present
<1>2. out = {} \/ \E i \in Present : out = {i} /\ entries[i].info = in.info
  <2>1. ASSUME ~PELExtension, Len(infoErrors) >= ERROR_INFO_CAP
        PROVE  Head(infoErrors) \in Present /\ entries[Head(infoErrors)].info
    <3>1. infoErrors # << >> /\ Head(infoErrors) \in ToSet(infoErrors)
      BY <2>1, CapAssumption DEF TypeOK, ToSet
    <3> QED  BY <2>1, <3>1 DEF Indexed, ListsIndexEntries
  <2>2. ASSUME ~PELExtension, Len(realErrors) >= ERROR_CAP
        PROVE  Head(realErrors) \in Present /\ ~entries[Head(realErrors)].info
    <3>1. realErrors # << >> /\ Head(realErrors) \in ToSet(realErrors)
      BY <2>2, CapAssumption DEF TypeOK, ToSet
    <3> QED  BY <2>2, <3>1 DEF Indexed, ListsIndexEntries
  <2>3. \A i \in Present : entries[i].info \in BOOLEAN
    BY DEF TypeOK, Present, Stores, Content
  <2> QED  BY <2>1, <2>2, <2>3 DEF Evicted, Kinds
<1>3. out \subseteq Present /\ Present \subseteq Ids /\ id \notin out
  BY <1>1, <1>2 DEF Present
<1>4. /\ entries' \in Stores /\ entries'[id] = c
      /\ \A j \in Ids \ {id} : entries'[j] = IF j \in out THEN None ELSE entries[j]
  BY <1>0, <1>1, <1>3 DEF createEntry, NextId, TypeOK, Without, Stores, c
<1>5. Present' = (Present \ out) \cup {id}
  BY <1>1, <1>3, <1>4 DEF Present
<1>6. entryId' = id /\ entryId' \in 0..MaxId /\ \A i \in Present' : i <= entryId'
  <2>1. entryId' = id
    BY DEF createEntry, NextId
  <2>2. \A i \in Present : i \in Int /\ i <= id
    BY BoundsAssumption DEF Present
  <2> QED  BY <1>1, <1>5, <2>1, <2>2, BoundsAssumption
<1>7. /\ cereal' \in [Ids -> Content \cup {None, Torn}]
      /\ json' \in [Ids -> Content \cup {None, Torn}]
      /\ assocs' \subseteq Ids
  BY <1>0, <1>1 DEF createEntry, NextId, TypeOK, Without, c
<1> DEFINE R == RealWithout(out)
           I == InfoWithout(out)
<1>8. /\ R \in Seq(Ids) /\ Ascending(R)
      /\ I \in Seq(Ids) /\ Ascending(I)
      /\ ~PELExtension =>
            /\ ToSet(R) = {i \in Present \ out : ~entries[i].info}
            /\ ToSet(I) = {i \in Present \ out : entries[i].info}
  <2>1. CASE out = {}
    BY <2>1, ListsAscend DEF RealWithout, InfoWithout, TypeOK, Indexed, ListsIndexEntries
  <2>2. CASE out # {}
    <3>1. PICK e \in Present : out = {e} /\ entries[e].info = in.info
      BY <1>2, <2>2
    <3>2. CASE entries[e].info
      <4>1. R = realErrors /\ I = RemoveFirst(infoErrors, e)
        BY <3>1, <3>2 DEF RealWithout, InfoWithout
      <4>2. I \in Seq(Ids) /\ Ascending(I) /\ ToSet(I) = ToSet(infoErrors) \ {e}
        BY <4>1, <1>3, RemoveAscending, ListsAscend DEF TypeOK
      <4> QED  BY <3>1, <3>2, <4>1, <4>2, ListsAscend DEF TypeOK, Indexed, ListsIndexEntries
    <3>3. CASE ~entries[e].info
      <4>1. I = infoErrors /\ R = RemoveFirst(realErrors, e)
        BY <3>1, <3>3 DEF RealWithout, InfoWithout
      <4>2. R \in Seq(Ids) /\ Ascending(R) /\ ToSet(R) = ToSet(realErrors) \ {e}
        BY <4>1, <1>3, RemoveAscending, ListsAscend DEF TypeOK
      <4> QED  BY <3>1, <3>3, <4>1, <4>2, ListsAscend DEF TypeOK, Indexed, ListsIndexEntries
    <3> QED  BY <3>2, <3>3
  <2> QED  BY <2>1, <2>2
<1>9. /\ realErrors' = IF in.info THEN R ELSE Listed(R, id)
      /\ infoErrors' = IF in.info THEN Listed(I, id) ELSE I
      /\ PELExtension => R = << >> /\ I = << >>
  BY ListsAscend DEF createEntry, NextId
<1>10. /\ ListsIndexEntries' /\ ListsUnused'
       /\ realErrors' \in Seq(Ids) /\ infoErrors' \in Seq(Ids)
  <2> HIDE DEF R, I, out
  <2>0. CASE PELExtension
    <3>1. realErrors' = << >> /\ infoErrors' = << >>
      BY <1>9, <2>0 DEF Listed
    <3> QED  BY <2>0, <3>1 DEF ListsIndexEntries, ListsUnused
  <2> SUFFICES ASSUME ~PELExtension
               PROVE  /\ ListsIndexEntries' /\ realErrors' \in Seq(Ids)
                      /\ infoErrors' \in Seq(Ids)
    BY <2>0 DEF ListsUnused
  <2>1. (\A k \in ToSet(R) : k < id) /\ (\A k \in ToSet(I) : k < id)
    <3>1. \A k \in Present : k < id
      BY BoundsAssumption DEF Present
    <3> QED  BY <1>8, <3>1
  <2>2. c.info = in.info
    BY <1>0
  <2>3. CASE in.info
    <3>1. /\ infoErrors' \in Seq(Ids) /\ Ascending(infoErrors')
          /\ ToSet(infoErrors') = ToSet(I) \cup {id}
      BY <1>1, <1>8, <1>9, <2>1, <2>3, AppendAscending DEF Listed
    <3>2. realErrors' = R
      BY <1>9, <2>3
    <3>3. ToSet(infoErrors') = {i \in Present' : entries'[i].info}
      BY <1>1, <1>3, <1>4, <1>5, <1>8, <2>2, <2>3, <3>1
    <3>4. ToSet(realErrors') = {i \in Present' : ~entries'[i].info}
      BY <1>1, <1>3, <1>4, <1>5, <1>8, <2>2, <2>3, <3>2
    <3> QED  BY <1>8, <3>1, <3>2, <3>3, <3>4 DEF ListsIndexEntries
  <2>4. CASE ~in.info
    <3>1. /\ realErrors' \in Seq(Ids) /\ Ascending(realErrors')
          /\ ToSet(realErrors') = ToSet(R) \cup {id}
      BY <1>1, <1>8, <1>9, <2>1, <2>4, AppendAscending DEF Listed
    <3>2. infoErrors' = I
      BY <1>9, <2>4
    <3>3. ToSet(realErrors') = {i \in Present' : ~entries'[i].info}
      BY <1>1, <1>3, <1>4, <1>5, <1>8, <2>2, <2>4, <3>1
    <3>4. ToSet(infoErrors') = {i \in Present' : entries'[i].info}
      BY <1>1, <1>3, <1>4, <1>5, <1>8, <2>2, <2>4, <3>2
    <3> QED  BY <1>8, <3>1, <3>2, <3>3, <3>4 DEF ListsIndexEntries
  <2> QED  BY <2>3, <2>4
<1>11. /\ BlocksAreOpenErrors'
       /\ blockingErrors' \subseteq Ids /\ propChangedEntryCallback' \subseteq Ids
  <2> DEFINE blocked == quiesceOnError(in, quiesce, id) \cup (IF pel.blocks THEN {id} ELSE {})
  <2>1. /\ blockingErrors' = (blockingErrors \ out) \cup blocked
        /\ propChangedEntryCallback' = (propChangedEntryCallback \ out) \cup blocked
        /\ signals' = signals
    BY DEF createEntry, NextId, WithoutBlocks
  <2>2. blockingErrors' = propChangedEntryCallback'
    BY <2>1 DEF Indexed, BlocksAreOpenErrors
  <2>4. ASSUME NEW i \in blockingErrors'
        PROVE  /\ i \in Present'
               /\ ~PELExtension => ~entries'[i].info /\ entries'[i].callout
               /\ entries'[i].resolved => signals'[i] > 0
    <3> HIDE DEF out
    <3>1. CASE i = id
      <4>1. i \in blocked
        BY <1>1, <2>1, <2>4, <3>1 DEF Indexed, BlocksAreOpenErrors
      <4> QED  BY <1>0, <1>4, <1>5, <3>1, <4>1 DEF quiesceOnError
    <3>2. CASE i # id
      <4>1. i \in blockingErrors /\ i \notin out
        BY <2>1, <2>4, <3>2 DEF quiesceOnError
      <4>2. i \in Present /\ entries'[i] = entries[i]
        BY <4>1, <1>3, <1>4, <3>2 DEF Indexed, BlocksAreOpenErrors
      <4> QED  BY <1>5, <2>1, <4>1, <4>2 DEF Indexed, BlocksAreOpenErrors
    <3> QED  BY <3>1, <3>2
  <2> QED  BY <1>1, <2>1, <2>2, <2>4 DEF BlocksAreOpenErrors, TypeOK, quiesceOnError
<1> QED  BY <1>4, <1>6, <1>7, <1>10, <1>11 DEF Indexed

\* restore() adds the entry at its cursor, which lies past those before it.
LEMMA RestoredKeepsIndex ==
    ASSUME TypeOK, Indexed, cursor <= MaxId, \A i \in Present : i < cursor,
           NEW content \in Content, Restored(content), UNCHANGED <<blockVars, signals>>
    PROVE  /\ Indexed' /\ Present' = Present \cup {cursor}
           /\ entries' \in Stores
           /\ realErrors' \in Seq(Ids) /\ infoErrors' \in Seq(Ids)
<1>1. cursor \in Ids /\ entries[cursor] = None /\ content # None
  <2>1. cursor \in Ids /\ cursor \notin Present
    BY BoundsAssumption DEF TypeOK, Present
  <2> QED  BY <2>1, MarkerAssumption DEF Present
<1>2. /\ entries' \in Stores /\ entries'[cursor] = content
      /\ \A j \in Ids \ {cursor} : entries'[j] = entries[j]
  BY <1>1 DEF Restored, TypeOK, Stores
<1>3. Present' = Present \cup {cursor}
  BY <1>1, <1>2 DEF Present
<1>4. ~PELExtension => /\ \A k \in ToSet(realErrors) : k < cursor
                       /\ \A k \in ToSet(infoErrors) : k < cursor
  BY DEF Indexed, ListsIndexEntries
<1>8. CASE PELExtension
  <2>1. ListsUnused' /\ ListsIndexEntries' /\ realErrors' = << >> /\ infoErrors' = << >>
    BY <1>8 DEF Restored, Listed, Indexed, ListsUnused, ListsIndexEntries
  <2>2. BlocksAreOpenErrors'
    BY <1>1, <1>2, <1>3 DEF Indexed, BlocksAreOpenErrors, blockVars, Present
  <2> QED  BY <1>2, <1>3, <2>1, <2>2 DEF Indexed
<1> SUFFICES ASSUME ~PELExtension
             PROVE  /\ Indexed' /\ Present' = Present \cup {cursor}
                    /\ entries' \in Stores
                    /\ realErrors' \in Seq(Ids) /\ infoErrors' \in Seq(Ids)
  BY <1>8
<1>5. ASSUME content.info
      PROVE  ListsIndexEntries' /\ realErrors' \in Seq(Ids) /\ infoErrors' \in Seq(Ids)
  <2>1. realErrors' = realErrors /\ infoErrors' = Append(infoErrors, cursor)
    BY <1>5 DEF Restored, Listed
  <2>2. /\ infoErrors' \in Seq(Ids) /\ Ascending(infoErrors')
        /\ ToSet(infoErrors') = ToSet(infoErrors) \cup {cursor}
    BY <1>1, <1>4, <2>1, AppendAscending DEF TypeOK, Indexed, ListsIndexEntries
  <2>3. ToSet(infoErrors') = {i \in Present' : entries'[i].info}
    BY <1>1, <1>2, <1>3, <1>5, <2>2 DEF Indexed, ListsIndexEntries, Present
  <2>4. ToSet(realErrors') = {i \in Present' : ~entries'[i].info}
    BY <1>1, <1>2, <1>3, <1>5, <2>1 DEF Indexed, ListsIndexEntries, Present
  <2> QED  BY <2>1, <2>2, <2>3, <2>4 DEF TypeOK, Indexed, ListsIndexEntries
<1>6. ASSUME ~content.info
      PROVE  ListsIndexEntries' /\ realErrors' \in Seq(Ids) /\ infoErrors' \in Seq(Ids)
  <2>1. infoErrors' = infoErrors /\ realErrors' = Append(realErrors, cursor)
    BY <1>6 DEF Restored, Listed
  <2>2. /\ realErrors' \in Seq(Ids) /\ Ascending(realErrors')
        /\ ToSet(realErrors') = ToSet(realErrors) \cup {cursor}
    BY <1>1, <1>4, <2>1, AppendAscending DEF TypeOK, Indexed, ListsIndexEntries
  <2>3. ToSet(realErrors') = {i \in Present' : ~entries'[i].info}
    BY <1>1, <1>2, <1>3, <1>6, <2>2 DEF Indexed, ListsIndexEntries, Present
  <2>4. ToSet(infoErrors') = {i \in Present' : entries'[i].info}
    BY <1>1, <1>2, <1>3, <1>6, <2>1 DEF Indexed, ListsIndexEntries, Present
  <2> QED  BY <2>1, <2>2, <2>3, <2>4 DEF TypeOK, Indexed, ListsIndexEntries
<1>7. BlocksAreOpenErrors'
  BY <1>1, <1>2, <1>3 DEF Indexed, BlocksAreOpenErrors, blockVars, Present
<1> QED  BY <1>2, <1>3, <1>5, <1>6, <1>7 DEF Indexed, ListsUnused

-----------------------------------------------------------------------------
(* The inductive invariant.                                                *)

FileType == [Ids -> Content \cup {None, Torn}]

\* A crash leaves well-typed files and an empty process.
LEMMA CrashKeepsInv ==
    ASSUME TypeOK, NEW cut, cut[1] \in FileType, cut[2] \in FileType, CrashLeaving(cut)
    PROVE  IndInv'
<1>1. Present' = {}
  BY DEF CrashLeaving, NoEntries, Present
<1>2. TypeOK'
  BY BoundsAssumption
     DEF CrashLeaving, TypeOK, Stores, NoEntries, FileType, isolation
<1>3. realErrors' = << >> /\ infoErrors' = << >> /\ ToSet(<< >>) = {} /\ Ascending(<< >>)
  BY DEF CrashLeaving, ToSet, Ascending
<1>4. ListsIndexEntries' /\ ListsUnused'
  BY <1>1, <1>3 DEF ListsIndexEntries, ListsUnused
<1>5. NoEntryAboveLastId' /\ ClearedBehindCursor' /\ StartsFresh' /\ BlocksAreOpenErrors'
  BY <1>1 DEF CrashLeaving, NoEntryAboveLastId, ClearedBehindCursor, StartsFresh,
              BlocksAreOpenErrors
<1> QED  BY <1>2, <1>4, <1>5 DEF IndInv

\* Every point at which a write or a removal can be cut leaves typed files.
LEMMA CutsAreFiles ==
    ASSUME TypeOK
    PROVE  /\ \A c, j \in FileType, i \in Ids, content \in Content :
                \A cut \in WriteCuts(c, j, i, content) :
                    cut[1] \in FileType /\ cut[2] \in FileType
           /\ \A S : \A cut \in RemoveCuts(S) : cut[1] \in FileType /\ cut[2] \in FileType
           /\ \A S : Without(cereal, S) \in FileType /\ Without(json, S) \in FileType
<1>1. ASSUME NEW c \in FileType, NEW j \in FileType, NEW i \in Ids, NEW content \in Content,
             NEW cut \in WriteCuts(c, j, i, content)
      PROVE  cut[1] \in FileType /\ cut[2] \in FileType
  BY <1>1 DEF WriteCuts, FileType
<1>2. \A S : Without(cereal, S) \in FileType /\ Without(json, S) \in FileType
  BY DEF TypeOK, Without, FileType
<1>3. \A S : \A cut \in RemoveCuts(S) : cut[1] \in FileType /\ cut[2] \in FileType
  BY <1>2 DEF RemoveCuts, TypeOK, FileType
<1> QED  BY <1>1, <1>2, <1>3

\* What createEntry and the property setters store is well typed.
LEMMA ContentTypes ==
    /\ \A in \in Kinds : /\ NewContent(in) \in Content
                         /\ \A pel \in doExtensionLogCreate(in) :
                               LoggedContent(in, pel) \in Content
    /\ Inputs \subseteq Kinds /\ LoggingCleared \in Kinds
    /\ EmptyEntry \in Content
<1>1. \A in \in Kinds : NewContent(in) \in Content
  BY InputAssumption DEF Kinds, NewContent, Content
<1>3. ASSUME NEW in \in Kinds, NEW pel \in doExtensionLogCreate(in)
      PROVE  LoggedContent(in, pel) \in Content
  <2>1. pel.info \in BOOLEAN /\ pel.text \in Texts
    BY <1>3, ExtensionOutcome
  <2> QED  BY <1>3, <2>1, InputAssumption DEF LoggedContent, NewContent, Content, Kinds
<1>2. LoggingCleared \in Kinds /\ EmptyEntry \in Content
  BY InputAssumption DEF Kinds, LoggingCleared, EmptyEntry, Content
<1> QED  BY <1>1, <1>2, <1>3, InputAssumption

\* What the resolved, eventId and resolution setters store is well typed.
LEMMA PropertyTypes ==
    ASSUME TypeOK, NEW i \in Present
    PROVE  /\ \A value \in BOOLEAN :
                 /\ Resolving(i, value) \in Content
                 /\ Resolving(i, value).info = entries[i].info
                 /\ Resolving(i, value).callout = entries[i].callout
                 /\ Resolving(i, value).resolved = value
           /\ \A value \in Texts :
                 LET c == [entries[i] EXCEPT !.text = value]
                 IN  /\ c \in Content
                     /\ c.info = entries[i].info /\ c.callout = entries[i].callout
                     /\ c.resolved = entries[i].resolved
<1>1. entries[i] \in Content
  BY DEF TypeOK, Present, Stores
<1>2. \A value \in BOOLEAN :
         /\ Resolving(i, value) \in Content
         /\ Resolving(i, value).info = entries[i].info
         /\ Resolving(i, value).callout = entries[i].callout
         /\ Resolving(i, value).resolved = value
  BY <1>1 DEF Content, Resolving
<1>3. \A value \in Texts :
         LET c == [entries[i] EXCEPT !.text = value]
         IN  /\ c \in Content
             /\ c.info = entries[i].info /\ c.callout = entries[i].callout
             /\ c.resolved = entries[i].resolved
  BY <1>1 DEF Content
<1> QED  BY <1>2, <1>3

\* Where eraseAll leaves entryId, createEntry finds a free id above all others.
LEMMA LastIdAfterClearIsFree ==
    ASSUME IndInv, pc = "clearing", cursor > MaxId
    PROVE  /\ LastIdAfterClear \in Nat /\ LastIdAfterClear < MaxId
           /\ \A i \in Present : i <= LastIdAfterClear
<1>1. entryId \in Nat /\ entryId < MaxId /\ Present \subseteq Ids
      /\ \A i \in Present : i <= entryId
  BY DEF IndInv, StartsFresh, TypeOK, NoEntryAboveLastId, Present
<1>2. CASE logIDWithHwIsolation = {} \/ Present = {}
  <2>1. Present = {}
    <3>1. ASSUME NEW i \in Present, logIDWithHwIsolation = {} PROVE FALSE
      BY <1>1, <3>1, BoundsAssumption DEF IndInv, ClearedBehindCursor, TypeOK
    <3> QED  BY <1>2, <3>1
  <2> QED  BY <1>1, <1>2, <2>1, BoundsAssumption DEF LastIdAfterClear
<1>3. CASE ~(logIDWithHwIsolation = {} \/ Present = {})
  <2>1. Max(Present) \in Present /\ \A i \in Present : i <= Max(Present)
    BY <1>1, <1>3, MaxOfIds
  <2>2. Max(Present) \in Nat /\ Max(Present) < MaxId
    <3>1. \A m \in Present : m \in Nat /\ m < MaxId
      BY <1>1, BoundsAssumption
    <3> QED  BY <2>1, <3>1
  <2> QED  BY <1>3, <2>1, <2>2 DEF LastIdAfterClear
<1> QED  BY <1>2, <1>3

\* The D-Bus method and property handlers.
LEMMA HandlersKeepInv ==
    ASSUME IndInv, Handlers
    PROVE  IndInv'
<1>1. ASSUME NEW in \in Inputs, NEW quiesce \in QuiesceSettings, Create(in, quiesce)
      PROVE  IndInv'
  <2>0. PICK pel \in doExtensionLogCreate(in) : createEntry(in, quiesce, pel, entryId)
    BY <1>1 DEF Create
  <2>1. /\ pc = "idle" /\ entryId < MaxId
        /\ UNCHANGED <<logIDWithHwIsolation, pc, cursor>>
        /\ UNCHANGED <<signals, isolated, mapperUp>>
    BY <1>1, <2>0 DEF Create, control, createEntry, isolation
  <2>2. entryId \in Nat /\ in \in Kinds /\ quiesce \in BOOLEAN
        /\ \A i \in Present : i <= entryId
    BY <2>1, InputAssumption DEF IndInv, TypeOK, NoEntryAboveLastId
  <2>3. /\ Indexed' /\ \A i \in Present' : i <= entryId'
        /\ entries' \in Stores /\ assocs' \subseteq Ids /\ entryId' \in 0..MaxId
        /\ realErrors' \in Seq(Ids) /\ infoErrors' \in Seq(Ids)
        /\ blockingErrors' \subseteq Ids /\ propChangedEntryCallback' \subseteq Ids
        /\ cereal' \in FileType /\ json' \in FileType
    BY <2>0, <2>1, <2>2, CreateEntryKeepsIndex DEF IndInv, Indexed, FileType
  <2>4. TypeOK'
    BY <2>1, <2>3 DEF IndInv, TypeOK, FileType
  <2> QED  BY <2>1, <2>3, <2>4
           DEF IndInv, Indexed, NoEntryAboveLastId, ClearedBehindCursor, StartsFresh
<1>2. ASSUME NEW i \in Ids, erase(i)
      PROVE  IndInv'
  <2>1. /\ pc = "idle" /\ i \in Present /\ RemoveEntry(i)
        /\ UNCHANGED <<logIDWithHwIsolation, pc, cursor>>
        /\ UNCHANGED <<entryId, signals, isolated, mapperUp>>
    BY <1>2 DEF erase, control, isolation
  <2>2. /\ Indexed' /\ Present' = Present \ {i}
        /\ entries' \in Stores /\ assocs' \subseteq Ids
        /\ realErrors' \in Seq(Ids) /\ infoErrors' \in Seq(Ids)
        /\ blockingErrors' \subseteq Ids /\ propChangedEntryCallback' \subseteq Ids
        /\ cereal' \in FileType /\ json' \in FileType
    BY <2>1, RemoveEntryKeepsIndex DEF IndInv, Indexed, FileType
  <2>3. TypeOK'
    BY <2>1, <2>2 DEF IndInv, TypeOK, FileType
  <2> QED  BY <2>1, <2>2, <2>3
           DEF IndInv, Indexed, NoEntryAboveLastId, ClearedBehindCursor, StartsFresh
<1>3. ASSUME NEW i \in Ids, NEW value \in BOOLEAN, resolved(i, value)
      PROVE  IndInv'
  <2>1. /\ pc = "idle" /\ i \in Present /\ signals[i] < MaxSignals
        /\ entries' = [entries EXCEPT ![i] = Resolving(i, value)]
        /\ cereal' = [cereal EXCEPT ![i] = Resolving(i, value)]
        /\ json' = [json EXCEPT ![i] = Resolving(i, value)]
        /\ signals' = IF i \in propChangedEntryCallback
                      THEN [signals EXCEPT ![i] = @ + 1] ELSE signals
        /\ UNCHANGED <<assocs, realErrors, infoErrors, entryId, blockingErrors,
                       propChangedEntryCallback, isolated, mapperUp>>
        /\ UNCHANGED <<logIDWithHwIsolation, pc, cursor>>
    BY <1>3 DEF resolved, Persist, control, isolation, blockVars
  <2>2. /\ Resolving(i, value) \in Content /\ Resolving(i, value) # None
        /\ Resolving(i, value).info = entries[i].info
        /\ Resolving(i, value).callout = entries[i].callout
    BY <2>1, PropertyTypes, MarkerAssumption DEF IndInv
  <2>3. /\ entries' \in Stores /\ entries'[i] = Resolving(i, value)
        /\ \A j \in Ids \ {i} : entries'[j] = entries[j]
    BY <2>1, <2>2 DEF IndInv, TypeOK, Stores
  <2>4. Present' = Present /\ \A j \in Present : entries'[j].info = entries[j].info
                              /\ entries'[j].callout = entries[j].callout
    BY <2>1, <2>2, <2>3 DEF Present
  <2>5. signals' \in [Ids -> 0..MaxSignals]
    BY <2>1, BoundsAssumption DEF IndInv, TypeOK
  <2>6. TypeOK'
    BY <2>1, <2>2, <2>3, <2>5 DEF IndInv, TypeOK
  <2>7. ListsIndexEntries' /\ ListsUnused'
    BY <2>1, <2>4 DEF IndInv, ListsIndexEntries, ListsUnused
  <2>8. BlocksAreOpenErrors'
    <3>1. ASSUME NEW j \in blockingErrors, entries'[j].resolved PROVE signals'[j] > 0
      <4>1. CASE j = i
        <5>1. signals'[i] = signals[i] + 1 /\ signals[i] \in Nat
          BY <2>1, <3>1, <4>1 DEF IndInv, TypeOK, BlocksAreOpenErrors
        <5> QED  BY <4>1, <5>1
      <4>2. CASE j # i
        <5>1. j \in Present /\ entries'[j] = entries[j] /\ signals'[j] = signals[j]
          BY <2>1, <2>3, <4>2 DEF IndInv, TypeOK, BlocksAreOpenErrors
        <5> QED  BY <3>1, <5>1 DEF IndInv, BlocksAreOpenErrors
      <4> QED  BY <4>1, <4>2
    <3> QED  BY <2>1, <2>4, <3>1 DEF IndInv, BlocksAreOpenErrors
  <2> QED  BY <2>1, <2>4, <2>6, <2>7, <2>8
           DEF IndInv, NoEntryAboveLastId, ClearedBehindCursor, StartsFresh
<1>4. ASSUME NEW i \in Ids, NEW value \in Texts, setText(i, value)
      PROVE  IndInv'
  <2> DEFINE c == [entries[i] EXCEPT !.text = value]
  <2>1. /\ pc = "idle" /\ i \in Present
        /\ entries' = [entries EXCEPT ![i] = c]
        /\ cereal' = [cereal EXCEPT ![i] = c]
        /\ json' = [json EXCEPT ![i] = c]
        /\ UNCHANGED <<assocs, realErrors, infoErrors, entryId, blockingErrors,
                       propChangedEntryCallback, isolated, mapperUp>>
        /\ UNCHANGED <<signals, logIDWithHwIsolation, pc, cursor>>
    BY <1>4 DEF setText, Persist, control, isolation, blockVars
  <2>2. /\ c \in Content /\ c # None
        /\ c.info = entries[i].info /\ c.callout = entries[i].callout
        /\ c.resolved = entries[i].resolved
    BY <2>1, PropertyTypes, MarkerAssumption DEF IndInv
  <2> HIDE DEF c
  <2>3. /\ entries' \in Stores /\ entries'[i] = c
        /\ \A j \in Ids \ {i} : entries'[j] = entries[j]
    BY <2>1, <2>2 DEF IndInv, TypeOK, Stores
  <2>4. Present' = Present /\ \A j \in Present : /\ entries'[j].info = entries[j].info
                                                 /\ entries'[j].callout = entries[j].callout
                                                 /\ entries'[j].resolved = entries[j].resolved
    BY <2>1, <2>2, <2>3 DEF Present
  <2>5. TypeOK'
    BY <2>1, <2>2, <2>3 DEF IndInv, TypeOK
  <2>6. ListsIndexEntries' /\ ListsUnused' /\ BlocksAreOpenErrors'
    BY <2>1, <2>4 DEF IndInv, ListsIndexEntries, ListsUnused, BlocksAreOpenErrors
  <2> QED  BY <2>1, <2>4, <2>5, <2>6
           DEF IndInv, NoEntryAboveLastId, ClearedBehindCursor, StartsFresh
<1>5. ASSUME eraseAllStart
      PROVE  IndInv'
  <2>1. /\ entryId < MaxId /\ pc = "idle" /\ pc' = "clearing" /\ cursor' = 1
        /\ logIDWithHwIsolation' \in SUBSET Ids
        /\ UNCHANGED <<entries, assocs, realErrors, infoErrors, entryId, blockingErrors,
                       propChangedEntryCallback, signals, cereal, json, isolated, mapperUp>>
    BY <1>5 DEF eraseAllStart, entryVars, blockVars, files, isolation, IndInv, TypeOK
  <2>2. Present' = Present /\ \A i \in Present : i >= 1
    BY <2>1 DEF Present
  <2>3. TypeOK'
    BY <2>1, BoundsAssumption DEF IndInv, TypeOK
  <2> QED  BY <2>1, <2>2, <2>3
           DEF IndInv, ListsIndexEntries, ListsUnused, NoEntryAboveLastId, ClearedBehindCursor,
               StartsFresh, BlocksAreOpenErrors
<1> QED  BY <1>1, <1>2, <1>3, <1>4, <1>5 DEF Handlers

\* One iteration of eraseAll or restore, and what ends them.
LEMMA LoopsKeepInv ==
    ASSUME IndInv, Loops
    PROVE  IndInv'
<1>1. ASSUME eraseAllKeep
      PROVE  IndInv'
  <2>1. /\ pc = "clearing" /\ cursor <= MaxId /\ Kept(cursor) /\ cursor' = cursor + 1
        /\ UNCHANGED <<entries, assocs, realErrors, infoErrors, entryId, blockingErrors,
                       propChangedEntryCallback, signals, cereal, json, isolated, mapperUp>>
        /\ UNCHANGED <<logIDWithHwIsolation, pc>>
    BY <1>1 DEF eraseAllKeep, entryVars, blockVars, files, isolation
  <2>2. Present' = Present /\ Present \subseteq Ids
    BY <2>1 DEF Present
  <2>3. TypeOK'
    BY <2>1, BoundsAssumption DEF IndInv, TypeOK
  <2>4. ClearedBehindCursor'
    <3>1. ASSUME logIDWithHwIsolation = {}, NEW i \in Present PROVE i >= cursor + 1
      <4>1. cursor \notin Present /\ i >= cursor
        BY <2>1, <3>1 DEF Kept, IndInv, ClearedBehindCursor
      <4> QED  BY <2>1, <2>2, <4>1 DEF IndInv, TypeOK
    <3> QED  BY <2>1, <2>2, <3>1 DEF ClearedBehindCursor
  <2> QED  BY <2>1, <2>2, <2>3, <2>4
           DEF IndInv, ListsIndexEntries, ListsUnused, NoEntryAboveLastId, StartsFresh, BlocksAreOpenErrors
<1>2. ASSUME eraseAllErase
      PROVE  IndInv'
  <2>1. /\ pc = "clearing" /\ cursor <= MaxId /\ cursor \in Present /\ RemoveEntry(cursor)
        /\ cursor' = cursor + 1
        /\ UNCHANGED <<entryId, signals, isolated, mapperUp, logIDWithHwIsolation, pc>>
    BY <1>2 DEF eraseAllErase, isolation, Kept
  <2>2. /\ Indexed' /\ Present' = Present \ {cursor}
        /\ entries' \in Stores /\ assocs' \subseteq Ids
        /\ realErrors' \in Seq(Ids) /\ infoErrors' \in Seq(Ids)
        /\ blockingErrors' \subseteq Ids /\ propChangedEntryCallback' \subseteq Ids
        /\ cereal' \in FileType /\ json' \in FileType
    BY <2>1, RemoveEntryKeepsIndex DEF IndInv, Indexed, FileType
  <2>3. TypeOK'
    BY <2>1, <2>2, BoundsAssumption DEF IndInv, TypeOK, FileType
  <2>4. ClearedBehindCursor'
    <3>1. \A i \in Present \ {cursor} : i >= cursor => i >= cursor + 1
      BY DEF IndInv, TypeOK, Present
    <3> QED  BY <2>1, <2>2, <3>1 DEF IndInv, ClearedBehindCursor
  <2> QED  BY <2>1, <2>2, <2>3, <2>4 DEF IndInv, Indexed, NoEntryAboveLastId, StartsFresh
<1>3. ASSUME eraseAllThrows
      PROVE  IndInv'
  <2>1. /\ pc = "clearing" /\ pc' = "idle" /\ cursor' = 1 /\ logIDWithHwIsolation' = {}
        /\ UNCHANGED <<entries, assocs, realErrors, infoErrors, entryId, blockingErrors,
                       propChangedEntryCallback, signals, cereal, json, isolated, mapperUp>>
    BY <1>3 DEF eraseAllThrows, entryVars, blockVars, files, isolation
  <2>2. Present' = Present
    BY <2>1 DEF Present
  <2>3. TypeOK'
    BY <2>1, BoundsAssumption DEF IndInv, TypeOK
  <2> QED  BY <2>1, <2>2, <2>3
           DEF IndInv, ListsIndexEntries, ListsUnused, NoEntryAboveLastId, ClearedBehindCursor,
               StartsFresh, BlocksAreOpenErrors
<1>4. ASSUME deleteAllFinish
      PROVE  IndInv'
  <2>1. PICK quiesce \in QuiesceSettings, pel \in doExtensionLogCreate(LoggingCleared) :
             createEntry(LoggingCleared, quiesce, pel, LastIdAfterClear)
    BY <1>4 DEF deleteAllFinish
  <2>2. /\ pc = "clearing" /\ cursor > MaxId
        /\ pc' = "idle" /\ cursor' = 1 /\ logIDWithHwIsolation' = {}
        /\ UNCHANGED <<signals, isolated, mapperUp>>
    BY <1>4, <2>1 DEF deleteAllFinish, createEntry, isolation
  <2>3. /\ LastIdAfterClear \in Nat /\ LastIdAfterClear < MaxId
        /\ \A i \in Present : i <= LastIdAfterClear
    BY <2>2, LastIdAfterClearIsFree
  <2>4. /\ Indexed' /\ \A i \in Present' : i <= entryId'
        /\ entries' \in Stores /\ assocs' \subseteq Ids /\ entryId' \in 0..MaxId
        /\ realErrors' \in Seq(Ids) /\ infoErrors' \in Seq(Ids)
        /\ blockingErrors' \subseteq Ids /\ propChangedEntryCallback' \subseteq Ids
        /\ cereal' \in FileType /\ json' \in FileType
    <3>1. quiesce \in BOOLEAN /\ LoggingCleared \in Kinds
      BY InputAssumption, ContentTypes
    <3> QED  BY <2>1, <2>3, <3>1, CreateEntryKeepsIndex DEF IndInv, Indexed, FileType
  <2>5. TypeOK'
    BY <2>2, <2>4, BoundsAssumption DEF IndInv, TypeOK, FileType
  <2> QED  BY <2>2, <2>4, <2>5
           DEF IndInv, Indexed, NoEntryAboveLastId, ClearedBehindCursor, StartsFresh
<1>5. ASSUME NEW i \in Ids, Restoring(i), cereal' \in FileType, json' \in FileType,
             \/ UNCHANGED <<entries, realErrors, infoErrors>>
             \/ \E content \in Content : Restored(content)
      PROVE  IndInv'
  <2>1. /\ pc = "restoring" /\ pc' = pc /\ cursor <= MaxId /\ cursor' = cursor + 1
        /\ UNCHANGED <<assocs, entryId, blockingErrors, propChangedEntryCallback, signals,
                       isolated, mapperUp, logIDWithHwIsolation>>
    BY <1>5 DEF Restoring, blockVars, isolation
  <2>2. \A j \in Present : j < cursor
    BY <2>1 DEF IndInv, NoEntryAboveLastId
  <2>3. /\ Indexed' /\ Present' \subseteq Present \cup {cursor}
        /\ entries' \in Stores /\ realErrors' \in Seq(Ids) /\ infoErrors' \in Seq(Ids)
    <3>1. CASE UNCHANGED <<entries, realErrors, infoErrors>>
      BY <2>1, <3>1 DEF IndInv, TypeOK, Indexed, ListsIndexEntries, ListsUnused, BlocksAreOpenErrors, Present
    <3>2. CASE \E content \in Content : Restored(content)
      BY <2>1, <2>2, <3>2, RestoredKeepsIndex DEF IndInv, Indexed, blockVars
    <3> QED  BY <1>5, <3>1, <3>2
  <2>4. TypeOK'
    BY <1>5, <2>1, <2>3, BoundsAssumption DEF IndInv, TypeOK, FileType
  <2>5. \A j \in Present' : j < cursor'
    <3>1. cursor \in Int /\ \A j \in Present : j \in Int
      BY DEF IndInv, TypeOK, Present
    <3> QED  BY <2>1, <2>2, <2>3, <3>1
  <2> QED  BY <2>1, <2>3, <2>4, <2>5
           DEF IndInv, Indexed, NoEntryAboveLastId, ClearedBehindCursor, StartsFresh
<1>6. ASSUME NEW i \in Ids,
             \/ restoreNothing(i) \/ deserializeJSON(i) \/ deserializeJSONFails(i)
             \/ deserialize(i) \/ deserializeFails(i)
      PROVE  IndInv'
  <2>0. cereal \in FileType /\ json \in FileType
    BY DEF IndInv, TypeOK, FileType
  <2>1. Restoring(i)
    BY <1>6 DEF restoreNothing, deserializeJSON, deserializeJSONFails, deserialize,
                deserializeFails
  <2>2. cereal' \in FileType /\ json' \in FileType
    BY <1>6, <2>0, ContentTypes
       DEF restoreNothing, deserializeJSON, deserializeJSONFails, deserialize,
           deserializeFails, files, FileType
  <2>3. \/ UNCHANGED <<entries, realErrors, infoErrors>>
        \/ \E content \in Content : Restored(content)
    BY <1>6, <2>0, ContentTypes
       DEF restoreNothing, deserializeJSON, deserializeJSONFails, deserialize,
           deserializeFails, FileType
  <2> QED  BY <1>5, <2>1, <2>2, <2>3
<1>7. ASSUME restoreFinish
      PROVE  IndInv'
  <2>1. /\ pc = "restoring" /\ pc' = "idle" /\ cursor' = 1 /\ entryId' = LastRestoredId
        /\ UNCHANGED <<entries, assocs, realErrors, infoErrors, blockingErrors,
                       propChangedEntryCallback, signals, cereal, json, isolated, mapperUp>>
        /\ UNCHANGED logIDWithHwIsolation
    BY <1>7 DEF restoreFinish, entryVars, blockVars, files, isolation
  <2>2. Present' = Present /\ Present \subseteq Ids
    BY <2>1 DEF Present
  <2>3. entryId' \in 0..MaxId /\ \A i \in Present : i <= entryId'
    <3>1. CASE Present = {}
      BY <2>1, <3>1 DEF LastRestoredId, IndInv, TypeOK
    <3>2. CASE Present # {}
      <4>1. Max(Present) \in Present /\ \A i \in Present : i <= Max(Present)
        BY <2>2, <3>2, MaxOfIds
      <4>2. entryId' = Max(Present)
        BY <2>1, <3>2 DEF LastRestoredId
      <4>3. \A m \in Present : m \in 0..MaxId
        BY <2>2, BoundsAssumption
      <4> QED  BY <4>1, <4>2, <4>3
    <3> QED  BY <3>1, <3>2
  <2>4. TypeOK'
    BY <2>1, <2>3, BoundsAssumption DEF IndInv, TypeOK
  <2> QED  BY <2>1, <2>2, <2>3, <2>4
           DEF IndInv, ListsIndexEntries, ListsUnused, NoEntryAboveLastId, ClearedBehindCursor,
               StartsFresh, BlocksAreOpenErrors
<1> QED  BY <1>1, <1>2, <1>3, <1>4, <1>6, <1>7 DEF Loops

\* A crash, wherever it falls in a handler.
LEMMA CrashesKeepInv ==
    ASSUME IndInv, Crashes
    PROVE  IndInv'
<1>0. TypeOK /\ cereal \in FileType /\ json \in FileType
  BY DEF IndInv, TypeOK, FileType
<1>1. ASSUME NEW in \in Kinds, NEW last \in Nat, last < MaxId,
             NEW cut \in CreateCuts(in, last)
      PROVE  cut[1] \in FileType /\ cut[2] \in FileType
  <2>1. NextId(last) \in Ids /\ NewContent(in) \in Content
    BY <1>1, BoundsAssumption, ContentTypes DEF NextId
  <2>2. CASE cut \in WriteCuts(Without(cereal, Evicted(in)), Without(json, Evicted(in)),
                               NextId(last), NewContent(in))
    BY <1>0, <2>1, <2>2, CutsAreFiles
  <2>3. CASE cut \in RemoveCuts(Evicted(in))
    BY <1>0, <2>3, CutsAreFiles
  <2>4. ASSUME NEW pel \in doExtensionLogCreate(in), cut \in RewriteCuts(in, pel, NextId(last))
        PROVE  cut[1] \in FileType /\ cut[2] \in FileType
    <3> DEFINE c == [cereal EXCEPT ![NextId(last)] = NewContent(in)]
               j == [json EXCEPT ![NextId(last)] = NewContent(in)]
    <3>1. c \in FileType /\ j \in FileType /\ LoggedContent(in, pel) \in Content
      BY <1>0, <2>1, ContentTypes DEF FileType
    <3>2. cut = <<c, j>> \/ cut \in WriteCuts(c, j, NextId(last), LoggedContent(in, pel))
      BY <2>4 DEF RewriteCuts
    <3> HIDE DEF c, j
    <3> QED  BY <1>0, <2>1, <3>1, <3>2, CutsAreFiles
  <2> QED  BY <1>1, <2>2, <2>3, <2>4 DEF CreateCuts
<1>2. CASE Crash
  BY <1>0, <1>2, CrashKeepsInv DEF Crash, files
<1>3. ASSUME NEW in \in Inputs, CrashInCreate(in)
      PROVE  IndInv'
  <2>1. in \in Kinds /\ entryId \in Nat /\ entryId < MaxId
    BY <1>3, InputAssumption DEF CrashInCreate, IndInv, TypeOK
  <2>2. PICK cut \in CreateCuts(in, entryId) : CrashLeaving(cut)
    BY <1>3 DEF CrashInCreate
  <2> QED  BY <1>0, <1>1, <2>1, <2>2, CrashKeepsInv
<1>4. ASSUME NEW i \in Ids, CrashInErase(i)
      PROVE  IndInv'
  <2>1. PICK cut \in RemoveCuts({i}) : CrashLeaving(cut)
    BY <1>4 DEF CrashInErase
  <2> QED  BY <1>0, <2>1, CutsAreFiles, CrashKeepsInv
<1>5. ASSUME NEW i \in Ids, NEW value \in BOOLEAN, CrashInResolved(i, value)
      PROVE  IndInv'
  <2>1. PICK cut \in WriteCuts(cereal, json, i, Resolving(i, value)) : CrashLeaving(cut)
    BY <1>5 DEF CrashInResolved
  <2>2. Resolving(i, value) \in Content
    BY <1>0, <1>5, PropertyTypes DEF CrashInResolved
  <2> QED  BY <1>0, <2>1, <2>2, CutsAreFiles, CrashKeepsInv
<1>6. ASSUME NEW i \in Ids, NEW value \in Texts, CrashInSetText(i, value)
      PROVE  IndInv'
  <2> DEFINE c == [entries[i] EXCEPT !.text = value]
  <2>1. PICK cut \in WriteCuts(cereal, json, i, c) : CrashLeaving(cut)
    BY <1>6 DEF CrashInSetText
  <2>2. c \in Content
    BY <1>0, <1>6, PropertyTypes DEF CrashInSetText
  <2> HIDE DEF c
  <2> QED  BY <1>0, <2>1, <2>2, CutsAreFiles, CrashKeepsInv
<1>7. CASE CrashInEraseAll
  <2>1. PICK cut \in RemoveCuts({cursor}) : CrashLeaving(cut)
    BY <1>7 DEF CrashInEraseAll
  <2> QED  BY <1>0, <2>1, CutsAreFiles, CrashKeepsInv
<1>8. CASE CrashInDeleteAllFinish
  <2>1. PICK cut \in CreateCuts(LoggingCleared, LastIdAfterClear) : CrashLeaving(cut)
    BY <1>8 DEF CrashInDeleteAllFinish
  <2>2. LastIdAfterClear \in Nat /\ LastIdAfterClear < MaxId
    BY <1>8, LastIdAfterClearIsFree DEF CrashInDeleteAllFinish
  <2> QED  BY <1>0, <1>1, <2>1, <2>2, ContentTypes, CrashKeepsInv
<1>9. ASSUME NEW i \in Ids, CrashInRestore(i)
      PROVE  IndInv'
  <2>1. PICK left \in FileType, j \in {None, Torn} :
             CrashLeaving(<<left, [json EXCEPT ![i] = j]>>)
    BY <1>0, <1>9 DEF CrashInRestore, FileType
  <2>2. [json EXCEPT ![i] = j] \in FileType
    BY <1>0 DEF FileType
  <2> DEFINE cut == <<left, [json EXCEPT ![i] = j]>>
  <2>3. cut[1] \in FileType /\ cut[2] \in FileType /\ CrashLeaving(cut)
    BY <2>1, <2>2
  <2> HIDE DEF cut
  <2> QED  BY <1>0, <2>3, CrashKeepsInv
<1> QED  BY <1>2, <1>3, <1>4, <1>5, <1>6, <1>7, <1>8, <1>9 DEF Crashes

\* Isolation records and the mapper; they touch nothing of the daemon.
LEMMA EnvironmentKeepsInv ==
    ASSUME IndInv, Environment
    PROVE  IndInv'
<1>1. /\ isolated' \subseteq Ids /\ mapperUp' \in BOOLEAN
      /\ UNCHANGED <<entries, assocs, realErrors, infoErrors, entryId, blockingErrors,
                     propChangedEntryCallback, signals, cereal, json>>
      /\ UNCHANGED <<logIDWithHwIsolation, pc, cursor>>
  BY DEF Environment, Isolate, Deisolate, MapperChanges, entryVars, blockVars, files,
         control, IndInv, TypeOK
<1>2. Present' = Present
  BY <1>1 DEF Present
<1>3. TypeOK'
  BY <1>1 DEF IndInv, TypeOK
<1> QED  BY <1>1, <1>2, <1>3
         DEF IndInv, ListsIndexEntries, ListsUnused, NoEntryAboveLastId, ClearedBehindCursor,
             StartsFresh, BlocksAreOpenErrors

\* Delivery of a Resolved signal.
LEMMA SignalKeepsInv ==
    ASSUME IndInv, NEW i \in Ids, onEntryResolve(i)
    PROVE  IndInv'
<1>1. /\ signals[i] > 0 /\ signals' = [signals EXCEPT ![i] = @ - 1]
      /\ UNCHANGED <<entries, assocs, realErrors, infoErrors, entryId, cereal, json,
                     isolated, mapperUp, logIDWithHwIsolation, pc, cursor>>
  BY DEF onEntryResolve, entryVars, files, isolation, control
<1>2. Present' = Present
  BY <1>1 DEF Present
<1>3. signals' \in [Ids -> 0..MaxSignals] /\ \A j \in Ids \ {i} : signals'[j] = signals[j]
  BY <1>1, BoundsAssumption DEF IndInv, TypeOK
<1>4. CASE i \in propChangedEntryCallback
  <2>1. /\ blockingErrors' = blockingErrors \ {j \in Present : entries[j].resolved}
        /\ propChangedEntryCallback' =
               propChangedEntryCallback \ {j \in Present : entries[j].resolved}
    BY <1>4 DEF onEntryResolve, findAndRemoveResolvedBlocks, WithoutBlocks
  <2>2. BlocksAreOpenErrors'
    BY <1>1, <1>2, <2>1 DEF IndInv, BlocksAreOpenErrors
  <2>3. TypeOK'
    BY <1>1, <1>3, <2>1 DEF IndInv, TypeOK
  <2> QED  BY <1>1, <1>2, <2>2, <2>3
           DEF IndInv, ListsIndexEntries, ListsUnused, NoEntryAboveLastId, ClearedBehindCursor, StartsFresh
<1>5. CASE i \notin propChangedEntryCallback
  <2>1. UNCHANGED <<blockingErrors, propChangedEntryCallback>>
    BY <1>5 DEF onEntryResolve, blockVars
  <2>2. i \notin blockingErrors /\ blockingErrors \subseteq Ids
    BY <1>5 DEF IndInv, BlocksAreOpenErrors, TypeOK
  <2>3. BlocksAreOpenErrors'
    BY <1>1, <1>2, <1>3, <2>1, <2>2 DEF IndInv, BlocksAreOpenErrors
  <2>4. TypeOK'
    BY <1>1, <1>3, <2>1 DEF IndInv, TypeOK
  <2> QED  BY <1>1, <1>2, <2>3, <2>4
           DEF IndInv, ListsIndexEntries, ListsUnused, NoEntryAboveLastId, ClearedBehindCursor, StartsFresh
<1> QED  BY <1>4, <1>5

\* main() enters restore() with nothing in memory.
LEMMA RestartKeepsInv ==
    ASSUME IndInv, Restart
    PROVE  IndInv'
<1>1. /\ pc = "down" /\ pc' = "restoring"
      /\ UNCHANGED <<entries, assocs, realErrors, infoErrors, entryId, blockingErrors,
                     propChangedEntryCallback, signals, cereal, json, isolated, mapperUp>>
      /\ UNCHANGED <<logIDWithHwIsolation, cursor>>
  BY DEF Restart, entryVars, blockVars, files, isolation
<1>2. Present' = Present /\ Present = {}
  BY <1>1 DEF Present, IndInv, StartsFresh
<1>3. TypeOK'
  BY <1>1 DEF IndInv, TypeOK
<1> QED  BY <1>1, <1>2, <1>3
         DEF IndInv, ListsIndexEntries, ListsUnused, NoEntryAboveLastId, ClearedBehindCursor,
             StartsFresh, BlocksAreOpenErrors

-----------------------------------------------------------------------------
(* Theorems.                                                               *)

\* The daemon that has not started yet satisfies the invariant.
LEMMA IndInvInit == Init => IndInv
<1> SUFFICES ASSUME Init PROVE IndInv
  OBVIOUS
<1>1. Present = {}
  BY DEF Init, NoEntries, Present
<1>2. TypeOK
  BY BoundsAssumption DEF Init, TypeOK, Stores, NoEntries
<1>3. ToSet(<< >>) = {} /\ Ascending(<< >>)
  BY DEF ToSet, Ascending
<1> QED  BY <1>1, <1>2, <1>3
         DEF Init, IndInv, ListsIndexEntries, ListsUnused, NoEntryAboveLastId, ClearedBehindCursor,
             StartsFresh, BlocksAreOpenErrors

\* Every step, of the daemon or of its surroundings, keeps the invariant.
LEMMA IndInvStep == IndInv /\ [Next]_vars => IndInv'
<1> SUFFICES ASSUME IndInv, [Next]_vars PROVE IndInv'
  OBVIOUS
<1>1. CASE UNCHANGED vars
  <2>1. Present' = Present
    BY <1>1 DEF vars, Present
  <2> QED  BY <1>1, <2>1
           DEF vars, IndInv, TypeOK, ListsIndexEntries, ListsUnused, NoEntryAboveLastId,
               ClearedBehindCursor, StartsFresh, BlocksAreOpenErrors
<1>2. CASE Next
  BY <1>2, HandlersKeepInv, SignalKeepsInv, LoopsKeepInv, RestartKeepsInv,
     CrashesKeepInv, EnvironmentKeepsInv DEF Next
<1> QED  BY <1>1, <1>2

\* The inductive invariant holds in every reachable state of the daemon,
\* however its handlers, signals, crashes and restarts interleave.
THEOREM IndInvHolds == Spec => []IndInv
<1> QED  BY IndInvInit, IndInvStep, PTL DEF Spec

\* Type correctness of every variable of the daemon.
THEOREM TypeCorrect == Spec => []TypeOK
<1>1. IndInv => TypeOK
  BY DEF IndInv
<1> QED  BY <1>1, IndInvHolds, PTL

\* Without the PEL extension, realErrors and infoErrors index the entries by
\* severity in id order, torn files, evictions, deleteAll and restarts included.
THEOREM ListsCorrect == Spec => []ListsIndexEntries
<1>1. IndInv => ListsIndexEntries
  BY DEF IndInv
<1> QED  BY <1>1, IndInvHolds, PTL

\* createEntry never reuses the id of an entry that exists.
THEOREM IdsFresh == Spec => []NoEntryAboveLastId
<1>1. IndInv => NoEntryAboveLastId
  BY DEF IndInv
<1> QED  BY <1>1, IndInvHolds, PTL

\* eraseAll resets entryId only when nothing is left behind its iterator.
THEOREM ClearCorrect == Spec => []ClearedBehindCursor
<1>1. IndInv => ClearedBehindCursor
  BY DEF IndInv
<1> QED  BY <1>1, IndInvHolds, PTL

\* A Block object stands for an existing entry (without the PEL extension, an
\* error with a callout), and the signal that will remove it is in flight once
\* that entry is resolved.
THEOREM BlocksCorrect == Spec => []BlocksAreOpenErrors
<1>1. IndInv => BlocksAreOpenErrors
  BY DEF IndInv
<1> QED  BY <1>1, IndInvHolds, PTL

\* No step of any handler drops the block of an error that is still open.
LEMMA StepDropsNoOpenBlock == IndInv /\ [Next]_vars => [DropsNoOpenBlock]_vars
<1> SUFFICES ASSUME IndInv, Next PROVE DropsNoOpenBlock
  OBVIOUS
<1>1. ASSUME NEW i \in Ids, RemoveEntry(i) PROVE DropsNoOpenBlock
  BY <1>1 DEF RemoveEntry, Without, WithoutBlocks, DropsNoOpenBlock, IndInv, TypeOK
<1>2. ASSUME NEW in, NEW quiesce, NEW pel, NEW last, createEntry(in, quiesce, pel, last),
             \A i \in Present : i <= last, last \in Nat
      PROVE  DropsNoOpenBlock
  <2>1. ASSUME NEW i \in blockingErrors \ blockingErrors'
        PROVE  entries'[i] = None
    <3>1. i \in Ids /\ i \in Evicted(in)
      BY <1>2, <2>1 DEF createEntry, WithoutBlocks, IndInv, TypeOK
    <3>2. i # NextId(last)
      BY <1>2, <2>1, <3>1 DEF NextId, IndInv, BlocksAreOpenErrors
    <3> QED  BY <1>2, <3>1, <3>2 DEF createEntry, Without
  <2> QED  BY <2>1 DEF DropsNoOpenBlock
<1>3. CASE UNCHANGED blockVars
  BY <1>3 DEF blockVars, DropsNoOpenBlock
<1>4. CASE pc' = "down"
  BY <1>4 DEF DropsNoOpenBlock
<1>5. CASE Handlers
  <2>1. CASE \E in \in Inputs, quiesce \in QuiesceSettings : Create(in, quiesce)
    <3>1. PICK in \in Inputs, quiesce \in QuiesceSettings : Create(in, quiesce)
      BY <2>1
    <3>2. PICK pel \in doExtensionLogCreate(in) : createEntry(in, quiesce, pel, entryId)
      BY <3>1 DEF Create
    <3>3. entryId \in Nat /\ \A i \in Present : i <= entryId
      BY <3>1 DEF Create, IndInv, TypeOK, NoEntryAboveLastId
    <3> QED  BY <1>2, <3>2, <3>3
  <2>2. CASE \E i \in Ids : erase(i)
    BY <1>1, <2>2 DEF erase
  <2>3. CASE \/ \E i \in Ids, value \in BOOLEAN : resolved(i, value)
             \/ \E i \in Ids, value \in Texts : setText(i, value)
             \/ eraseAllStart
    BY <1>3, <2>3 DEF resolved, setText, eraseAllStart, blockVars
  <2> QED  BY <1>5, <2>1, <2>2, <2>3 DEF Handlers
<1>6. CASE \E i \in Ids : onEntryResolve(i)
  BY <1>6 DEF onEntryResolve, findAndRemoveResolvedBlocks, WithoutBlocks, blockVars,
              DropsNoOpenBlock
<1>7. CASE Loops
  <2>1. CASE eraseAllErase
    <3>1. cursor \in Ids /\ RemoveEntry(cursor)
      BY <2>1 DEF eraseAllErase, IndInv, TypeOK
    <3> QED  BY <1>1, <3>1
  <2>2. CASE deleteAllFinish
    <3>1. PICK quiesce \in QuiesceSettings, pel \in doExtensionLogCreate(LoggingCleared) :
               createEntry(LoggingCleared, quiesce, pel, LastIdAfterClear)
      BY <2>2 DEF deleteAllFinish
    <3>2. LastIdAfterClear \in Nat /\ \A i \in Present : i <= LastIdAfterClear
      BY <2>2, LastIdAfterClearIsFree DEF deleteAllFinish
    <3> QED  BY <1>2, <3>1, <3>2
  <2>3. CASE eraseAllKeep \/ eraseAllThrows \/ restoreFinish
    BY <1>3, <2>3 DEF eraseAllKeep, eraseAllThrows, restoreFinish
  <2>4. CASE \E i \in Ids : Restoring(i)
    BY <1>3, <2>4 DEF Restoring
  <2> QED  BY <1>7, <2>1, <2>2, <2>3, <2>4
           DEF Loops, restoreNothing, deserializeJSON, deserializeJSONFails, deserialize,
               deserializeFails
<1>8. CASE Restart \/ Environment
  BY <1>3, <1>8 DEF Restart, Environment, Isolate, Deisolate, MapperChanges
<1>9. CASE Crashes
  <2>1. \E cut : CrashLeaving(cut)
    BY <1>9 DEF Crashes, Crash, CrashInCreate, CrashInErase, CrashInResolved, CrashInSetText,
                CrashInEraseAll, CrashInDeleteAllFinish, CrashInRestore
  <2> QED  BY <1>4, <2>1 DEF CrashLeaving
<1> QED  BY <1>5, <1>6, <1>7, <1>8, <1>9 DEF Next

\* While the daemon lives, a boot block goes away only with its entry or after
\* its entry was resolved, whatever signals are still in flight.
THEOREM BlocksOutliveOpenErrors == Spec => BlockOutlivesOpenError
<1> QED  BY IndInvHolds, StepDropsNoOpenBlock, PTL DEF Spec, BlockOutlivesOpenError
=============================================================================
