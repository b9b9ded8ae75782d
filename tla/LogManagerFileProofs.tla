------------------------ MODULE LogManagerFileProofs ------------------------
(***************************************************************************)
(* Proofs about the files LogManager keeps: what restore finds of an entry *)
(* (Stored) follows the entries map through every handler, crash and       *)
(* restart.  From it follow the caps, the survival of isolated entries and *)
(* the refinement of EventLogStore.                                        *)
(*                                                                         *)
(* The results about files hold where no crash tears a file, TornWrites =  *)
(* FALSE: a cereal file that does not parse comes back as an empty error,  *)
(* whatever class the entry had, and a JSON file that does not parse takes *)
(* its entry with it.                                                      *)
(***************************************************************************)
EXTENDS LogManagerProofs, FiniteSetTheorems

USE DEF Ids

-----------------------------------------------------------------------------
(* The invariant.                                                          *)

NoTornFile == \A i \in Ids : cereal[i] # Torn /\ json[i] # Torn

\* Has the running process made entry i what its files say?
Settled(i) == pc \in {"idle", "clearing"} \/ (pc = "restoring" /\ i < cursor)

SettledMirrors ==
    \A i \in Ids : Settled(i) =>
        /\ json[i] = entries[i]
        /\ cereal[i] # None => entries[i] # None

IsolationIsPEL == isolated # {} => PELExtension

\* The ids restore would put on one of the two lists.
StoredClass(info) == {i \in Ids : Stored(i) # None /\ Stored(i).info = info}

StoredCapsHold ==
    ~PELExtension => /\ Cardinality(StoredClass(FALSE)) <= ERROR_CAP
                     /\ Cardinality(StoredClass(TRUE)) <= ERROR_INFO_CAP

FileInv == NoTornFile /\ SettledMirrors /\ IsolationIsPEL

FileIndInv == IndInv /\ FileInv /\ StoredCapsHold

-----------------------------------------------------------------------------
(* Counting entries.                                                       *)

Class(info) == {i \in Present : entries[i].info = info}

\* The length of an ascending list is the number of ids on it.
LEMMA LengthOfAscending ==
    ASSUME NEW ids \in Seq(Ids), Ascending(ids)
    PROVE  Len(ids) = Cardinality(ToSet(ids)) /\ IsFiniteSet(ToSet(ids))
<1>1. ids \in [1..Len(ids) -> ToSet(ids)] /\ DOMAIN ids = 1..Len(ids)
  BY DEF ToSet
<1>2. \A m, n \in 1..Len(ids) : ids[m] = ids[n] => m = n
  <2>1. \A m, n \in 1..Len(ids) : ids[m] \in Int /\ (m < n => ids[m] < ids[n])
    BY <1>1, BoundsAssumption DEF Ascending
  <2> QED  BY <2>1
<1>3. \A x \in ToSet(ids) : \E m \in 1..Len(ids) : ids[m] = x
  BY <1>1 DEF ToSet
<1>4. ids \in Bijection(1..Len(ids), ToSet(ids))
  BY <1>1, <1>2, <1>3 DEF Bijection, Injection, Surjection, IsInjective
<1>5. ExistsBijection(1..Len(ids), ToSet(ids)) /\ Len(ids) \in Nat
  BY <1>4 DEF ExistsBijection
<1>6. IsFiniteSet(1..Len(ids))
  BY <1>5, FS_Interval
<1> QED  BY <1>5, <1>6, FS_CountingElements, FS_Bijection

\* Each list has as many ids as its class has entries, and its front is the
\* oldest of them.
LEMMA ListsCountClasses ==
    ASSUME IndInv, ~PELExtension
    PROVE  /\ Len(realErrors) = Cardinality(Class(FALSE))
           /\ Len(infoErrors) = Cardinality(Class(TRUE))
           /\ ToSet(realErrors) = Class(FALSE) /\ ToSet(infoErrors) = Class(TRUE)
           /\ realErrors # << >> => /\ Head(realErrors) \in Class(FALSE)
                                    /\ \A j \in Class(FALSE) : Head(realErrors) <= j
           /\ infoErrors # << >> => /\ Head(infoErrors) \in Class(TRUE)
                                    /\ \A j \in Class(TRUE) : Head(infoErrors) <= j
<1>1. /\ realErrors \in Seq(Ids) /\ infoErrors \in Seq(Ids)
      /\ Ascending(realErrors) /\ Ascending(infoErrors)
  BY DEF IndInv, TypeOK, ListsIndexEntries
<1>2. ToSet(realErrors) = Class(FALSE) /\ ToSet(infoErrors) = Class(TRUE)
  <2>1. \A i \in Present : entries[i].info \in BOOLEAN
    BY DEF IndInv, TypeOK, Present, Stores, Content
  <2>2. ToSet(realErrors) = {i \in Present : ~entries[i].info}
        /\ ToSet(infoErrors) = {i \in Present : entries[i].info}
    BY DEF IndInv, ListsIndexEntries
  <2> QED  BY <2>1, <2>2 DEF Class
<1>3. ASSUME NEW ids \in Seq(Ids), Ascending(ids), ids # << >>
      PROVE  Head(ids) \in ToSet(ids) /\ \A j \in ToSet(ids) : Head(ids) <= j
  <2>1. Head(ids) = ids[1] /\ 1 \in DOMAIN ids /\ DOMAIN ids = 1..Len(ids)
    BY <1>3
  <2>2. \A n \in 1..Len(ids) : ids[n] \in Int
    BY <2>1, BoundsAssumption
  <2>3. \A n \in 1..Len(ids) : ids[1] <= ids[n]
    BY <1>3, <2>1, <2>2 DEF Ascending
  <2> QED  BY <2>1, <2>3 DEF ToSet
<1>4. /\ Len(realErrors) = Cardinality(ToSet(realErrors))
      /\ Len(infoErrors) = Cardinality(ToSet(infoErrors))
  BY <1>1, LengthOfAscending
<1> QED  BY <1>1, <1>2, <1>3, <1>4

CapOf(info) == IF info THEN ERROR_INFO_CAP ELSE ERROR_CAP

\* createEntry evicts the oldest entry of the new one's class when, and only
\* when, that class is full.
LEMMA EvictedIsOldest ==
    ASSUME IndInv, NEW in \in Kinds
    PROVE  \/ /\ Evicted(in) = {}
              /\ ~PELExtension => Cardinality(Class(in.info)) < CapOf(in.info)
           \/ /\ ~PELExtension
              /\ Cardinality(Class(in.info)) >= CapOf(in.info)
              /\ \E i \in Class(in.info) :
                    Evicted(in) = {i} /\ \A j \in Class(in.info) : i <= j
<1>1. in.info \in BOOLEAN /\ PELExtension \in BOOLEAN
  BY FlagAssumption DEF Kinds
<1>2. Len(realErrors) \in Nat /\ Len(infoErrors) \in Nat
  BY DEF IndInv, TypeOK
<1>3. /\ Len(realErrors) >= ERROR_CAP => realErrors # << >>
      /\ Len(infoErrors) >= ERROR_INFO_CAP => infoErrors # << >>
  BY CapAssumption
<1>4. CASE PELExtension
  BY <1>4 DEF Evicted
<1>5. CASE ~PELExtension /\ in.info
  <2>1. CapOf(in.info) = ERROR_INFO_CAP /\ Class(in.info) = Class(TRUE)
    BY <1>1, <1>5 DEF CapOf
  <2>2. CASE Len(infoErrors) >= ERROR_INFO_CAP
    BY <1>3, <1>5, <2>1, <2>2, ListsCountClasses DEF Evicted
  <2>3. CASE ~(Len(infoErrors) >= ERROR_INFO_CAP)
    <3>1. Evicted(in) = {}
      BY <1>5, <2>3 DEF Evicted
    <3>2. Len(infoErrors) < ERROR_INFO_CAP
      BY <1>2, <2>3, CapAssumption
    <3> QED  BY <1>5, <2>1, <3>1, <3>2, ListsCountClasses
  <2> QED  BY <2>2, <2>3
<1>6. CASE ~PELExtension /\ ~in.info
  <2>1. CapOf(in.info) = ERROR_CAP /\ Class(in.info) = Class(FALSE)
    BY <1>1, <1>6 DEF CapOf
  <2>2. CASE Len(realErrors) >= ERROR_CAP
    BY <1>3, <1>6, <2>1, <2>2, ListsCountClasses DEF Evicted
  <2>3. CASE ~(Len(realErrors) >= ERROR_CAP)
    <3>1. Evicted(in) = {}
      BY <1>6, <2>3 DEF Evicted
    <3>2. Len(realErrors) < ERROR_CAP
      BY <1>2, <2>3, CapAssumption
    <3> QED  BY <1>6, <2>1, <3>1, <3>2, ListsCountClasses
  <2> QED  BY <2>2, <2>3
<1> QED  BY <1>1, <1>4, <1>5, <1>6
-----------------------------------------------------------------------------
(* What a step does to the stored copies.                                  *)

StoreKept == \A j \in Ids : Stored(j)' = Stored(j)

StoreUpdated ==
    \E i \in Present, content \in Content :
        /\ content.info = entries[i].info /\ content.callout = entries[i].callout
        /\ Prohibited(i) => content.resolved = entries[i].resolved
        /\ \A j \in Ids : Stored(j)' = IF j = i THEN content ELSE Stored(j)

StoreRemoved ==
    \E i \in Present :
        /\ ~Prohibited(i)
        /\ \A j \in Ids : Stored(j)' = IF j = i THEN None ELSE Stored(j)

\* What a new event may be stored as: an extension may change its severity.
NewEvent(in) == {c \in Content : ~c.resolved /\ (~PELExtension => c.info = in.info)}

StoreAdded ==
    \E in \in Kinds, last \in Nat : \E event \in NewEvent(in) :
        /\ last < MaxId
        /\ \A i \in Present : i <= last
        /\ \A j \in Ids : Stored(j)' = IF j = last + 1 THEN event
                                       ELSE IF j \in Evicted(in) THEN None ELSE Stored(j)

StoreStep ==
    \/ StoreKept
    \/ pc \in {"idle", "clearing"} /\ (StoreUpdated \/ StoreRemoved \/ StoreAdded)

\* An entry of a running daemon is what restore would find of it.
LEMMA StoredIsEntry ==
    ASSUME FileInv, NEW i \in Ids, Settled(i)
    PROVE  Stored(i) = entries[i]
BY DEF FileInv, SettledMirrors, Stored

\* createEntry stores an event as it came, or as the extension left it.
LEMMA NewEvents ==
    ASSUME NEW in \in Kinds
    PROVE  /\ NewContent(in) \in NewEvent(in)
           /\ \A pel \in doExtensionLogCreate(in) : LoggedContent(in, pel) \in NewEvent(in)
           /\ \A c \in NewEvent(in) : c \in Content /\ c # None /\ c # Torn
<1>1. NewContent(in) \in NewEvent(in)
  BY ContentTypes DEF NewEvent, NewContent
<1>2. ASSUME NEW pel \in doExtensionLogCreate(in)
      PROVE  LoggedContent(in, pel) \in NewEvent(in)
  <2>1. LoggedContent(in, pel).info = pel.info /\ ~LoggedContent(in, pel).resolved
    BY DEF LoggedContent, NewContent
  <2> QED  BY <2>1, ContentTypes, ExtensionOutcome DEF NewEvent
<1>3. \A c \in NewEvent(in) : c \in Content /\ c # None /\ c # Torn
  BY MarkerAssumption DEF NewEvent
<1> QED  BY <1>1, <1>2, <1>3

\* The files written by createEntry, whole or up to one of its cereal files.
LEMMA CreateStores ==
    ASSUME IndInv, FileInv, pc \in {"idle", "clearing"},
           NEW in \in Kinds, NEW last \in Nat, last < MaxId, \A i \in Present : i <= last,
           NEW b \in NewEvent(in), NEW c \in NewEvent(in),
           cereal' = [Without(cereal, Evicted(in)) EXCEPT ![last + 1] = b],
           \/ json' = [Without(json, Evicted(in)) EXCEPT ![last + 1] = c]
           \/ json' = Without(json, Evicted(in)) /\ b = c
    PROVE  /\ \A j \in Ids : cereal'[j] # Torn /\ json'[j] # Torn
           /\ StoreAdded
<1> DEFINE id == last + 1
           out == Evicted(in)
<1>1. id \in Ids /\ id \notin Present
  BY BoundsAssumption DEF Present
<1>2. c # None /\ c # Torn /\ b # None /\ b # Torn
  BY NewEvents
<1>3. json[id] = None
  BY <1>1 DEF FileInv, SettledMirrors, Settled, Present
<1>4. /\ cereal'[id] = b /\ (json'[id] = c \/ (json'[id] = None /\ b = c))
      /\ \A j \in Ids \ {id} : /\ cereal'[j] = IF j \in out THEN None ELSE cereal[j]
                               /\ json'[j] = IF j \in out THEN None ELSE json[j]
  <2>1. cereal' = [Without(cereal, out) EXCEPT ![id] = b]
        /\ \/ json' = [Without(json, out) EXCEPT ![id] = c]
           \/ (json' = Without(json, out) /\ b = c)
    OBVIOUS
  <2> HIDE DEF out, id
  <2>2. \A j \in Ids \ {id} : cereal'[j] = IF j \in out THEN None ELSE cereal[j]
    BY <2>1 DEF Without
  <2>3. cereal'[id] = b
    BY <1>1, <2>1 DEF Without
  <2>4. CASE json' = [Without(json, out) EXCEPT ![id] = c]
    <3>1. \A j \in Ids \ {id} : json'[j] = IF j \in out THEN None ELSE json[j]
      BY <2>4 DEF Without
    <3>2. json'[id] = c
      BY <1>1, <2>4 DEF Without
    <3> QED  BY <2>2, <2>3, <3>1, <3>2
  <2>5. CASE json' = Without(json, out) /\ b = c
    BY <1>1, <1>3, <2>2, <2>3, <2>5 DEF Without
  <2> QED  BY <2>1, <2>4, <2>5
<1>5. \A j \in Ids : Stored(j)' = IF j = id THEN c ELSE IF j \in out THEN None ELSE Stored(j)
  <2> HIDE DEF out
  <2> QED  BY <1>2, <1>4 DEF Stored
<1>6. \A j \in Ids : cereal'[j] # Torn /\ json'[j] # Torn
  <2> HIDE DEF out
  <2> QED  BY <1>1, <1>2, <1>4, MarkerAssumption DEF FileInv, NoTornFile
<1> QED  BY <1>5, <1>6 DEF StoreAdded

\* createEntry() run to its end: the two files follow the entries map.
LEMMA CreateMirrors ==
    ASSUME IndInv, FileInv, pc \in {"idle", "clearing"}, pc' \in {"idle", "clearing"},
           NEW in \in Kinds, NEW quiesce, NEW pel \in doExtensionLogCreate(in),
           NEW last \in Nat, last < MaxId,
           \A i \in Present : i <= last, createEntry(in, quiesce, pel, last)
    PROVE  FileInv' /\ StoreStep
<1> DEFINE c == LoggedContent(in, pel)
<1>0. c \in NewEvent(in) /\ c # None
  BY NewEvents
<1>1. /\ cereal' = [Without(cereal, Evicted(in)) EXCEPT ![last + 1] = c]
      /\ json' = [Without(json, Evicted(in)) EXCEPT ![last + 1] = c]
      /\ entries' = [Without(entries, Evicted(in)) EXCEPT ![last + 1] = c]
      /\ isolated' = isolated
  BY DEF createEntry, NextId, isolation
<1> HIDE DEF c
<1>2. NoTornFile' /\ StoreAdded
  BY <1>0, <1>1, CreateStores DEF NoTornFile
<1>3. SettledMirrors'
  <2>2. \A j \in Ids : json[j] = entries[j] /\ (cereal[j] # None => entries[j] # None)
    BY DEF FileInv, SettledMirrors, Settled
  <2>3. ASSUME NEW j \in Ids
        PROVE  json'[j] = entries'[j] /\ (cereal'[j] # None => entries'[j] # None)
    <3>1. CASE j = last + 1
      BY <1>0, <1>1, <3>1 DEF Without
    <3>2. CASE j # last + 1
      BY <1>1, <2>2, <3>2 DEF Without
    <3> QED  BY <3>1, <3>2
  <2> QED  BY <2>3 DEF SettledMirrors
<1> QED  BY <1>1, <1>2, <1>3 DEF FileInv, IsolationIsPEL, StoreStep

\* erase() run to its end.
LEMMA RemoveMirrors ==
    ASSUME IndInv, FileInv, pc \in {"idle", "clearing"}, pc' \in {"idle", "clearing"},
           NEW i \in Present, ~Prohibited(i), RemoveEntry(i), isolated' = isolated
    PROVE  FileInv' /\ StoreStep
<1>1. i \in Ids
  BY DEF Present
<1>2. \A j \in Ids : /\ cereal'[j] = IF j = i THEN None ELSE cereal[j]
                     /\ json'[j] = IF j = i THEN None ELSE json[j]
                     /\ entries'[j] = IF j = i THEN None ELSE entries[j]
  BY <1>1 DEF RemoveEntry, Without
<1>3. NoTornFile'
  BY <1>2, MarkerAssumption DEF FileInv, NoTornFile
<1>4. SettledMirrors'
  BY <1>2 DEF FileInv, SettledMirrors, Settled
<1>5. \A j \in Ids : Stored(j)' = IF j = i THEN None ELSE Stored(j)
  BY <1>2 DEF Stored
<1> QED  BY <1>3, <1>4, <1>5 DEF FileInv, IsolationIsPEL, StoreStep, StoreRemoved
\* A property setter that stores the new content.
LEMMA PersistMirrors ==
    ASSUME IndInv, FileInv, pc = "idle", pc' = pc, isolated' = isolated,
           NEW i \in Present, NEW content \in Content,
           content.info = entries[i].info, content.callout = entries[i].callout,
           Prohibited(i) => content.resolved = entries[i].resolved,
           entries' = [entries EXCEPT ![i] = content], Persist(i, content)
    PROVE  FileInv' /\ StoreStep
<1>1. i \in Ids /\ content # None /\ content # Torn
  BY MarkerAssumption DEF Present
<1>2. \A j \in Ids : /\ cereal'[j] = IF j = i THEN content ELSE cereal[j]
                     /\ json'[j] = IF j = i THEN content ELSE json[j]
                     /\ entries'[j] = IF j = i THEN content ELSE entries[j]
  BY <1>1 DEF Persist, IndInv, TypeOK, Stores
<1>3. NoTornFile'
  BY <1>1, <1>2 DEF FileInv, NoTornFile
<1>4. SettledMirrors'
  BY <1>1, <1>2 DEF FileInv, SettledMirrors, Settled
<1>5. \A j \in Ids : Stored(j)' = IF j = i THEN content ELSE Stored(j)
  BY <1>1, <1>2 DEF Stored
<1>6. StoreUpdated
  BY <1>5 DEF StoreUpdated
<1> QED  BY <1>3, <1>4, <1>6 DEF FileInv, IsolationIsPEL, StoreStep

\* A process that has just died has nothing to mirror.
LEMMA CrashSettles ==
    ASSUME FileInv, NEW cut, CrashLeaving(cut),
           \A i \in Ids : cut[1][i] # Torn /\ cut[2][i] # Torn
    PROVE  FileInv' /\ cereal' = cut[1] /\ json' = cut[2]
<1>1. /\ cereal' = cut[1] /\ json' = cut[2] /\ pc' = "down" /\ isolated' = isolated
  BY DEF CrashLeaving, isolation
<1> QED  BY <1>1 DEF FileInv, NoTornFile, SettledMirrors, Settled, IsolationIsPEL

\* A crash in erase() leaves the entry, or has removed it.
LEMMA RemoveCutStores ==
    ASSUME IndInv, FileInv, pc \in {"idle", "clearing"}, NEW i \in Present, ~Prohibited(i),
           NEW cut \in RemoveCuts({i}), CrashLeaving(cut)
    PROVE  FileInv' /\ StoreStep
<1>1. i \in Ids /\ \A j \in Ids : json[j] = entries[j] /\ (cereal[j] # None => json[j] # None)
  BY DEF FileInv, SettledMirrors, Settled, Present
<1>2. /\ \A j \in Ids : cut[1][j] = IF j = i THEN None ELSE cereal[j]
      /\ \/ cut[2] = json
         \/ \A j \in Ids : cut[2][j] = IF j = i THEN None ELSE json[j]
  <2>1. cut = <<Without(cereal, {i}), json>> \/ cut = <<Without(cereal, {i}), Without(json, {i})>>
    BY DEF RemoveCuts
  <2>2. cut[1] = Without(cereal, {i}) /\ (cut[2] = json \/ cut[2] = Without(json, {i}))
    BY <2>1
  <2> QED  BY <2>2 DEF Without
<1>3. \A j \in Ids : cut[1][j] # Torn /\ cut[2][j] # Torn
  BY <1>2, MarkerAssumption DEF FileInv, NoTornFile
<1>4. FileInv' /\ cereal' = cut[1] /\ json' = cut[2]
  BY <1>3, CrashSettles
<1>5. CASE cut[2] = json
  <2>1. StoreKept
    BY <1>1, <1>2, <1>4, <1>5 DEF StoreKept, Stored, Present
  <2> QED  BY <1>4, <2>1 DEF StoreStep
<1>6. CASE \A j \in Ids : cut[2][j] = IF j = i THEN None ELSE json[j]
  <2>1. \A j \in Ids : Stored(j)' = IF j = i THEN None ELSE Stored(j)
    BY <1>2, <1>4, <1>6 DEF Stored
  <2> QED  BY <1>4, <2>1 DEF StoreStep, StoreRemoved
<1> QED  BY <1>2, <1>5, <1>6

\* A crash in persist(): the JSON file still holds what it held.
LEMMA WriteCutStores ==
    ASSUME ~TornWrites, IndInv, FileInv, pc \in {"idle", "clearing"},
           NEW i \in Present, NEW content \in Content,
           NEW cut \in WriteCuts(cereal, json, i, content), CrashLeaving(cut)
    PROVE  FileInv' /\ StoreStep
<1>1. /\ i \in Ids /\ json[i] # None
  BY DEF FileInv, SettledMirrors, Settled, Present
<1>2. cut = <<[cereal EXCEPT ![i] = content], json>>
  BY DEF WriteCuts
<1>3. cut[2] = json /\ \A j \in Ids : cut[1][j] = IF j = i THEN content ELSE cereal[j]
  BY <1>1, <1>2 DEF IndInv, TypeOK
<1>4. \A j \in Ids : cut[1][j] # Torn /\ cut[2][j] # Torn
  BY <1>3, MarkerAssumption DEF FileInv, NoTornFile
<1>5. FileInv' /\ cereal' = cut[1] /\ json' = cut[2]
  BY <1>4, CrashSettles
<1>6. StoreKept
  BY <1>1, <1>3, <1>5 DEF StoreKept, Stored
<1> QED  BY <1>5, <1>6 DEF StoreStep

\* A crash in createEntry(): the new event is there with its cereal file, and
\* whatever it evicts has gone before.
LEMMA CreateCutStores ==
    ASSUME ~TornWrites, IndInv, FileInv, pc \in {"idle", "clearing"},
           NEW in \in Kinds, NEW last \in Nat, last < MaxId, \A i \in Present : i <= last,
           NEW cut \in CreateCuts(in, last), CrashLeaving(cut)
    PROVE  FileInv' /\ StoreStep
<1>1. cereal' = cut[1] /\ json' = cut[2] /\ pc' = "down" /\ isolated' = isolated
  BY DEF CrashLeaving, isolation
<1>2. CASE cut \in WriteCuts(Without(cereal, Evicted(in)), Without(json, Evicted(in)),
                             last + 1, NewContent(in))
  <2>1. /\ cut[1] = [Without(cereal, Evicted(in)) EXCEPT ![last + 1] = NewContent(in)]
        /\ cut[2] = Without(json, Evicted(in))
    BY <1>2 DEF WriteCuts
  <2>2. StoreAdded /\ NoTornFile'
    BY <1>1, <2>1, CreateStores, NewEvents DEF NoTornFile
  <2> QED  BY <1>1, <2>2 DEF FileInv, SettledMirrors, Settled, IsolationIsPEL, StoreStep
<1>3. CASE Evicted(in) # {} /\ cut \in RemoveCuts(Evicted(in))
  <2>1. PICK i \in Present : Evicted(in) = {i} /\ ~PELExtension
    BY <1>3, EvictedIsOldest DEF Class
  <2> QED  BY <1>3, <2>1, RemoveCutStores DEF Prohibited
<1>4. ASSUME PELExtension, NEW pel \in doExtensionLogCreate(in),
             cut \in RewriteCuts(in, pel, last + 1)
      PROVE  FileInv' /\ StoreStep
  <2> DEFINE a == NewContent(in)
             b == LoggedContent(in, pel)
             c == [cereal EXCEPT ![last + 1] = a]
             j == [json EXCEPT ![last + 1] = a]
  <2>1. last + 1 \in Ids /\ Evicted(in) = {} /\ cereal \in FileType /\ json \in FileType
    BY <1>4, BoundsAssumption DEF Evicted, IndInv, TypeOK, FileType
  <2>2. cut = <<c, j>> \/ cut = <<[c EXCEPT ![last + 1] = b], j>>
    BY <1>4 DEF RewriteCuts, WriteCuts
  <2>3. Without(cereal, {}) = cereal /\ Without(json, {}) = json
    BY <2>1 DEF Without, FileType
  <2>4. a \in NewEvent(in) /\ b \in NewEvent(in)
    BY <1>4, NewEvents
  <2>5. [c EXCEPT ![last + 1] = b] = [cereal EXCEPT ![last + 1] = b]
    <3> HIDE DEF a, b
    <3> QED  BY <2>1 DEF FileType
  <2> HIDE DEF a, b
  <2>6. /\ cut[1] = [Without(cereal, Evicted(in)) EXCEPT ![last + 1] = a]
           \/ cut[1] = [Without(cereal, Evicted(in)) EXCEPT ![last + 1] = b]
        /\ cut[2] = [Without(json, Evicted(in)) EXCEPT ![last + 1] = a]
    BY <2>1, <2>2, <2>3, <2>5
  <2>7. StoreAdded /\ NoTornFile'
    BY <1>1, <2>4, <2>6, CreateStores DEF NoTornFile
  <2> QED  BY <1>1, <2>7 DEF FileInv, SettledMirrors, Settled, IsolationIsPEL, StoreStep
<1> QED  BY <1>2, <1>3, <1>4 DEF CreateCuts, NextId
\* One iteration of restore(): the entry becomes what its files say, and its
\* JSON file is there from then on.
LEMMA RestoreMirrors ==
    ASSUME IndInv, FileInv, NEW i \in Ids,
           \/ restoreNothing(i) \/ deserializeJSON(i) \/ deserializeJSONFails(i)
           \/ deserialize(i) \/ deserializeFails(i)
    PROVE  FileInv' /\ StoreStep
<1>1. /\ pc = "restoring" /\ pc' = pc /\ i = cursor /\ cursor' = cursor + 1
      /\ isolated' = isolated
  BY DEF restoreNothing, deserializeJSON, deserializeJSONFails, deserialize,
         deserializeFails, Restoring, isolation
<1>2. json[i] # Torn /\ cereal[i] # Torn
  BY DEF FileInv, NoTornFile
<1>3. entries[i] = None
  BY <1>1 DEF IndInv, NoEntryAboveLastId, TypeOK, Present
<1>4. /\ \A j \in Ids \ {i} : /\ cereal'[j] = cereal[j] /\ json'[j] = json[j]
                              /\ entries'[j] = entries[j]
      /\ json'[i] = entries'[i] /\ cereal'[i] = cereal[i]
      /\ json'[i] = IF json[i] # None THEN json[i] ELSE cereal[i]
  <2>0. entries \in [Ids -> Content \cup {None}] /\ json \in FileType /\ cereal \in FileType
    BY DEF IndInv, TypeOK, Stores, FileType
  <2>1. CASE restoreNothing(i)
    BY <1>3, <2>0, <2>1 DEF restoreNothing, files
  <2>2. CASE deserializeJSON(i)
    BY <1>1, <1>2, <2>0, <2>2 DEF deserializeJSON, Restored, files, FileType
  <2>3. CASE deserialize(i)
    BY <1>1, <1>2, <2>0, <2>3 DEF deserialize, Restored, FileType
  <2> QED  BY <1>2, <2>1, <2>2, <2>3 DEF deserializeJSONFails, deserializeFails
<1>5. NoTornFile'
  BY <1>2, <1>4 DEF FileInv, NoTornFile
<1>6. SettledMirrors'
  <2>1. ASSUME NEW j \in Ids, Settled(j)', j # i PROVE Settled(j)
    BY <1>1, <2>1 DEF Settled, IndInv, TypeOK
  <2> QED  BY <1>4, <2>1 DEF FileInv, SettledMirrors
<1>7. StoreKept
  BY <1>4 DEF StoreKept, Stored
<1> QED  BY <1>1, <1>5, <1>6, <1>7 DEF FileInv, IsolationIsPEL, StoreStep

\* Steps that touch neither the entries nor the files.
LEMMA UntouchedMirrors ==
    ASSUME IndInv, FileInv, UNCHANGED <<entries, cereal, json>>, IsolationIsPEL',
           \A i \in Ids : Settled(i)' => Settled(i)
    PROVE  FileInv' /\ StoreStep
<1>1. NoTornFile' /\ SettledMirrors'
  BY DEF FileInv, NoTornFile, SettledMirrors
<1>2. StoreKept
  BY DEF StoreKept, Stored
<1> QED  BY <1>1, <1>2 DEF FileInv, StoreStep

\* Every step keeps the files in line with the entries and changes what is
\* stored as EventLogStore allows.
LEMMA FileInvStep ==
    ASSUME ~TornWrites, IndInv, FileInv, [Next]_vars
    PROVE  FileInv' /\ StoreStep
<1>0. ASSUME UNCHANGED <<entries, cereal, json, isolated, pc, cursor>>
      PROVE  FileInv' /\ StoreStep
  BY <1>0, UntouchedMirrors DEF FileInv, IsolationIsPEL, Settled
<1>1. CASE UNCHANGED vars
  BY <1>0, <1>1 DEF vars
<1>2. CASE Handlers
  <2>1. ASSUME NEW in \in Inputs, NEW quiesce \in QuiesceSettings, Create(in, quiesce)
        PROVE  FileInv' /\ StoreStep
    <3>0. PICK pel \in doExtensionLogCreate(in) : createEntry(in, quiesce, pel, entryId)
      BY <2>1 DEF Create
    <3>1. /\ pc = "idle" /\ pc' = pc
          /\ in \in Kinds /\ entryId \in Nat /\ entryId < MaxId
          /\ \A i \in Present : i <= entryId
      BY <2>1, InputAssumption DEF Create, control, IndInv, TypeOK, NoEntryAboveLastId
    <3> QED  BY <3>0, <3>1, CreateMirrors
  <2>2. ASSUME NEW i \in Ids, erase(i)
        PROVE  FileInv' /\ StoreStep
    BY <2>2, RemoveMirrors DEF erase, isolation, control
  <2>3. ASSUME NEW i \in Ids, NEW value \in BOOLEAN, resolved(i, value)
        PROVE  FileInv' /\ StoreStep
    <3>1. /\ pc = "idle" /\ pc' = pc /\ isolated' = isolated /\ i \in Present
          /\ ~Prohibited(i)
          /\ entries' = [entries EXCEPT ![i] = Resolving(i, value)]
          /\ Persist(i, Resolving(i, value))
      BY <2>3 DEF resolved, isolation, control
    <3>2. /\ Resolving(i, value) \in Content
          /\ Resolving(i, value).info = entries[i].info
          /\ Resolving(i, value).callout = entries[i].callout
      BY <3>1, PropertyTypes DEF IndInv
    <3> QED  BY <3>1, <3>2, PersistMirrors
  <2>4. ASSUME NEW i \in Ids, NEW value \in Texts, setText(i, value)
        PROVE  FileInv' /\ StoreStep
    <3> DEFINE c == [entries[i] EXCEPT !.text = value]
    <3>1. /\ pc = "idle" /\ pc' = pc /\ isolated' = isolated /\ i \in Present
          /\ entries' = [entries EXCEPT ![i] = c] /\ Persist(i, c)
      BY <2>4 DEF setText, isolation, control
    <3>2. /\ c \in Content /\ c.info = entries[i].info /\ c.callout = entries[i].callout
          /\ c.resolved = entries[i].resolved
      BY <3>1, PropertyTypes DEF IndInv
    <3> HIDE DEF c
    <3> QED  BY <3>1, <3>2, PersistMirrors
  <2>5. CASE eraseAllStart
    BY <2>5, UntouchedMirrors
       DEF eraseAllStart, entryVars, files, isolation, FileInv, IsolationIsPEL, Settled
  <2> QED  BY <1>2, <2>1, <2>2, <2>3, <2>4, <2>5 DEF Handlers
<1>3. CASE \E i \in Ids : onEntryResolve(i)
  BY <1>0, <1>3 DEF onEntryResolve, entryVars, files, isolation, control
<1>4. CASE Loops
  <2>1. CASE eraseAllKeep \/ eraseAllThrows
    BY <2>1, UntouchedMirrors
       DEF eraseAllKeep, eraseAllThrows, entryVars, files, isolation, FileInv,
           IsolationIsPEL, Settled
  <2>2. CASE eraseAllErase
    BY <2>2, RemoveMirrors DEF eraseAllErase, isolation, Kept
  <2>3. CASE deleteAllFinish
    <3>1. PICK quiesce \in QuiesceSettings, pel \in doExtensionLogCreate(LoggingCleared) :
               createEntry(LoggingCleared, quiesce, pel, LastIdAfterClear)
      BY <2>3 DEF deleteAllFinish
    <3>2. pc = "clearing" /\ cursor > MaxId /\ pc' = "idle" /\ LoggingCleared \in Kinds
      BY <2>3, ContentTypes DEF deleteAllFinish
    <3>3. /\ LastIdAfterClear \in Nat /\ LastIdAfterClear < MaxId
          /\ \A i \in Present : i <= LastIdAfterClear
      BY <3>2, LastIdAfterClearIsFree
    <3> QED  BY <3>1, <3>2, <3>3, CreateMirrors
  <2>4. CASE restoreFinish
    <3>1. \A i \in Ids : Settled(i)
      BY <2>4, BoundsAssumption DEF restoreFinish, Settled, IndInv, TypeOK
    <3> QED  BY <2>4, <3>1, UntouchedMirrors
             DEF restoreFinish, entryVars, files, isolation, FileInv, IsolationIsPEL
  <2> QED  BY <1>4, <2>1, <2>2, <2>3, <2>4, RestoreMirrors DEF Loops
<1>5. CASE Restart
  <2>1. \A i \in Ids : ~Settled(i)'
    BY <1>5 DEF Restart, Settled, IndInv, StartsFresh
  <2> QED  BY <1>5, <2>1, UntouchedMirrors
           DEF Restart, entryVars, files, isolation, FileInv, IsolationIsPEL
<1>6. CASE Environment
  <2>1. UNCHANGED <<entries, cereal, json, pc, cursor>> /\ IsolationIsPEL'
    BY <1>6 DEF Environment, Isolate, Deisolate, MapperChanges, entryVars, files, control,
                FileInv, IsolationIsPEL
  <2> QED  BY <2>1, UntouchedMirrors DEF Settled
<1>7. CASE Crashes
  <2>1. CASE Crash
    <3>1. CrashLeaving(files) /\ files[1] = cereal /\ files[2] = json
      BY <2>1 DEF Crash, files
    <3>2. FileInv' /\ cereal' = cereal /\ json' = json
      BY <3>1, CrashSettles DEF FileInv, NoTornFile
    <3> QED  BY <3>2 DEF StoreStep, StoreKept, Stored
  <2>2. ASSUME NEW in \in Inputs, CrashInCreate(in)
        PROVE  FileInv' /\ StoreStep
    <3>1. /\ in \in Kinds /\ pc = "idle" /\ entryId \in Nat /\ entryId < MaxId
          /\ \A i \in Present : i <= entryId
      BY <2>2, InputAssumption DEF CrashInCreate, IndInv, TypeOK, NoEntryAboveLastId
    <3> QED  BY <2>2, <3>1, CreateCutStores DEF CrashInCreate
  <2>3. ASSUME NEW i \in Ids, CrashInErase(i)
        PROVE  FileInv' /\ StoreStep
    BY <2>3, RemoveCutStores DEF CrashInErase
  <2>4. ASSUME NEW i \in Ids, NEW value \in BOOLEAN, CrashInResolved(i, value)
        PROVE  FileInv' /\ StoreStep
    BY <2>4, WriteCutStores, PropertyTypes DEF CrashInResolved, IndInv
  <2>5. ASSUME NEW i \in Ids, NEW value \in Texts, CrashInSetText(i, value)
        PROVE  FileInv' /\ StoreStep
    <3> DEFINE c == [entries[i] EXCEPT !.text = value]
    <3>1. pc = "idle" /\ i \in Present /\ \E cut \in WriteCuts(cereal, json, i, c) : CrashLeaving(cut)
      BY <2>5 DEF CrashInSetText
    <3>2. c \in Content
      BY <3>1, PropertyTypes DEF IndInv
    <3> HIDE DEF c
    <3> QED  BY <3>1, <3>2, WriteCutStores
  <2>6. CASE CrashInEraseAll
    BY <2>6, RemoveCutStores DEF CrashInEraseAll, Kept
  <2>7. CASE CrashInDeleteAllFinish
    <3>1. pc = "clearing" /\ cursor > MaxId /\ LoggingCleared \in Kinds
      BY <2>7, ContentTypes DEF CrashInDeleteAllFinish
    <3>2. /\ LastIdAfterClear \in Nat /\ LastIdAfterClear < MaxId
          /\ \A i \in Present : i <= LastIdAfterClear
      BY <3>1, LastIdAfterClearIsFree
    <3> QED  BY <2>7, <3>1, <3>2, CreateCutStores DEF CrashInDeleteAllFinish
  <2> QED  BY <1>7, <2>1, <2>2, <2>3, <2>4, <2>5, <2>6, <2>7 DEF Crashes, CrashInRestore
<1> QED  BY <1>1, <1>2, <1>3, <1>4, <1>5, <1>6, <1>7 DEF Next
-----------------------------------------------------------------------------
(* The caps.                                                               *)

\* A running daemon has in memory what it has stored.
LEMMA StoredClassIsClass ==
    ASSUME IndInv, FileInv, pc \in {"idle", "clearing"}, NEW info
    PROVE  StoredClass(info) = Class(info)
BY StoredIsEntry DEF StoredClass, Class, Present, Settled

\* No step takes a class past its cap: createEntry evicts before it adds.
LEMMA ClassStaysCapped ==
    ASSUME IndInv, FileInv, StoreStep, ~PELExtension, NEW info \in BOOLEAN,
           Cardinality(StoredClass(info)) <= CapOf(info)
    PROVE  Cardinality(StoredClass(info)') <= CapOf(info)
<1> DEFINE C == StoredClass(info)
           D == StoredClass(info)'
<1>1. IsFiniteSet(C) /\ IsFiniteSet(D)
  <2>1. IsFiniteSet(Ids)
    BY FS_Interval, BoundsAssumption
  <2>2. C \subseteq Ids /\ D \subseteq Ids
    BY DEF StoredClass
  <2> HIDE DEF C, D
  <2> QED  BY <2>1, <2>2, FS_Subset
<1>2. Cardinality(C) \in Nat /\ Cardinality(D) \in Nat /\ CapOf(info) \in Nat
  <2>1. CapOf(info) \in Nat
    BY CapAssumption DEF CapOf
  <2> HIDE DEF C, D
  <2> QED  BY <1>1, <2>1, FS_CardinalityType
<1>3. ASSUME D \subseteq C
      PROVE  Cardinality(D) <= CapOf(info)
  <2>1. Cardinality(C) <= CapOf(info)
    OBVIOUS
  <2> HIDE DEF C, D
  <2>2. Cardinality(D) <= Cardinality(C)
    BY <1>1, <1>3, FS_Subset
  <2> QED  BY <1>2, <2>1, <2>2
<1>4. CASE StoreKept
  <2>1. D \subseteq C
    BY <1>4 DEF StoreKept, StoredClass
  <2> QED  BY <1>3, <2>1
<1>5. CASE pc \in {"idle", "clearing"} /\ StoreUpdated
  <2>1. PICK i \in Present, content \in Content :
            /\ content.info = entries[i].info
            /\ \A j \in Ids : Stored(j)' = IF j = i THEN content ELSE Stored(j)
    BY <1>5 DEF StoreUpdated
  <2>2. i \in Ids /\ entries[i] # None /\ Stored(i) = entries[i]
    BY <1>5, StoredIsEntry DEF Present, Settled
  <2>3. D \subseteq C
    BY <2>1, <2>2 DEF StoredClass
  <2> QED  BY <1>3, <2>3
<1>6. CASE pc \in {"idle", "clearing"} /\ StoreRemoved
  <2>1. D \subseteq C
    BY <1>6 DEF StoreRemoved, StoredClass
  <2> QED  BY <1>3, <2>1
<1>7. CASE pc \in {"idle", "clearing"} /\ StoreAdded
  <2>1. PICK in \in Kinds, last \in Nat, event \in Content :
            /\ event \in NewEvent(in)
            /\ last < MaxId
            /\ \A i \in Present : i <= last
            /\ \A j \in Ids : Stored(j)' = IF j = last + 1 THEN event
                                           ELSE IF j \in Evicted(in) THEN None ELSE Stored(j)
    BY <1>7 DEF StoreAdded, NewEvent
  <2> DEFINE id == last + 1
  <2>2. id \in Ids /\ id \notin Present /\ event # None /\ event.info = in.info
    BY <2>1, BoundsAssumption, NewEvents DEF Present, NewEvent
  <2>3. C = Class(info) /\ id \notin C
    BY <1>7, <2>2, StoredClassIsClass DEF Class
  <2>4. D = (C \ Evicted(in)) \cup (IF in.info = info THEN {id} ELSE {})
    BY <2>1, <2>2, <2>3 DEF StoredClass
  <2>5. CASE in.info # info
    <3>1. D \subseteq C
      BY <2>4, <2>5
    <3> QED  BY <1>3, <3>1
  <2>6. CASE in.info = info /\ Evicted(in) = {}
    <3>1. Cardinality(C) < CapOf(info)
      <4>1. Cardinality(C) < CapOf(info) \/ \E i : Evicted(in) = {i}
        BY <2>3, <2>6, EvictedIsOldest
      <4> QED  BY <2>6, <4>1
    <3>2. D = C \cup {id}
      BY <2>4, <2>6
    <3> HIDE DEF C, D, id
    <3>3. Cardinality(D) = Cardinality(C) + 1
      BY <1>1, <2>3, <3>2, FS_AddElement
    <3>4. Cardinality(D) <= CapOf(info)
      BY <1>2, <3>1, <3>3
    <3> QED  BY <3>4 DEF D
  <2>7. CASE in.info = info /\ Evicted(in) # {}
    <3>1. PICK i \in C : Evicted(in) = {i}
      BY <2>3, <2>7, EvictedIsOldest
    <3>2. D = (C \ {i}) \cup {id} /\ Cardinality(C) <= CapOf(info)
      BY <2>4, <2>7, <3>1
    <3> HIDE DEF C, D, id
    <3>3. IsFiniteSet(C \ {i}) /\ Cardinality(C \ {i}) = Cardinality(C) - 1
      BY <1>1, <3>1, FS_RemoveElement
    <3>4. Cardinality(D) = Cardinality(C \ {i}) + 1
      BY <2>3, <3>2, <3>3, FS_AddElement
    <3>5. Cardinality(D) <= CapOf(info)
      BY <1>2, <3>2, <3>3, <3>4
    <3> QED  BY <3>5 DEF D
  <2> QED  BY <2>5, <2>6, <2>7
<1> QED  BY <1>4, <1>5, <1>6, <1>7 DEF StoreStep
-----------------------------------------------------------------------------
(* Theorems.                                                               *)

\* The files of a system that has never run satisfy the invariant.
LEMMA FileIndInvInit == Init => FileIndInv
<1> SUFFICES ASSUME Init PROVE FileIndInv
  OBVIOUS
<1>1. IndInv
  BY IndInvInit
<1>2. \A i \in Ids : cereal[i] = None /\ json[i] = None
  BY DEF Init, NoEntries
<1>3. FileInv
  BY <1>2, MarkerAssumption
     DEF Init, FileInv, NoTornFile, SettledMirrors, Settled, IsolationIsPEL
<1>4. StoredClass(FALSE) = {} /\ StoredClass(TRUE) = {}
  BY <1>2 DEF StoredClass, Stored
<1>5. StoredCapsHold
  <2>1. Cardinality({}) <= ERROR_CAP /\ Cardinality({}) <= ERROR_INFO_CAP
    BY FS_EmptySet, CapAssumption
  <2> QED  BY <1>4, <2>1 DEF StoredCapsHold
<1> QED  BY <1>1, <1>3, <1>5 DEF FileIndInv

\* Every step keeps it, and changes what is stored as EventLogStore allows.
LEMMA FileIndInvStep ==
    ASSUME ~TornWrites, FileIndInv, [Next]_vars
    PROVE  FileIndInv' /\ StoreStep
<1>1. IndInv' /\ FileInv' /\ StoreStep
  BY IndInvStep, FileInvStep DEF FileIndInv
<1>2. StoredCapsHold'
  <2>1. ASSUME ~PELExtension
        PROVE  /\ Cardinality(StoredClass(FALSE)') <= CapOf(FALSE)
               /\ Cardinality(StoredClass(TRUE)') <= CapOf(TRUE)
    <3>1. /\ Cardinality(StoredClass(FALSE)) <= CapOf(FALSE)
          /\ Cardinality(StoredClass(TRUE)) <= CapOf(TRUE)
      BY <2>1 DEF FileIndInv, StoredCapsHold, CapOf
    <3>2. IndInv /\ FileInv
      BY DEF FileIndInv
    <3>3. \A info \in BOOLEAN : Cardinality(StoredClass(info)) <= CapOf(info) =>
                                Cardinality(StoredClass(info)') <= CapOf(info)
      BY <1>1, <2>1, <3>2, ClassStaysCapped
    <3> QED  BY <3>1, <3>3
  <2> QED  BY <2>1 DEF StoredCapsHold, CapOf
<1> QED  BY <1>1, <1>2 DEF FileIndInv

\* The invariant of the files, in every reachable state.
THEOREM FileIndInvHolds ==
    ASSUME ~TornWrites
    PROVE  Spec => []FileIndInv
<1>1. FileIndInv /\ [Next]_vars => FileIndInv'
  BY FileIndInvStep
<1> QED  BY <1>1, FileIndInvInit, PTL DEF Spec

\* Whenever a handler can run, the JSON files are the entries and no cereal
\* file is left over: neither an eviction cut short nor a restart from half
\* written pairs of files leaves a stray one for the next id.
THEOREM FilesCorrect ==
    ASSUME ~TornWrites
    PROVE  Spec => []FilesMirrorEntries
<1>1. FileIndInv => FilesMirrorEntries
  <2> SUFFICES ASSUME FileIndInv, pc \in {"idle", "clearing"}
               PROVE  json = entries /\ \A i \in Ids : cereal[i] # None => i \in Present
    BY DEF FilesMirrorEntries
  <2>1. \A i \in Ids : json[i] = entries[i] /\ (cereal[i] # None => entries[i] # None)
    BY DEF FileIndInv, FileInv, SettledMirrors, Settled
  <2>2. json = [i \in Ids |-> json[i]] /\ entries = [i \in Ids |-> entries[i]]
    BY DEF FileIndInv, IndInv, TypeOK, Stores
  <2> QED  BY <2>1, <2>2 DEF Present
<1> QED  BY <1>1, FileIndInvHolds, PTL

\* The lists stay within ERROR_CAP and ERROR_INFO_CAP, through evictions,
\* crashes in the middle of one, and restarts.
THEOREM CapsCorrect ==
    ASSUME ~TornWrites
    PROVE  Spec => []CapsHold
<1>1. ASSUME FileIndInv, ~PELExtension
      PROVE  /\ Cardinality(Class(FALSE)) <= ERROR_CAP
             /\ Cardinality(Class(TRUE)) <= ERROR_INFO_CAP
  <2>0. IndInv /\ FileInv /\ StoredCapsHold
    BY <1>1 DEF FileIndInv
  <2>1. IsFiniteSet(Ids)
    BY FS_Interval, BoundsAssumption
  <2>2. ASSUME NEW info PROVE Class(info) \subseteq StoredClass(info)
    <3>1. ASSUME NEW i \in Class(info) PROVE i \in Ids /\ Settled(i) /\ entries[i] # None
      BY <2>0, <3>1 DEF Class, Present, IndInv, TypeOK, StartsFresh, NoEntryAboveLastId, Settled
    <3> QED  BY <2>0, <3>1, StoredIsEntry DEF Class, StoredClass
  <2>3. ASSUME NEW info
        PROVE  /\ Cardinality(Class(info)) \in Nat /\ Cardinality(StoredClass(info)) \in Nat
               /\ Cardinality(Class(info)) <= Cardinality(StoredClass(info))
    <3>1. StoredClass(info) \subseteq Ids
      BY DEF StoredClass
    <3>2. IsFiniteSet(StoredClass(info))
      BY <2>1, <3>1, FS_Subset
    <3>3. IsFiniteSet(Class(info)) /\ Cardinality(Class(info)) <= Cardinality(StoredClass(info))
      BY <2>2, <3>2, FS_Subset
    <3> QED  BY <3>2, <3>3, FS_CardinalityType
  <2>4. /\ Cardinality(StoredClass(FALSE)) <= ERROR_CAP
        /\ Cardinality(StoredClass(TRUE)) <= ERROR_INFO_CAP
    BY <1>1, <2>0 DEF StoredCapsHold
  <2>5. ASSUME NEW a \in Nat, NEW b \in Nat, NEW c \in Nat, a <= b, b <= c PROVE a <= c
    BY <2>5
  <2>6. ERROR_CAP \in Nat /\ ERROR_INFO_CAP \in Nat
    BY CapAssumption
  <2> QED  BY <2>3, <2>4, <2>5, <2>6
<1>2. FileIndInv => CapsHold
  <2> SUFFICES ASSUME FileIndInv, ~PELExtension
               PROVE  Len(realErrors) <= ERROR_CAP /\ Len(infoErrors) <= ERROR_INFO_CAP
    BY DEF CapsHold
  <2>1. IndInv
    BY DEF FileIndInv
  <2> QED  BY <1>1, <2>1, ListsCountClasses
<1> QED  BY <1>2, FileIndInvHolds, PTL
\* What IsolatedEntrySurvives says of one step.
KeepsIsolated ==
    \A i \in isolated :
        mapperUp /\ Stored(i) # None =>
            /\ Stored(i)' # None
            /\ Stored(i)'.resolved = Stored(i).resolved

\* No step, and no crash in one, touches the stored copy of an entry that the
\* mapper reports isolated.
LEMMA StepKeepsIsolated ==
    ASSUME FileIndInv, StoreStep
    PROVE  KeepsIsolated
<1> SUFFICES ASSUME NEW i \in isolated, mapperUp, Stored(i) # None
             PROVE  Stored(i)' # None /\ Stored(i)'.resolved = Stored(i).resolved
  BY DEF KeepsIsolated
<1>1. IndInv /\ FileInv
  BY DEF FileIndInv
<1>2. i \in Ids /\ PELExtension /\ Prohibited(i)
  BY <1>1 DEF IndInv, TypeOK, FileInv, IsolationIsPEL, Prohibited
<1>3. CASE StoreKept
  BY <1>2, <1>3 DEF StoreKept
<1>4. CASE pc \in {"idle", "clearing"} /\ StoreUpdated
  <2>1. Stored(i) = entries[i]
    BY <1>1, <1>2, <1>4, StoredIsEntry DEF Settled
  <2>2. PICK e \in Present, content \in Content :
            /\ Prohibited(e) => content.resolved = entries[e].resolved
            /\ \A j \in Ids : Stored(j)' = IF j = e THEN content ELSE Stored(j)
    BY <1>4 DEF StoreUpdated
  <2> QED  BY <1>2, <2>1, <2>2, MarkerAssumption
<1>5. CASE pc \in {"idle", "clearing"} /\ StoreRemoved
  BY <1>2, <1>5 DEF StoreRemoved
<1>6. CASE pc \in {"idle", "clearing"} /\ StoreAdded
  <2>1. PICK in \in Kinds, last \in Nat, event \in Content :
            /\ event \in NewEvent(in)
            /\ last < MaxId
            /\ \A k \in Present : k <= last
            /\ \A j \in Ids : Stored(j)' = IF j = last + 1 THEN event
                                           ELSE IF j \in Evicted(in) THEN None ELSE Stored(j)
    BY <1>6 DEF StoreAdded, NewEvent
  <2>2. i \in Present /\ i # last + 1
    BY <1>1, <1>2, <1>6, <2>1, StoredIsEntry DEF Present, Settled
  <2>3. Evicted(in) = {}
    BY <1>2 DEF Evicted
  <2> QED  BY <1>2, <2>1, <2>2, <2>3
<1> QED  BY <1>3, <1>4, <1>5, <1>6 DEF StoreStep

\* An isolated entry keeps its stored copy, unresolved, through erase,
\* deleteAll, resolve and any crash, while the mapper answers.
THEOREM IsolatedSurvives ==
    ASSUME ~TornWrites
    PROVE  Spec => IsolatedEntrySurvives
<1>1. FileIndInv /\ [Next]_vars => [KeepsIsolated]_vars
  BY FileIndInvStep, StepKeepsIsolated
<1>2. Spec => [][KeepsIsolated]_vars
  BY <1>1, FileIndInvHolds, PTL DEF Spec
<1> QED  BY <1>2 DEF IsolatedEntrySurvives, KeepsIsolated

\* What EvictsOldestOfFullClass says of one step.
EvictsOldest ==
    \A i \in Present \ Present' :
        (pc' = "idle" /\ entryId' > entryId) =>
            LET class == {j \in Present : entries[j].info = entries'[entryId'].info}
            IN  /\ i \in class
                /\ \A j \in class : i <= j
                /\ Cardinality(class) >=
                       IF entries[i].info THEN ERROR_INFO_CAP ELSE ERROR_CAP

\* createEntry() takes its victim from the front of the list of a full class.
LEMMA CreateEvictsOldest ==
    ASSUME IndInv, NEW in \in Kinds, NEW quiesce, NEW pel \in doExtensionLogCreate(in),
           NEW last \in Nat, last < MaxId,
           \A k \in Present : k <= last, createEntry(in, quiesce, pel, last)
    PROVE  EvictsOldest
<1> DEFINE id == last + 1
<1>1. id \in Ids /\ entryId' = id
  BY BoundsAssumption DEF createEntry, NextId
<1>2. /\ entries'[id] = LoggedContent(in, pel)
      /\ \A j \in Ids \ {id} : entries'[j] = IF j \in Evicted(in) THEN None ELSE entries[j]
  BY <1>1 DEF createEntry, NextId, Without
<1>3. ~PELExtension => entries'[entryId'].info = in.info
  BY <1>1, <1>2, NewEvents DEF NewEvent
<1>4. ASSUME NEW i \in Present \ Present'
      PROVE  /\ ~PELExtension
             /\ i \in Class(in.info)
             /\ \A j \in Class(in.info) : i <= j
             /\ Cardinality(Class(in.info)) >= CapOf(entries[i].info)
  <2>1. i \in Ids /\ entries[i] # None /\ entries'[i] = None
    BY <1>4 DEF Present
  <2>2. i \in Evicted(in)
    <3>1. LoggedContent(in, pel) # None
      BY NewEvents
    <3> QED  BY <1>1, <1>2, <2>1, <3>1
  <2>3. /\ ~PELExtension
        /\ Cardinality(Class(in.info)) >= CapOf(in.info)
        /\ i \in Class(in.info) /\ \A j \in Class(in.info) : i <= j
    BY <2>2, EvictedIsOldest
  <2>4. entries[i].info = in.info
    BY <2>3 DEF Class
  <2> QED  BY <2>3, <2>4
<1> QED  BY <1>3, <1>4 DEF EvictsOldest, Class, CapOf

\* Only createEntry() both moves entryId up and drops an entry.
LEMMA StepEvictsOldest == IndInv /\ [Next]_vars => [EvictsOldest]_vars
<1> SUFFICES ASSUME IndInv, Next, entryId' > entryId, pc' = "idle", Present \ Present' # {}
             PROVE  EvictsOldest
  BY DEF EvictsOldest
<1>0. entries' # entries
  BY DEF Present
<1>1. ASSUME entryId' = entryId PROVE FALSE
  BY <1>1 DEF IndInv, TypeOK
<1>2. CASE Handlers
  <2>1. ASSUME NEW in \in Inputs, NEW quiesce \in QuiesceSettings, Create(in, quiesce)
        PROVE  EvictsOldest
    <3>0. PICK pel \in doExtensionLogCreate(in) : createEntry(in, quiesce, pel, entryId)
      BY <2>1 DEF Create
    <3>1. /\ in \in Kinds /\ entryId \in Nat /\ entryId < MaxId /\ \A i \in Present : i <= entryId
      BY <2>1, InputAssumption DEF Create, IndInv, TypeOK, NoEntryAboveLastId
    <3> QED  BY <3>0, <3>1, CreateEvictsOldest
  <2> QED  BY <1>1, <1>2, <2>1 DEF Handlers, erase, resolved, setText, eraseAllStart
<1>3. CASE Loops
  <2>1. CASE deleteAllFinish
    <3>1. PICK quiesce \in QuiesceSettings, pel \in doExtensionLogCreate(LoggingCleared) :
               createEntry(LoggingCleared, quiesce, pel, LastIdAfterClear)
      BY <2>1 DEF deleteAllFinish
    <3>2. /\ LastIdAfterClear \in Nat /\ LastIdAfterClear < MaxId
          /\ \A i \in Present : i <= LastIdAfterClear
      BY <2>1, LastIdAfterClearIsFree DEF deleteAllFinish
    <3> QED  BY <3>1, <3>2, ContentTypes, CreateEvictsOldest
  <2>2. ASSUME NEW i \in Ids, Restoring(i) PROVE FALSE
    BY <1>1, <2>2 DEF Restoring
  <2> QED  BY <1>0, <1>1, <1>3, <2>1, <2>2
           DEF Loops, eraseAllKeep, eraseAllErase, eraseAllThrows, restoreFinish, entryVars,
               restoreNothing, deserializeJSON, deserializeJSONFails, deserialize,
               deserializeFails
<1>4. CASE (\E i \in Ids : onEntryResolve(i)) \/ Restart \/ Environment
  BY <1>1, <1>4 DEF onEntryResolve, Restart, Environment, Isolate, Deisolate, MapperChanges
<1>5. CASE Crashes
  <2>1. \E cut : CrashLeaving(cut)
    BY <1>5 DEF Crashes, Crash, CrashInCreate, CrashInErase, CrashInResolved, CrashInSetText,
                CrashInEraseAll, CrashInDeleteAllFinish, CrashInRestore
  <2> QED  BY <2>1 DEF CrashLeaving
<1> QED  BY <1>2, <1>3, <1>4, <1>5 DEF Next

\* An entry that a new one displaces is the oldest of the new one's class,
\* and the class was full, torn files or not.
THEOREM EvictionCorrect == Spec => EvictsOldestOfFullClass
<1>1. Spec => [][EvictsOldest]_vars
  BY IndInvHolds, StepEvictsOldest, PTL DEF Spec
<1> QED  BY <1>1 DEF EvictsOldestOfFullClass, EvictsOldest
-----------------------------------------------------------------------------
(* The refinement of EventLogStore.                                        *)

logs == [i \in Ids |-> Stored(i)]

\* Every change of what is stored is a step of EventLogStore.
LEMMA StepRefinesStore ==
    ASSUME FileIndInv, StoreStep
    PROVE  Store!StoreNext \/ UNCHANGED logs
<1>1. IndInv /\ FileInv
  BY DEF FileIndInv
<1>2. CASE StoreKept
  BY <1>2 DEF StoreKept, logs
<1>3. ASSUME pc \in {"idle", "clearing"}, NEW i \in Ids
      PROVE  Stored(i) = entries[i]
  BY <1>1, <1>3, StoredIsEntry DEF Settled
<1>4. ASSUME pc \in {"idle", "clearing"}
      PROVE  Store!Used = Present
  BY <1>3, <1>4 DEF Store!Used, Store!Ids, Present
<1>5. CASE pc \in {"idle", "clearing"} /\ StoreUpdated
  <2>1. PICK i \in Present, content \in Content :
            /\ content.info = entries[i].info /\ content.callout = entries[i].callout
            /\ \A j \in Ids : Stored(j)' = IF j = i THEN content ELSE Stored(j)
    BY <1>5 DEF StoreUpdated
  <2>2. i \in Ids /\ Stored(i) = entries[i] /\ i \in Store!Used
    BY <1>3, <1>4, <1>5 DEF Present
  <2>3. logs' = [logs EXCEPT ![i] = content]
    BY <2>1, <2>2 DEF logs
  <2>4. Store!Update(i, content)
    BY <2>1, <2>2, <2>3 DEF Store!Update, logs
  <2> QED  BY <2>2, <2>4 DEF Store!StoreNext, Store!Ids
<1>6. CASE pc \in {"idle", "clearing"} /\ StoreRemoved
  <2>1. PICK i \in Present : \A j \in Ids : Stored(j)' = IF j = i THEN None ELSE Stored(j)
    BY <1>6 DEF StoreRemoved
  <2>2. i \in Ids /\ i \in Store!Used
    BY <1>4, <1>6 DEF Present
  <2>3. logs' = [logs EXCEPT ![i] = None]
    BY <2>1, <2>2 DEF logs
  <2>4. Store!Remove(i)
    BY <2>2, <2>3 DEF Store!Remove, logs
  <2> QED  BY <2>2, <2>4 DEF Store!StoreNext, Store!Ids
<1>7. CASE pc \in {"idle", "clearing"} /\ StoreAdded
  <2>1. PICK in \in Kinds, last \in Nat, event \in Content :
            /\ event \in NewEvent(in)
            /\ last < MaxId
            /\ \A k \in Present : k <= last
            /\ \A j \in Ids : Stored(j)' = IF j = last + 1 THEN event
                                           ELSE IF j \in Evicted(in) THEN None ELSE Stored(j)
    BY <1>7 DEF StoreAdded, NewEvent
  <2> DEFINE id == last + 1
             out == Evicted(in)
  <2>2. /\ id \in Ids /\ event \in Content /\ ~event.resolved
        /\ ~PELExtension => event.info = in.info
    BY <2>1, BoundsAssumption DEF NewEvent
  <2>3. \A j \in Store!Used : j < id
    BY <1>4, <1>7, <2>1 DEF Present
  <2>4. out \in SUBSET Store!Oldest(event.info)
    <3>1. ASSUME NEW i \in out
          PROVE  ~PELExtension /\ i \in Class(in.info) /\ \A j \in Class(in.info) : i <= j
      BY <1>1, EvictedIsOldest
    <3>2. \A i \in Present : Stored(i) = entries[i]
      BY <1>3, <1>7 DEF Present
    <3>3. ASSUME NEW i \in out
          PROVE  i \in Store!Oldest(event.info)
      <4>1. /\ event.info = in.info
            /\ i \in Class(in.info) /\ \A j \in Class(in.info) : i <= j
        BY <2>2, <3>1, <3>3
      <4> HIDE DEF out
      <4> QED  BY <1>4, <1>7, <2>2, <3>2, <4>1 DEF Class, Store!Oldest, Present
    <3> QED  BY <3>3
  <2>5. logs' = [j \in Ids |-> IF j = id THEN event ELSE IF j \in out THEN None ELSE logs[j]]
    <3>1. logs' = [j \in Ids |-> Stored(j)'] /\ \A j \in Ids : logs[j] = Stored(j)
      BY DEF logs
    <3> HIDE DEF id, out
    <3> QED  BY <2>1, <3>1 DEF id, out
  <2>6. Store!Add(id, event)
    <3> HIDE DEF id, out
    <3> QED  BY <2>2, <2>3, <2>4, <2>5 DEF Store!Add, Store!Ids, logs
  <2> HIDE DEF id, out
  <2> QED  BY <2>2, <2>6 DEF Store!StoreNext, Store!Ids
<1> QED  BY <1>2, <1>5, <1>6, <1>7 DEF StoreStep

\* To its clients the daemon, with its two files per entry, its crashes and
\* its restarts, is the map of EventLogStore.
THEOREM StoreRefined ==
    ASSUME ~TornWrites
    PROVE  Spec => ImplementsStore
<1>1. Init => Store!StoreInit
  BY DEF Init, NoEntries, Stored, Store!StoreInit, Store!Ids
<1>2. FileIndInv /\ [Next]_vars => [Store!StoreNext]_([i \in Ids |-> Stored(i)])
  BY FileIndInvStep, StepRefinesStore DEF logs
<1> QED  BY <1>1, <1>2, FileIndInvHolds, PTL DEF Spec, ImplementsStore, Store!StoreSpec
=============================================================================
