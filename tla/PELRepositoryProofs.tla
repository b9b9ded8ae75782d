------------------------- MODULE PELRepositoryProofs ------------------------
(***************************************************************************)
(* Proofs about PELRepository for any number of PELs, any limits, and with *)
(* failing writes, crashes and peltool: the totals add up, the index says  *)
(* what the files say, the archive is accounted for, and pruning reaches   *)
(* its limits in the promised order and spares what is isolated.           *)
(***************************************************************************)
EXTENDS PELRepository, LoopsProofs, SequenceTheorems, FiniteSetTheorems, TLAPS

-----------------------------------------------------------------------------
(* Sums.                                                                   *)

Sizes == [1..MaxPELs -> Nat]

\* Total() is the last of the partial sums.
LEMMA TotalIsSum ==
    ASSUME NEW x \in Sizes
    PROVE  \E s : PartialSums(s, x, MaxPELs) /\ Total(x) = s[MaxPELs]
<1>1. NumbersTo(x, MaxPELs)
  BY DEF NumbersTo, Sizes
<1> QED  BY <1>1, SumToIsPartialSum, RepositoryAssumption DEF Total

\* The sum of two lists added number by number is the sum of their sums.
LEMMA TotalAdds ==
    ASSUME NEW x \in Sizes, NEW y \in Sizes, NEW z \in Sizes,
           \A n \in 1..MaxPELs : z[n] = x[n] + y[n]
    PROVE  Total(z) = Total(x) + Total(y) /\ Total(x) \in Nat /\ Total(y) \in Nat
<1>1. PICK a : PartialSums(a, x, MaxPELs) /\ Total(x) = a[MaxPELs]
  BY TotalIsSum
<1>2. PICK b : PartialSums(b, y, MaxPELs) /\ Total(y) = b[MaxPELs]
  BY TotalIsSum
<1>3. PICK c : PartialSums(c, z, MaxPELs) /\ Total(z) = c[MaxPELs]
  BY TotalIsSum
<1>4. \A n \in 0..MaxPELs : a[n] \in Nat /\ b[n] \in Nat /\ c[n] \in Nat
  BY <1>1, <1>2, <1>3 DEF PartialSums
<1> DEFINE T == {n \in 0..MaxPELs : c[n] # a[n] + b[n]}
<1>5. T = {}
  <2>1. SUFFICES ASSUME T # {} PROVE FALSE
    OBVIOUS
  <2>2. PICK k \in T : \A n \in T : k <= n
    <3>1. T \subseteq Nat
      BY RepositoryAssumption
    <3> HIDE DEF T
    <3> QED  BY <2>1, <3>1, LeastOfNats
  <2>3. k # 0
    BY <1>1, <1>2, <1>3, <2>2 DEF PartialSums
  <2>4. k \in 1..MaxPELs /\ k - 1 \in 0..MaxPELs /\ ~(k <= k - 1)
    BY <2>2, <2>3, RepositoryAssumption
  <2>5. c[k - 1] = a[k - 1] + b[k - 1]
    BY <2>2, <2>4
  <2>6. /\ a[k] = a[k - 1] + x[k] /\ b[k] = b[k - 1] + y[k] /\ c[k] = c[k - 1] + z[k]
        /\ z[k] = x[k] + y[k] /\ x[k] \in Nat /\ y[k] \in Nat
    BY <1>1, <1>2, <1>3, <2>4 DEF PartialSums, Sizes
  <2>7. a[k - 1] \in Nat /\ b[k - 1] \in Nat
    BY <1>4, <2>4
  <2>8. c[k] = a[k] + b[k]
    BY <2>5, <2>6, <2>7
  <2> QED  BY <2>2, <2>8
<1>6. MaxPELs \in 0..MaxPELs
  BY RepositoryAssumption
<1>7. c[MaxPELs] = a[MaxPELs] + b[MaxPELs]
  BY <1>5, <1>6
<1> QED  BY <1>1, <1>2, <1>3, <1>4, <1>6, <1>7

\* The sum of a list that is zero but for one number is that number.
LEMMA TotalOfOne ==
    ASSUME NEW x \in Sizes, NEW p \in 1..MaxPELs, \A n \in 1..MaxPELs : n # p => x[n] = 0
    PROVE  Total(x) = x[p]
<1>1. PICK a : PartialSums(a, x, MaxPELs) /\ Total(x) = a[MaxPELs]
  BY TotalIsSum
<1>2. x[p] \in Nat /\ \A n \in 0..MaxPELs : a[n] \in Nat
  BY <1>1 DEF PartialSums, Sizes
<1> DEFINE T == {n \in 0..MaxPELs : a[n] # IF n < p THEN 0 ELSE x[p]}
<1>3. T = {}
  <2>1. SUFFICES ASSUME T # {} PROVE FALSE
    OBVIOUS
  <2>2. PICK k \in T : \A n \in T : k <= n
    <3>1. T \subseteq Nat
      BY RepositoryAssumption
    <3> HIDE DEF T
    <3> QED  BY <2>1, <3>1, LeastOfNats
  <2>3. k # 0
    BY <1>1, <2>2 DEF PartialSums
  <2>4. k \in 1..MaxPELs /\ k - 1 \in 0..MaxPELs /\ ~(k <= k - 1)
    BY <2>2, <2>3, RepositoryAssumption
  <2>5. a[k - 1] = IF k - 1 < p THEN 0 ELSE x[p]
    BY <2>2, <2>4
  <2>6. a[k] = a[k - 1] + x[k]
    BY <1>1, <2>4 DEF PartialSums
  <2>7. a[k] # IF k < p THEN 0 ELSE x[p]
    BY <2>2
  <2>8. CASE k = p
    BY <1>2, <2>4, <2>5, <2>6, <2>7, <2>8
  <2>9. CASE k # p
    <3>1. x[k] = 0
      BY <2>4, <2>9
    <3> QED  BY <1>2, <2>4, <2>5, <2>6, <2>7, <2>9, <3>1
  <2> QED  BY <2>8, <2>9
<1>4. MaxPELs \in 0..MaxPELs /\ ~(MaxPELs < p)
  BY RepositoryAssumption
<1>5. a[MaxPELs] = x[p]
  BY <1>3, <1>4
<1> QED  BY <1>1, <1>5
-----------------------------------------------------------------------------
(* Sizes of PELs.                                                          *)

\* An index of PELs.
IsIndex(f) == DOMAIN f \subseteq 1..MaxPELs /\ f \in [DOMAIN f -> PELRecord]

Weights(f, S, c) ==
    [p \in 1..MaxPELs |-> IF p \in S /\ c \in StatsOf(f[p]) THEN f[p].sizeOnDisk ELSE 0]

\* What the PELs of S weigh in total c, one by one, are numbers.
LEMMA WeightsType ==
    ASSUME NEW f, NEW S, NEW c, \A p \in S : f[p] \in PELRecord
    PROVE  Weights(f, S, c) \in Sizes
<1>1. ASSUME NEW p \in 1..MaxPELs
      PROVE  (IF p \in S /\ c \in StatsOf(f[p]) THEN f[p].sizeOnDisk ELSE 0) \in Nat
  BY DEF PELRecord
<1> QED  BY <1>1 DEF Weights, Sizes

\* The PELs of two sets that share none take what each set takes.
LEMMA SizeSplits ==
    ASSUME NEW f, NEW S, NEW T, NEW c, \A p \in S \cup T : f[p] \in PELRecord, S \cap T = {}
    PROVE  /\ SizeOf(f, S \cup T, c) = SizeOf(f, S, c) + SizeOf(f, T, c)
           /\ SizeOf(f, S, c) \in Nat /\ SizeOf(f, T, c) \in Nat
<1> DEFINE x == Weights(f, S, c)
           y == Weights(f, T, c)
           z == Weights(f, S \cup T, c)
<1>1. x \in Sizes /\ y \in Sizes /\ z \in Sizes
  BY WeightsType
<1>2. ASSUME NEW n \in 1..MaxPELs PROVE z[n] = x[n] + y[n]
  <2>1. /\ x[n] = IF n \in S /\ c \in StatsOf(f[n]) THEN f[n].sizeOnDisk ELSE 0
        /\ y[n] = IF n \in T /\ c \in StatsOf(f[n]) THEN f[n].sizeOnDisk ELSE 0
        /\ z[n] = IF n \in S \cup T /\ c \in StatsOf(f[n]) THEN f[n].sizeOnDisk ELSE 0
    BY DEF Weights
  <2>2. n \in S \cup T => f[n].sizeOnDisk \in Nat
    BY DEF PELRecord
  <2> HIDE DEF x, y, z
  <2>3. CASE n \in S
    BY <2>1, <2>2, <2>3
  <2>4. CASE n \notin S
    BY <2>1, <2>2, <2>4
  <2> QED  BY <2>3, <2>4
<1>3. SizeOf(f, S, c) = Total(x) /\ SizeOf(f, T, c) = Total(y) /\ SizeOf(f, S \cup T, c) = Total(z)
  BY DEF SizeOf, Weights
<1> HIDE DEF x, y, z
<1> QED  BY <1>1, <1>2, <1>3, TotalAdds

\* The size of PELs S is a number, and none if there is none.
LEMMA SizeType ==
    ASSUME NEW f, NEW S, NEW c, \A p \in S : f[p] \in PELRecord
    PROVE  SizeOf(f, S, c) \in Nat /\ SizeOf(f, {}, c) = 0
<1>1. /\ SizeOf(f, S \cup {}, c) = SizeOf(f, S, c) + SizeOf(f, {}, c)
      /\ SizeOf(f, S, c) \in Nat /\ SizeOf(f, {}, c) \in Nat
  BY SizeSplits
<1>2. S \cup {} = S
  OBVIOUS
<1> QED  BY <1>1, <1>2

\* Only creator, severity, visibility and size of the PELs of S count.
LEMMA SizeSame ==
    ASSUME NEW f, NEW g, NEW S, NEW c,
           \A p \in S : StatsOf(f[p]) = StatsOf(g[p]) /\ f[p].sizeOnDisk = g[p].sizeOnDisk
    PROVE  SizeOf(f, S, c) = SizeOf(g, S, c)
<1>1. Weights(f, S, c) = Weights(g, S, c)
  BY DEF Weights
<1> QED  BY <1>1 DEF SizeOf, Weights

\* What a PEL takes of a total it counts in.
LEMMA SizeOfOne ==
    ASSUME NEW f, NEW p \in 1..MaxPELs, NEW c, f[p] \in PELRecord
    PROVE  SizeOf(f, {p}, c) = IF c \in StatsOf(f[p]) THEN f[p].sizeOnDisk ELSE 0
<1> DEFINE x == Weights(f, {p}, c)
<1>1. x \in Sizes
  BY WeightsType
<1>2. x[p] = IF c \in StatsOf(f[p]) THEN f[p].sizeOnDisk ELSE 0
  BY DEF Weights
<1>3. \A n \in 1..MaxPELs : n # p => x[n] = 0
  BY DEF Weights
<1>4. SizeOf(f, {p}, c) = Total(x)
  BY DEF SizeOf, Weights
<1> HIDE DEF x
<1> QED  BY <1>1, <1>2, <1>3, <1>4, TotalOfOne

\* Fewer PELs take no more.
LEMMA SizeMonotone ==
    ASSUME NEW f, NEW S, NEW T, NEW c, \A p \in T : f[p] \in PELRecord, S \subseteq T
    PROVE  /\ SizeOf(f, T, c) = SizeOf(f, S, c) + SizeOf(f, T \ S, c)
           /\ SizeOf(f, S, c) \in Nat /\ SizeOf(f, T \ S, c) \in Nat
           /\ SizeOf(f, S, c) <= SizeOf(f, T, c)
<1> DEFINE R == T \ S
<1>1. S \cup R = T /\ S \cap R = {}
  OBVIOUS
<1> HIDE DEF R
<1>2. \A p \in S \cup R : f[p] \in PELRecord
  BY <1>1
<1>3. /\ SizeOf(f, S \cup R, c) = SizeOf(f, S, c) + SizeOf(f, R, c)
      /\ SizeOf(f, S, c) \in Nat /\ SizeOf(f, R, c) \in Nat
  BY <1>1, <1>2, SizeSplits
<1>4. SizeOf(f, S \cup R, c) = SizeOf(f, T, c)
  BY <1>1
<1>5. SizeOf(f, S, c) <= SizeOf(f, S \cup R, c)
  BY <1>3
<1> QED  BY <1>3, <1>4, <1>5 DEF R

\* updateRepoStats clamps a total at zero, which changes none that is a number.
LEMMA MaxWithZero ==
    ASSUME NEW n \in Nat
    PROVE  Max({n, 0}) = n
BY DEF Max

\* The totals s are those of index f.
AddsUp(f, s) == s \in [Stats -> Nat] /\ \A c \in Stats : s[c] = SizeOf(f, DOMAIN f, c)

\* An index some PELs are taken from has the others as they were.
LEMMA WithoutIsIndex ==
    ASSUME NEW f, IsIndex(f), NEW S
    PROVE  /\ IsIndex(Without(f, S)) /\ DOMAIN Without(f, S) = DOMAIN f \ S
           /\ \A p \in DOMAIN f \ S : Without(f, S)[p] = f[p]
BY DEF Without, Restrict, IsIndex

\* updateRepoStats keeps the totals right when PELs S are removed from the index.
LEMMA RemovalAddsUp ==
    ASSUME NEW f, NEW s, IsIndex(f), AddsUp(f, s), NEW S, S \subseteq DOMAIN f
    PROVE  AddsUp(Without(f, S), StatsWithout(s, f, S))
<1> DEFINE g == Without(f, S)
<1>1. DOMAIN g = DOMAIN f \ S /\ \A p \in DOMAIN f \ S : g[p] = f[p]
  BY WithoutIsIndex
<1> HIDE DEF g
<1>2. \A p \in DOMAIN f : f[p] \in PELRecord
  BY DEF IsIndex
<1>3. ASSUME NEW c \in Stats
      PROVE  Max({s[c] - SizeOf(f, S, c), 0}) = SizeOf(g, DOMAIN g, c) /\ SizeOf(g, DOMAIN g, c) \in Nat
  <2>1. /\ SizeOf(f, DOMAIN f, c) = SizeOf(f, S, c) + SizeOf(f, DOMAIN f \ S, c)
        /\ SizeOf(f, S, c) \in Nat /\ SizeOf(f, DOMAIN f \ S, c) \in Nat
    BY <1>2, SizeMonotone
  <2>2. SizeOf(g, DOMAIN g, c) = SizeOf(f, DOMAIN f \ S, c)
    BY <1>1, SizeSame
  <2>3. s[c] - SizeOf(f, S, c) = SizeOf(f, DOMAIN f \ S, c)
    BY <2>1 DEF AddsUp
  <2> QED  BY <2>1, <2>2, <2>3, MaxWithZero
<1> QED  BY <1>3 DEF AddsUp, StatsWithout, g
-----------------------------------------------------------------------------
(* Pruning.                                                                *)

\* A working copy of the index and its totals in prune().
Sound(r) == IsIndex(r.pels) /\ AddsUp(r.pels, r.sizes)

\* Copy a has some of the PELs of copy r.
SomeOf(a, r) ==
    /\ DOMAIN a.pels \subseteq DOMAIN r.pels
    /\ \A p \in DOMAIN a.pels : a.pels[p] = r.pels[p]

Candidates(r, stat, ids) == {p \in DOMAIN r.pels \ ids : stat \in StatsOf(r.pels[p])}

Before(r, stat, p, ids) == {q \in Candidates(r, stat, ids) : Precedes(r.pels, q, p)}

Removed(r, stat, ids) == 
    {p \in Candidates(r, stat, ids) : isOverLimit(Drop(r, Before(r, stat, p, ids)), stat)}

\* removePELs() in terms of the PELs it removes.
LEMMA RemovePELsDrops ==
    ASSUME NEW r, NEW stat, NEW ids
    PROVE  removePELs(r, stat, ids) = Drop(r, Removed(r, stat, ids))
BY DEF removePELs, Removed, Before, Candidates

\* The totals of a working copy follow the PELs dropped from it.
LEMMA DropSound ==
    ASSUME NEW r, Sound(r), NEW S, S \subseteq DOMAIN r.pels
    PROVE  /\ Sound(Drop(r, S)) /\ SomeOf(Drop(r, S), r)
           /\ DOMAIN Drop(r, S).pels = DOMAIN r.pels \ S
<1>1. Drop(r, S).pels = Without(r.pels, S) /\ Drop(r, S).sizes = StatsWithout(r.sizes, r.pels, S)
  BY DEF Drop
<1>2. IsIndex(r.pels) /\ AddsUp(r.pels, r.sizes)
  BY DEF Sound
<1>3. AddsUp(Without(r.pels, S), StatsWithout(r.sizes, r.pels, S))
  BY <1>2, RemovalAddsUp
<1>4. /\ IsIndex(Without(r.pels, S)) /\ DOMAIN Without(r.pels, S) = DOMAIN r.pels \ S
      /\ \A p \in DOMAIN r.pels \ S : Without(r.pels, S)[p] = r.pels[p]
  BY <1>2, WithoutIsIndex
<1> QED  BY <1>1, <1>3, <1>4 DEF Sound, SomeOf

\* An index has a number of PELs.
LEMMA IndexFinite ==
    ASSUME NEW f, IsIndex(f)
    PROVE  IsFiniteSet(DOMAIN f) /\ Cardinality(DOMAIN f) \in Nat
<1>1. IsFiniteSet(1..MaxPELs)
  BY FS_Interval, RepositoryAssumption
<1>2. IsFiniteSet(DOMAIN f)
  BY <1>1, FS_Subset DEF IsIndex
<1> QED  BY <1>2, FS_CardinalityType

\* With fewer PELs no total and no number is larger.
LEMMA FewerIsSmaller ==
    ASSUME NEW a, NEW r, Sound(a), Sound(r), SomeOf(a, r)
    PROVE  /\ \A c \in Stats : a.sizes[c] \in Nat /\ r.sizes[c] \in Nat /\ a.sizes[c] <= r.sizes[c]
           /\ Cardinality(DOMAIN a.pels) \in Nat /\ Cardinality(DOMAIN r.pels) \in Nat
           /\ Cardinality(DOMAIN a.pels) <= Cardinality(DOMAIN r.pels)
<1>1. ASSUME NEW c \in Stats PROVE a.sizes[c] <= r.sizes[c]
  <2>1. a.sizes[c] = SizeOf(a.pels, DOMAIN a.pels, c) /\ r.sizes[c] = SizeOf(r.pels, DOMAIN r.pels, c)
    BY DEF Sound, AddsUp
  <2>2. SizeOf(a.pels, DOMAIN a.pels, c) = SizeOf(r.pels, DOMAIN a.pels, c)
    BY SizeSame DEF SomeOf
  <2>3. SizeOf(r.pels, DOMAIN a.pels, c) <= SizeOf(r.pels, DOMAIN r.pels, c)
    <3>1. \A p \in DOMAIN r.pels : r.pels[p] \in PELRecord
      BY DEF Sound, IsIndex
    <3>2. DOMAIN a.pels \subseteq DOMAIN r.pels
      BY DEF SomeOf
    <3> QED  BY <3>1, <3>2, SizeMonotone
  <2> QED  BY <2>1, <2>2, <2>3
<1>2. \A c \in Stats : a.sizes[c] \in Nat /\ r.sizes[c] \in Nat
  BY DEF Sound, AddsUp
<1>3. IsFiniteSet(DOMAIN r.pels) /\ Cardinality(DOMAIN r.pels) \in Nat
  BY IndexFinite DEF Sound
<1>4. IsFiniteSet(DOMAIN a.pels) /\ Cardinality(DOMAIN a.pels) \in Nat
  BY IndexFinite DEF Sound
<1>5. Cardinality(DOMAIN a.pels) <= Cardinality(DOMAIN r.pels)
  BY <1>3, FS_Subset DEF SomeOf
<1> QED  BY <1>1, <1>2, <1>3, <1>4, <1>5

\* ... so that a limit which fewer PELs exceed is exceeded by more.
LEMMA OverLimitMonotone ==
    ASSUME NEW a, NEW r, Sound(a), Sound(r), SomeOf(a, r), NEW stat \in Stats, isOverLimit(a, stat)
    PROVE  isOverLimit(r, stat)
<1>1. /\ a.sizes[stat] \in Nat /\ r.sizes[stat] \in Nat /\ a.sizes[stat] <= r.sizes[stat]
      /\ Cardinality(DOMAIN a.pels) \in Nat /\ Cardinality(DOMAIN r.pels) \in Nat
      /\ Cardinality(DOMAIN a.pels) <= Cardinality(DOMAIN r.pels)
  BY FewerIsSmaller
<1> DEFINE share == (_maxRepoSize * Percent(stat)) \div 100
           count == (_maxNumPELs * 80) \div 100
<1>2. share \in Int /\ count \in Int
  <2>1. Percent(stat) \in Nat
    BY DEF Percent
  <2>2. _maxRepoSize * Percent(stat) \in Nat /\ _maxNumPELs * 80 \in Nat
    BY <2>1, RepositoryAssumption
  <2> QED  BY <2>2
<1>3. /\ isOverLimit(a, stat) <=> IF stat = "total" THEN Cardinality(DOMAIN a.pels) > count
                                                     ELSE a.sizes[stat] > share
      /\ isOverLimit(r, stat) <=> IF stat = "total" THEN Cardinality(DOMAIN r.pels) > count
                                                     ELSE r.sizes[stat] > share
  BY DEF isOverLimit, OverShare
<1> HIDE DEF share, count
<1> QED  BY <1>1, <1>2, <1>3

\* A PEL is taken by one of the four passes.
LEMMA PassType ==
    ASSUME NEW pel
    PROVE  Pass(pel) \in 1..4
BY DEF Pass

\* The order of removal is total, and has no cycle.
LEMMA PrecedesTotal ==
    ASSUME NEW f, NEW p \in Nat, NEW q \in Nat
    PROVE  /\ Precedes(f, p, q) \/ Precedes(f, q, p) \/ p = q
           /\ \A x \in Nat : Precedes(f, x, q) /\ Precedes(f, q, p) => Precedes(f, x, p)
<1>1. \A x \in Nat : Pass(f[x]) \in 1..4
  BY PassType
<1> QED  BY <1>1 DEF Precedes

\* Of any PELs there is one that none of the others precedes.
LEMMA FirstInOrder ==
    ASSUME NEW f, NEW S, S \subseteq 1..MaxPELs, S # {}
    PROVE  \E p \in S : \A q \in S : ~Precedes(f, q, p)
<1> DEFINE key(p) == Pass(f[p]) * (MaxPELs + 1) + p
           K == {key(p) : p \in S}
<1>1. ASSUME NEW p \in S PROVE key(p) \in Nat
  <2>1. p \in Nat /\ MaxPELs \in Nat /\ Pass(f[p]) \in Nat
    BY PassType, RepositoryAssumption
  <2> QED  BY <2>1
<1>2. ASSUME NEW p \in S, NEW q \in S, Precedes(f, q, p) PROVE key(q) < key(p)
  <2> DEFINE a == Pass(f[q])
             b == Pass(f[p])
  <2>1. a \in 1..4 /\ b \in 1..4 /\ p \in 1..MaxPELs /\ q \in 1..MaxPELs /\ MaxPELs \in Nat
    BY PassType, RepositoryAssumption
  <2>2. a < b \/ (a = b /\ q < p)
    BY <1>2 DEF Precedes
  <2> HIDE DEF a, b
  <2>3. a * (MaxPELs + 1) + q < b * (MaxPELs + 1) + p
    <3>1. CASE a = b /\ q < p
      <4> DEFINE w == b * (MaxPELs + 1)
      <4>1. w \in Nat /\ a * (MaxPELs + 1) = w
        BY <2>1, <3>1
      <4> HIDE DEF w
      <4>2. w + q < w + p
        BY <2>1, <3>1, <4>1
      <4>3. b * (MaxPELs + 1) = w
        BY DEF w
      <4> QED  BY <4>1, <4>2, <4>3
    <3>2. CASE a < b
      <4>1. a \in {1, 2, 3, 4} /\ b \in {1, 2, 3, 4} /\ q < MaxPELs + 1 /\ p > 0
        BY <2>1
      <4>2. CASE a = 1
        BY <2>1, <3>2, <4>1, <4>2
      <4>3. CASE a = 2
        BY <2>1, <3>2, <4>1, <4>3
      <4>4. CASE a = 3
        BY <2>1, <3>2, <4>1, <4>4
      <4> QED  BY <2>1, <3>2, <4>1, <4>2, <4>3, <4>4
    <3> QED  BY <2>2, <3>1, <3>2
  <2> QED  BY <2>3 DEF a, b
<1>3. PICK k \in K : \A n \in K : k <= n
  <2>1. K \subseteq Nat /\ K # {}
    BY <1>1
  <2> HIDE DEF K
  <2> QED  BY <2>1, LeastOfNats
<1>4. PICK p \in S : k = key(p)
  OBVIOUS
<1>5. ASSUME NEW q \in S, Precedes(f, q, p) PROVE FALSE
  <2>1. key(q) < key(p) /\ key(q) \in Nat /\ key(p) \in Nat
    BY <1>1, <1>2, <1>5
  <2>2. key(p) <= key(q)
    BY <1>3, <1>4
  <2> HIDE DEF key
  <2> QED  BY <2>1, <2>2
<1> QED  BY <1>5
\* Every class that PELs are counted in is one of the totals.
LEMMA StatsOfType ==
    ASSUME NEW pel
    PROVE  StatsOf(pel) \subseteq Stats /\ "total" \in StatsOf(pel)
BY DEF StatsOf, Stats

\* What removePELs() does to copy r: a is what it leaves.
Pruned(r, a, stat, ids) ==
    /\ Sound(a) /\ SomeOf(a, r)
    /\ DOMAIN r.pels \cap ids \subseteq DOMAIN a.pels
    /\ \A p \in DOMAIN r.pels \ DOMAIN a.pels, q \in DOMAIN a.pels \ ids :
          stat \in StatsOf(r.pels[q]) => stat \in StatsOf(r.pels[p]) /\ Precedes(r.pels, p, q)
    /\ \A p \in DOMAIN r.pels \ DOMAIN a.pels : stat \in StatsOf(r.pels[p])
    /\ \/ ~isOverLimit(a, stat)
       \/ \A q \in DOMAIN a.pels : stat \in StatsOf(r.pels[q]) => q \in ids

\* removePELs() removes PELs of its class only, spares the PELs ids, takes
\* no PEL before one that precedes it, and stops within the limit unless only
\* PELs of ids are left.
LEMMA RemovePELsPrunes ==
    ASSUME NEW r, Sound(r), NEW stat \in Stats, NEW ids
    PROVE  Pruned(r, removePELs(r, stat, ids), stat, ids)
<1> DEFINE a == removePELs(r, stat, ids)
           C == Candidates(r, stat, ids)
           X == Removed(r, stat, ids)
<1>1. a = Drop(r, X)
  BY RemovePELsDrops
<1>2. X \subseteq C /\ C \subseteq DOMAIN r.pels /\ C \cap ids = {}
  BY DEF Removed, Candidates
<1>3. Sound(a) /\ SomeOf(a, r) /\ DOMAIN a.pels = DOMAIN r.pels \ X
  BY <1>1, <1>2, DropSound
<1>4. DOMAIN r.pels \subseteq 1..MaxPELs /\ 1..MaxPELs \subseteq Nat
  BY RepositoryAssumption DEF Sound, IsIndex
<1>5. ASSUME NEW p \in C
      PROVE  LET d == Drop(r, Before(r, stat, p, ids))
             IN  /\ Sound(d) /\ DOMAIN d.pels = DOMAIN r.pels \ Before(r, stat, p, ids)
                 /\ SomeOf(d, r)
  <2>1. Before(r, stat, p, ids) \subseteq DOMAIN r.pels
    BY <1>2 DEF Before
  <2> QED  BY <2>1, DropSound
<1>6. ASSUME NEW p \in C, NEW S, Before(r, stat, p, ids) \subseteq S, S \subseteq DOMAIN r.pels,
             isOverLimit(Drop(r, S), stat)
      PROVE  isOverLimit(Drop(r, Before(r, stat, p, ids)), stat)
  <2> DEFINE d == Drop(r, Before(r, stat, p, ids))
             e == Drop(r, S)
  <2>1. Sound(d) /\ DOMAIN d.pels = DOMAIN r.pels \ Before(r, stat, p, ids) /\ SomeOf(d, r)
    BY <1>5
  <2>2. Sound(e) /\ DOMAIN e.pels = DOMAIN r.pels \ S /\ SomeOf(e, r)
    BY <1>6, DropSound
  <2>3. isOverLimit(e, stat)
    BY <1>6
  <2> HIDE DEF d, e
  <2>4. SomeOf(e, d)
    BY <1>6, <2>1, <2>2 DEF SomeOf
  <2>5. isOverLimit(d, stat)
    BY <2>1, <2>2, <2>3, <2>4, OverLimitMonotone
  <2> QED  BY <2>5 DEF d
<1>7. ASSUME NEW p \in X, NEW q \in C \ X PROVE Precedes(r.pels, p, q)
  <2>1. p \in Nat /\ q \in Nat /\ p # q /\ p \in C /\ q \in C
    BY <1>2, <1>4
  <2>2. ASSUME Precedes(r.pels, q, p) PROVE FALSE
    <3>1. Before(r, stat, q, ids) \subseteq Before(r, stat, p, ids)
      <4>1. ASSUME NEW x \in Before(r, stat, q, ids) PROVE x \in Before(r, stat, p, ids)
        <5>1. x \in C /\ x \in Nat /\ Precedes(r.pels, x, q)
          BY <1>2, <1>4 DEF Before
        <5>2. Precedes(r.pels, x, p)
          BY <2>1, <2>2, <5>1, PrecedesTotal
        <5> QED  BY <5>1, <5>2 DEF Before
      <4> QED  BY <4>1
    <3>2. isOverLimit(Drop(r, Before(r, stat, p, ids)), stat)
      BY DEF Removed
    <3>3. Before(r, stat, p, ids) \subseteq DOMAIN r.pels
      BY <1>2 DEF Before
    <3>4. isOverLimit(Drop(r, Before(r, stat, q, ids)), stat)
      BY <1>6, <2>1, <3>1, <3>2, <3>3
    <3>5. q \in X
      BY <2>1, <3>4 DEF Removed
    <3> QED  BY <3>5
  <2> QED  BY <2>1, <2>2, PrecedesTotal
<1>8. \A q \in DOMAIN a.pels \ ids : stat \in StatsOf(r.pels[q]) => q \in C \ X
  BY <1>3 DEF Candidates
<1>9. \A p \in DOMAIN r.pels \ DOMAIN a.pels : p \in X /\ stat \in StatsOf(r.pels[p])
  BY <1>2, <1>3 DEF Candidates
<1>10. ASSUME C \ X # {} PROVE ~isOverLimit(a, stat)
  <2>1. PICK q \in C \ X : \A x \in C \ X : ~Precedes(r.pels, x, q)
    <3>1. C \ X \subseteq 1..MaxPELs
      BY <1>2, <1>4
    <3> QED  BY <1>10, <3>1, FirstInOrder
  <2>2. Before(r, stat, q, ids) \subseteq X
    BY <2>1 DEF Before
  <2>3. ASSUME isOverLimit(a, stat) PROVE FALSE
    <3>1. isOverLimit(Drop(r, Before(r, stat, q, ids)), stat)
      BY <1>1, <1>2, <1>6, <2>2, <2>3
    <3> QED  BY <2>1, <3>1 DEF Removed
  <2> QED  BY <2>3
<1> HIDE DEF a, C, X
<1>11. DOMAIN r.pels \cap ids \subseteq DOMAIN a.pels
  BY <1>2, <1>3
<1>12. ASSUME NEW p \in DOMAIN r.pels \ DOMAIN a.pels, NEW q \in DOMAIN a.pels \ ids,
              stat \in StatsOf(r.pels[q])
       PROVE  stat \in StatsOf(r.pels[p]) /\ Precedes(r.pels, p, q)
  BY <1>7, <1>8, <1>9, <1>12
<1>13. \/ ~isOverLimit(a, stat)
       \/ \A q \in DOMAIN a.pels : stat \in StatsOf(r.pels[q]) => q \in ids
  BY <1>8, <1>10
<1>14. Pruned(r, a, stat, ids)
  BY <1>3, <1>9, <1>11, <1>12, <1>13 DEF Pruned
<1> QED  BY <1>14 DEF a
\* How far prune() has come from copy r to copy a, having treated classes T.
PrunedSoFar(r, a, T, ids) ==
    /\ Sound(a) /\ SomeOf(a, r)
    /\ DOMAIN r.pels \cap ids \subseteq DOMAIN a.pels
    /\ \A p \in DOMAIN r.pels \ DOMAIN a.pels, q \in DOMAIN a.pels \ ids :
          StatsOf(r.pels[p]) = StatsOf(r.pels[q]) => Precedes(r.pels, p, q)
    /\ \A stat \in T :
          \/ ~isOverLimit(a, stat)
          \/ \A q \in DOMAIN a.pels : stat \in StatsOf(r.pels[q]) => q \in ids

\* One more class: the classes treated before stay within their limits.
LEMMA PruneOneMore ==
    ASSUME NEW r, NEW a, NEW ids, NEW T, T \subseteq Stats, PrunedSoFar(r, a, T, ids), NEW stat \in Stats
    PROVE  PrunedSoFar(r, removePELs(a, stat, ids), T \cup {stat}, ids)
<1> DEFINE b == removePELs(a, stat, ids)
<1>1. Pruned(a, b, stat, ids)
  BY RemovePELsPrunes DEF PrunedSoFar
<1> HIDE DEF b
<1>2. /\ Sound(a) /\ Sound(b) /\ SomeOf(a, r) /\ SomeOf(b, a)
      /\ DOMAIN b.pels \subseteq DOMAIN a.pels /\ DOMAIN a.pels \subseteq DOMAIN r.pels
      /\ \A p \in DOMAIN a.pels : a.pels[p] = r.pels[p]
      /\ \A p \in DOMAIN b.pels : b.pels[p] = r.pels[p]
  BY <1>1 DEF Pruned, PrunedSoFar, SomeOf
<1>3. SomeOf(b, r)
  BY <1>2 DEF SomeOf
<1>4. DOMAIN r.pels \cap ids \subseteq DOMAIN b.pels
  BY <1>1 DEF Pruned, PrunedSoFar
<1>5. ASSUME NEW p \in DOMAIN r.pels \ DOMAIN b.pels, NEW q \in DOMAIN b.pels \ ids,
             StatsOf(r.pels[p]) = StatsOf(r.pels[q])
      PROVE  Precedes(r.pels, p, q)
  <2>1. CASE p \notin DOMAIN a.pels
    BY <1>2, <1>5, <2>1 DEF PrunedSoFar
  <2>2. CASE p \in DOMAIN a.pels
    <3>1. a.pels[p] = r.pels[p] /\ a.pels[q] = r.pels[q] /\ q \in DOMAIN a.pels
      BY <1>2, <2>2
    <3>2. stat \in StatsOf(a.pels[p])
      BY <1>1, <1>5, <2>2 DEF Pruned
    <3>3. stat \in StatsOf(a.pels[q])
      BY <1>5, <3>1, <3>2
    <3>4. Precedes(a.pels, p, q)
      BY <1>1, <1>5, <2>2, <3>3 DEF Pruned
    <3> QED  BY <3>1, <3>4 DEF Precedes
  <2> QED  BY <2>1, <2>2
<1>6. ASSUME NEW t \in T \cup {stat}
      PROVE  \/ ~isOverLimit(b, t)
             \/ \A q \in DOMAIN b.pels : t \in StatsOf(r.pels[q]) => q \in ids
  <2>1. CASE t = stat
    BY <1>1, <1>2, <2>1 DEF Pruned
  <2>2. CASE t \in T
    <3>1. CASE ~isOverLimit(a, t)
      <4>1. t \in Stats
        BY <2>2
      <4> QED  BY <1>2, <3>1, <4>1, OverLimitMonotone
    <3>2. CASE \A q \in DOMAIN a.pels : t \in StatsOf(r.pels[q]) => q \in ids
      BY <1>2, <3>2
    <3> QED  BY <2>2, <3>1, <3>2 DEF PrunedSoFar
  <2> QED  BY <2>1, <2>2
<1>7. PrunedSoFar(r, b, T \cup {stat}, ids)
  BY <1>2, <1>3, <1>4, <1>5, <1>6 DEF PrunedSoFar
<1> QED  BY <1>7 DEF b

Classes == {"bmcInfo", "bmcServiceable", "nonBMCInfo", "nonBMCServiceable"}

\* prune() brings each of the four classes within its share and the number of
\* PELs within its limit, or leaves only PELs of ids there.
LEMMA PruneCorrect ==
    ASSUME NEW r, Sound(r), NEW ids
    PROVE  LET a == prune(r, ids)
           IN  /\ PrunedSoFar(r, a, Classes, ids)
               /\ Cardinality(DOMAIN a.pels) <= _maxNumPELs \/ DOMAIN a.pels \subseteq ids
<1> DEFINE left1 == removePELs(r, "bmcInfo", ids)
           left2 == removePELs(left1, "bmcServiceable", ids)
           left3 == removePELs(left2, "nonBMCInfo", ids)
           left4 == removePELs(left3, "nonBMCServiceable", ids)
           left5 == removePELs(left4, "total", ids)
<1>1. prune(r, ids) = IF Cardinality(DOMAIN left4.pels) > _maxNumPELs THEN left5 ELSE left4
  BY DEF prune
<1>2. Classes \subseteq Stats /\ "total" \in Stats
  BY DEF Classes, Stats
<1>3. PrunedSoFar(r, r, {}, ids)
  BY DEF PrunedSoFar, SomeOf
<1>4. PrunedSoFar(r, left1, {"bmcInfo"}, ids)
  <2>1. PrunedSoFar(r, left1, {} \cup {"bmcInfo"}, ids)
    BY <1>2, <1>3, PruneOneMore DEF Classes
  <2> HIDE DEF left1
  <2> QED  BY <2>1
<1> HIDE DEF left1
<1>5. PrunedSoFar(r, left2, {"bmcInfo", "bmcServiceable"}, ids)
  <2>1. PrunedSoFar(r, left2, {"bmcInfo"} \cup {"bmcServiceable"}, ids)
    BY <1>2, <1>4, PruneOneMore DEF Classes
  <2> HIDE DEF left2
  <2>2. {"bmcInfo"} \cup {"bmcServiceable"} = {"bmcInfo", "bmcServiceable"}
    OBVIOUS
  <2> QED  BY <2>1, <2>2
<1> HIDE DEF left2
<1>6. PrunedSoFar(r, left3, {"bmcInfo", "bmcServiceable", "nonBMCInfo"}, ids)
  <2>1. PrunedSoFar(r, left3, {"bmcInfo", "bmcServiceable"} \cup {"nonBMCInfo"}, ids)
    BY <1>2, <1>5, PruneOneMore DEF Classes
  <2> HIDE DEF left3
  <2>2. {"bmcInfo", "bmcServiceable"} \cup {"nonBMCInfo"} = {"bmcInfo", "bmcServiceable", "nonBMCInfo"}
    OBVIOUS
  <2> QED  BY <2>1, <2>2
<1> HIDE DEF left3
<1>7. PrunedSoFar(r, left4, Classes, ids)
  <2>1. PrunedSoFar(r, left4, {"bmcInfo", "bmcServiceable", "nonBMCInfo"} \cup {"nonBMCServiceable"}, ids)
    BY <1>2, <1>6, PruneOneMore DEF Classes
  <2> HIDE DEF left4
  <2>2. {"bmcInfo", "bmcServiceable", "nonBMCInfo"} \cup {"nonBMCServiceable"} = Classes
    BY DEF Classes
  <2> QED  BY <2>1, <2>2
<1> HIDE DEF left4
<1>8. PrunedSoFar(r, left5, Classes \cup {"total"}, ids)
  BY <1>2, <1>7, PruneOneMore
<1> HIDE DEF left5
<1>9. PrunedSoFar(r, left5, Classes, ids)
  BY <1>8 DEF PrunedSoFar
<1>10. Cardinality(DOMAIN left4.pels) \in Nat /\ Cardinality(DOMAIN left5.pels) \in Nat
  BY <1>7, <1>8, IndexFinite DEF PrunedSoFar, Sound
<1>11. Cardinality(DOMAIN left5.pels) <= _maxNumPELs \/ DOMAIN left5.pels \subseteq ids
  <2>1. \/ ~isOverLimit(left5, "total")
        \/ \A q \in DOMAIN left5.pels : "total" \in StatsOf(r.pels[q]) => q \in ids
    BY <1>8 DEF PrunedSoFar
  <2>2. CASE ~isOverLimit(left5, "total")
    <3>1. ~(Cardinality(DOMAIN left5.pels) > (_maxNumPELs * 80) \div 100)
      BY <2>2 DEF isOverLimit
    <3>2. (_maxNumPELs * 80) \div 100 \in Nat /\ (_maxNumPELs * 80) \div 100 <= _maxNumPELs
      BY RepositoryAssumption
    <3> QED  BY <1>10, <3>1, <3>2, RepositoryAssumption
  <2>3. CASE \A q \in DOMAIN left5.pels : "total" \in StatsOf(r.pels[q]) => q \in ids
    BY <2>3, StatsOfType
  <2> QED  BY <2>1, <2>2, <2>3
<1>12. CASE Cardinality(DOMAIN left4.pels) > _maxNumPELs
  BY <1>1, <1>9, <1>11, <1>12
<1>13. CASE ~(Cardinality(DOMAIN left4.pels) > _maxNumPELs)
  <2>1. Cardinality(DOMAIN left4.pels) <= _maxNumPELs
    BY <1>10, <1>13, RepositoryAssumption
  <2> QED  BY <1>1, <1>7, <1>13, <2>1
<1> QED  BY <1>12, <1>13
-----------------------------------------------------------------------------
(* The invariant.                                                          *)

\* Numbers are handed out in order; the deletions inotify has yet to report
\* are a list of them.
Numbered ==
    /\ IsIndex(pelAttributes) /\ IsIndex(files)
    /\ deletions \in Seq(1..MaxPELs)
    /\ PELs \subseteq 1..lastLog /\ isolated \subseteq 1..lastLog
    /\ \A i \in DOMAIN deletions : deletions[i] <= lastLog

\* The types of the other variables.
RestTyped ==
    /\ archive \in Nat /\ archiveSize \in Nat
    /\ logs \subseteq 1..MaxPELs /\ mapperUp \in BOOLEAN
    /\ lastLog \in 0..MaxPELs
    /\ prunePending \in BOOLEAN
    /\ logToDelete \in 0..MaxPELs
    /\ idsToDelete \subseteq 1..MaxPELs

\* What inotify has yet to report is gone: a file does not come back.
DeletedIsGone == \A i \in DOMAIN deletions : deletions[i] \notin DOMAIN files

\* Only PELs that guard hardware are isolated.
IsolatedGuards == \A p \in PELs \cap isolated : pelAttributes[p].guard

IndInv ==
    /\ Numbered
    /\ RestTyped
    /\ AddsUp(pelAttributes, sizes)
    /\ IndexMatchesFiles
    /\ ArchiveAccounted
    /\ DeletedIsGone
    /\ IsolatedGuards

\* The elements of a list.
LEMMA ElementsOf ==
    ASSUME NEW S, NEW q \in Seq(S)
    PROVE  DOMAIN q = 1..Len(q) /\ Len(q) \in Nat /\ \A i \in DOMAIN q : q[i] \in S
OBVIOUS

\* The invariant says of every variable what its type is, and more.
LEMMA IndInvImplies == IndInv => SizesAddUp
<1> SUFFICES ASSUME IndInv PROVE SizesAddUp
  OBVIOUS
<1>1. lastLog \in 0..MaxPELs /\ MaxPELs \in Nat
  BY RepositoryAssumption DEF IndInv, RestTyped
<1>2. \A n \in 1..lastLog : n \in 1..MaxPELs
  BY <1>1
<1>3. TypeOK
  <2>1. /\ PELs \subseteq 1..MaxPELs /\ \A p \in PELs : pelAttributes[p] \in PELRecord
        /\ DOMAIN files \subseteq 1..MaxPELs /\ \A p \in DOMAIN files : files[p] \in PELRecord
    BY DEF IndInv, Numbered, IsIndex, PELs
  <2>2. \A i \in DOMAIN deletions : deletions[i] \in 1..MaxPELs
    BY ElementsOf DEF IndInv, Numbered
  <2>3. sizes \in [Stats -> Nat]
    BY DEF IndInv, AddsUp
  <2>4. isolated \subseteq 1..MaxPELs
    BY <1>2 DEF IndInv, Numbered
  <2> QED  BY <2>1, <2>2, <2>3, <2>4 DEF IndInv, RestTyped, TypeOK
<1>4. \A c \in Stats : sizes[c] = SizeOf(pelAttributes, PELs, c)
  BY DEF IndInv, AddsUp, PELs
<1> QED  BY <1>3, <1>4 DEF SizesAddUp

\* A daemon that starts with an empty repository.
LEMMA InitEstablishesInv == Init => IndInv
<1> SUFFICES ASSUME Init PROVE IndInv
  OBVIOUS
<1>1. /\ pelAttributes = << >> /\ files = << >> /\ sizes = [c \in Stats |-> 0]
      /\ archive = 0 /\ archiveSize = 0 /\ logs = {} /\ isolated = {} /\ lastLog = 0
      /\ mapperUp \in BOOLEAN /\ deletions = << >> /\ prunePending = FALSE /\ logToDelete = 0 /\ idsToDelete = {}
  BY DEF Init
<1>2. DOMAIN << >> = {} /\ << >> \in [{} -> PELRecord] /\ << >> \in Seq(1..MaxPELs)
  OBVIOUS
<1>3. IsIndex(<< >>)
  BY <1>2 DEF IsIndex
<1>4. Numbered
  BY <1>1, <1>2, <1>3 DEF Numbered, PELs
<1>5. RestTyped /\ ArchiveAccounted
  <2>1. 0 \in 0..MaxPELs /\ 0 \in Nat /\ 0 <= 0
    BY RepositoryAssumption
  <2>2. RestTyped
    BY <1>1, <2>1 DEF RestTyped
  <2>3. ArchiveAccounted
    BY <1>1, <2>1 DEF ArchiveAccounted
  <2> QED  BY <2>2, <2>3
<1>6. AddsUp(<< >>, [c \in Stats |-> 0])
  <2>1. ASSUME NEW c \in Stats PROVE SizeOf(<< >>, {}, c) = 0
    BY SizeType
  <2> QED  BY <1>2, <2>1 DEF AddsUp
<1>7. IndexMatchesFiles /\ DeletedIsGone /\ IsolatedGuards
  BY <1>1, <1>2 DEF IndexMatchesFiles, DeletedIsGone, IsolatedGuards, PELs
<1> QED  BY <1>1, <1>4, <1>5, <1>6, <1>7 DEF IndInv

\* Steps that leave index, files, totals and deletions alone: a stutter, an
\* event log without a PEL, one that is erased, isolation and release, the mapper.
LEMMA OtherStepsKeepInv ==
    ASSUME IndInv, UNCHANGED <<pelAttributes, files, sizes, deletions>>,
           RestTyped', ArchiveAccounted', lastLog <= lastLog',
           isolated' \subseteq isolated \cup {p \in PELs : pelAttributes[p].guard}
    PROVE  IndInv'
<1>1. /\ pelAttributes' = pelAttributes /\ files' = files /\ sizes' = sizes
      /\ deletions' = deletions /\ PELs' = PELs
  BY DEF PELs
<1>2. lastLog \in Nat /\ lastLog' \in Nat /\ \A n \in 1..MaxPELs : n <= lastLog => n <= lastLog'
  BY RepositoryAssumption DEF IndInv, RestTyped
<1>3. PELs \subseteq 1..lastLog' /\ isolated' \subseteq 1..lastLog'
  <2>1. PELs \subseteq 1..lastLog /\ isolated \subseteq 1..lastLog
    BY DEF IndInv, Numbered
  <2>2. 1..lastLog \subseteq 1..lastLog'
    BY <1>2
  <2> QED  BY <2>1, <2>2
<1>4. \A i \in DOMAIN deletions : deletions[i] <= lastLog'
  <2>1. \A i \in DOMAIN deletions : deletions[i] \in 1..MaxPELs
    BY ElementsOf DEF IndInv, Numbered
  <2>2. \A i \in DOMAIN deletions : deletions[i] <= lastLog
    BY DEF IndInv, Numbered
  <2> QED  BY <1>2, <2>1, <2>2
<1>5. Numbered'
  BY <1>1, <1>3, <1>4 DEF IndInv, Numbered
<1>6. AddsUp(pelAttributes', sizes')
  BY <1>1 DEF IndInv
<1>7. IndexMatchesFiles' /\ DeletedIsGone'
  BY <1>1 DEF IndInv, IndexMatchesFiles, DeletedIsGone
<1>8. IsolatedGuards'
  BY <1>1 DEF IndInv, IsolatedGuards
<1> QED  BY <1>5, <1>6, <1>7, <1>8 DEF IndInv
\* A new event log has the next number.
LEMMA NewLogTyped ==
    ASSUME IndInv, NewLog
    PROVE  /\ lastLog' = lastLog + 1 /\ lastLog + 1 \in 1..MaxPELs /\ lastLog \in Nat
           /\ lastLog' \in 0..MaxPELs /\ lastLog <= lastLog' /\ logs' \subseteq 1..MaxPELs
           /\ mapperUp' = mapperUp
<1>1. lastLog \in 0..MaxPELs /\ lastLog < MaxPELs /\ lastLog' = lastLog + 1
      /\ logs' = logs \cup {lastLog + 1} /\ logs \subseteq 1..MaxPELs /\ mapperUp' = mapperUp
  BY DEF IndInv, RestTyped, NewLog
<1>2. lastLog + 1 \in 1..MaxPELs /\ lastLog \in Nat /\ lastLog + 1 \in 0..MaxPELs /\ lastLog <= lastLog + 1
  BY <1>1, RepositoryAssumption
<1> QED  BY <1>1, <1>2

\* Event logs that come without a PEL or are erased, and hardware isolation.
LEMMA LogStepsKeepInv ==
    ASSUME IndInv,
           \/ addFails \/ addInvalid \/ deleteObmcLog \/ pruneRepoFails \/ pruneLog
           \/ \E kind \in Kinds : addDuplicate(kind)
           \/ \E p \in PELs : Isolate(p)
           \/ \E p \in isolated : Release(p)
           \/ MapperChanges
    PROVE  IndInv'
<1>0. /\ archive \in Nat /\ archiveSize \in Nat /\ logs \subseteq 1..MaxPELs
      /\ lastLog \in 0..MaxPELs /\ prunePending \in BOOLEAN /\ mapperUp \in BOOLEAN
      /\ logToDelete \in 0..MaxPELs /\ idsToDelete \subseteq 1..MaxPELs
      /\ ArchiveAccounted
  BY DEF IndInv, RestTyped
<1>1. 0 \in 0..MaxPELs /\ lastLog <= lastLog /\ lastLog + 1 \in Int
  BY <1>0, RepositoryAssumption
<1>2. CASE addFails
  <2>1. /\ UNCHANGED <<pelAttributes, files, sizes, deletions>>
        /\ UNCHANGED <<archive, archiveSize, isolated, prunePending, logToDelete, idsToDelete>>
        /\ NewLog
    BY <1>2 DEF addFails
  <2>2. RestTyped' /\ ArchiveAccounted' /\ lastLog <= lastLog'
    BY <1>0, <2>1, NewLogTyped DEF RestTyped, ArchiveAccounted
  <2> QED  BY <2>1, <2>2, OtherStepsKeepInv
<1>3. CASE addInvalid
  <2>1. /\ UNCHANGED <<pelAttributes, files, sizes, deletions>>
        /\ UNCHANGED <<archive, archiveSize, isolated, prunePending, idsToDelete>>
        /\ logToDelete' = lastLog + 1 /\ NewLog
    BY <1>3 DEF addInvalid
  <2>2. RestTyped' /\ ArchiveAccounted' /\ lastLog <= lastLog'
    BY <1>0, <2>1, NewLogTyped DEF RestTyped, ArchiveAccounted
  <2> QED  BY <2>1, <2>2, OtherStepsKeepInv
<1>4. CASE deleteObmcLog
  <2>1. /\ UNCHANGED <<pelAttributes, files, sizes, deletions>>
        /\ UNCHANGED <<archive, archiveSize, lastLog, prunePending, idsToDelete>>
        /\ mapperUp' = mapperUp /\ logToDelete' = 0 /\ logs' \subseteq logs /\ isolated' \subseteq isolated
    BY <1>4 DEF deleteObmcLog, EraseLogs
  <2>2. RestTyped' /\ ArchiveAccounted' /\ lastLog <= lastLog'
    BY <1>0, <1>1, <2>1 DEF RestTyped, ArchiveAccounted
  <2> QED  BY <2>1, <2>2, OtherStepsKeepInv
<1>5. CASE pruneLog
  <2>1. /\ UNCHANGED <<pelAttributes, files, sizes, deletions>>
        /\ UNCHANGED <<archive, archiveSize, lastLog, prunePending, logToDelete>>
        /\ logs' \subseteq logs /\ isolated' \subseteq isolated /\ idsToDelete' \subseteq idsToDelete
        /\ mapperUp' = mapperUp
    BY <1>5 DEF pruneLog, EraseLogs
  <2>2. RestTyped' /\ ArchiveAccounted' /\ lastLog <= lastLog'
    BY <1>0, <1>1, <2>1 DEF RestTyped, ArchiveAccounted
  <2> QED  BY <2>1, <2>2, OtherStepsKeepInv
<1>6. ASSUME NEW kind \in Kinds, addDuplicate(kind) PROVE IndInv'
  <2>1. /\ UNCHANGED <<pelAttributes, files, sizes, deletions>>
        /\ UNCHANGED <<isolated, prunePending, idsToDelete>>
        /\ archive' = archive + kind.sizeOnDisk /\ archiveSize' = archiveSize + kind.sizeOnDisk
        /\ logToDelete' = lastLog + 1 /\ NewLog
    BY <1>6 DEF addDuplicate
  <2>2. kind.sizeOnDisk \in Nat
    BY RepositoryAssumption
  <2>3. ArchiveAccounted' /\ archive' \in Nat /\ archiveSize' \in Nat
    BY <1>0, <2>1, <2>2 DEF ArchiveAccounted
  <2>4. RestTyped' /\ lastLog <= lastLog'
    BY <1>0, <2>1, <2>3, NewLogTyped DEF RestTyped
  <2> QED  BY <2>1, <2>3, <2>4, OtherStepsKeepInv
<1>7. ASSUME NEW p \in PELs, Isolate(p) PROVE IndInv'
  <2>1. /\ UNCHANGED <<pelAttributes, files, sizes, deletions>>
        /\ UNCHANGED <<archive, archiveSize, logs, mapperUp, lastLog, prunePending>>
        /\ UNCHANGED <<logToDelete, idsToDelete>>
        /\ isolated' = isolated \cup {p} /\ pelAttributes[p].guard
    BY <1>7 DEF Isolate
  <2>2. RestTyped' /\ ArchiveAccounted' /\ lastLog <= lastLog'
    BY <1>0, <1>1, <2>1 DEF RestTyped, ArchiveAccounted
  <2>3. isolated' \subseteq isolated \cup {x \in PELs : pelAttributes[x].guard}
    BY <2>1
  <2> QED  BY <2>1, <2>2, <2>3, OtherStepsKeepInv
<1>8. ASSUME NEW p \in isolated, Release(p) PROVE IndInv'
  <2>1. /\ UNCHANGED <<pelAttributes, files, sizes, deletions>>
        /\ UNCHANGED <<archive, archiveSize, logs, mapperUp, lastLog, prunePending>>
        /\ UNCHANGED <<logToDelete, idsToDelete>>
        /\ isolated' \subseteq isolated
    BY <1>8 DEF Release
  <2>2. RestTyped' /\ ArchiveAccounted' /\ lastLog <= lastLog'
    BY <1>0, <1>1, <2>1 DEF RestTyped, ArchiveAccounted
  <2> QED  BY <2>1, <2>2, OtherStepsKeepInv
<1>9. CASE pruneRepoFails
  <2>1. /\ UNCHANGED <<pelAttributes, files, sizes, deletions>>
        /\ UNCHANGED <<archive, archiveSize, logs, isolated, mapperUp, lastLog>>
        /\ UNCHANGED <<logToDelete, idsToDelete>> /\ prunePending' = FALSE
    BY <1>9 DEF pruneRepoFails
  <2>2. RestTyped' /\ ArchiveAccounted' /\ lastLog <= lastLog'
    BY <1>0, <1>1, <2>1 DEF RestTyped, ArchiveAccounted
  <2> QED  BY <2>1, <2>2, OtherStepsKeepInv
<1>10. CASE MapperChanges
  <2>1. /\ UNCHANGED <<pelAttributes, files, sizes, deletions>>
        /\ UNCHANGED <<archive, archiveSize, logs, isolated, lastLog>>
        /\ UNCHANGED <<prunePending, logToDelete, idsToDelete>> /\ mapperUp' \in BOOLEAN
    BY <1>10 DEF MapperChanges
  <2>2. RestTyped' /\ ArchiveAccounted' /\ lastLog <= lastLog'
    BY <1>0, <1>1, <2>1 DEF RestTyped, ArchiveAccounted
  <2> QED  BY <2>1, <2>2, OtherStepsKeepInv
<1> QED  BY <1>2, <1>3, <1>4, <1>5, <1>6, <1>7, <1>8, <1>9, <1>10

\* A PEL arrives: it has the next number, which no PEL, no file and no deletion has.
LEMMA AddKeepsInv ==
    ASSUME IndInv, NEW kind \in Kinds, add(kind)
    PROVE  IndInv'
<1> DEFINE n == lastLog + 1
           pel == [creator |-> kind.creator, severity |-> kind.severity,
                   hidden |-> kind.hidden, guard |-> kind.guard,
                   sizeOnDisk |-> kind.sizeOnDisk, hostState |-> "new", hmcState |-> "new"]
<1>1. /\ NewLog /\ pelAttributes' = With(pelAttributes, n, pel) /\ files' = With(files, n, pel)
      /\ sizes' = StatsWith(sizes, pelAttributes', {n}) /\ sizeWarning
      /\ UNCHANGED <<isolated, deletions, logToDelete, idsToDelete>>
  BY DEF add
<1>2. pel \in PELRecord
  BY RepositoryAssumption DEF PELRecord, HMCStates
<1> HIDE DEF pel
<1>5. /\ lastLog' = n /\ n \in 1..MaxPELs /\ lastLog \in Nat
      /\ lastLog' \in 0..MaxPELs /\ lastLog <= lastLog' /\ logs' \subseteq 1..MaxPELs
      /\ mapperUp' = mapperUp
  BY <1>1, NewLogTyped
<1>6. /\ PELs' = {n} \cup PELs /\ pelAttributes'[n] = pel
      /\ \A p \in PELs \ {n} : pelAttributes'[p] = pelAttributes[p]
      /\ DOMAIN files' = {n} \cup DOMAIN files /\ files'[n] = pel
      /\ \A p \in DOMAIN files \ {n} : files'[p] = files[p]
  BY <1>1 DEF PELs, With
<1>7. PELs \subseteq 1..lastLog /\ isolated \subseteq 1..lastLog /\ DOMAIN files \subseteq PELs
  BY DEF IndInv, Numbered, IndexMatchesFiles
<1>8. n \notin 1..lastLog /\ 1..lastLog \subseteq 1..n /\ n \in 1..n /\ 1..n \subseteq 1..MaxPELs
  BY <1>5, RepositoryAssumption
<1>9. n \notin PELs /\ n \notin DOMAIN files /\ n \notin isolated
  BY <1>7, <1>8
<1>10. IsIndex(pelAttributes) /\ IsIndex(files)
  BY DEF IndInv, Numbered
<1>11. IsIndex(pelAttributes') /\ IsIndex(files')
  BY <1>1, <1>2, <1>5, <1>10 DEF IsIndex, With
<1>12. Numbered'
  <2>1. PELs' \subseteq 1..lastLog' /\ isolated' \subseteq 1..lastLog'
    BY <1>1, <1>5, <1>6, <1>7, <1>8
  <2>2. \A i \in DOMAIN deletions : deletions[i] \in 1..MaxPELs
    BY ElementsOf DEF IndInv, Numbered
  <2>3. \A i \in DOMAIN deletions : deletions[i] <= lastLog
    BY DEF IndInv, Numbered
  <2>4. \A i \in DOMAIN deletions : deletions[i] <= lastLog'
    BY <1>5, <2>2, <2>3
  <2>5. deletions' = deletions /\ deletions \in Seq(1..MaxPELs)
    BY <1>1 DEF IndInv, Numbered
  <2> QED  BY <1>11, <2>1, <2>4, <2>5 DEF Numbered
<1>13. archive' \in Nat /\ archiveSize' \in Nat /\ ArchiveAccounted' /\ prunePending' \in BOOLEAN
  <2>1. archive \in Nat /\ archiveSize \in Nat /\ prunePending \in BOOLEAN /\ ArchiveAccounted
    BY DEF IndInv, RestTyped
  <2>2. prunePending' \in BOOLEAN
    BY <1>1, <2>1 DEF sizeWarning, overWarning
  <2>3. \/ archive' = archive /\ archiveSize' = archiveSize
        \/ archiveSize' = 0 /\ archive' \in IF WritesFail THEN 0..archive ELSE {0}
    BY <1>1 DEF sizeWarning
  <2>4. archive' \in Nat /\ archiveSize' \in Nat /\ archiveSize' <= archive'
        /\ (~WritesFail => archiveSize' = archive')
    BY <2>1, <2>3 DEF ArchiveAccounted
  <2> QED  BY <2>2, <2>4 DEF ArchiveAccounted
<1>14. RestTyped'
  BY <1>1, <1>5, <1>13 DEF IndInv, RestTyped
<1>15. AddsUp(pelAttributes', sizes')
  <2>1. \A p \in {n} \cup PELs : pelAttributes'[p] \in PELRecord
    BY <1>6, <1>11 DEF IsIndex, PELs
  <2>2. ASSUME NEW c \in Stats
        PROVE  /\ SizeOf(pelAttributes', DOMAIN pelAttributes', c)
                      = sizes[c] + SizeOf(pelAttributes', {n}, c)
               /\ sizes[c] + SizeOf(pelAttributes', {n}, c) \in Nat
    <3>1. /\ SizeOf(pelAttributes', {n} \cup PELs, c)
               = SizeOf(pelAttributes', {n}, c) + SizeOf(pelAttributes', PELs, c)
          /\ SizeOf(pelAttributes', {n}, c) \in Nat /\ SizeOf(pelAttributes', PELs, c) \in Nat
      <4>1. {n} \cap PELs = {}
        BY <1>9
      <4> QED  BY <2>1, <4>1, SizeSplits
    <3>2. SizeOf(pelAttributes', PELs, c) = SizeOf(pelAttributes, PELs, c)
      BY <1>6, <1>9, SizeSame
    <3>3. sizes[c] = SizeOf(pelAttributes, PELs, c)
      BY DEF IndInv, AddsUp, PELs
    <3>4. DOMAIN pelAttributes' = {n} \cup PELs
      BY <1>6 DEF PELs
    <3> QED  BY <3>1, <3>2, <3>3, <3>4
  <2> QED  BY <1>1, <2>2 DEF AddsUp, StatsWith
<1>16. IndexMatchesFiles'
  <2>1. DOMAIN files' \subseteq PELs'
    BY <1>6, <1>7
  <2>2. ASSUME NEW p \in PELs'
        PROVE  \/ p \in DOMAIN files' /\ files'[p] = pelAttributes'[p]
               \/ p \notin DOMAIN files' /\ Contains(deletions, p)
    <3>1. CASE p = n
      BY <1>6, <3>1
    <3>2. CASE p # n
      BY <1>6, <3>2 DEF IndInv, IndexMatchesFiles
    <3> QED  BY <3>1, <3>2
  <2> QED  BY <1>1, <2>1, <2>2 DEF IndexMatchesFiles
<1>17. DeletedIsGone'
  <2>1. \A i \in DOMAIN deletions : deletions[i] # n
    <3>1. \A i \in DOMAIN deletions : deletions[i] \in 1..MaxPELs
      BY ElementsOf DEF IndInv, Numbered
    <3>2. \A i \in DOMAIN deletions : deletions[i] <= lastLog
      BY DEF IndInv, Numbered
    <3> QED  BY <1>5, <3>1, <3>2
  <2> QED  BY <1>1, <1>6, <2>1 DEF IndInv, DeletedIsGone
<1>18. IsolatedGuards'
  BY <1>1, <1>6, <1>9 DEF IndInv, IsolatedGuards
<1> QED  BY <1>12, <1>13, <1>14, <1>15, <1>16, <1>17, <1>18 DEF IndInv
\* A file goes behind the back of the index, and inotify will report it.
FileGoes(p) ==
    /\ files' = Without(files, {p})
    /\ deletions' = Append(deletions, p)

\* What that leaves of files and deletions.
LEMMA FileGoesKeeps ==
    ASSUME IndInv, NEW p \in DOMAIN files, FileGoes(p)
    PROVE  /\ IsIndex(files') /\ DOMAIN files' = DOMAIN files \ {p}
           /\ \A q \in DOMAIN files \ {p} : files'[q] = files[q]
           /\ deletions' \in Seq(1..MaxPELs) /\ Contains(deletions', p)
           /\ \A q : Contains(deletions, q) => Contains(deletions', q)
           /\ \A i \in DOMAIN deletions' : deletions'[i] <= lastLog
           /\ \A i \in DOMAIN deletions' : deletions'[i] \notin DOMAIN files'
<1>1. IsIndex(files) /\ deletions \in Seq(1..MaxPELs) /\ DOMAIN files \subseteq 1..lastLog
  BY DEF IndInv, Numbered, IndexMatchesFiles
<1>2. /\ IsIndex(files') /\ DOMAIN files' = DOMAIN files \ {p}
      /\ \A q \in DOMAIN files \ {p} : files'[q] = files[q]
  BY <1>1, WithoutIsIndex DEF FileGoes
<1>3. p \in 1..MaxPELs /\ p \in 1..lastLog
  BY <1>1 DEF IsIndex
<1> DEFINE d == Append(deletions, p)
<1>4. /\ d \in Seq(1..MaxPELs) /\ Len(d) = Len(deletions) + 1 /\ d[Len(d)] = p
      /\ \A i \in 1..Len(deletions) : d[i] = deletions[i]
  BY <1>1, <1>3
<1>5. Len(deletions) \in Nat /\ DOMAIN deletions = 1..Len(deletions)
  BY <1>1
<1>6. deletions' = d
  BY DEF FileGoes
<1> HIDE DEF d
<1>7. /\ DOMAIN d = 1..Len(d) /\ Len(d) \in 1..Len(d)
      /\ \A i \in 1..Len(d) : i = Len(d) \/ i \in 1..Len(deletions)
      /\ 1..Len(deletions) \subseteq 1..Len(d)
  BY <1>4, <1>5
<1>8. Contains(d, p) /\ \A q : Contains(deletions, q) => Contains(d, q)
  BY <1>4, <1>7 DEF Contains
<1>9. \A i \in 1..Len(deletions) : deletions[i] <= lastLog /\ deletions[i] \notin DOMAIN files
  BY <1>5 DEF IndInv, Numbered, DeletedIsGone
<1>10. p <= lastLog
  BY <1>3
<1>11. \A i \in DOMAIN d : d[i] <= lastLog /\ d[i] \notin DOMAIN files'
  BY <1>2, <1>4, <1>7, <1>9, <1>10
<1> QED  BY <1>2, <1>4, <1>6, <1>8, <1>11

\* updatePEL changes a transmission state, in the file and in the index; if the
\* file cannot be written it goes.
LEMMA UpdateKeepsInv ==
    ASSUME IndInv, NEW p \in DOMAIN files, NEW pel \in PELRecord,
           StatsOf(pel) = StatsOf(files[p]), pel.sizeOnDisk = files[p].sizeOnDisk,
           pel.guard = files[p].guard, updatePEL(p, pel),
           UNCHANGED <<sizes, archive, archiveSize, logs, isolated, mapperUp, lastLog, prunePending,
                       logToDelete, idsToDelete>>
    PROVE  IndInv'
<1>1. /\ Numbered /\ RestTyped /\ AddsUp(pelAttributes, sizes) /\ IndexMatchesFiles
      /\ ArchiveAccounted /\ DeletedIsGone /\ IsolatedGuards
      /\ IsIndex(pelAttributes) /\ IsIndex(files) /\ deletions \in Seq(1..MaxPELs)
  BY DEF IndInv, Numbered
<1>2. p \in PELs /\ pelAttributes[p] = files[p]
  BY <1>1 DEF IndexMatchesFiles
<1>3. pelAttributes' = [pelAttributes EXCEPT ![p] = pel]
  BY DEF updatePEL
<1>4. /\ PELs' = PELs /\ pelAttributes'[p] = pel /\ IsIndex(pelAttributes')
      /\ \A q \in PELs \ {p} : pelAttributes'[q] = pelAttributes[q]
  BY <1>1, <1>2, <1>3 DEF IsIndex, PELs
<1>5. RestTyped' /\ ArchiveAccounted' /\ lastLog' = lastLog /\ isolated' = isolated /\ sizes' = sizes
  BY <1>1 DEF RestTyped, ArchiveAccounted
<1>6. AddsUp(pelAttributes', sizes')
  <2>1. \A q \in PELs : /\ StatsOf(pelAttributes'[q]) = StatsOf(pelAttributes[q])
                        /\ pelAttributes'[q].sizeOnDisk = pelAttributes[q].sizeOnDisk
    BY <1>2, <1>4
  <2>2. \A c \in Stats : SizeOf(pelAttributes', PELs, c) = SizeOf(pelAttributes, PELs, c)
    BY <2>1, SizeSame
  <2>3. DOMAIN pelAttributes' = PELs /\ DOMAIN pelAttributes = PELs
    BY <1>4 DEF PELs
  <2> QED  BY <1>1, <1>5, <2>2, <2>3 DEF AddsUp
<1>7. IsolatedGuards'
  BY <1>1, <1>2, <1>4, <1>5 DEF IsolatedGuards
<1>8. CASE files' = [files EXCEPT ![p] = pel] /\ deletions' = deletions
  <2>1. /\ DOMAIN files' = DOMAIN files /\ files'[p] = pel /\ IsIndex(files')
        /\ \A q \in DOMAIN files \ {p} : files'[q] = files[q]
    BY <1>1, <1>8 DEF IsIndex
  <2>2. Numbered'
    BY <1>1, <1>4, <1>5, <1>8, <2>1 DEF Numbered
  <2>3. IndexMatchesFiles' /\ DeletedIsGone'
    BY <1>1, <1>2, <1>4, <1>8, <2>1 DEF IndexMatchesFiles, DeletedIsGone
  <2> QED  BY <1>5, <1>6, <1>7, <2>2, <2>3 DEF IndInv
<1>9. CASE FileGoes(p)
  <2>1. /\ IsIndex(files') /\ DOMAIN files' = DOMAIN files \ {p}
        /\ \A q \in DOMAIN files \ {p} : files'[q] = files[q]
        /\ deletions' \in Seq(1..MaxPELs) /\ Contains(deletions', p)
        /\ \A q : Contains(deletions, q) => Contains(deletions', q)
        /\ \A i \in DOMAIN deletions' : deletions'[i] <= lastLog
        /\ \A i \in DOMAIN deletions' : deletions'[i] \notin DOMAIN files'
    BY <1>9, FileGoesKeeps
  <2>2. Numbered'
    BY <1>1, <1>4, <1>5, <2>1 DEF Numbered
  <2>3. IndexMatchesFiles'
    BY <1>1, <1>4, <2>1 DEF IndexMatchesFiles
  <2>4. DeletedIsGone'
    BY <2>1 DEF DeletedIsGone
  <2> QED  BY <1>5, <1>6, <1>7, <2>2, <2>3, <2>4 DEF IndInv
<1> QED  BY <1>8, <1>9 DEF updatePEL, FileGoes

\* The host and the HMC are told of a PEL, or ack it.
LEMMA TransStatesKeepInv ==
    ASSUME IndInv, NEW p \in PELs,
           \/ \E state \in HostStates : setPELHostTransState(p, state)
           \/ \E state \in HMCStates : setPELHMCTransState(p, state)
    PROVE  IndInv'
<1>1. \A q \in DOMAIN files : files[q] \in PELRecord
  BY DEF IndInv, Numbered, IsIndex
<1>2. ASSUME NEW state \in HostStates, setPELHostTransState(p, state) PROVE IndInv'
  <2> DEFINE pel == [files[p] EXCEPT !.hostState = state]
  <2>1. /\ p \in DOMAIN files /\ updatePEL(p, pel)
        /\ UNCHANGED <<sizes, archive, archiveSize, logs, isolated, mapperUp, lastLog, prunePending,
                       logToDelete, idsToDelete>>
    BY <1>2 DEF setPELHostTransState
  <2>2. /\ pel \in PELRecord /\ pel.creator = files[p].creator /\ pel.severity = files[p].severity
        /\ pel.hidden = files[p].hidden /\ pel.sizeOnDisk = files[p].sizeOnDisk
        /\ pel.guard = files[p].guard
    BY <1>1, <2>1 DEF PELRecord
  <2> HIDE DEF pel
  <2>3. StatsOf(pel) = StatsOf(files[p])
    BY <2>2 DEF StatsOf, isBMC, isServiceableSev
  <2> QED  BY <2>1, <2>2, <2>3, UpdateKeepsInv
<1>3. ASSUME NEW state \in HMCStates, setPELHMCTransState(p, state) PROVE IndInv'
  <2> DEFINE pel == [files[p] EXCEPT !.hmcState = state]
  <2>1. /\ p \in DOMAIN files /\ updatePEL(p, pel)
        /\ UNCHANGED <<sizes, archive, archiveSize, logs, isolated, mapperUp, lastLog, prunePending,
                       logToDelete, idsToDelete>>
    BY <1>3 DEF setPELHMCTransState
  <2>2. /\ pel \in PELRecord /\ pel.creator = files[p].creator /\ pel.severity = files[p].severity
        /\ pel.hidden = files[p].hidden /\ pel.sizeOnDisk = files[p].sizeOnDisk
        /\ pel.guard = files[p].guard
    BY <1>1, <2>1 DEF PELRecord
  <2> HIDE DEF pel
  <2>3. StatsOf(pel) = StatsOf(files[p])
    BY <2>2 DEF StatsOf, isBMC, isServiceableSev
  <2> QED  BY <2>1, <2>2, <2>3, UpdateKeepsInv
<1> QED  BY <1>2, <1>3

\* peltool deletes a file.
LEMMA PeltoolKeepsInv ==
    ASSUME IndInv, NEW p \in DOMAIN files, peltoolDelete(p)
    PROVE  IndInv'
<1>1. /\ Numbered /\ RestTyped /\ AddsUp(pelAttributes, sizes) /\ IndexMatchesFiles
      /\ ArchiveAccounted /\ DeletedIsGone /\ IsolatedGuards
  BY DEF IndInv
<1>2. /\ FileGoes(p)
      /\ UNCHANGED <<pelAttributes, sizes, archive, archiveSize, logs, isolated, mapperUp, lastLog>>
      /\ UNCHANGED <<prunePending, logToDelete, idsToDelete>> /\ PELs' = PELs
  BY DEF peltoolDelete, FileGoes, PELs
<1>3. /\ IsIndex(files') /\ DOMAIN files' = DOMAIN files \ {p}
      /\ \A q \in DOMAIN files \ {p} : files'[q] = files[q]
      /\ deletions' \in Seq(1..MaxPELs) /\ Contains(deletions', p)
      /\ \A q : Contains(deletions, q) => Contains(deletions', q)
      /\ \A i \in DOMAIN deletions' : deletions'[i] <= lastLog
      /\ \A i \in DOMAIN deletions' : deletions'[i] \notin DOMAIN files'
  BY <1>2, FileGoesKeeps
<1>4. RestTyped' /\ ArchiveAccounted' /\ IsolatedGuards'
  BY <1>1, <1>2 DEF RestTyped, ArchiveAccounted, IsolatedGuards
<1>5. AddsUp(pelAttributes', sizes')
  BY <1>1, <1>2
<1>6. Numbered'
  BY <1>1, <1>2, <1>3 DEF Numbered
<1>7. IndexMatchesFiles' /\ DeletedIsGone'
  BY <1>1, <1>2, <1>3 DEF IndexMatchesFiles, DeletedIsGone
<1> QED  BY <1>4, <1>5, <1>6, <1>7 DEF IndInv
\* The files of removed PELs move to the archive, which is charged with them.
LEMMA MoveKeeps ==
    ASSUME IndInv, NEW S, MoveToArchive(S)
    PROVE  /\ IsIndex(files') /\ DOMAIN files' = DOMAIN files \ S
           /\ \A q \in DOMAIN files \ S : files'[q] = files[q]
           /\ archive' \in Nat /\ archiveSize' \in Nat /\ ArchiveAccounted'
<1> DEFINE moved == S \cap DOMAIN files
           size == SizeOf(files, moved, "total")
<1>1. files' = Without(files, moved) /\ archive' = archive + size /\ archiveSize' = archiveSize + size
  BY DEF MoveToArchive
<1>2. IsIndex(files) /\ archive \in Nat /\ archiveSize \in Nat /\ ArchiveAccounted
  BY DEF IndInv, Numbered, RestTyped
<1>3. size \in Nat
  <2>1. \A p \in moved : files[p] \in PELRecord
    BY <1>2 DEF IsIndex
  <2> HIDE DEF moved
  <2> QED  BY <2>1, SizeType
<1>4. /\ IsIndex(files') /\ DOMAIN files' = DOMAIN files \ moved
      /\ \A q \in DOMAIN files \ moved : files'[q] = files[q]
  BY <1>1, <1>2, WithoutIsIndex
<1>5. DOMAIN files \ moved = DOMAIN files \ S
  OBVIOUS
<1> HIDE DEF size, moved
<1>6. archive' \in Nat /\ archiveSize' \in Nat /\ ArchiveAccounted'
  BY <1>1, <1>2, <1>3 DEF ArchiveAccounted
<1> QED  BY <1>4, <1>5, <1>6

\* PELs S leave the index and their files the folder; of what inotify has yet to
\* report, at most what is about them is dropped.
LEMMA RemovalKeepsInv ==
    ASSUME IndInv, NEW S, MoveToArchive(S),
           IsIndex(pelAttributes'), PELs' = PELs \ S,
           \A q \in PELs \ S : pelAttributes'[q] = pelAttributes[q],
           AddsUp(pelAttributes', sizes'),
           deletions' \in Seq(1..MaxPELs),
           \A i \in DOMAIN deletions' : Contains(deletions, deletions'[i]),
           \A q \in PELs \ S : Contains(deletions, q) => Contains(deletions', q),
           logs' \subseteq logs, isolated' \subseteq isolated, mapperUp' = mapperUp,
           lastLog' = lastLog,
           prunePending' \in BOOLEAN, logToDelete' = logToDelete, idsToDelete' \subseteq 1..MaxPELs
    PROVE  IndInv'
<1>1. /\ Numbered /\ RestTyped /\ IndexMatchesFiles /\ DeletedIsGone /\ IsolatedGuards
  BY DEF IndInv
<1>2. /\ IsIndex(files') /\ DOMAIN files' = DOMAIN files \ S
      /\ \A q \in DOMAIN files \ S : files'[q] = files[q]
      /\ archive' \in Nat /\ archiveSize' \in Nat /\ ArchiveAccounted'
  BY MoveKeeps
<1>3. \A q : Contains(deletions, q) => q <= lastLog /\ q \notin DOMAIN files
  <2>1. DOMAIN deletions = 1..Len(deletions)
    BY <1>1 DEF Numbered
  <2> QED  BY <1>1, <2>1 DEF Numbered, DeletedIsGone, Contains
<1>4. Numbered'
  BY <1>1, <1>2, <1>3 DEF Numbered
<1>5. RestTyped'
  BY <1>1, <1>2 DEF RestTyped
<1>6. DeletedIsGone'
  BY <1>2, <1>3 DEF DeletedIsGone
<1>7. IndexMatchesFiles'
  BY <1>1, <1>2 DEF IndexMatchesFiles
<1>8. IsolatedGuards'
  BY <1>1 DEF IsolatedGuards
<1> QED  BY <1>2, <1>4, <1>5, <1>6, <1>7, <1>8 DEF IndInv

\* remove() and the totals.
LEMMA RemoveAddsUp ==
    ASSUME IndInv, NEW S, remove(S)
    PROVE  /\ MoveToArchive(S \cap PELs) /\ IsIndex(pelAttributes') /\ PELs' = PELs \ (S \cap PELs)
           /\ \A q \in PELs \ (S \cap PELs) : pelAttributes'[q] = pelAttributes[q]
           /\ AddsUp(pelAttributes', sizes')
<1> DEFINE T == S \cap PELs
<1>1. /\ sizes' = StatsWithout(sizes, pelAttributes, T)
      /\ pelAttributes' = Without(pelAttributes, S) /\ MoveToArchive(T)
  BY DEF remove
<1>2. IsIndex(pelAttributes) /\ AddsUp(pelAttributes, sizes) /\ T \subseteq DOMAIN pelAttributes
  BY DEF IndInv, Numbered, PELs
<1>3. Without(pelAttributes, S) = Without(pelAttributes, T)
  <2>1. DOMAIN pelAttributes \ S = DOMAIN pelAttributes \ T
    BY DEF PELs
  <2> QED  BY <2>1 DEF Without
<1> HIDE DEF T
<1>4. AddsUp(Without(pelAttributes, T), StatsWithout(sizes, pelAttributes, T))
  BY <1>2, RemovalAddsUp
<1>5. /\ IsIndex(Without(pelAttributes, T)) /\ DOMAIN Without(pelAttributes, T) = PELs \ T
      /\ \A q \in PELs \ T : Without(pelAttributes, T)[q] = pelAttributes[q]
  BY <1>2, WithoutIsIndex DEF PELs
<1>6. /\ MoveToArchive(T) /\ IsIndex(pelAttributes') /\ PELs' = PELs \ T
      /\ \A q \in PELs \ T : pelAttributes'[q] = pelAttributes[q]
      /\ AddsUp(pelAttributes', sizes')
  BY <1>1, <1>3, <1>4, <1>5 DEF PELs
<1> QED  BY <1>6 DEF T

\* A client of the LogManager deletes an event log, and its PEL goes with it.
LEMMA EraseKeepsInv ==
    ASSUME IndInv, NEW id \in logs, erase(id)
    PROVE  IndInv'
<1> DEFINE S == {id} \cap PELs
<1>1. /\ remove({id}) /\ logs' \subseteq logs /\ isolated' \subseteq isolated /\ mapperUp' = mapperUp
      /\ UNCHANGED <<lastLog, deletions, prunePending, logToDelete, idsToDelete>>
  BY DEF erase, EraseLogs
<1>2. /\ MoveToArchive(S) /\ IsIndex(pelAttributes') /\ PELs' = PELs \ S
      /\ \A q \in PELs \ S : pelAttributes'[q] = pelAttributes[q]
      /\ AddsUp(pelAttributes', sizes')
  BY <1>1, RemoveAddsUp
<1>3. /\ deletions' = deletions /\ deletions \in Seq(1..MaxPELs) /\ prunePending \in BOOLEAN
      /\ idsToDelete \subseteq 1..MaxPELs
  BY <1>1 DEF IndInv, Numbered, RestTyped
<1>4. \A i \in DOMAIN deletions : Contains(deletions, deletions[i])
  BY <1>3 DEF Contains
<1> HIDE DEF S
<1>5. /\ deletions' \in Seq(1..MaxPELs) /\ \A i \in DOMAIN deletions' : Contains(deletions, deletions'[i])
      /\ \A q \in PELs \ S : Contains(deletions, q) => Contains(deletions', q)
      /\ lastLog' = lastLog /\ prunePending' \in BOOLEAN /\ logToDelete' = logToDelete
      /\ idsToDelete' \subseteq 1..MaxPELs
  BY <1>1, <1>3, <1>4
<1> QED  BY <1>1, <1>2, <1>5, RemovalKeepsInv

\* inotify reports a deletion: the PEL and its event log go too.
LEMMA HandleDeleteKeepsInv ==
    ASSUME IndInv, handlePELDelete
    PROVE  IndInv'
<1> DEFINE h == Head(deletions)
           S == {h} \cap PELs
           d == Tail(deletions)
<1>1. /\ deletions # << >> /\ deletions' = d /\ remove({h})
      /\ logs' \subseteq logs /\ isolated' \subseteq isolated /\ mapperUp' = mapperUp
      /\ UNCHANGED <<lastLog, prunePending, logToDelete, idsToDelete>>
  BY DEF handlePELDelete, EraseLogs
<1>2. /\ MoveToArchive(S) /\ IsIndex(pelAttributes') /\ PELs' = PELs \ S
      /\ \A q \in PELs \ S : pelAttributes'[q] = pelAttributes[q]
      /\ AddsUp(pelAttributes', sizes')
  BY <1>1, RemoveAddsUp
<1>3. /\ deletions \in Seq(1..MaxPELs) /\ prunePending \in BOOLEAN /\ idsToDelete \subseteq 1..MaxPELs
  BY DEF IndInv, Numbered, RestTyped
<1>4. /\ d \in Seq(1..MaxPELs) /\ Len(d) = Len(deletions) - 1 /\ Len(deletions) \in Nat
      /\ \A i \in 1..Len(d) : d[i] = deletions[i + 1]
      /\ h = deletions[1] /\ Len(deletions) >= 1
  BY <1>1, <1>3
<1> HIDE DEF d, h
<1>5. ASSUME NEW i \in DOMAIN d PROVE Contains(deletions, d[i])
  <2>1. i \in 1..Len(d) /\ i + 1 \in 1..Len(deletions)
    BY <1>4
  <2> QED  BY <1>4, <2>1 DEF Contains
<1>6. ASSUME NEW q, q # h, Contains(deletions, q) PROVE Contains(d, q)
  <2>1. PICK i \in 1..Len(deletions) : deletions[i] = q
    BY <1>6 DEF Contains
  <2>2. i # 1
    BY <1>4, <1>6, <2>1
  <2>3. i - 1 \in 1..Len(d) /\ (i - 1) + 1 = i
    BY <1>4, <2>2
  <2>4. d[i - 1] = q
    BY <1>4, <2>1, <2>3
  <2> QED  BY <2>3, <2>4 DEF Contains
<1>7. /\ deletions' \in Seq(1..MaxPELs) /\ \A i \in DOMAIN deletions' : Contains(deletions, deletions'[i])
      /\ \A q \in PELs \ S : Contains(deletions, q) => Contains(deletions', q)
      /\ lastLog' = lastLog /\ prunePending' \in BOOLEAN /\ logToDelete' = logToDelete
      /\ idsToDelete' \subseteq 1..MaxPELs
  BY <1>1, <1>3, <1>4, <1>5, <1>6
<1> HIDE DEF S
<1> QED  BY <1>1, <1>2, <1>7, RemovalKeepsInv
Repository == [pels |-> pelAttributes, sizes |-> sizes]

\* What pruneRepo leaves of the index.
LEMMA PruneRepoPrunes ==
    ASSUME IndInv, NEW named, pruneRepo(named)
    PROVE  LET a == prune(Repository, isolated \cup named)
           IN  /\ Sound(Repository) /\ Repository.pels = pelAttributes
               /\ pelAttributes' = a.pels /\ sizes' = a.sizes
               /\ PrunedSoFar(Repository, a, Classes, isolated \cup named)
               /\ Cardinality(DOMAIN a.pels) <= _maxNumPELs \/ DOMAIN a.pels \subseteq isolated \cup named
<1>1. Repository.pels = pelAttributes /\ Repository.sizes = sizes
  BY DEF Repository
<1>2. Sound(Repository)
  BY <1>1 DEF IndInv, Numbered, Sound
<1> DEFINE a == prune(Repository, isolated \cup named)
<1>3. pelAttributes' = a.pels /\ sizes' = a.sizes
  BY DEF pruneRepo, Repository, getLogIDWithHwIsolation
<1> QED  BY <1>1, <1>2, <1>3, PruneCorrect

\* pruneRepo moves the files of what prune() removed and keeps the totals right.
LEMMA PruneRepoKeepsInv ==
    ASSUME IndInv, NEW named, pruneRepo(named)
    PROVE  IndInv'
<1> DEFINE a == prune(Repository, isolated \cup named)
           S == PELs \ PELs'
<1>1. /\ pelAttributes' = a.pels /\ sizes' = a.sizes /\ Sound(a) /\ SomeOf(a, Repository)
      /\ Repository.pels = pelAttributes
  BY PruneRepoPrunes DEF PrunedSoFar
<1>2. /\ MoveToArchive(S) /\ idsToDelete' = S /\ prunePending' = FALSE
      /\ UNCHANGED <<logs, isolated, mapperUp, lastLog, deletions, logToDelete>>
  BY <1>1 DEF pruneRepo, Repository, PELs, getLogIDWithHwIsolation
<1> HIDE DEF a
<1>3. /\ IsIndex(pelAttributes') /\ AddsUp(pelAttributes', sizes')
      /\ PELs' \subseteq PELs /\ \A q \in PELs' : pelAttributes'[q] = pelAttributes[q]
  BY <1>1 DEF Sound, SomeOf, PELs
<1>4. PELs' = PELs \ S
  BY <1>3
<1>5. deletions \in Seq(1..MaxPELs) /\ PELs \subseteq 1..MaxPELs
  BY DEF IndInv, Numbered, IsIndex, PELs
<1>6. \A i \in DOMAIN deletions : Contains(deletions, deletions[i])
  BY <1>5 DEF Contains
<1>7. /\ deletions' \in Seq(1..MaxPELs) /\ \A i \in DOMAIN deletions' : Contains(deletions, deletions'[i])
      /\ \A q \in PELs \ S : Contains(deletions, q) => Contains(deletions', q)
      /\ lastLog' = lastLog /\ prunePending' \in BOOLEAN /\ logToDelete' = logToDelete
      /\ idsToDelete' \subseteq 1..MaxPELs /\ logs' \subseteq logs /\ isolated' \subseteq isolated
      /\ mapperUp' = mapperUp
  BY <1>2, <1>5, <1>6
<1>8. \A q \in PELs \ S : pelAttributes'[q] = pelAttributes[q]
  BY <1>3, <1>4
<1> HIDE DEF S
<1> QED  BY <1>2, <1>3, <1>4, <1>7, <1>8, RemovalKeepsInv

\* The daemon starts again: restore() makes the index anew from the files.
LEMMA RestartKeepsInv ==
    ASSUME IndInv, NEW torn, NEW cut, Restart(torn, cut)
    PROVE  IndInv'
<1> DEFINE intact == [p \in DOMAIN files \ torn |-> restored(files[p])]
<1>1. /\ Numbered /\ RestTyped /\ IndexMatchesFiles /\ IsolatedGuards
      /\ IsIndex(files) /\ DOMAIN files \subseteq PELs /\ PELs \subseteq 1..lastLog
  BY DEF IndInv, Numbered, IndexMatchesFiles
<1>2. /\ files' = intact /\ pelAttributes' = intact
      /\ sizes' = StatsWith([c \in Stats |-> 0], intact, DOMAIN intact)
      /\ archiveSize' = archive /\ archive' = archive /\ lastLog' = lastLog
      /\ logs' \subseteq logs /\ isolated' \subseteq isolated /\ mapperUp' = mapperUp
      /\ deletions' = << >> /\ prunePending' = FALSE /\ logToDelete' = 0 /\ idsToDelete' = {}
  BY DEF Restart, EraseLogs
<1>3. ASSUME NEW p \in DOMAIN files
      PROVE  restored(files[p]) \in PELRecord /\ restored(files[p]).guard = files[p].guard
  <2>1. files[p] \in PELRecord /\ "new" \in HostStates
    BY <1>1, RepositoryAssumption DEF IsIndex
  <2> QED  BY <2>1 DEF restored, PELRecord
<1>4. /\ DOMAIN intact = DOMAIN files \ torn
      /\ \A p \in DOMAIN files \ torn : intact[p] = restored(files[p])
  OBVIOUS
<1>5. IsIndex(intact)
  BY <1>1, <1>3 DEF IsIndex
<1> HIDE DEF intact
<1>6. PELs' = DOMAIN files \ torn /\ DOMAIN files' = DOMAIN files \ torn /\ files' = pelAttributes'
  BY <1>2, <1>4 DEF PELs
<1>7. Numbered'
  <2>1. << >> \in Seq(1..MaxPELs) /\ DOMAIN << >> = {}
    OBVIOUS
  <2> QED  BY <1>1, <1>2, <1>5, <1>6, <2>1 DEF Numbered
<1>8. RestTyped' /\ ArchiveAccounted'
  <2>1. 0 \in 0..MaxPELs /\ archive \in Nat /\ archive <= archive
    BY <1>1, RepositoryAssumption DEF RestTyped
  <2>2. RestTyped'
    BY <1>1, <1>2, <2>1 DEF RestTyped
  <2>3. ArchiveAccounted'
    BY <1>2, <2>1 DEF ArchiveAccounted
  <2> QED  BY <2>2, <2>3
<1>9. AddsUp(pelAttributes', sizes')
  <2>1. \A p \in DOMAIN intact : intact[p] \in PELRecord
    BY <1>5 DEF IsIndex
  <2>2. ASSUME NEW c \in Stats
        PROVE  /\ SizeOf(intact, DOMAIN intact, c) \in Nat
               /\ 0 + SizeOf(intact, DOMAIN intact, c) = SizeOf(intact, DOMAIN intact, c)
    <3>1. SizeOf(intact, DOMAIN intact, c) \in Nat
      BY <2>1, SizeType
    <3> QED  BY <3>1
  <2>3. AddsUp(intact, StatsWith([c \in Stats |-> 0], intact, DOMAIN intact))
    BY <2>2 DEF AddsUp, StatsWith
  <2> QED  BY <1>2, <2>3
<1>10. IndexMatchesFiles' /\ DeletedIsGone'
  <2>1. DOMAIN << >> = {}
    OBVIOUS
  <2> QED  BY <1>2, <1>6, <2>1 DEF IndexMatchesFiles, DeletedIsGone
<1>11. IsolatedGuards'
  <2>1. ASSUME NEW p \in PELs' \cap isolated' PROVE pelAttributes'[p].guard
    <3>1. p \in DOMAIN files /\ p \in PELs /\ p \in isolated /\ pelAttributes'[p] = restored(files[p])
      BY <1>1, <1>2, <1>4, <1>6
    <3>2. files[p] = pelAttributes[p] /\ pelAttributes[p].guard
      BY <1>1, <3>1 DEF IndexMatchesFiles, IsolatedGuards
    <3> QED  BY <1>3, <3>1, <3>2
  <2> QED  BY <2>1 DEF IsolatedGuards
<1> QED  BY <1>7, <1>8, <1>9, <1>10, <1>11 DEF IndInv

\* Every step keeps the invariant.
LEMMA NextKeepsInv ==
    ASSUME IndInv, Next
    PROVE  IndInv'
<1>1. CASE \E kind \in Kinds : createPEL(kind) \/ addPEL(kind)
  BY <1>1, AddKeepsInv DEF createPEL, addPEL
<1>2. CASE \/ addFails \/ addInvalid \/ deleteObmcLog \/ pruneRepoFails \/ pruneLog
           \/ \E kind \in Kinds : addDuplicate(kind)
           \/ \E p \in PELs : Isolate(p)
           \/ \E p \in isolated : Release(p)
           \/ MapperChanges
  BY <1>2, LogStepsKeepInv
<1>3. CASE \E p \in PELs :
              \/ \E state \in HostStates : setPELHostTransState(p, state)
              \/ \E state \in HMCStates : setPELHMCTransState(p, state)
  BY <1>3, TransStatesKeepInv
<1>4. CASE \E named \in SUBSET Associated : pruneRepo(named)
  BY <1>4, PruneRepoKeepsInv
<1>5. CASE \E id \in logs : erase(id)
  BY <1>5, EraseKeepsInv
<1>6. CASE \E p \in DOMAIN files : peltoolDelete(p)
  BY <1>6, PeltoolKeepsInv
<1>7. CASE handlePELDelete
  BY <1>7, HandleDeleteKeepsInv
<1>8. CASE restart
  BY <1>8, RestartKeepsInv DEF restart
<1> QED  BY <1>1, <1>2, <1>3, <1>4, <1>5, <1>6, <1>7, <1>8 DEF Next

\* A step that changes nothing.
LEMMA StutterKeepsInv ==
    ASSUME IndInv, UNCHANGED vars
    PROVE  IndInv'
<1>1. /\ UNCHANGED <<pelAttributes, files, sizes, deletions, isolated, lastLog>>
      /\ UNCHANGED <<archive, archiveSize, logs, mapperUp, prunePending, logToDelete, idsToDelete>>
  BY DEF vars
<1>2. RestTyped' /\ ArchiveAccounted'
  BY <1>1 DEF IndInv, RestTyped, ArchiveAccounted
<1>3. lastLog <= lastLog
  BY RepositoryAssumption DEF IndInv, RestTyped
<1> QED  BY <1>1, <1>2, <1>3, OtherStepsKeepInv
-----------------------------------------------------------------------------
(* The theorems.                                                           *)

\* The invariant holds throughout.
THEOREM IndInvHolds == Spec => []IndInv
<1>1. IndInv /\ [Next]_vars => IndInv'
  BY NextKeepsInv, StutterKeepsInv
<1> QED  BY <1>1, InitEstablishesInv, PTL DEF Spec

\* SizesAddUp: whatever comes, goes, is pruned, restored or fails to be written,
\* the seven running totals are the sums over the index, and TypeOK holds.
THEOREM SizesCorrect == Spec => []SizesAddUp
BY IndInvHolds, IndInvImplies, PTL

\* IndexMatchesFiles: the index differs from the files only by deletions that
\* inotify has yet to report, with failing writes and with peltool at work.
THEOREM IndexCorrect == Spec => []IndexMatchesFiles
<1>1. IndInv => IndexMatchesFiles
  BY DEF IndInv
<1> QED  BY <1>1, IndInvHolds, PTL

\* ArchiveAccounted: the archive is never charged with more than it holds, nor
\* with less if its files can always be deleted.
THEOREM ArchiveCorrect == Spec => []ArchiveAccounted
<1>1. IndInv => ArchiveAccounted
  BY DEF IndInv
<1> QED  BY <1>1, IndInvHolds, PTL

\* No step but a removal or a restart takes a PEL out of the index.
LEMMA StepsThatRemove ==
    ASSUME IndInv, Next
    PROVE  \/ PELs \subseteq DOMAIN pelAttributes'
           \/ \E named \in SUBSET Associated : pruneRepo(named)
           \/ \E id \in logs : erase(id)
           \/ handlePELDelete
           \/ restart
<1>1. CASE \E kind \in Kinds : createPEL(kind) \/ addPEL(kind)
  BY <1>1 DEF createPEL, addPEL, add, With, PELs
<1>2. CASE \/ addFails \/ addInvalid \/ deleteObmcLog \/ pruneRepoFails \/ pruneLog
           \/ \E kind \in Kinds : addDuplicate(kind)
           \/ \E p \in PELs : Isolate(p)
           \/ \E p \in isolated : Release(p)
           \/ MapperChanges
           \/ \E p \in DOMAIN files : peltoolDelete(p)
  <2>1. pelAttributes' = pelAttributes
    BY <1>2 DEF addFails, addInvalid, deleteObmcLog, pruneRepoFails, pruneLog, addDuplicate,
                Isolate, Release, MapperChanges, peltoolDelete
  <2> QED  BY <2>1 DEF PELs
<1>3. CASE \E p \in PELs :
              \/ \E state \in HostStates : setPELHostTransState(p, state)
              \/ \E state \in HMCStates : setPELHMCTransState(p, state)
  <2>1. \E p, pel : pelAttributes' = [pelAttributes EXCEPT ![p] = pel]
    BY <1>3 DEF setPELHostTransState, setPELHMCTransState, updatePEL
  <2> QED  BY <2>1 DEF PELs
<1> QED  BY <1>1, <1>2, <1>3 DEF Next

\* LogGoesWithPEL: a PEL that leaves the index takes its event log with it, or
\* leaves it to the loop of the prune that removed the PEL.
THEOREM LogGoesCorrect == Spec => LogGoesWithPEL
<1>1. ASSUME IndInv, Next, NEW p \in PELs \ DOMAIN pelAttributes'
      PROVE  p \notin logs' \/ p \in idsToDelete' \/ restart
  <2>1. ASSUME NEW named, pruneRepo(named) PROVE p \in idsToDelete'
    <3>1. idsToDelete' = PELs \ DOMAIN pelAttributes'
      BY <2>1 DEF pruneRepo
    <3> QED  BY <3>1
  <2>2. ASSUME NEW id \in logs, erase(id) PROVE p \notin logs'
    <3>1. remove({id}) /\ logs' = logs \ {id}
      BY <2>2 DEF erase, EraseLogs
    <3>2. DOMAIN pelAttributes' = PELs \ {id}
      BY <3>1 DEF remove, Without, Restrict, PELs
    <3> QED  BY <3>1, <3>2
  <2>3. CASE handlePELDelete
    <3>1. /\ remove({Head(deletions)}) /\ logs' = logs \ ({Head(deletions)} \cap PELs)
      BY <2>3 DEF handlePELDelete, EraseLogs, removedLogID
    <3>2. DOMAIN pelAttributes' = PELs \ {Head(deletions)}
      BY <3>1 DEF remove, Without, Restrict, PELs
    <3> QED  BY <3>1, <3>2
  <2> QED  BY <1>1, <2>1, <2>2, <2>3, StepsThatRemove
<1>2. ASSUME UNCHANGED vars PROVE PELs \ DOMAIN pelAttributes' = {}
  BY <1>2 DEF vars, PELs
<1>3. IndInv /\ [Next]_vars =>
        [\A p \in PELs \ DOMAIN pelAttributes' : p \notin logs' \/ p \in idsToDelete' \/ restart]_vars
  BY <1>1, <1>2
<1> QED  BY <1>3, IndInvHolds, PTL DEF Spec, LogGoesWithPEL

\* IsolatedPELKept: neither pruning nor inotify takes a PEL that an isolation
\* entry names and whose file is there, and a client's deletion does only while
\* the mapper does not answer.
THEOREM IsolatedCorrect == Spec => IsolatedPELKept
<1> DEFINE taken(p) == ~mapperUp /\ erase(p)
<1>1. ASSUME IndInv, Next, NEW p \in isolated \cap DOMAIN files
      PROVE  p \in DOMAIN pelAttributes' \/ restart \/ taken(p)
  <2>1. p \in PELs /\ pelAttributes[p].guard
    BY <1>1 DEF IndInv, IndexMatchesFiles, IsolatedGuards
  <2>2. ASSUME NEW named, pruneRepo(named) PROVE p \in DOMAIN pelAttributes'
    <3> DEFINE a == prune(Repository, isolated \cup named)
    <3>1. /\ DOMAIN Repository.pels \cap (isolated \cup named) \subseteq DOMAIN a.pels
          /\ Repository.pels = pelAttributes /\ pelAttributes' = a.pels
      BY <1>1, <2>2, PruneRepoPrunes DEF PrunedSoFar
    <3> HIDE DEF a
    <3> QED  BY <2>1, <3>1 DEF PELs
  <2>3. ASSUME NEW id \in logs, erase(id), ~taken(p) PROVE p \in DOMAIN pelAttributes'
    <3>1. id # p
      BY <2>1, <2>3 DEF erase, isDeleteProhibited
    <3>2. DOMAIN pelAttributes' = PELs \ {id}
      BY <2>3 DEF erase, remove, Without, Restrict, PELs
    <3> QED  BY <2>1, <3>1, <3>2
  <2>4. CASE handlePELDelete
    <3>1. deletions # << >> /\ deletions \in Seq(1..MaxPELs)
      BY <1>1, <2>4 DEF handlePELDelete, IndInv, Numbered
    <3>2. Head(deletions) = deletions[1] /\ 1 \in DOMAIN deletions
      BY <3>1
    <3>3. Head(deletions) # p
      BY <1>1, <3>2 DEF IndInv, DeletedIsGone
    <3>4. DOMAIN pelAttributes' = PELs \ {Head(deletions)}
      BY <2>4 DEF handlePELDelete, remove, Without, Restrict, PELs
    <3> QED  BY <2>1, <3>3, <3>4
  <2> QED  BY <1>1, <2>1, <2>2, <2>3, <2>4, StepsThatRemove
<1>2. ASSUME IndInv, UNCHANGED vars, NEW p \in isolated \cap DOMAIN files
      PROVE  p \in DOMAIN pelAttributes'
  BY <1>2 DEF vars, IndInv, IndexMatchesFiles, PELs
<1>3. IndInv /\ [Next]_vars =>
        [\A p \in isolated \cap DOMAIN files :
            \/ p \in DOMAIN pelAttributes' \/ restart
            \/ ~mapperUp /\ erase(p)]_vars
  BY <1>1, <1>2
<1> QED  BY <1>3, IndInvHolds, PTL DEF Spec, IsolatedPELKept
\* PELs none of which counts in a total take nothing of it.
LEMMA SizeOfNone ==
    ASSUME NEW f, NEW S, NEW c, \A p \in S : f[p] \in PELRecord /\ c \notin StatsOf(f[p])
    PROVE  SizeOf(f, S, c) = 0
<1>1. Weights(f, S, c) = Weights(f, {}, c)
  BY DEF Weights
<1>2. SizeOf(f, S, c) = SizeOf(f, {}, c)
  BY <1>1 DEF SizeOf, Weights
<1>3. SizeOf(f, {}, c) = 0
  BY SizeType
<1> QED  BY <1>2, <1>3

\* The four classes make up the total.
LEMMA ClassesMakeTotal ==
    ASSUME NEW f, NEW S, \A p \in S : f[p] \in PELRecord
    PROVE  LET bi == SizeOf(f, S, "bmcInfo")
               bs == SizeOf(f, S, "bmcServiceable")
               ni == SizeOf(f, S, "nonBMCInfo")
               ns == SizeOf(f, S, "nonBMCServiceable")
           IN  /\ SizeOf(f, S, "total") = (bi + bs) + (ni + ns)
               /\ bi \in Nat /\ bs \in Nat /\ ni \in Nat /\ ns \in Nat
<1> DEFINE w(c) == Weights(f, S, c)
           x == [n \in 1..MaxPELs |-> w("bmcInfo")[n] + w("bmcServiceable")[n]]
           y == [n \in 1..MaxPELs |-> w("nonBMCInfo")[n] + w("nonBMCServiceable")[n]]
<1>1. \A c : w(c) \in Sizes
  BY WeightsType
<1>2. \A c : SizeOf(f, S, c) = Total(w(c))
  BY DEF SizeOf, Weights
<1>3. \A c : \A n \in 1..MaxPELs :
        w(c)[n] = IF n \in S /\ c \in StatsOf(f[n]) THEN f[n].sizeOnDisk ELSE 0
  BY DEF Weights
<1> HIDE DEF w
<1>4. \A c : \A n \in 1..MaxPELs : w(c)[n] \in Nat
  BY <1>1 DEF Sizes
<1>5. x \in Sizes /\ y \in Sizes
  BY <1>4 DEF Sizes
<1>6. /\ \A n \in 1..MaxPELs : x[n] = w("bmcInfo")[n] + w("bmcServiceable")[n]
      /\ \A n \in 1..MaxPELs : y[n] = w("nonBMCInfo")[n] + w("nonBMCServiceable")[n]
  OBVIOUS
<1> HIDE DEF x, y
<1>7. ASSUME NEW n \in 1..MaxPELs PROVE w("total")[n] = x[n] + y[n]
  <2> DEFINE s == f[n].sizeOnDisk
  <2>1. n \in S => s \in Nat
    BY DEF PELRecord
  <2>2. CASE n \notin S
    BY <1>3, <1>6, <2>2
  <2>3. CASE n \in S
    <3>1. /\ "total" \in StatsOf(f[n])
          /\ \/ /\ "bmcInfo" \in StatsOf(f[n]) /\ "bmcServiceable" \notin StatsOf(f[n])
                /\ "nonBMCInfo" \notin StatsOf(f[n]) /\ "nonBMCServiceable" \notin StatsOf(f[n])
             \/ /\ "bmcInfo" \notin StatsOf(f[n]) /\ "bmcServiceable" \in StatsOf(f[n])
                /\ "nonBMCInfo" \notin StatsOf(f[n]) /\ "nonBMCServiceable" \notin StatsOf(f[n])
             \/ /\ "bmcInfo" \notin StatsOf(f[n]) /\ "bmcServiceable" \notin StatsOf(f[n])
                /\ "nonBMCInfo" \in StatsOf(f[n]) /\ "nonBMCServiceable" \notin StatsOf(f[n])
             \/ /\ "bmcInfo" \notin StatsOf(f[n]) /\ "bmcServiceable" \notin StatsOf(f[n])
                /\ "nonBMCInfo" \notin StatsOf(f[n]) /\ "nonBMCServiceable" \in StatsOf(f[n])
      BY DEF StatsOf
    <3> HIDE DEF s
    <3>2. /\ w("total")[n] = s
          /\ w("bmcInfo")[n] = IF "bmcInfo" \in StatsOf(f[n]) THEN s ELSE 0
          /\ w("bmcServiceable")[n] = IF "bmcServiceable" \in StatsOf(f[n]) THEN s ELSE 0
          /\ w("nonBMCInfo")[n] = IF "nonBMCInfo" \in StatsOf(f[n]) THEN s ELSE 0
          /\ w("nonBMCServiceable")[n] = IF "nonBMCServiceable" \in StatsOf(f[n]) THEN s ELSE 0
      BY <1>3, <2>3, <3>1 DEF s
    <3> QED  BY <1>6, <2>1, <2>3, <3>1, <3>2
  <2> QED  BY <2>2, <2>3
<1>8. Total(w("total")) = Total(x) + Total(y) /\ Total(x) \in Nat /\ Total(y) \in Nat
  BY <1>1, <1>5, <1>7, TotalAdds
<1>9. /\ Total(x) = Total(w("bmcInfo")) + Total(w("bmcServiceable"))
      /\ Total(w("bmcInfo")) \in Nat /\ Total(w("bmcServiceable")) \in Nat
  BY <1>1, <1>5, <1>6, TotalAdds
<1>10. /\ Total(y) = Total(w("nonBMCInfo")) + Total(w("nonBMCServiceable"))
       /\ Total(w("nonBMCInfo")) \in Nat /\ Total(w("nonBMCServiceable")) \in Nat
  BY <1>1, <1>5, <1>6, TotalAdds
<1> QED  BY <1>2, <1>8, <1>9, <1>10

\* The shares of the four classes are nine tenths of the space.
LEMMA SharesMakeNineTenths ==
    ASSUME NEW m \in Nat, NEW bi \in Nat, NEW bs \in Nat, NEW ni \in Nat, NEW ns \in Nat,
           bi <= (m * 15) \div 100, bs <= (m * 30) \div 100,
           ni <= (m * 15) \div 100, ns <= (m * 30) \div 100
    PROVE  10 * ((bi + bs) + (ni + ns)) <= 9 * m
<1>1. 100 * ((m * 15) \div 100) <= m * 15 /\ (m * 15) \div 100 \in Int
  OBVIOUS
<1>2. 100 * ((m * 30) \div 100) <= m * 30 /\ (m * 30) \div 100 \in Int
  OBVIOUS
<1> QED  BY <1>1, <1>2

\* PruneTakesLeastNeeded: pruning gives up what the HMC has acked first, then what
\* the host has acked, then what it was sent, and within that the oldest.
THEOREM PruneOrderCorrect == Spec => PruneTakesLeastNeeded
<1> DEFINE passOf(pel) == CASE pel.hmcState = "acked"  -> 1
                            [] pel.hostState = "acked" -> 2
                            [] pel.hostState = "sent"  -> 3
                            [] OTHER                   -> 4
           disordered(p, q) ==
               /\ StatsOf(pelAttributes[p]) = StatsOf(pelAttributes[q])
               /\ \/ passOf(pelAttributes[q]) < passOf(pelAttributes[p])
                  \/ passOf(pelAttributes[q]) = passOf(pelAttributes[p]) /\ q < p
<1>1. ASSUME IndInv, NEW p \in PELs \ DOMAIN pelAttributes', NEW q \in PELs \cap DOMAIN pelAttributes',
             disordered(p, q), NEW named \in SUBSET Associated, pruneRepo(named),
             q \notin isolated \cup named
      PROVE  FALSE
  <2> DEFINE a == prune(Repository, isolated \cup named)
  <2>1. /\ Repository.pels = pelAttributes /\ pelAttributes' = a.pels
        /\ PrunedSoFar(Repository, a, Classes, isolated \cup named)
    BY <1>1, PruneRepoPrunes
  <2> HIDE DEF a
  <2>2. Precedes(pelAttributes, p, q)
    BY <1>1, <2>1 DEF PrunedSoFar, PELs
  <2>3. p \in Nat /\ q \in Nat
    BY <1>1 DEF IndInv, Numbered, IsIndex, PELs
  <2> QED  BY <1>1, <2>2, <2>3 DEF Precedes, Pass
<1>2. ASSUME UNCHANGED vars PROVE PELs \ DOMAIN pelAttributes' = {}
  BY <1>2 DEF vars, PELs
<1>3. IndInv /\ [Next]_vars =>
        [\A p \in PELs \ DOMAIN pelAttributes', q \in PELs \cap DOMAIN pelAttributes' :
            LET rank(pel) == CASE pel.hmcState = "acked"  -> 1
                               [] pel.hostState = "acked" -> 2
                               [] pel.hostState = "sent"  -> 3
                               [] OTHER                   -> 4
                gone == rank(pelAttributes[p])
                left == rank(pelAttributes[q])
                misplaced == StatsOf(pelAttributes[p]) = StatsOf(pelAttributes[q])
                             /\ (left < gone \/ (left = gone /\ q < p))
            IN  misplaced => \A named \in SUBSET Associated :
                                 pruneRepo(named) => q \in isolated \cup named]_vars
  BY <1>1, <1>2
<1> QED  BY <1>3, IndInvHolds, PTL DEF Spec, PruneTakesLeastNeeded

\* A class that is not over its limit is within its share.
LEMMA WithinShare ==
    ASSUME NEW a, Sound(a), NEW stat \in Classes, ~isOverLimit(a, stat)
    PROVE  a.sizes[stat] <= (_maxRepoSize * Percent(stat)) \div 100
<1>1. a.sizes[stat] \in Nat /\ stat # "total"
  BY DEF Sound, AddsUp, Classes, Stats
<1>2. ~(a.sizes[stat] > (_maxRepoSize * Percent(stat)) \div 100)
  BY <1>1 DEF isOverLimit, OverShare
<1>3. (_maxRepoSize * Percent(stat)) \div 100 \in Int
  <2>1. _maxRepoSize * Percent(stat) \in Nat
    BY RepositoryAssumption DEF Percent
  <2> QED  BY <2>1
<1> QED  BY <1>1, <1>2, <1>3

\* PruneReachesLimits: whatever the sizes and the states of the PELs, one prune is
\* enough: each kind is within its share, all within nine tenths of the space and
\* within the allowed number, unless only isolated PELs, or PELs that
\* another object names, are left to remove.
THEOREM PruneLimitsCorrect == Spec => PruneReachesLimits
<1> DEFINE rest == DOMAIN pelAttributes'
           fits(stat, percent, named) ==
               \/ sizes'[stat] <= (_maxRepoSize * percent) \div 100
               \/ \A p \in rest : stat \in StatsOf(pelAttributes'[p]) => p \in isolated \cup named
           Limits(named) ==
               /\ fits("bmcInfo", 15, named) /\ fits("bmcServiceable", 30, named)
               /\ fits("nonBMCInfo", 15, named) /\ fits("nonBMCServiceable", 30, named)
               /\ Cardinality(rest) <= _maxNumPELs \/ rest \subseteq isolated \cup named
               /\ rest \cap (isolated \cup named) = {} => 10 * sizes'["total"] <= 9 * _maxRepoSize
<1>1. ASSUME IndInv, NEW named, pruneRepo(named) PROVE Limits(named)
  <2> DEFINE a == prune(Repository, isolated \cup named)
  <2>1. /\ Repository.pels = pelAttributes /\ pelAttributes' = a.pels /\ sizes' = a.sizes
        /\ PrunedSoFar(Repository, a, Classes, isolated \cup named)
        /\ Cardinality(DOMAIN a.pels) <= _maxNumPELs \/ DOMAIN a.pels \subseteq isolated \cup named
    BY <1>1, PruneRepoPrunes
  <2> HIDE DEF a
  <2>2. /\ Sound(a) /\ rest = DOMAIN a.pels 
        /\ \A p \in rest : a.pels[p] = pelAttributes[p] /\ pelAttributes'[p] = a.pels[p]
    BY <2>1 DEF PrunedSoFar, SomeOf
  <2>3. ASSUME NEW stat \in Classes PROVE fits(stat, Percent(stat), named)
    <3>1. \/ ~isOverLimit(a, stat)
          \/ \A q \in rest : stat \in StatsOf(pelAttributes'[q]) => q \in isolated \cup named
      BY <2>1, <2>2 DEF PrunedSoFar
    <3>2. ~isOverLimit(a, stat) => sizes'[stat] <= (_maxRepoSize * Percent(stat)) \div 100
      BY <2>1, <2>2, WithinShare
    <3> QED  BY <3>1, <3>2
  <2>4. /\ "bmcInfo" \in Classes /\ "bmcServiceable" \in Classes
        /\ "nonBMCInfo" \in Classes /\ "nonBMCServiceable" \in Classes
        /\ Percent("bmcInfo") = 15 /\ Percent("bmcServiceable") = 30
        /\ Percent("nonBMCInfo") = 15 /\ Percent("nonBMCServiceable") = 30
    BY DEF Classes, Percent
  <2>5. /\ fits("bmcInfo", 15, named) /\ fits("bmcServiceable", 30, named)
        /\ fits("nonBMCInfo", 15, named) /\ fits("nonBMCServiceable", 30, named)
    <3> HIDE DEF fits
    <3> QED  BY <2>3, <2>4
  <2>6. ASSUME rest \cap (isolated \cup named) = {} PROVE 10 * sizes'["total"] <= 9 * _maxRepoSize
    <3>1. \A p \in rest : a.pels[p] \in PELRecord
      BY <2>2 DEF Sound, IsIndex
    <3>2. \A c \in Classes \cup {"total"} : sizes'[c] = SizeOf(a.pels, rest, c)
      BY <2>1, <2>2 DEF Sound, AddsUp, Classes, Stats
    <3>3. ASSUME NEW stat \in Classes
          PROVE  sizes'[stat] <= (_maxRepoSize * Percent(stat)) \div 100
      <4>1. CASE \A p \in rest : stat \in StatsOf(pelAttributes'[p]) => p \in isolated \cup named
        <5>1. \A p \in rest : stat \notin StatsOf(a.pels[p])
          BY <2>2, <2>6, <4>1
        <5>2. sizes'[stat] = 0
          BY <3>1, <3>2, <5>1, SizeOfNone
        <5>3. _maxRepoSize * Percent(stat) \in Nat
          BY RepositoryAssumption DEF Percent
        <5>4. (_maxRepoSize * Percent(stat)) \div 100 >= 0
          BY <5>3
        <5> QED  BY <5>2, <5>4
      <4>2. CASE sizes'[stat] <= (_maxRepoSize * Percent(stat)) \div 100
        BY <4>2
      <4> QED  BY <2>3, <4>1, <4>2
    <3> DEFINE bi == SizeOf(a.pels, rest, "bmcInfo")
               bs == SizeOf(a.pels, rest, "bmcServiceable")
               ni == SizeOf(a.pels, rest, "nonBMCInfo")
               ns == SizeOf(a.pels, rest, "nonBMCServiceable")
    <3>4. /\ SizeOf(a.pels, rest, "total") = (bi + bs) + (ni + ns)
          /\ bi \in Nat /\ bs \in Nat /\ ni \in Nat /\ ns \in Nat
      <4> HIDE DEF rest
      <4> QED  BY <3>1, ClassesMakeTotal
    <3>5. /\ bi = sizes'["bmcInfo"] /\ bs = sizes'["bmcServiceable"]
          /\ ni = sizes'["nonBMCInfo"] /\ ns = sizes'["nonBMCServiceable"]
          /\ sizes'["total"] = SizeOf(a.pels, rest, "total")
      BY <2>4, <3>2
    <3>6. /\ bi <= (_maxRepoSize * 15) \div 100 /\ bs <= (_maxRepoSize * 30) \div 100
          /\ ni <= (_maxRepoSize * 15) \div 100 /\ ns <= (_maxRepoSize * 30) \div 100
      BY <2>4, <3>3, <3>5
    <3> HIDE DEF bi, bs, ni, ns
    <3>7. 10 * ((bi + bs) + (ni + ns)) <= 9 * _maxRepoSize
      BY <3>4, <3>6, SharesMakeNineTenths, RepositoryAssumption
    <3> QED  BY <3>4, <3>5, <3>7
  <2>7. Cardinality(rest) <= _maxNumPELs \/ rest \subseteq isolated \cup named
    BY <2>1, <2>2
  <2> HIDE DEF rest, fits
  <2> QED  BY <2>5, <2>6, <2>7
<1>2. ASSUME UNCHANGED vars, NEW named PROVE ~pruneRepo(named)
  BY <1>2 DEF vars, pruneRepo
<1>3. IndInv /\ [Next]_vars =>
        [\A named \in SUBSET Associated :
            LET left == DOMAIN pelAttributes'
                spared == isolated \cup named
                within(stat, percent) ==
                    \/ sizes'[stat] <= (_maxRepoSize * percent) \div 100
                    \/ \A p \in left : stat \in StatsOf(pelAttributes'[p]) => p \in spared
            IN  \/ /\ within("bmcInfo", 15) /\ within("bmcServiceable", 30)
                   /\ within("nonBMCInfo", 15) /\ within("nonBMCServiceable", 30)
                   /\ Cardinality(left) <= _maxNumPELs \/ left \subseteq spared
                   /\ left \cap spared = {} => 10 * sizes'["total"] <= 9 * _maxRepoSize
                \/ ~pruneRepo(named)]_vars
  BY <1>1, <1>2
<1> QED  BY <1>3, IndInvHolds, PTL DEF Spec, PruneReachesLimits
=============================================================================
