---------------------------- MODULE LoopsProofs -----------------------------
(***************************************************************************)
(* What SumTo and InOrder compute: SumTo adds x[n] to the sum up to n - 1, *)
(* and depends on nothing else; InOrder lists the members of S once each.  *)
(* Both are compared with the list of the values the loop goes through,    *)
(* which exists and is the only one: the least number where this fails     *)
(* would have a predecessor where it does not.                             *)
(***************************************************************************)
EXTENDS Loops, WellFoundedInduction, TLAPS

\* A set of numbers that is not empty has a least one.
LEMMA LeastOfNats ==
    ASSUME NEW S, S \subseteq Nat, S # {}
    PROVE  \E x \in S : \A y \in S : x <= y
<1> DEFINE R == OpToRel(<, Nat)
<1>1. \E x \in S : \A y \in S : ~(<<y, x>> \in R)
  <2>1. IsWellFoundedOn(R, Nat)
    BY NatLessThanWellFounded
  <2> HIDE DEF R
  <2> QED  BY <2>1, WFMin
<1>2. PICK x \in S : \A y \in S : ~(y < x)
  BY <1>1 DEF OpToRel
<1> QED  BY <1>2

\* s is the list of the partial sums of x up to the m-th.
PartialSums(s, x, m) ==
    /\ s \in [0..m -> Nat] /\ s[0] = 0
    /\ \A n \in 1..m : s[n] = s[n - 1] + x[n]

\* The first m of x are numbers.
NumbersTo(x, m) == \A n \in 1..m : x[n] \in Nat

\* There are partial sums up to any number.
LEMMA PartialSumsExist ==
    ASSUME NEW x, NEW m \in Nat, NumbersTo(x, m)
    PROVE  \E s : PartialSums(s, x, m)
<1> DEFINE T == {n \in 0..m : ~\E s : PartialSums(s, x, n)}
<1>1. SUFFICES ASSUME T # {} PROVE FALSE
  OBVIOUS
<1>2. PICK k \in T : \A n \in T : k <= n
  <2>1. T \subseteq Nat
    OBVIOUS
  <2> HIDE DEF T
  <2> QED  BY <1>1, <2>1, LeastOfNats
<1>3. k \in 0..m /\ k \in Nat /\ ~\E s : PartialSums(s, x, k)
  OBVIOUS
<1>4. k # 0
  <2>1. PartialSums([n \in 0..0 |-> 0], x, 0)
    BY DEF PartialSums
  <2> QED  BY <1>3, <2>1
<1>5. k - 1 \in 0..m /\ k - 1 \in Nat /\ k \in 1..m /\ ~(k <= k - 1)
  BY <1>3, <1>4
<1>6. PICK s : PartialSums(s, x, k - 1)
  BY <1>2, <1>5
<1> DEFINE u == [n \in 0..k |-> IF n = k THEN s[k - 1] + x[k] ELSE s[n]]
<1>7. s \in [0..(k - 1) -> Nat] /\ s[0] = 0 /\ \A n \in 1..(k - 1) : s[n] = s[n - 1] + x[n]
  BY <1>6 DEF PartialSums
<1>8. x[k] \in Nat /\ s[k - 1] \in Nat
  BY <1>5, <1>7 DEF NumbersTo
<1>9. u \in [0..k -> Nat]
  <2>1. ASSUME NEW n \in 0..k PROVE (IF n = k THEN s[k - 1] + x[k] ELSE s[n]) \in Nat
    <3>1. n # k => n \in 0..(k - 1)
      BY <1>3
    <3> QED  BY <1>7, <1>8, <3>1
  <2> QED  BY <2>1
<1>10. u[0] = 0
  BY <1>4, <1>5, <1>7
<1>11. ASSUME NEW n \in 1..k PROVE u[n] = u[n - 1] + x[n]
  <2>1. n - 1 \in 0..k /\ n - 1 # k /\ n \in 0..k
    BY <1>3
  <2>2. u[n - 1] = s[n - 1]
    BY <2>1
  <2>3. CASE n = k
    BY <2>1, <2>2, <2>3
  <2>4. CASE n # k
    <3>1. n \in 1..(k - 1)
      BY <1>3, <2>4
    <3> QED  BY <1>7, <2>1, <2>2, <2>4, <3>1
  <2> QED  BY <2>3, <2>4
<1>12. PartialSums(u, x, k)
  <2> HIDE DEF u
  <2> QED  BY <1>9, <1>10, <1>11 DEF PartialSums
<1> QED  BY <1>3, <1>12

\* SumTo is the last of the partial sums.
LEMMA SumToIsPartialSum ==
    ASSUME NEW x, NEW m \in Nat, NumbersTo(x, m)
    PROVE  \E s : PartialSums(s, x, m) /\ SumTo(x, m) = s[m]
<1> DEFINE Rec(s) == [n \in 0..m |-> IF n = 0 THEN 0 ELSE s[n - 1] + x[n]]
           sum == CHOOSE s : s = Rec(s)
<1>1. SumTo(x, m) = sum[m]
  BY DEF SumTo
<1>2. PICK s : PartialSums(s, x, m)
  BY PartialSumsExist
<1>3. s = Rec(s)
  <2>1. \A n \in 0..m : n # 0 => n \in 1..m
    OBVIOUS
  <2> QED  BY <1>2, <2>1 DEF PartialSums
<1>4. sum = Rec(sum)
  BY <1>3
<1> HIDE DEF sum
<1>5. DOMAIN sum = 0..m /\ sum[0] = 0 /\ \A n \in 1..m : sum[n] = sum[n - 1] + x[n]
  <2>1. 0 \in 0..m /\ \A n \in 1..m : n \in 0..m /\ n # 0
    OBVIOUS
  <2> QED  BY <1>4, <2>1
<1> DEFINE T == {n \in 0..m : sum[n] # s[n]}
<1>6. T = {}
  <2>1. SUFFICES ASSUME T # {} PROVE FALSE
    OBVIOUS
  <2>2. PICK k \in T : \A n \in T : k <= n
    <3>1. T \subseteq Nat
      OBVIOUS
    <3> HIDE DEF T
    <3> QED  BY <2>1, <3>1, LeastOfNats
  <2>3. k # 0
    BY <1>2, <1>5, <2>2 DEF PartialSums
  <2>4. k \in 1..m /\ k - 1 \in 0..m /\ ~(k <= k - 1)
    BY <2>2, <2>3
  <2>5. sum[k - 1] = s[k - 1]
    BY <2>2, <2>4
  <2> QED  BY <1>2, <1>5, <2>2, <2>4, <2>5 DEF PartialSums
<1>7. sum[m] = s[m]
  BY <1>6
<1> QED  BY <1>1, <1>2, <1>7

\* Two lists that start with the same numbers have the same partial sums.
LEMMA PartialSumsAgree ==
    ASSUME NEW x, NEW y, NEW m \in Nat, NEW n \in Nat, n <= m,
           \A k \in 1..n : x[k] = y[k],
           NEW s, PartialSums(s, x, m), NEW t, PartialSums(t, y, n)
    PROVE  s[n] = t[n]
<1> DEFINE T == {k \in 0..n : s[k] # t[k]}
<1>1. SUFFICES ASSUME T # {} PROVE FALSE
  OBVIOUS
<1>2. PICK k \in T : \A j \in T : k <= j
  <2>1. T \subseteq Nat
    OBVIOUS
  <2> HIDE DEF T
  <2> QED  BY <1>1, <2>1, LeastOfNats
<1>3. k \in 0..n /\ s[k] # t[k]
  OBVIOUS
<1>4. k # 0
  BY <1>3 DEF PartialSums
<1>5. k \in 1..n /\ k \in 1..m /\ k - 1 \in 0..n /\ ~(k <= k - 1)
  BY <1>3, <1>4
<1>6. s[k - 1] = t[k - 1]
  BY <1>2, <1>5
<1> QED  BY <1>3, <1>5, <1>6 DEF PartialSums

\* The sum depends on the numbers it adds only.
LEMMA SameSum ==
    ASSUME NEW x, NEW y, NEW n \in Nat, NumbersTo(x, n), \A k \in 1..n : x[k] = y[k]
    PROVE  SumTo(x, n) = SumTo(y, n) /\ SumTo(x, n) \in Nat
<1>1. NumbersTo(y, n)
  BY DEF NumbersTo
<1>2. PICK s : PartialSums(s, x, n) /\ SumTo(x, n) = s[n]
  BY SumToIsPartialSum
<1>3. PICK t : PartialSums(t, y, n) /\ SumTo(y, n) = t[n]
  BY <1>1, SumToIsPartialSum
<1>4. n \in 0..n /\ n <= n
  OBVIOUS
<1>5. s[n] = t[n]
  BY <1>2, <1>3, <1>4, PartialSumsAgree
<1> QED  BY <1>2, <1>3, <1>4, <1>5 DEF PartialSums

\* One number more adds that number.
LEMMA SumGrows ==
    ASSUME NEW x, NEW n \in Nat, NumbersTo(x, n + 1)
    PROVE  SumTo(x, n + 1) = SumTo(x, n) + x[n + 1] /\ SumTo(x, n) \in Nat
<1>1. NumbersTo(x, n) /\ n + 1 \in Nat /\ n \in 0..(n + 1) /\ n + 1 \in 1..(n + 1) /\ n \in 0..n
  BY DEF NumbersTo
<1>2. PICK s : PartialSums(s, x, n + 1) /\ SumTo(x, n + 1) = s[n + 1]
  BY <1>1, SumToIsPartialSum
<1>3. PICK t : PartialSums(t, x, n) /\ SumTo(x, n) = t[n]
  BY <1>1, SumToIsPartialSum
<1>4. s[n] = t[n]
  <2>1. PICK m \in Nat : m = n + 1
    BY <1>1
  <2>2. n <= m /\ PartialSums(s, x, m)
    BY <1>1, <1>2, <2>1
  <2>3. PICK y : y = x
    OBVIOUS
  <2>4. \A k \in 1..n : x[k] = y[k]
    BY <2>3
  <2>5. PartialSums(t, y, n)
    BY <1>3, <2>3
  <2> QED  BY <2>2, <2>4, <2>5, PartialSumsAgree
<1>5. s[n + 1] = s[n] + x[n + 1]
  <2>1. \A k \in 1..(n + 1) : s[k] = s[k - 1] + x[k]
    BY <1>2 DEF PartialSums
  <2>2. (n + 1) - 1 = n
    OBVIOUS
  <2> QED  BY <1>1, <2>1, <2>2
<1> QED  BY <1>1, <1>2, <1>3, <1>4, <1>5 DEF PartialSums

\* The empty sum.
LEMMA SumOfNone == \A x : SumTo(x, 0) = 0
<1>1. TAKE x
<1>2. NumbersTo(x, 0)
  BY DEF NumbersTo
<1>3. PICK s : PartialSums(s, x, 0) /\ SumTo(x, 0) = s[0]
  BY <1>2, SumToIsPartialSum
<1> QED  BY <1>3 DEF PartialSums
-----------------------------------------------------------------------------
(* InOrder.                                                                *)

\* q lists the members of S up to m, in ascending order.
Ascending(q, S, m) ==
    /\ q \in Seq(1..m)
    /\ \A i, j \in 1..Len(q) : i < j => q[i] < q[j]
    /\ \A i \in 1..Len(q) : q[i] \in S
    /\ \A k \in 1..m : k \in S => \E i \in 1..Len(q) : q[i] = k

\* A list up to m - 1, and m if it is a member, is the list up to m.
LEMMA AscendingGrows ==
    ASSUME NEW S, NEW m \in Nat, m # 0, NEW q, Ascending(q, S, m - 1)
    PROVE  Ascending(IF m \in S THEN Append(q, m) ELSE q, S, m)
<1>1. /\ q \in Seq(1..(m - 1)) /\ \A i, j \in 1..Len(q) : i < j => q[i] < q[j]
      /\ \A i \in 1..Len(q) : q[i] \in S
      /\ \A k \in 1..(m - 1) : k \in S => \E i \in 1..Len(q) : q[i] = k
  BY DEF Ascending
<1>2. q \in Seq(1..m) /\ Len(q) \in Nat /\ \A i \in 1..Len(q) : q[i] \in Nat /\ q[i] < m
  <2>1. 1..(m - 1) \subseteq 1..m
    OBVIOUS
  <2>2. \A i \in 1..Len(q) : q[i] \in 1..(m - 1)
    BY <1>1
  <2> QED  BY <1>1, <2>1, <2>2
<1>3. CASE m \notin S
  <2>1. \A k \in 1..m : k \in S => k \in 1..(m - 1)
    BY <1>3
  <2> QED  BY <1>1, <1>2, <1>3, <2>1 DEF Ascending
<1>4. CASE m \in S
  <2> DEFINE r == Append(q, m)
  <2>1. /\ r \in Seq(1..m) /\ Len(r) = Len(q) + 1 /\ r[Len(q) + 1] = m
        /\ \A i \in 1..Len(q) : r[i] = q[i]
    <3>1. m \in 1..m
      OBVIOUS
    <3> QED  BY <1>2, <3>1
  <2> HIDE DEF r
  <2>2. \A i \in 1..Len(r) : i \in 1..Len(q) \/ i = Len(q) + 1
    BY <1>2, <2>1
  <2>3. \A i, j \in 1..Len(r) : i < j => r[i] < r[j]
    <3> SUFFICES ASSUME NEW i \in 1..Len(r), NEW j \in 1..Len(r), i < j  PROVE r[i] < r[j]
      OBVIOUS
    <3>1. i \in 1..Len(q)
      BY <1>2, <2>1
    <3>2. CASE j \in 1..Len(q)
      BY <1>1, <2>1, <3>1, <3>2
    <3>3. CASE j = Len(q) + 1
      BY <1>2, <2>1, <3>1, <3>3
    <3> QED  BY <2>2, <3>2, <3>3
  <2>4. \A i \in 1..Len(r) : r[i] \in S
    BY <1>1, <1>4, <2>1, <2>2
  <2>5. ASSUME NEW k \in 1..m, k \in S  PROVE \E i \in 1..Len(r) : r[i] = k
    <3>1. CASE k = m
      <4>1. Len(q) + 1 \in 1..Len(r)
        BY <1>2, <2>1
      <4> QED  BY <2>1, <3>1, <4>1
    <3>2. CASE k # m
      <4>1. k \in 1..(m - 1)
        BY <3>2
      <4>2. PICK i \in 1..Len(q) : q[i] = k
        BY <1>1, <2>5, <4>1
      <4>3. i \in 1..Len(r) /\ r[i] = k
        BY <1>2, <2>1, <4>2
      <4> QED  BY <4>3
    <3> QED  BY <3>1, <3>2
  <2>6. Ascending(r, S, m)
    BY <2>1, <2>3, <2>4, <2>5 DEF Ascending
  <2> QED  BY <1>4, <2>6 DEF r
<1> QED  BY <1>3, <1>4

\* s has the lists up to each number.
Lists(s, S, m) ==
    /\ DOMAIN s = 0..m /\ s = [n \in 0..m |-> s[n]] /\ s[0] = << >>
    /\ \A n \in 1..m : s[n] = IF n \in S THEN Append(s[n - 1], n) ELSE s[n - 1]

\* There are such lists up to any number.
LEMMA ListsExist ==
    ASSUME NEW S, NEW m \in Nat
    PROVE  \E s : Lists(s, S, m)
<1> DEFINE T == {n \in 0..m : ~\E s : Lists(s, S, n)}
<1>1. SUFFICES ASSUME T # {} PROVE FALSE
  OBVIOUS
<1>2. PICK k \in T : \A n \in T : k <= n
  <2>1. T \subseteq Nat
    OBVIOUS
  <2> HIDE DEF T
  <2> QED  BY <1>1, <2>1, LeastOfNats
<1>3. k \in 0..m /\ k \in Nat /\ ~\E s : Lists(s, S, k)
  OBVIOUS
<1>4. k # 0
  <2>1. Lists([n \in 0..0 |-> << >>], S, 0)
    BY DEF Lists
  <2> QED  BY <1>3, <2>1
<1>5. k - 1 \in 0..m /\ k - 1 \in Nat /\ k \in 1..m /\ ~(k <= k - 1)
  BY <1>3, <1>4
<1>6. PICK s : Lists(s, S, k - 1)
  BY <1>2, <1>5
<1> DEFINE next == IF k \in S THEN Append(s[k - 1], k) ELSE s[k - 1]
           u == [n \in 0..k |-> IF n = k THEN next ELSE s[n]]
<1>7. s[0] = << >> /\ \A n \in 1..(k - 1) : s[n] = IF n \in S THEN Append(s[n - 1], n) ELSE s[n - 1]
  BY <1>6 DEF Lists
<1>8. u[0] = << >>
  BY <1>4, <1>5, <1>7
<1>9. ASSUME NEW n \in 1..k  PROVE u[n] = IF n \in S THEN Append(u[n - 1], n) ELSE u[n - 1]
  <2>1. n - 1 \in 0..k /\ n - 1 # k /\ n \in 0..k
    BY <1>3
  <2>2. u[n - 1] = s[n - 1]
    BY <2>1
  <2>3. CASE n = k
    BY <2>1, <2>2, <2>3
  <2>4. CASE n # k
    <3>1. n \in 1..(k - 1)
      BY <1>3, <2>4
    <3>2. u[n] = s[n]
      BY <2>1, <2>4
    <3> HIDE DEF u
    <3> QED  BY <1>7, <2>2, <3>1, <3>2
  <2> QED  BY <2>3, <2>4
<1>10. DOMAIN u = 0..k /\ u = [n \in 0..k |-> u[n]]
  OBVIOUS
<1>11. Lists(u, S, k)
  <2> HIDE DEF u
  <2> QED  BY <1>8, <1>9, <1>10 DEF Lists
<1> QED  BY <1>3, <1>11

\* InOrder lists the members in ascending order.
LEMMA InOrderAscends ==
    ASSUME NEW S, NEW m \in Nat
    PROVE  Ascending(InOrder(S, m), S, m)
<1> DEFINE Rec(s) == [n \in 0..m |-> IF n = 0 THEN << >>
                                     ELSE IF n \in S THEN Append(s[n - 1], n) ELSE s[n - 1]]
           upTo == CHOOSE s : s = Rec(s)
<1>1. InOrder(S, m) = upTo[m]
  BY DEF InOrder
<1>2. PICK s : Lists(s, S, m)
  BY ListsExist
<1>3. s = Rec(s)
  <2>1. \A n \in 0..m : n # 0 => n \in 1..m
    OBVIOUS
  <2>2. \A n \in 0..m : s[n] = IF n = 0 THEN << >>
                               ELSE IF n \in S THEN Append(s[n - 1], n) ELSE s[n - 1]
    BY <1>2, <2>1 DEF Lists
  <2>3. s = [n \in 0..m |-> s[n]]
    BY <1>2 DEF Lists
  <2> QED  BY <2>2, <2>3
<1>4. upTo = Rec(upTo)
  BY <1>3
<1> HIDE DEF upTo
<1>5. upTo[0] = << >> /\ \A n \in 1..m : upTo[n] = IF n \in S THEN Append(upTo[n - 1], n) ELSE upTo[n - 1]
  <2>1. 0 \in 0..m /\ \A n \in 1..m : n \in 0..m /\ n # 0
    OBVIOUS
  <2> QED  BY <1>4, <2>1
<1> DEFINE T == {n \in 0..m : ~Ascending(upTo[n], S, n)}
<1>6. T = {}
  <2>1. SUFFICES ASSUME T # {} PROVE FALSE
    OBVIOUS
  <2>2. PICK k \in T : \A n \in T : k <= n
    <3>1. T \subseteq Nat
      OBVIOUS
    <3> HIDE DEF T
    <3> QED  BY <2>1, <3>1, LeastOfNats
  <2>3. k # 0
    <3>1. Ascending(<< >>, S, 0)
      BY DEF Ascending
    <3> QED  BY <1>5, <2>2, <3>1
  <2>4. k \in Nat /\ k \in 1..m /\ k - 1 \in 0..m /\ ~(k <= k - 1)
    BY <2>2, <2>3
  <2>5. Ascending(upTo[k - 1], S, k - 1)
    BY <2>2, <2>4
  <2>6. Ascending(IF k \in S THEN Append(upTo[k - 1], k) ELSE upTo[k - 1], S, k)
    BY <2>3, <2>4, <2>5, AscendingGrows
  <2>7. ~Ascending(upTo[k], S, k)
    BY <2>2
  <2> QED  BY <1>5, <2>4, <2>6, <2>7
<1>7. m \in 0..m
  OBVIOUS
<1> QED  BY <1>1, <1>6, <1>7

-----------------------------------------------------------------------------
(* Lists of anything.                                                      *)

\* A sequence, of whatever.
IsList(s) == Len(s) \in Nat /\ s = [n \in 1..Len(s) |-> s[n]]

\* It is a sequence of its members.
LEMMA ListOf ==
  ASSUME NEW s, IsList(s)
  PROVE  \E S : s \in Seq(S)
<1>1. s \in [1..Len(s) -> {s[n] : n \in 1..Len(s)}]
  BY Zenon DEF IsList
<1>2. s \in Seq({s[n] : n \in 1..Len(s)})
  BY <1>1 DEF IsList
<1> QED  BY <1>2

\* Every sequence is a list.
LEMMA ListFrom ==
  ASSUME NEW S, NEW s \in Seq(S)
  PROVE  IsList(s)
  BY DEF IsList

\* What is known of a list.
LEMMA ListFacts ==
  ASSUME NEW s, IsList(s)
  PROVE  /\ Len(s) \in Nat /\ DOMAIN s = 1..Len(s)
         /\ s # << >> => /\ Len(s) > 0 /\ IsList(Tail(s)) /\ Len(Tail(s)) = Len(s) - 1
                         /\ \A n \in 1..Len(Tail(s)) : Tail(s)[n] = s[n + 1]
<1>1. PICK S : s \in Seq(S)
  BY ListOf
<1>2. Len(s) \in Nat /\ DOMAIN s = 1..Len(s)
  BY <1>1
<1>3. ASSUME s # << >>
      PROVE  /\ Len(s) > 0 /\ Tail(s) \in Seq(S) /\ Len(Tail(s)) = Len(s) - 1
             /\ \A n \in 1..Len(Tail(s)) : Tail(s)[n] = s[n + 1]
  BY <1>1, <1>3
<1>4. s # << >> => IsList(Tail(s))
  BY <1>3, ListFrom
<1> QED  BY <1>2, <1>3, <1>4

\* What one list after the other has.
LEMMA ListsJoin ==
  ASSUME NEW s, IsList(s), NEW t, IsList(t)
  PROVE  /\ IsList(s \o t) /\ Len(s \o t) = Len(s) + Len(t)
         /\ \A n \in 1..Len(s) : (s \o t)[n] = s[n]
         /\ \A n \in 1..Len(t) : (s \o t)[n + Len(s)] = t[n]
         /\ \A n \in 1..Len(s \o t) : \/ n \in 1..Len(s) /\ (s \o t)[n] = s[n]
                                      \/ n - Len(s) \in 1..Len(t) /\ (s \o t)[n] = t[n - Len(s)]
<1>1. PICK S : s \in Seq(S)
  BY ListOf
<1>2. PICK T : t \in Seq(T)
  BY ListOf
<1>3. s \in Seq(S \cup T) /\ t \in Seq(S \cup T)
  <2>1. S \subseteq S \cup T /\ T \subseteq S \cup T
    OBVIOUS
  <2>2. \A n \in 1..Len(s) : s[n] \in S
    BY <1>1
  <2>3. \A n \in 1..Len(t) : t[n] \in T
    BY <1>2
  <2>4. s \in [1..Len(s) -> S \cup T] /\ Len(s) \in Nat
    BY <1>1, <2>2
  <2>5. t \in [1..Len(t) -> S \cup T] /\ Len(t) \in Nat
    BY <1>2, <2>3
  <2> QED  BY <2>4, <2>5
<1>4. /\ s \o t \in Seq(S \cup T) /\ Len(s) \in Nat /\ Len(t) \in Nat /\ Len(s \o t) = Len(s) + Len(t)
      /\ \A n \in 1..Len(s) : (s \o t)[n] = s[n]
      /\ \A n \in 1..Len(t) : (s \o t)[n + Len(s)] = t[n]
  BY <1>3
<1>5. ASSUME NEW n \in 1..Len(s \o t), ~(n \in 1..Len(s))
      PROVE  n - Len(s) \in 1..Len(t) /\ (s \o t)[n] = t[n - Len(s)]
  <2>1. n - Len(s) \in 1..Len(t) /\ (n - Len(s)) + Len(s) = n
    BY <1>4, <1>5
  <2> QED  BY <1>4, <2>1
<1>6. IsList(s \o t)
  BY <1>4, ListFrom
<1> QED  BY <1>4, <1>5, <1>6

\* A function on 1..n is a list.
LEMMA ListMade ==
  ASSUME NEW n \in Nat, NEW f, f = [i \in 1..n |-> f[i]]
  PROVE  IsList(f) /\ Len(f) = n
<1>1. f \in [1..n -> {f[i] : i \in 1..n}]
  OBVIOUS
<1>2. f \in Seq({f[i] : i \in 1..n}) /\ Len(f) = n
  BY <1>1
<1> QED  BY <1>2, ListFrom

-----------------------------------------------------------------------------
(* Sums of the same numbers.                                               *)

\* Another number in one place changes the sum by the difference.
LEMMA SumReplaced ==
    ASSUME NEW n \in Nat, NEW x, NumbersTo(x, n), NEW y, NumbersTo(y, n), NEW k \in 1..n,
           \A i \in 1..n : i # k => x[i] = y[i]
    PROVE  SumTo(x, n) + y[k] = SumTo(y, n) + x[k]
<1> DEFINE T == {m \in 0..n : m >= k /\ SumTo(x, m) + y[k] # SumTo(y, m) + x[k]}
<1>1. T = {}
  <2>1. SUFFICES ASSUME T # {} PROVE FALSE
    OBVIOUS
  <2>2. PICK m \in T : \A j \in T : m <= j
    <3>1. T \subseteq Nat
      OBVIOUS
    <3> HIDE DEF T
    <3> QED  BY <2>1, <3>1, LeastOfNats
  <2>3. m \in 1..n /\ m >= k /\ SumTo(x, m) + y[k] # SumTo(y, m) + x[k]
    BY <2>2
  <2> DEFINE p == m - 1
  <2>4. p \in Nat /\ p + 1 = m /\ p \in 0..n /\ ~(m <= p)
    BY <2>3
  <2>5. NumbersTo(x, m) /\ NumbersTo(y, m)
    BY <2>3 DEF NumbersTo
  <2>6. x[m] \in Nat /\ y[m] \in Nat /\ x[k] \in Nat /\ y[k] \in Nat
    BY <2>3 DEF NumbersTo
  <2> HIDE DEF p
  <2>7. /\ SumTo(x, m) = SumTo(x, p) + x[m] /\ SumTo(x, p) \in Nat
        /\ SumTo(y, m) = SumTo(y, p) + y[m] /\ SumTo(y, p) \in Nat
    <3>1. NumbersTo(x, p + 1) /\ NumbersTo(y, p + 1)
      BY <2>4, <2>5
    <3>2. /\ SumTo(x, p + 1) = SumTo(x, p) + x[p + 1] /\ SumTo(x, p) \in Nat
          /\ SumTo(y, p + 1) = SumTo(y, p) + y[p + 1] /\ SumTo(y, p) \in Nat
      BY <2>4, <3>1, SumGrows
    <3> QED  BY <2>4, <3>2
  <2>8. CASE m = k
    <3>1. \A i \in 1..p : x[i] = y[i]
      BY <2>3, <2>4, <2>8
    <3>2. NumbersTo(x, p)
      BY <2>4, <2>5 DEF NumbersTo
    <3>3. SumTo(x, p) = SumTo(y, p)
      BY <2>4, <3>1, <3>2, SameSum
    <3> QED  BY <2>3, <2>6, <2>7, <2>8, <3>3
  <2>9. CASE m # k
    <3>1. p >= k /\ x[m] = y[m]
      BY <2>3, <2>4, <2>9
    <3>2. SumTo(x, p) + y[k] = SumTo(y, p) + x[k]
      BY <2>2, <2>4, <3>1
    <3> QED  BY <2>3, <2>6, <2>7, <3>1, <3>2
  <2> QED  BY <2>8, <2>9
<1>2. n \in 0..n /\ n >= k
  OBVIOUS
<1> QED  BY <1>1, <1>2

\* p takes each of 1..n to another.
Permutes(p, n) ==
    /\ p \in [1..n -> 1..n]
    /\ \A i, j \in 1..n : p[i] = p[j] => i = j
    /\ \A k \in 1..n : \E i \in 1..n : p[i] = k

\* The numbers of x in the order of p have the same sum.
LEMMA SumPermuted ==
    ASSUME NEW n \in Nat, NEW x, NumbersTo(x, n), NEW p, Permutes(p, n),
           NEW y, \A i \in 1..n : y[i] = x[p[i]]
    PROVE  SumTo(y, n) = SumTo(x, n)
<1> DEFINE T == {m \in Nat : \E f, g, q :
                    /\ NumbersTo(f, m) /\ Permutes(q, m) /\ \A i \in 1..m : g[i] = f[q[i]]
                    /\ SumTo(g, m) # SumTo(f, m)}
<1>1. T = {}
  <2>1. SUFFICES ASSUME T # {} PROVE FALSE
    OBVIOUS
  <2>2. PICK m \in T : \A j \in T : m <= j
    <3>1. T \subseteq Nat
      OBVIOUS
    <3> HIDE DEF T
    <3> QED  BY <2>1, <3>1, LeastOfNats
  <2>3. m \in Nat
    BY <2>2
  <2>4. PICK f, g, q : /\ NumbersTo(f, m) /\ Permutes(q, m) /\ \A i \in 1..m : g[i] = f[q[i]]
                       /\ SumTo(g, m) # SumTo(f, m)
    BY <2>2
  <2>5. m # 0
    BY <2>4, SumOfNone
  <2> DEFINE l == m - 1
  <2>6. l \in Nat /\ l + 1 = m /\ ~(m <= l) /\ m \in 1..m /\ 1..l \subseteq 1..m /\ m \notin 1..l
        /\ \A i \in 1..m : i # m => i \in 1..l
    BY <2>3, <2>5
  <2> HIDE DEF l
  <2>7. /\ q \in [1..m -> 1..m] /\ \A i, j \in 1..m : q[i] = q[j] => i = j
        /\ \A k \in 1..m : \E i \in 1..m : q[i] = k
    BY <2>4 DEF Permutes
  <2>8. PICK k \in 1..m : q[k] = m
    BY <2>6, <2>7
  <2> DEFINE r == [i \in 1..l |-> IF i = k THEN q[m] ELSE q[i]]
             h == [i \in 1..l |-> f[r[i]]]
  <2>9. Permutes(r, l)
    <3>1. ASSUME NEW i \in 1..l
          PROVE  r[i] \in 1..l
      <4>1. i \in 1..m /\ i # m
        BY <2>6
      <4>2. CASE i = k
        <5>1. r[i] = q[m] /\ q[m] \in 1..m
          BY <2>6, <2>7, <4>2
        <5>2. q[m] # m
          BY <2>6, <2>7, <2>8, <4>1, <4>2
        <5> QED  BY <2>6, <5>1, <5>2
      <4>3. CASE i # k
        <5>1. r[i] = q[i] /\ q[i] \in 1..m /\ q[i] # m
          BY <2>7, <2>8, <4>1, <4>3
        <5> QED  BY <2>6, <5>1
      <4> QED  BY <4>2, <4>3
    <3>2. ASSUME NEW i \in 1..l, NEW j \in 1..l, r[i] = r[j]
          PROVE  i = j
      <4>1. i \in 1..m /\ i # m /\ j \in 1..m /\ j # m
        BY <2>6
      <4>2. r[i] = (IF i = k THEN q[m] ELSE q[i]) /\ r[j] = (IF j = k THEN q[m] ELSE q[j])
        OBVIOUS
      <4>3. r[i] = r[j]
        BY <3>2
      <4> HIDE DEF r
      <4>4. CASE i = k /\ j # k
        <5>1. q[m] = q[j]
          BY <4>2, <4>3, <4>4
        <5> QED  BY <2>6, <2>7, <4>1, <5>1
      <4>5. CASE i # k /\ j = k
        <5>1. q[i] = q[m]
          BY <4>2, <4>3, <4>5
        <5> QED  BY <2>6, <2>7, <4>1, <5>1
      <4>6. CASE i # k /\ j # k
        <5>1. q[i] = q[j]
          BY <4>2, <4>3, <4>6
        <5> QED  BY <2>7, <4>1, <5>1
      <4> QED  BY <4>4, <4>5, <4>6
    <3>3. ASSUME NEW v \in 1..l
          PROVE  \E i \in 1..l : r[i] = v
      <4>1. PICK i \in 1..m : q[i] = v
        BY <2>6, <2>7
      <4>2. v # m /\ i # k
        BY <2>6, <2>8, <4>1
      <4>3. CASE i = m
        <5>1. k \in 1..l
          BY <2>6, <2>8, <4>2, <4>3
        <5>2. r[k] = v
          BY <4>1, <4>3, <5>1
        <5> QED  BY <5>1, <5>2
      <4>4. CASE i # m
        <5>1. i \in 1..l /\ r[i] = v
          BY <2>6, <4>1, <4>2, <4>4
        <5> QED  BY <5>1
      <4> QED  BY <4>3, <4>4
    <3>4. r \in [1..l -> 1..l]
      BY <3>1
    <3> QED  BY <3>2, <3>3, <3>4 DEF Permutes
  <2>10. NumbersTo(f, l) /\ \A i \in 1..m : f[i] \in Nat
    BY <2>4, <2>6 DEF NumbersTo
  <2>11. \A i \in 1..l : h[i] = f[r[i]]
    OBVIOUS
  <2>12. \A i \in 1..l : r[i] \in 1..l /\ r[i] = IF i = k THEN q[m] ELSE q[i]
    BY <2>9 DEF Permutes
  <2> HIDE DEF r, h
  <2>13. SumTo(h, l) = SumTo(f, l)
    <3>1. l \notin T
      BY <2>2, <2>6
    <3> QED  BY <2>6, <2>9, <2>10, <2>11, <3>1
  <2>14. NumbersTo(h, l)
    BY <2>6, <2>10, <2>11, <2>12 DEF NumbersTo
  <2>15. NumbersTo(g, m) /\ NumbersTo(g, l) /\ \A i \in 1..m : g[i] = f[q[i]]
    <3>1. \A i \in 1..m : g[i] = f[q[i]] /\ q[i] \in 1..m
      BY <2>4, <2>7
    <3>2. \A i \in 1..m : g[i] \in Nat
      BY <2>10, <3>1
    <3> QED  BY <2>6, <3>1, <3>2 DEF NumbersTo
  <2>16. /\ SumTo(g, m) = SumTo(g, l) + g[m] /\ SumTo(g, l) \in Nat
         /\ SumTo(f, m) = SumTo(f, l) + f[m] /\ SumTo(f, l) \in Nat
    <3>1. NumbersTo(g, l + 1) /\ NumbersTo(f, l + 1)
      BY <2>4, <2>6, <2>15
    <3>2. /\ SumTo(g, l + 1) = SumTo(g, l) + g[l + 1] /\ SumTo(g, l) \in Nat
          /\ SumTo(f, l + 1) = SumTo(f, l) + f[l + 1] /\ SumTo(f, l) \in Nat
      BY <2>6, <3>1, SumGrows
    <3> QED  BY <2>6, <3>2
  <2>17. CASE k = m
    <3>1. \A i \in 1..l : g[i] = h[i]
      BY <2>6, <2>11, <2>12, <2>15, <2>17
    <3>2. SumTo(g, l) = SumTo(h, l)
      BY <2>6, <2>15, <3>1, SameSum
    <3>3. g[m] = f[m]
      BY <2>6, <2>8, <2>15, <2>17
    <3> QED  BY <2>4, <2>13, <2>16, <3>2, <3>3
  <2>18. CASE k # m
    <3>1. k \in 1..l
      BY <2>6, <2>18
    <3>2. \A i \in 1..l : i # k => g[i] = h[i]
      BY <2>6, <2>11, <2>12, <2>15
    <3>3. SumTo(g, l) + h[k] = SumTo(h, l) + g[k]
      BY <2>6, <2>14, <2>15, <3>1, <3>2, SumReplaced
    <3>4. h[k] = g[m] /\ g[k] = f[m]
      BY <2>6, <2>8, <2>11, <2>12, <2>15, <3>1
    <3>5. g[m] \in Nat /\ f[m] \in Nat
      BY <2>6, <2>10, <2>15 DEF NumbersTo
    <3> QED  BY <2>4, <2>13, <2>16, <3>3, <3>4, <3>5
  <2> QED  BY <2>17, <2>18
<1> QED  BY <1>1
=============================================================================
