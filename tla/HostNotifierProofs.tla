------------------------- MODULE HostNotifierProofs -------------------------
(***************************************************************************)
(* Proofs about HostNotifier for any number of PELs and of retries and any *)
(* set of environments: every PEL is at one place, none is lost to a host  *)
(* with room, the queue is looked at again, and only wanted PELs are sent. *)
(***************************************************************************)
EXTENDS HostNotifier, SequenceTheorems, FiniteSetTheorems, WellFoundedInduction, TLAPS

-----------------------------------------------------------------------------
(* The invariant.                                                          *)

Queued == ToSet(pelQueue)
Sent == ToSet(sentPELs)

\* What is on its way to the host is a PEL that was added and is for the host.
OnlyReportable ==
    \A p \in PELs : p \in Queued \cup Sent \cup {inProgressPEL} =>
        repo[p] # "none" /\ p \notin NoReport

\* A retry is due only after a command has ended and while one is left; with
\* the host down there is neither.
RetriesLeft ==
    /\ ~(cmdInProgress /\ retryTimer)
    /\ cmdInProgress \/ retryTimer => retryCount < maxRetryAttempts /\ hostUp

\* QueueIsServed for any queue that is not empty: a PEL left to an HMC keeps
\* the others waiting no less.
Served ==
    ~StrayVerdicts /\ hostUp /\ ~hostFull /\ retryCount < maxRetryAttempts
    /\ pelQueue # << >> =>
        cmdInProgress \/ retryTimer \/ hostFullTimer \/ hostUpTimer \/ dispatcher

\* With verdicts in order, the host full timer runs only for a host that is up
\* and full, and a PEL the host has acked is not on its way any more.
Orderly ==
    ~StrayVerdicts =>
        /\ ~hostUp => told = {} /\ ~hostFullTimer
        /\ hostFullTimer => hostFull
        /\ \A p \in PELs : repo[p] = "acked" =>
              p \notin told /\ p \notin Sent /\ p # inProgressPEL

\* A host that is never full has no command in progress when the dispatcher or
\* the host up timer starts one, so that none is replaced.
Roomy ==
    ~HostMayBeFull =>
        /\ ~hostFull /\ ~hostFullTimer
        /\ dispatcher \/ hostUpTimer => ~cmdInProgress /\ ~retryTimer
        /\ ~(dispatcher /\ hostUpTimer)
        /\ NoPELLost

EnvOK == env \in EnvironmentRecord

IndInv ==
    /\ OnePlace
    /\ OnlyReportable
    /\ RetriesLeft
    /\ Served
    /\ Orderly
    /\ Roomy
    /\ EnvOK
-----------------------------------------------------------------------------
(* The lists of PELs.                                                      *)

\* _pelQueue.push_back and _sentPELs.push_back of a PEL that is not there.
LEMMA AppendNoDups ==
    ASSUME NEW S, NEW q \in Seq(S), NEW e \in S, NoDups(q), e \notin ToSet(q)
    PROVE  /\ Append(q, e) \in Seq(S) /\ NoDups(Append(q, e))
           /\ ToSet(Append(q, e)) = ToSet(q) \cup {e}
           /\ Append(q, e) # << >> /\ Len(Append(q, e)) = Len(q) + 1
<1> DEFINE t == Append(q, e)
<1>1. t \in Seq(S) /\ Len(t) = Len(q) + 1 /\ t[Len(q) + 1] = e /\ t # << >>
  OBVIOUS
<1>2. \A n \in 1..Len(q) : t[n] = q[n]
  OBVIOUS
<1>3. \A n \in 1..Len(q) : q[n] # e
  BY DEF ToSet
<1>4. NoDups(t)
  BY <1>1, <1>2, <1>3 DEF NoDups
<1>5. ToSet(t) = ToSet(q) \cup {e}
  BY <1>1, <1>2 DEF ToSet
<1> QED  BY <1>1, <1>4, <1>5

\* Two lists that share nothing, one put after the other.
LEMMA ConcatNoDups ==
    ASSUME NEW S, NEW q \in Seq(S), NEW u \in Seq(S), NoDups(q), NoDups(u),
           ToSet(q) \cap ToSet(u) = {}
    PROVE  /\ q \o u \in Seq(S) /\ NoDups(q \o u)
           /\ ToSet(q \o u) = ToSet(q) \cup ToSet(u)
<1> DEFINE t == q \o u
<1>1. /\ t \in Seq(S) /\ Len(t) = Len(q) + Len(u)
      /\ \A n \in 1..(Len(q) + Len(u)) : t[n] = IF n <= Len(q) THEN q[n] ELSE u[n - Len(q)]
  BY ConcatProperties
<1>2. DOMAIN t = 1..Len(t) /\ DOMAIN q = 1..Len(q) /\ DOMAIN u = 1..Len(u)
      /\ Len(q) \in Nat /\ Len(u) \in Nat
  BY <1>1
<1>3. \A m \in 1..Len(q), n \in 1..Len(u) : q[m] # u[n]
  BY <1>2 DEF ToSet
<1> HIDE DEF t
<1>4. NoDups(t)
  <2>1. ASSUME NEW m \in 1..Len(t), NEW n \in 1..Len(t), t[m] = t[n]
        PROVE  m = n
    <3>1. CASE m <= Len(q) /\ n <= Len(q)
      BY <1>1, <1>2, <2>1, <3>1 DEF NoDups
    <3>2. CASE m > Len(q) /\ n > Len(q)
      <4>1. /\ m - Len(q) \in DOMAIN u /\ n - Len(q) \in DOMAIN u
            /\ u[m - Len(q)] = u[n - Len(q)]
        BY <1>1, <1>2, <2>1, <3>2
      <4>2. m - Len(q) = n - Len(q)
        BY <4>1 DEF NoDups
      <4> QED  BY <1>2, <4>2
    <3>3. CASE m <= Len(q) /\ n > Len(q)
      <4>1. t[m] = q[m] /\ t[n] = u[n - Len(q)] /\ m \in 1..Len(q) /\ n - Len(q) \in 1..Len(u)
        BY <1>1, <1>2, <3>3
      <4> QED  BY <1>3, <2>1, <4>1
    <3>4. CASE m > Len(q) /\ n <= Len(q)
      <4>1. t[n] = q[n] /\ t[m] = u[m - Len(q)] /\ n \in 1..Len(q) /\ m - Len(q) \in 1..Len(u)
        BY <1>1, <1>2, <3>4
      <4> QED  BY <1>3, <2>1, <4>1
    <3> QED  BY <1>2, <3>1, <3>2, <3>3, <3>4
  <2> QED  BY <1>2, <2>1 DEF NoDups
<1>5. ToSet(t) = ToSet(q) \cup ToSet(u)
  <2>1. ASSUME NEW x \in ToSet(t) PROVE x \in ToSet(q) \cup ToSet(u)
    <3>1. PICK n \in 1..Len(t) : t[n] = x
      BY <1>2, <2>1 DEF ToSet
    <3>2. CASE n <= Len(q)
      BY <1>1, <1>2, <3>1, <3>2 DEF ToSet
    <3>3. CASE n > Len(q)
      <4>1. u[n - Len(q)] = x /\ n - Len(q) \in 1..Len(u)
        BY <1>1, <1>2, <3>1, <3>3
      <4> QED  BY <1>2, <4>1 DEF ToSet
    <3> QED  BY <1>2, <3>2, <3>3
  <2>2. ASSUME NEW x \in ToSet(q) PROVE x \in ToSet(t)
    BY <1>1, <1>2, <2>2 DEF ToSet
  <2>3. ASSUME NEW x \in ToSet(u) PROVE x \in ToSet(t)
    <3>1. PICK n \in 1..Len(u) : u[n] = x
      BY <1>2, <2>3 DEF ToSet
    <3>2. Len(q) + n \in 1..Len(t) /\ ~(Len(q) + n <= Len(q)) /\ (Len(q) + n) - Len(q) = n
      BY <1>1, <1>2
    <3>3. t[Len(q) + n] = x
      BY <1>1, <3>1, <3>2
    <3> QED  BY <1>2, <3>2, <3>3 DEF ToSet
  <2> QED  BY <2>1, <2>2, <2>3
<1> QED  BY <1>1, <1>4, <1>5 DEF t

\* _pelQueue.emplace_front() of a PEL that is not there.
LEMMA PutBackNoDups ==
    ASSUME NEW q \in Seq(PELs), NEW p \in PELs, NoDups(q), p \notin ToSet(q)
    PROVE  /\ PutBack(p, q) \in Seq(PELs) /\ NoDups(PutBack(p, q))
           /\ ToSet(PutBack(p, q)) = ToSet(q) \cup {p}
<1>1. <<p>> \in Seq(PELs) /\ NoDups(<<p>>) /\ ToSet(<<p>>) = {p}
  BY DEF NoDups, ToSet
<1>2. ToSet(<<p>>) \cap ToSet(q) = {}
  BY <1>1
<1>3. /\ <<p>> \o q \in Seq(PELs) /\ NoDups(<<p>> \o q)
      /\ ToSet(<<p>> \o q) = ToSet(<<p>>) \cup ToSet(q)
  BY <1>1, <1>2, ConcatNoDups
<1> QED  BY <1>1, <1>3 DEF PutBack

\* std::find and erase of a PEL.
LEMMA RemoveNoDups ==
    ASSUME NEW S, NEW q \in Seq(S), NEW e, NoDups(q)
    PROVE  /\ RemoveFirst(q, e) \in Seq(S) /\ NoDups(RemoveFirst(q, e))
           /\ ToSet(RemoveFirst(q, e)) = ToSet(q) \ {e}
<1>1. CASE ~\E n \in 1..Len(q) : q[n] = e
  BY <1>1 DEF RemoveFirst, ToSet
<1>2. CASE \E n \in 1..Len(q) : q[n] = e
  <2>1. PICK m \in 1..Len(q) : q[m] = e
    BY <1>2
  <2> DEFINE I == {n \in 1..Len(q) : q[n] = e}
             u == SubSeq(q, 1, m - 1)
             v == SubSeq(q, m + 1, Len(q))
  <2>2. I = {m}
    BY <2>1 DEF NoDups
  <2>3. Min(I) = m
    BY <2>2 DEF Min
  <2>4. RemoveFirst(q, e) = u \o v
    BY <1>2, <2>2, <2>3 DEF RemoveFirst, RemoveAt, SelectInSeq
  <2>5. u \in Seq(S) /\ Len(u) = m - 1 /\ \A n \in 1..(m - 1) : u[n] = q[n]
    BY SubSeqProperties
  <2>6. /\ v \in Seq(S) /\ Len(v) = Len(q) - m
        /\ \A n \in 1..(Len(q) - m) : v[n] = q[m + n]
    BY SubSeqProperties
  <2> HIDE DEF u, v
  <2>7. DOMAIN u = 1..(m - 1) /\ DOMAIN v = 1..(Len(q) - m) /\ DOMAIN q = 1..Len(q)
        /\ Len(q) \in Nat
    BY <2>5, <2>6
  <2>8. NoDups(u)
    BY <2>5, <2>7 DEF NoDups
  <2>9. NoDups(v)
    <3>1. ASSUME NEW a \in 1..(Len(q) - m), NEW b \in 1..(Len(q) - m), v[a] = v[b]
          PROVE  a = b
      <4>1. m + a \in DOMAIN q /\ m + b \in DOMAIN q /\ q[m + a] = q[m + b]
        BY <2>6, <2>7, <3>1
      <4>2. m + a = m + b
        BY <4>1 DEF NoDups
      <4> QED  BY <2>7, <4>2
    <3> QED  BY <2>7, <3>1 DEF NoDups
  <2>10. ToSet(u) = {q[n] : n \in 1..(m - 1)} /\ ToSet(v) = {q[n] : n \in (m + 1)..Len(q)}
    <3>1. ToSet(u) = {q[n] : n \in 1..(m - 1)}
      BY <2>5, <2>7 DEF ToSet
    <3>2. ASSUME NEW n \in (m + 1)..Len(q) PROVE q[n] \in ToSet(v)
      <4>1. n - m \in 1..(Len(q) - m) /\ m + (n - m) = n
        BY <2>7
      <4>2. v[n - m] = q[n]
        BY <2>6, <4>1
      <4> QED  BY <2>7, <4>1, <4>2 DEF ToSet
    <3>3. ASSUME NEW n \in 1..(Len(q) - m) PROVE v[n] \in {q[k] : k \in (m + 1)..Len(q)}
      <4>1. m + n \in (m + 1)..Len(q)
        BY <2>7
      <4> QED  BY <2>6, <4>1
    <3> QED  BY <2>7, <3>1, <3>2, <3>3 DEF ToSet
  <2>11. ToSet(u) \cap ToSet(v) = {}
    <3>1. \A a \in 1..(m - 1), b \in (m + 1)..Len(q) : q[a] # q[b]
      BY <2>7 DEF NoDups
    <3> QED  BY <2>10, <3>1
  <2>12. ToSet(u) \cup ToSet(v) = ToSet(q) \ {e}
    <3>1. ToSet(q) = {q[n] : n \in 1..Len(q)}
      BY <2>7 DEF ToSet
    <3>2. \A n \in 1..Len(q) : q[n] # e <=> n # m
      BY <2>1, <2>2
    <3>3. \A n \in 1..Len(q) : n # m <=> n \in 1..(m - 1) \/ n \in (m + 1)..Len(q)
      BY <2>7
    <3>4. 1..(m - 1) \subseteq 1..Len(q) /\ (m + 1)..Len(q) \subseteq 1..Len(q)
      BY <2>7
    <3> QED  BY <2>10, <3>1, <3>2, <3>3, <3>4
  <2>13. u \o v \in Seq(S) /\ NoDups(u \o v) /\ ToSet(u \o v) = ToSet(u) \cup ToSet(v)
    BY <2>5, <2>6, <2>8, <2>9, <2>11, ConcatNoDups
  <2> QED  BY <2>4, <2>12, <2>13
<1> QED  BY <1>1, <1>2
-----------------------------------------------------------------------------
(* doNewLogNotify().                                                       *)

\* A set of numbers that is not empty has a least one.
LEMMA MinOfNats ==
    ASSUME NEW S, S \subseteq Nat, S # {}
    PROVE  Min(S) \in S /\ \A n \in S : Min(S) <= n
<1> DEFINE R == OpToRel(<, Nat)
<1>1. \E x \in S : \A y \in S : ~(<<y, x>> \in R)
  <2>1. IsWellFoundedOn(R, Nat)
    BY NatLessThanWellFounded
  <2> HIDE DEF R
  <2> QED  BY <2>1, WFMin
<1>2. PICK x \in S : \A y \in S : ~(y < x)
  BY <1>1 DEF OpToRel
<1>3. \A y \in S : x <= y
  BY <1>2
<1> QED  BY <1>3 DEF Min

\* The loop over the queue stops at the first PEL to send; behind it is the
\* rest of the queue, and before it only PELs that need no sending.
LEMMA FirstRequiredSplits ==
    ASSUME NEW r, NEW q \in Seq(PELs), NoDups(q)
    PROVE  LET first == FirstRequired(r, q)
               rest == SubSeq(q, first + 1, Len(q))
           IN  \/ first = 0 /\ \A p \in ToSet(q) : ~notifyRequired(r, p)
               \/ /\ first # 0 /\ q[first] \in ToSet(q) /\ notifyRequired(r, q[first])
                  /\ rest \in Seq(PELs) /\ NoDups(rest) /\ q[first] \notin ToSet(rest)
                  /\ ToSet(rest) \subseteq ToSet(q)
                  /\ \A p \in ToSet(q) : notifyRequired(r, p) => p \in ToSet(rest) \cup {q[first]}
<1> DEFINE required == {n \in DOMAIN q : notifyRequired(r, q[n])}
           first == FirstRequired(r, q)
           rest == SubSeq(q, first + 1, Len(q))
<1>0. DOMAIN q = 1..Len(q) /\ Len(q) \in Nat /\ \A n \in 1..Len(q) : q[n] \in PELs
  OBVIOUS
<1>1. CASE required = {}
  <2>1. first = 0
    BY <1>1 DEF FirstRequired
  <2>2. \A p \in ToSet(q) : ~notifyRequired(r, p)
    BY <1>1 DEF ToSet
  <2> QED  BY <2>1, <2>2
<1>2. CASE required # {}
  <2>1. first = Min(required) /\ required \subseteq Nat
    BY <1>0, <1>2 DEF FirstRequired
  <2>2. first \in required /\ \A n \in required : first <= n
    <3> HIDE DEF required, first
    <3> QED  BY <1>2, <2>1, MinOfNats
  <2>3. first \in 1..Len(q) /\ notifyRequired(r, q[first])
    BY <1>0, <2>2
  <2>4. ASSUME NEW n \in 1..Len(q), notifyRequired(r, q[n]) PROVE first <= n
    <3>1. n \in required
      BY <1>0, <2>4
    <3> QED  BY <2>2, <3>1
  <2> HIDE DEF first, required
  <2>5. /\ rest \in Seq(PELs) /\ Len(rest) = Len(q) - first
        /\ \A n \in 1..(Len(q) - first) : rest[n] = q[first + n]
    <3>1. first + 1 \in Int /\ Len(q) \in Int /\ \A n \in (first + 1)..Len(q) : q[n] \in PELs
      BY <1>0, <2>3
    <3>2. /\ rest \in Seq(PELs)
          /\ Len(rest) = IF first + 1 <= Len(q) THEN Len(q) - (first + 1) + 1 ELSE 0
          /\ \A n \in 1..(Len(q) - (first + 1) + 1) : rest[n] = q[(first + 1) + n - 1]
      BY <3>1, SubSeqProperties
    <3> HIDE DEF rest
    <3>3. Len(rest) = Len(q) - first
      <4>1. Len(rest) = IF first + 1 <= Len(q) THEN Len(q) - (first + 1) + 1 ELSE 0
        BY <3>2
      <4>2. Len(q) \in Nat /\ first \in 1..Len(q)
        BY <1>0, <2>3
      <4>3. CASE first + 1 <= Len(q)
        BY <4>1, <4>2, <4>3
      <4>4. CASE ~(first + 1 <= Len(q))
        BY <4>1, <4>2, <4>4
      <4> QED  BY <4>3, <4>4
    <3>4. ASSUME NEW n \in 1..(Len(q) - first) PROVE rest[n] = q[first + n]
      <4>1. n \in 1..(Len(q) - (first + 1) + 1) /\ (first + 1) + n - 1 = first + n
        BY <1>0, <2>3
      <4> QED  BY <3>2, <4>1
    <3> QED  BY <3>2, <3>3, <3>4
  <2> HIDE DEF rest
  <2>6. DOMAIN rest = 1..(Len(q) - first)
    BY <2>5
  <2>7. ASSUME NEW a \in 1..(Len(q) - first), NEW b \in 1..(Len(q) - first), rest[a] = rest[b]
        PROVE  a = b
    <3>1. first + a \in DOMAIN q /\ first + b \in DOMAIN q /\ q[first + a] = q[first + b]
      BY <1>0, <2>3, <2>5, <2>7
    <3>2. first + a = first + b
      BY <3>1 DEF NoDups
    <3> QED  BY <1>0, <2>3, <3>2
  <2>8. NoDups(rest)
    BY <2>6, <2>7 DEF NoDups
  <2>9. ASSUME NEW n \in 1..(Len(q) - first) PROVE rest[n] \in ToSet(q) /\ rest[n] # q[first]
    <3>1. first + n \in DOMAIN q /\ first \in DOMAIN q /\ first + n # first
      BY <1>0, <2>3
    <3> QED  BY <2>5, <3>1 DEF ToSet, NoDups
  <2>10. ToSet(rest) \subseteq ToSet(q) /\ q[first] \notin ToSet(rest)
    BY <2>6, <2>9 DEF ToSet
  <2>11. ASSUME NEW p \in ToSet(q), notifyRequired(r, p), p # q[first] PROVE p \in ToSet(rest)
    <3>1. PICK n \in 1..Len(q) : q[n] = p
      BY <1>0 DEF ToSet
    <3>2. first <= n /\ n # first
      BY <2>4, <2>11, <3>1
    <3>3. n - first \in 1..(Len(q) - first) /\ first + (n - first) = n
      BY <1>0, <2>3, <3>2
    <3>4. rest[n - first] = p
      BY <2>5, <3>1, <3>3
    <3> QED  BY <2>6, <3>3, <3>4 DEF ToSet
  <2>12. first # 0 /\ q[first] \in ToSet(q)
    BY <1>0, <2>3 DEF ToSet
  <2> QED  BY <2>3, <2>5, <2>8, <2>10, <2>11, <2>12 DEF first, rest
<1> QED  BY <1>1, <1>2

\* Whatever is taken off queue q needs no sending, except p.
Keeps(r, q, p) ==
    /\ pelQueue' \in Seq(PELs) /\ NoDups(pelQueue')
    /\ ToSet(pelQueue') \subseteq ToSet(q)
    /\ p \in ToSet(q) /\ p \in PELs /\ notifyRequired(r, p)
    /\ \A x \in ToSet(q) : notifyRequired(r, x) => x \in ToSet(pelQueue') \cup {p}

NotifySent(r, q) ==
    \E p \in PELs : /\ Keeps(r, q, p) /\ p \notin ToSet(pelQueue')
                    /\ inProgressPEL' = p /\ cmdInProgress' = TRUE
                    /\ retryTimer' = FALSE /\ told' = told \cup {p}

NotifyNotSent(r, q) ==
    \E p \in PELs : /\ Keeps(r, q, p) /\ p \in ToSet(pelQueue')
                    /\ inProgressPEL' = 0 /\ cmdInProgress' = FALSE
                    /\ retryTimer' = TRUE /\ told' = told

NotifyPut(q, prog, cmd, rt) ==
    /\ pelQueue' = q /\ inProgressPEL' = prog /\ cmdInProgress' = cmd
    /\ retryTimer' = rt /\ told' = told

\* doNewLogNotify() sends a PEL or fails to, finds none to send, or returns
\* with the queue as it is.
LEMMA NotifyEnds ==
    ASSUME NEW r, NEW q \in Seq(PELs), NoDups(q), NEW prog, NEW cmd, NEW rt \in BOOLEAN,
           NEW ft \in BOOLEAN, NEW count \in 0..maxRetryAttempts, hostUp \in BOOLEAN,
           count = maxRetryAttempts => cmd = FALSE,
           doNewLogNotify(r, q, prog, cmd, rt, ft, count)
    PROVE  \/ /\ hostUp /\ ~rt /\ ~ft /\ count < maxRetryAttempts
              /\ NotifySent(r, q) \/ NotifyNotSent(r, q)
           \/ /\ hostUp /\ ~rt /\ ~ft /\ count < maxRetryAttempts
              /\ \A p \in ToSet(q) : ~notifyRequired(r, p)
              /\ NotifyPut(<< >>, prog, cmd, rt)
           \/ /\ ~hostUp \/ rt \/ ft \/ count = maxRetryAttempts
              /\ NotifyPut(q, prog, cmd, rt)
<1> DEFINE first == FirstRequired(r, q)
           rest == SubSeq(q, first + 1, Len(q))
<1>1. GivesUp(count) <=> count = maxRetryAttempts
  BY NotifierAssumption DEF GivesUp
<1>2. CASE Held(rt, ft) \/ GivesUp(count)
  <2>1. NotifyPut(q, prog, cmd, rt)
    BY <1>1, <1>2 DEF doNewLogNotify, NotifyPut, cancelCmd
  <2> QED  BY <1>1, <1>2, <2>1 DEF Held
<1>3. CASE ~Held(rt, ft) /\ ~GivesUp(count) /\ first = 0
  <2>1. NotifyPut(<< >>, prog, cmd, rt)
    BY <1>1, <1>3 DEF doNewLogNotify, NotifyPut
  <2>2. \A p \in ToSet(q) : ~notifyRequired(r, p)
    BY <1>3, FirstRequiredSplits
  <2>3. count < maxRetryAttempts
    BY <1>1, <1>3, NotifierAssumption
  <2> QED  BY <1>3, <2>1, <2>2, <2>3 DEF Held
<1>4. CASE ~Held(rt, ft) /\ ~GivesUp(count) /\ first # 0
  <2>1. count < maxRetryAttempts /\ hostUp /\ ~rt /\ ~ft
    BY <1>1, <1>4, NotifierAssumption DEF Held
  <2>2. sendNewLogCmd(q[first], rest) \/ sendNewLogCmdFails(q[first], rest)
    BY <1>4 DEF doNewLogNotify
  <2>3. /\ q[first] \in ToSet(q) /\ notifyRequired(r, q[first])
        /\ rest \in Seq(PELs) /\ NoDups(rest) /\ q[first] \notin ToSet(rest)
        /\ ToSet(rest) \subseteq ToSet(q)
        /\ \A p \in ToSet(q) : notifyRequired(r, p) => p \in ToSet(rest) \cup {q[first]}
    BY <1>4, FirstRequiredSplits
  <2>4. q[first] \in PELs
    BY <2>3 DEF ToSet
  <2> DEFINE p == q[first]
  <2> HIDE DEF rest, first, p
  <2>5. CASE sendNewLogCmd(p, rest)
    <3>1. pelQueue' = rest /\ inProgressPEL' = p /\ cmdInProgress' = TRUE
          /\ retryTimer' = FALSE /\ told' = told \cup {p}
      BY <2>5 DEF sendNewLogCmd
    <3>2. Keeps(r, q, p) /\ p \notin ToSet(pelQueue') /\ p \in PELs
      BY <2>3, <2>4, <3>1 DEF Keeps, p
    <3>3. NotifySent(r, q)
      BY <3>1, <3>2 DEF NotifySent
    <3> QED  BY <2>1, <3>3
  <2>6. CASE sendNewLogCmdFails(p, rest)
    <3>1. pelQueue' = PutBack(p, rest) /\ inProgressPEL' = 0 /\ cmdInProgress' = FALSE
          /\ retryTimer' = TRUE /\ told' = told
      BY <2>6 DEF sendNewLogCmdFails
    <3>2. /\ pelQueue' \in Seq(PELs) /\ NoDups(pelQueue')
          /\ ToSet(pelQueue') = ToSet(rest) \cup {p}
      BY <2>3, <2>4, <3>1, PutBackNoDups DEF p
    <3>3. Keeps(r, q, p) /\ p \in ToSet(pelQueue') /\ p \in PELs
      BY <2>3, <2>4, <3>2 DEF Keeps, p
    <3>4. NotifyNotSent(r, q)
      BY <3>1, <3>3 DEF NotifyNotSent
    <3> QED  BY <2>1, <3>4
  <2> QED  BY <2>2, <2>5, <2>6 DEF p
<1> QED  BY <1>2, <1>3, <1>4
\* The state in which a callback calls doNewLogNotify(): prog, cmd, rt and
\* count are what the callback has made of the variables doNewLogNotify() may
\* change, the primed variables those it leaves alone.
CallTyped(prog, cmd, rt, count) ==
    /\ pelQueue \in Seq(PELs) /\ NoDups(pelQueue)
    /\ sentPELs' \in Seq(PELs) /\ NoDups(sentPELs')
    /\ ToSet(pelQueue) \cap ToSet(sentPELs') = {}
    /\ prog \in {0} \cup PELs /\ prog \notin ToSet(pelQueue) \cup ToSet(sentPELs')
    /\ cmd \in BOOLEAN /\ (cmd <=> prog # 0)
    /\ rt \in BOOLEAN /\ ~(cmd /\ rt)
    /\ count \in 0..maxRetryAttempts
    /\ cmd \/ rt => count < maxRetryAttempts /\ hostUp
    /\ repo' \in [PELs -> States \cup {"none", "deleted"}]
    /\ told \subseteq PELs /\ hostUp \in BOOLEAN
    /\ hostFull' \in BOOLEAN /\ hostFullTimer' \in BOOLEAN
    /\ hostUpTimer' \in BOOLEAN /\ dispatcher' \in BOOLEAN
    /\ hmcAcked \subseteq PELs /\ hmcManaged \in BOOLEAN /\ EnvOK
    /\ retryCount' = count
    /\ UNCHANGED <<hostUp, hmcAcked, hmcManaged, env>>

CallPlaced(prog) ==
    \A p \in PELs : p \in ToSet(pelQueue) \cup ToSet(sentPELs') \cup {prog} =>
        repo'[p] # "none" /\ p \notin NoReport

CallOrderly(prog) ==
    ~StrayVerdicts =>
        /\ ~hostUp => told = {} /\ ~hostFullTimer'
        /\ hostFullTimer' => hostFull'
        /\ \A p \in PELs : repo'[p] = "acked" =>
              p \notin told /\ p \notin ToSet(sentPELs') /\ p # prog

CallRoomy(prog) ==
    ~HostMayBeFull =>
        /\ ~hostFull' /\ ~hostFullTimer' /\ ~dispatcher' /\ ~hostUpTimer' /\ prog = 0
        /\ \A p \in PELs \ (NoReport \cup Hidden) :
              repo'[p] \in {"new", "sent"} => p \in ToSet(pelQueue) \cup ToSet(sentPELs')

\* Wherever it is called from, doNewLogNotify() leaves the invariant true and
\* starts no command but for a PEL of the queue that is to be sent.
LEMMA NotifyKeepsInv ==
    ASSUME NEW prog, NEW cmd, NEW rt, NEW count,
           CallTyped(prog, cmd, rt, count), CallPlaced(prog), CallOrderly(prog), CallRoomy(prog),
           doNewLogNotify(repo', pelQueue, prog, cmd, rt, hostFullTimer', count)
    PROVE  /\ IndInv'
           /\ \/ inProgressPEL' \in {0, prog}
              \/ /\ hostUp /\ ~hostFullTimer'
                 /\ inProgressPEL' \in ToSet(pelQueue) /\ notifyRequired(repo', inProgressPEL')
<1>1. count = maxRetryAttempts => cmd = FALSE
  BY DEF CallTyped
<1>2. \/ /\ hostUp /\ ~rt /\ ~hostFullTimer' /\ count < maxRetryAttempts
         /\ NotifySent(repo', pelQueue) \/ NotifyNotSent(repo', pelQueue)
      \/ /\ hostUp /\ ~rt /\ ~hostFullTimer' /\ count < maxRetryAttempts
         /\ \A p \in ToSet(pelQueue) : ~notifyRequired(repo', p)
         /\ NotifyPut(<< >>, prog, cmd, rt)
      \/ /\ ~hostUp \/ rt \/ hostFullTimer' \/ count = maxRetryAttempts
         /\ NotifyPut(pelQueue, prog, cmd, rt)
  <2>1. /\ pelQueue \in Seq(PELs) /\ NoDups(pelQueue) /\ rt \in BOOLEAN
        /\ hostFullTimer' \in BOOLEAN /\ count \in 0..maxRetryAttempts /\ hostUp \in BOOLEAN
    BY DEF CallTyped
  <2> QED  BY <1>1, <2>1, NotifyEnds
<1>3. \A p \in PELs \ (NoReport \cup Hidden) :
         repo'[p] \in {"new", "sent"} => notifyRequired(repo', p)
  BY DEF notifyRequired
<1>4. EnvOK'
  BY DEF CallTyped, EnvOK
<1>5. /\ NoReport' = NoReport /\ Hidden' = Hidden /\ StrayVerdicts' = StrayVerdicts
      /\ HostMayBeFull' = HostMayBeFull /\ hostUp' = hostUp
  BY DEF CallTyped, NoReport, Hidden, StrayVerdicts, HostMayBeFull
<1>6. CASE /\ hostUp /\ ~rt /\ ~hostFullTimer' /\ count < maxRetryAttempts
           /\ NotifySent(repo', pelQueue)
  <2>1. PICK p \in PELs : /\ Keeps(repo', pelQueue, p) /\ p \notin ToSet(pelQueue')
                          /\ inProgressPEL' = p /\ cmdInProgress' = TRUE
                          /\ retryTimer' = FALSE /\ told' = told \cup {p}
    BY <1>6 DEF NotifySent
  <2>2. /\ pelQueue' \in Seq(PELs) /\ NoDups(pelQueue')
        /\ ToSet(pelQueue') \subseteq ToSet(pelQueue)
        /\ p \in ToSet(pelQueue) /\ notifyRequired(repo', p)
        /\ \A x \in ToSet(pelQueue) : notifyRequired(repo', x) => x \in ToSet(pelQueue') \cup {p}
    BY <2>1 DEF Keeps
  <2>3. OnePlace'
    <3>1. p # 0
      BY NotifierAssumption DEF PELs
    <3>2. TypeOK'
      BY <2>1, <2>2 DEF CallTyped, TypeOK
    <3> QED  BY <2>1, <2>2, <3>1, <3>2 DEF CallTyped, OnePlace
  <2>4. OnlyReportable'
    BY <1>5, <2>1, <2>2 DEF CallPlaced, OnlyReportable, Queued, Sent
  <2>5. RetriesLeft' /\ Served'
    BY <1>5, <1>6, <2>1 DEF CallTyped, RetriesLeft, Served
  <2>6. Orderly'
    <3>1. repo'[p] # "acked"
      BY <2>2 DEF notifyRequired
    <3> QED  BY <1>5, <1>6, <2>1, <3>1 DEF CallOrderly, Orderly, Sent
  <2>7. Roomy'
    <3>1. ASSUME ~HostMayBeFull PROVE NoPELLost'
      BY <1>3, <1>5, <2>1, <2>2, <3>1 DEF CallRoomy, NoPELLost
    <3> QED  BY <1>5, <3>1 DEF CallRoomy, Roomy
  <2> QED  BY <1>4, <1>6, <2>1, <2>2, <2>3, <2>4, <2>5, <2>6, <2>7 DEF IndInv
<1>7. CASE /\ hostUp /\ ~rt /\ ~hostFullTimer' /\ count < maxRetryAttempts
           /\ NotifyNotSent(repo', pelQueue)
  <2>1. PICK p \in PELs : /\ Keeps(repo', pelQueue, p) /\ p \in ToSet(pelQueue')
                          /\ inProgressPEL' = 0 /\ cmdInProgress' = FALSE
                          /\ retryTimer' = TRUE /\ told' = told
    BY <1>7 DEF NotifyNotSent
  <2>2. /\ pelQueue' \in Seq(PELs) /\ NoDups(pelQueue')
        /\ ToSet(pelQueue') \subseteq ToSet(pelQueue)
        /\ \A x \in ToSet(pelQueue) : notifyRequired(repo', x) => x \in ToSet(pelQueue')
    BY <2>1 DEF Keeps
  <2>3. OnePlace'
    <3>1. 0 \notin ToSet(pelQueue') \cup ToSet(sentPELs')
      BY <2>2, NotifierAssumption DEF CallTyped, ToSet, PELs
    <3>2. TypeOK'
      BY <2>1, <2>2 DEF CallTyped, TypeOK
    <3> QED  BY <2>1, <2>2, <3>1, <3>2 DEF CallTyped, OnePlace
  <2>4. OnlyReportable'
    BY <1>5, <2>1, <2>2, NotifierAssumption DEF CallPlaced, OnlyReportable, Queued, Sent, PELs
  <2>5. RetriesLeft' /\ Served'
    BY <1>5, <1>7, <2>1 DEF CallTyped, RetriesLeft, Served
  <2>6. Orderly'
    BY <1>5, <1>7, <2>1, NotifierAssumption DEF CallOrderly, Orderly, Sent, PELs
  <2>7. Roomy'
    <3>1. ASSUME ~HostMayBeFull PROVE NoPELLost'
      BY <1>3, <1>5, <2>1, <2>2, <3>1 DEF CallRoomy, NoPELLost
    <3> QED  BY <1>5, <3>1 DEF CallRoomy, Roomy
  <2> QED  BY <1>4, <2>1, <2>3, <2>4, <2>5, <2>6, <2>7 DEF IndInv
<1>8. ASSUME NEW q \in {<< >>, pelQueue}, NotifyPut(q, prog, cmd, rt),
             \/ q = << >> /\ \A p \in ToSet(pelQueue) : ~notifyRequired(repo', p)
             \/ q = pelQueue /\ (~hostUp \/ rt \/ hostFullTimer' \/ count = maxRetryAttempts)
      PROVE  IndInv' /\ inProgressPEL' = prog
  <2>1. /\ pelQueue' = q /\ inProgressPEL' = prog /\ cmdInProgress' = cmd
        /\ retryTimer' = rt /\ told' = told
    BY <1>8 DEF NotifyPut
  <2>2. /\ q \in Seq(PELs) /\ NoDups(q) /\ ToSet(q) \subseteq ToSet(pelQueue)
        /\ \A x \in ToSet(pelQueue) : notifyRequired(repo', x) => x \in ToSet(q)
    <3>1. << >> \in Seq(PELs) /\ NoDups(<< >>) /\ ToSet(<< >>) = {}
      BY DEF NoDups, ToSet
    <3> QED  BY <1>8, <3>1 DEF CallTyped
  <2>3. OnePlace'
    <3>1. TypeOK'
      BY <2>1, <2>2 DEF CallTyped, TypeOK
    <3> QED  BY <2>1, <2>2, <3>1 DEF CallTyped, OnePlace
  <2>4. OnlyReportable'
    BY <1>5, <2>1, <2>2 DEF CallPlaced, OnlyReportable, Queued, Sent
  <2>5. RetriesLeft'
    BY <1>5, <2>1 DEF CallTyped, RetriesLeft
  <2>6. Served'
    <3>1. count = maxRetryAttempts => ~(count < maxRetryAttempts)
      BY DEF CallTyped
    <3> QED  BY <1>5, <1>8, <2>1, <3>1 DEF CallTyped, Served
  <2>7. Orderly'
    BY <1>5, <2>1 DEF CallOrderly, Orderly, Sent
  <2>8. Roomy'
    <3>1. ASSUME ~HostMayBeFull PROVE NoPELLost'
      BY <1>3, <1>5, <2>1, <2>2, <3>1 DEF CallRoomy, NoPELLost
    <3> QED  BY <1>5, <3>1 DEF CallRoomy, Roomy
  <2> QED  BY <1>4, <2>1, <2>3, <2>4, <2>5, <2>6, <2>7, <2>8 DEF IndInv
<1> QED  BY <1>2, <1>6, <1>7, <1>8
-----------------------------------------------------------------------------
(* Every step keeps the invariant.                                         *)

\* A step starts no command but for a PEL of the queue that is to be sent.
StartsWanted ==
    \/ inProgressPEL' \in {0, inProgressPEL}
    \/ /\ hostUp /\ ~hostFullTimer'
       /\ inProgressPEL' \in Queued /\ notifyRequired(repo', inProgressPEL')

\* The dispatcher and the three timers.
LEMMA CallbacksKeepInv ==
    ASSUME IndInv, Callbacks
    PROVE  IndInv' /\ StartsWanted
<1>0. TypeOK /\ OnePlace /\ OnlyReportable /\ RetriesLeft /\ Orderly /\ Roomy /\ EnvOK
  BY DEF IndInv, OnePlace
<1>1. /\ repo' = repo /\ sentPELs' = sentPELs /\ hostFull' = hostFull
      /\ UNCHANGED <<hostUp, hmcAcked, hmcManaged, env>>
  BY DEF Callbacks, dispatch, retryTimerExpired, hostFullTimerExpired, hostUpTimerExpired, fixed
<1>2. CallPlaced(inProgressPEL)
  BY <1>0, <1>1 DEF CallPlaced, OnlyReportable, Queued, Sent
<1>3. ASSUME NEW rt \in BOOLEAN, NEW count \in 0..maxRetryAttempts,
             hostFullTimer' \in BOOLEAN, hostUpTimer' \in BOOLEAN, dispatcher' \in BOOLEAN,
             ~(cmdInProgress /\ rt), cmdInProgress \/ rt => count < maxRetryAttempts /\ hostUp,
             retryCount' = count, hostFullTimer' => hostFullTimer,
             ~HostMayBeFull => ~dispatcher' /\ ~hostUpTimer' /\ ~cmdInProgress,
             doNewLogNotify(repo', pelQueue, inProgressPEL, cmdInProgress, rt,
                            hostFullTimer', count)
      PROVE  IndInv' /\ StartsWanted
  <2>1. CallTyped(inProgressPEL, cmdInProgress, rt, count)
    BY <1>0, <1>1, <1>3 DEF TypeOK, OnePlace, CallTyped, States
  <2>2. CallOrderly(inProgressPEL)
    BY <1>0, <1>1, <1>3 DEF CallOrderly, Orderly, Sent
  <2>3. CallRoomy(inProgressPEL)
    <3>1. ASSUME ~HostMayBeFull PROVE inProgressPEL = 0 /\ NoPELLost /\ 0 \notin PELs
      BY <1>0, <1>3, <3>1, NotifierAssumption DEF Roomy, OnePlace, PELs
    <3> QED  BY <1>0, <1>1, <1>3, <3>1 DEF CallRoomy, Roomy, NoPELLost
  <2>4. IndInv' /\ \/ inProgressPEL' \in {0, inProgressPEL}
                   \/ /\ hostUp /\ ~hostFullTimer'
                      /\ inProgressPEL' \in ToSet(pelQueue) /\ notifyRequired(repo', inProgressPEL')
    BY <1>2, <1>3, <2>1, <2>2, <2>3, NotifyKeepsInv
  <2> QED  BY <2>4 DEF StartsWanted, Queued
<1>4. CASE dispatch
  <2>1. /\ dispatcher /\ dispatcher' = FALSE
        /\ retryCount' = retryCount /\ hostFullTimer' = hostFullTimer /\ hostUpTimer' = hostUpTimer
        /\ doNewLogNotify(repo', pelQueue, inProgressPEL, cmdInProgress, retryTimer,
                          hostFullTimer', retryCount)
    BY <1>1, <1>4 DEF dispatch
  <2>2. ~HostMayBeFull => ~hostUpTimer' /\ ~cmdInProgress
    BY <1>0, <2>1 DEF Roomy
  <2>3. /\ retryTimer \in BOOLEAN /\ retryCount \in 0..maxRetryAttempts
        /\ hostFullTimer' \in BOOLEAN /\ hostUpTimer' \in BOOLEAN /\ dispatcher' \in BOOLEAN
    BY <1>0, <2>1 DEF TypeOK
  <2> QED  BY <1>0, <1>3, <2>1, <2>2, <2>3 DEF RetriesLeft
<1>5. CASE retryTimerExpired
  <2>1. /\ retryTimer /\ hostUp /\ ~cmdInProgress /\ retryCount < maxRetryAttempts
    BY <1>0, <1>5 DEF retryTimerExpired, RetriesLeft
  <2>2. /\ retryCount' = retryCount + 1 /\ hostFullTimer' = hostFullTimer
        /\ hostUpTimer' = hostUpTimer /\ dispatcher' = dispatcher
        /\ doNewLogNotify(repo', pelQueue, inProgressPEL, cmdInProgress, FALSE,
                          hostFullTimer', retryCount + 1)
    BY <1>1, <1>5, <2>1 DEF retryTimerExpired
  <2>3. retryCount + 1 \in 0..maxRetryAttempts
    BY <1>0, <2>1, NotifierAssumption DEF TypeOK
  <2>4. ~HostMayBeFull => ~hostUpTimer' /\ ~dispatcher'
    BY <1>0, <2>1, <2>2 DEF Roomy
  <2>5. hostFullTimer' \in BOOLEAN /\ hostUpTimer' \in BOOLEAN /\ dispatcher' \in BOOLEAN
    BY <1>0, <2>2 DEF TypeOK
  <2> QED  BY <1>3, <2>1, <2>2, <2>3, <2>4, <2>5
<1>6. CASE hostFullTimerExpired
  <2>1. /\ hostFullTimer /\ ~cmdInProgress /\ ~retryTimer /\ hostFullTimer' = FALSE
        /\ retryCount' = retryCount /\ hostUpTimer' = hostUpTimer /\ dispatcher' = dispatcher
    BY <1>6 DEF hostFullTimerExpired
  <2>2. doNewLogNotify(repo', pelQueue, inProgressPEL, cmdInProgress, retryTimer,
                       hostFullTimer', retryCount)
    BY <1>1, <1>6, <2>1 DEF hostFullTimerExpired
  <2>3. HostMayBeFull
    BY <1>0, <2>1 DEF Roomy
  <2>4. /\ retryTimer \in BOOLEAN /\ retryCount \in 0..maxRetryAttempts
        /\ hostFullTimer' \in BOOLEAN /\ hostUpTimer' \in BOOLEAN /\ dispatcher' \in BOOLEAN
    BY <1>0, <2>1 DEF TypeOK
  <2> QED  BY <1>3, <2>1, <2>2, <2>3, <2>4
<1>7. CASE hostUpTimerExpired
  <2>1. /\ hostUpTimer /\ hostUpTimer' = FALSE
        /\ retryCount' = retryCount /\ hostFullTimer' = hostFullTimer /\ dispatcher' = dispatcher
        /\ doNewLogNotify(repo', pelQueue, inProgressPEL, cmdInProgress, retryTimer,
                          hostFullTimer', retryCount)
    BY <1>1, <1>7 DEF hostUpTimerExpired
  <2>2. ~HostMayBeFull => ~dispatcher' /\ ~cmdInProgress
    BY <1>0, <2>1 DEF Roomy
  <2>3. /\ retryTimer \in BOOLEAN /\ retryCount \in 0..maxRetryAttempts
        /\ hostFullTimer' \in BOOLEAN /\ hostUpTimer' \in BOOLEAN /\ dispatcher' \in BOOLEAN
    BY <1>0, <2>1 DEF TypeOK
  <2> QED  BY <1>0, <1>3, <2>1, <2>2, <2>3 DEF RetriesLeft
<1> QED  BY <1>4, <1>5, <1>6, <1>7 DEF Callbacks

\* The end of a command.
LEMMA ResponsesKeepInv ==
    ASSUME IndInv, Responses
    PROVE  IndInv' /\ StartsWanted
<1>0. TypeOK /\ OnePlace /\ OnlyReportable /\ RetriesLeft /\ Orderly /\ Roomy /\ EnvOK
  BY DEF IndInv, OnePlace
<1>1. /\ cmdInProgress /\ inProgressPEL \in PELs /\ inProgressPEL # 0
      /\ ~retryTimer /\ hostUp /\ 0 \notin PELs
  <2>1. cmdInProgress
    BY DEF Responses, commandResponseSuccess, commandResponseFailure
  <2>2. 0 \notin PELs
    BY NotifierAssumption DEF PELs
  <2> QED  BY <1>0, <2>1, <2>2 DEF OnePlace, TypeOK, RetriesLeft
<1>2. ~HostMayBeFull => ~dispatcher /\ ~hostUpTimer
  BY <1>0, <1>1 DEF Roomy
<1>3. CASE commandResponseSuccess
  <2>1. /\ retryCount' = 0 /\ sentPELs' = Append(sentPELs, inProgressPEL)
        /\ repo' = setPELHostTransState(repo, {inProgressPEL}, "sent")
        /\ UNCHANGED <<hostFull, hostFullTimer, hostUpTimer, dispatcher>>
        /\ UNCHANGED <<hostUp, hmcAcked, hmcManaged, env>>
    BY <1>3 DEF commandResponseSuccess, fixed
  <2>2. /\ sentPELs' \in Seq(PELs) /\ NoDups(sentPELs')
        /\ ToSet(sentPELs') = Sent \cup {inProgressPEL}
    BY <1>0, <1>1, <2>1, AppendNoDups DEF OnePlace, TypeOK, Sent
  <2>3. /\ repo' \in [PELs -> States \cup {"none", "deleted"}]
        /\ \A p \in PELs \ {inProgressPEL} : repo'[p] = repo[p]
        /\ repo'[inProgressPEL] # "none" /\ repo'[inProgressPEL] # "acked"
    BY <1>0, <1>1, <2>1 DEF setPELHostTransState, TypeOK, States, OnlyReportable
  <2>4. 0 <= maxRetryAttempts /\ 0 < maxRetryAttempts /\ 0 \in 0..maxRetryAttempts
    BY NotifierAssumption
  <2>5. CallTyped(0, FALSE, FALSE, 0)
    <3>1. 0 \notin ToSet(pelQueue) \cup ToSet(sentPELs')
      BY <1>0, <1>1, <2>2 DEF OnePlace, TypeOK, ToSet
    <3>2. ToSet(pelQueue) \cap ToSet(sentPELs') = {}
      BY <1>0, <2>2 DEF OnePlace, Sent
    <3> QED  BY <1>0, <2>1, <2>2, <2>3, <2>4, <3>1, <3>2 DEF CallTyped, TypeOK, OnePlace
  <2>6. CallPlaced(0)
    BY <1>0, <1>1, <2>2, <2>3 DEF CallPlaced, OnlyReportable, Queued, Sent
  <2>7. CallOrderly(0)
    <3>1. ASSUME ~StrayVerdicts, NEW p \in PELs, repo'[p] = "acked"
          PROVE  p \notin told /\ p \notin ToSet(sentPELs') /\ p # 0
      BY <1>0, <1>1, <2>2, <2>3, <3>1 DEF Orderly
    <3> QED  BY <1>0, <1>1, <2>1, <3>1 DEF CallOrderly, Orderly
  <2>8. CallRoomy(0)
    <3>1. ASSUME ~HostMayBeFull, NEW p \in PELs \ (NoReport \cup Hidden),
                 repo'[p] \in {"new", "sent"}
          PROVE  p \in ToSet(pelQueue) \cup ToSet(sentPELs')
      BY <1>0, <2>2, <2>3, <3>1 DEF Roomy, NoPELLost, Sent
    <3> QED  BY <1>0, <1>2, <2>1, <3>1 DEF CallRoomy, Roomy
  <2>9. CASE hostFull
    <3>1. /\ inProgressPEL' = 0 /\ cmdInProgress' = FALSE
          /\ UNCHANGED <<pelQueue, retryTimer, told>>
      BY <1>3, <2>9 DEF commandResponseSuccess
    <3>2. TypeOK'
      BY <2>5, <3>1, <1>0 DEF CallTyped, TypeOK
    <3>3. OnePlace'
      BY <2>5, <3>1, <3>2 DEF CallTyped, OnePlace
    <3>4. OnlyReportable' /\ RetriesLeft' /\ Served' /\ EnvOK'
      BY <1>1, <2>1, <2>6, <2>9, <3>1, <1>0
         DEF CallPlaced, OnlyReportable, RetriesLeft, Served, EnvOK, Queued, Sent, NoReport
    <3>5. Orderly'
      BY <2>1, <2>7, <3>1 DEF CallOrderly, Orderly, StrayVerdicts, Sent
    <3>6. HostMayBeFull /\ HostMayBeFull' = HostMayBeFull
      BY <1>0, <2>1, <2>9 DEF Roomy, HostMayBeFull
    <3> QED  BY <3>1, <3>3, <3>4, <3>5, <3>6 DEF IndInv, StartsWanted, Roomy
  <2>10. CASE ~hostFull
    <3>1. doNewLogNotify(repo', pelQueue, 0, FALSE, retryTimer, hostFullTimer, 0)
      BY <1>3, <2>10 DEF commandResponseSuccess
    <3>2. retryTimer = FALSE /\ hostFullTimer' = hostFullTimer
      BY <1>0, <1>1, <2>1 DEF TypeOK
    <3>3. doNewLogNotify(repo', pelQueue, 0, FALSE, FALSE, hostFullTimer', 0)
      BY <3>1, <3>2
    <3>4. IndInv' /\ \/ inProgressPEL' \in {0}
                     \/ /\ hostUp /\ ~hostFullTimer'
                        /\ inProgressPEL' \in ToSet(pelQueue)
                        /\ notifyRequired(repo', inProgressPEL')
      BY <2>5, <2>6, <2>7, <2>8, <3>3, NotifyKeepsInv
    <3> QED  BY <3>4 DEF StartsWanted, Queued
  <2> QED  BY <2>9, <2>10
<1>4. CASE commandResponseFailure
  <2>1. /\ pelQueue' = PutBack(inProgressPEL, pelQueue)
        /\ inProgressPEL' = 0 /\ cmdInProgress' = FALSE /\ retryTimer' = TRUE
        /\ UNCHANGED <<repo, hmcAcked, hmcManaged, env, sentPELs, retryCount, hostFull>>
        /\ UNCHANGED <<hostFullTimer, hostUpTimer, dispatcher, hostUp, told>>
    BY <1>4 DEF commandResponseFailure, fixed
  <2>2. /\ pelQueue' \in Seq(PELs) /\ NoDups(pelQueue')
        /\ ToSet(pelQueue') = Queued \cup {inProgressPEL}
    BY <1>0, <1>1, <2>1, PutBackNoDups DEF OnePlace, TypeOK, Queued
  <2>3. TypeOK'
    BY <1>0, <2>1, <2>2 DEF TypeOK
  <2>4. OnePlace'
    <3>1. 0 \notin ToSet(pelQueue') \cup ToSet(sentPELs')
      BY <1>1, <2>2, <2>3 DEF TypeOK, ToSet
    <3> QED  BY <1>0, <2>1, <2>2, <2>3, <3>1 DEF OnePlace, Queued
  <2>5. OnlyReportable'
    BY <1>0, <1>1, <2>1, <2>2 DEF OnlyReportable, Queued, Sent, NoReport
  <2>6. RetriesLeft' /\ Served' /\ EnvOK'
    BY <1>0, <1>1, <2>1 DEF RetriesLeft, Served, EnvOK
  <2>7. Orderly'
    BY <1>0, <1>1, <2>1 DEF Orderly, StrayVerdicts, Sent
  <2>8. Roomy'
    <3>1. ASSUME ~HostMayBeFull PROVE NoPELLost'
      BY <1>0, <1>1, <2>1, <2>2, <3>1 DEF Roomy, NoPELLost, NoReport, Hidden, Queued
    <3> QED  BY <1>0, <1>2, <2>1, <3>1 DEF Roomy, HostMayBeFull
  <2> QED  BY <2>1, <2>4, <2>5, <2>6, <2>7, <2>8 DEF IndInv, StartsWanted
<1> QED  BY <1>3, <1>4 DEF Responses
\* The operators of the environment change only with env.
LEMMA EnvFixed ==
    ASSUME env' = env
    PROVE  /\ Hidden' = Hidden /\ NoReport' = NoReport /\ HostMayBeFull' = HostMayBeFull
           /\ StrayVerdicts' = StrayVerdicts /\ (EnvOK => EnvOK')
BY DEF Hidden, NoReport, HostMayBeFull, StrayVerdicts, EnvOK

\* A PEL is added, and queued if the host is to hear of it.
LEMMA NewLogKeepsInv ==
    ASSUME IndInv, NEW p \in PELs, newLogCallback(p)
    PROVE  IndInv' /\ StartsWanted
<1>0. TypeOK /\ OnePlace /\ OnlyReportable /\ RetriesLeft /\ Served /\ Orderly /\ Roomy /\ EnvOK
  BY DEF IndInv, OnePlace
<1>1. /\ repo[p] = "none" /\ repo' = [repo EXCEPT ![p] = "new"]
      /\ UNCHANGED <<hmcAcked, hmcManaged, env, sentPELs, inProgressPEL, cmdInProgress>>
      /\ UNCHANGED <<hostFull, retryTimer, hostFullTimer, hostUpTimer, hostUp, told>>
  BY DEF newLogCallback, fixed
<1>2. /\ repo' \in [PELs -> States \cup {"none", "deleted"}] /\ repo'[p] = "new"
      /\ \A x \in PELs \ {p} : repo'[x] = repo[x]
  BY <1>0, <1>1 DEF TypeOK, States
<1>3. p \notin Queued /\ p \notin Sent /\ p # inProgressPEL
  BY <1>0, <1>1 DEF OnlyReportable
<1>4. /\ Hidden' = Hidden /\ NoReport' = NoReport /\ HostMayBeFull' = HostMayBeFull
      /\ StrayVerdicts' = StrayVerdicts /\ EnvOK'
  BY <1>0, <1>1, EnvFixed
<1>5. Orderly'
  BY <1>0, <1>1, <1>2, <1>4 DEF Orderly, Sent
<1>6. CASE enqueueRequired(repo', p)
  <2> DEFINE q == Append(pelQueue, p)
  <2>1. /\ pelQueue' = q /\ retryCount' = (IF Starts(q) THEN 0 ELSE retryCount)
        /\ dispatcher' = (dispatcher \/ Starts(q))
    BY <1>6 DEF newLogCallback
  <2>2. /\ q \in Seq(PELs) /\ NoDups(q) /\ ToSet(q) = Queued \cup {p}
        /\ q # << >> /\ Len(q) = Len(pelQueue) + 1
    BY <1>0, <1>3, AppendNoDups DEF OnePlace, TypeOK, Queued
  <2> HIDE DEF q
  <2>3. p \notin NoReport
    BY <1>6 DEF enqueueRequired
  <2>4. /\ Starts(q) \in BOOLEAN
        /\ Starts(q) => /\ hostUp /\ ~hostFull /\ ~hostUpTimer /\ inProgressPEL = 0
                        /\ ~cmdInProgress /\ ~retryTimer
    BY DEF Starts
  <2>5. retryCount' \in 0..maxRetryAttempts /\ dispatcher' \in BOOLEAN
    BY <1>0, <2>1, <2>4, NotifierAssumption DEF TypeOK
  <2>6. OnePlace'
    <3>1. TypeOK'
      BY <1>0, <1>1, <1>2, <2>1, <2>2, <2>5 DEF TypeOK
    <3> QED  BY <1>0, <1>1, <1>3, <2>1, <2>2, <3>1 DEF OnePlace, Queued, Sent
  <2>7. OnlyReportable'
    BY <1>0, <1>1, <1>2, <1>4, <2>1, <2>2, <2>3 DEF OnlyReportable, Queued, Sent
  <2>8. RetriesLeft'
    BY <1>0, <1>1, <2>1, <2>4 DEF RetriesLeft
  <2>9. Served'
    <3>1. CASE Starts(q)
      BY <2>1, <3>1 DEF Served
    <3>2. CASE ~Starts(q) /\ ~StrayVerdicts /\ hostUp /\ ~hostFull /\ retryCount < maxRetryAttempts
      <4>1. ~GivesUp(retryCount)
        BY <1>0, <3>2, NotifierAssumption DEF GivesUp, TypeOK
      <4>2. hostUpTimer \/ inProgressPEL # 0 \/ cmdInProgress \/ retryTimer \/ Len(q) # 1
        BY <3>2, <4>1 DEF Starts
      <4>3. Len(q) # 1 => pelQueue # << >>
        BY <1>0, <2>2 DEF TypeOK
      <4>4. cmdInProgress \/ retryTimer \/ hostFullTimer \/ hostUpTimer \/ dispatcher
        BY <1>0, <3>2, <4>2, <4>3 DEF Served, OnePlace
      <4> QED  BY <1>1, <2>1, <4>4 DEF Served
    <3>3. CASE ~Starts(q) /\ ~(~StrayVerdicts /\ hostUp /\ ~hostFull /\ retryCount < maxRetryAttempts)
      BY <1>1, <1>4, <2>1, <3>3 DEF Served
    <3> QED  BY <3>1, <3>2, <3>3
  <2>10. Roomy'
    <3>1. ASSUME ~HostMayBeFull PROVE NoPELLost'
      BY <1>0, <1>1, <1>2, <1>4, <2>1, <2>2, <3>1 DEF Roomy, NoPELLost, Queued
    <3> QED  BY <1>0, <1>1, <1>4, <2>1, <2>4, <3>1 DEF Roomy
  <2> QED  BY <1>1, <1>4, <1>5, <2>6, <2>7, <2>8, <2>9, <2>10 DEF IndInv, StartsWanted
<1>7. CASE ~enqueueRequired(repo', p)
  <2>1. UNCHANGED <<pelQueue, retryCount, dispatcher>>
    BY <1>7 DEF newLogCallback
  <2>2. OnePlace'
    <3>1. TypeOK'
      BY <1>0, <1>1, <1>2, <2>1 DEF TypeOK
    <3> QED  BY <1>0, <1>1, <2>1, <3>1 DEF OnePlace
  <2>3. OnlyReportable'
    BY <1>0, <1>1, <1>2, <1>3, <1>4, <2>1 DEF OnlyReportable, Queued, Sent
  <2>4. RetriesLeft' /\ Served'
    BY <1>0, <1>1, <1>4, <2>1 DEF RetriesLeft, Served
  <2>5. p \in NoReport \cup Hidden
    BY <1>2, <1>7 DEF enqueueRequired
  <2>6. Roomy'
    <3>1. ASSUME ~HostMayBeFull PROVE NoPELLost'
      BY <1>0, <1>1, <1>2, <1>4, <2>1, <2>5, <3>1 DEF Roomy, NoPELLost
    <3> QED  BY <1>0, <1>1, <1>4, <2>1, <3>1 DEF Roomy
  <2> QED  BY <1>1, <1>4, <1>5, <2>2, <2>3, <2>4, <2>6 DEF IndInv, StartsWanted
<1> QED  BY <1>6, <1>7

\* A PEL is deleted; a command for it may still be in progress.
LEMMA DeleteLogKeepsInv ==
    ASSUME IndInv, NEW p \in PELs, deleteLogCallback(p)
    PROVE  IndInv' /\ StartsWanted
<1>0. TypeOK /\ OnePlace /\ OnlyReportable /\ RetriesLeft /\ Served /\ Orderly /\ Roomy /\ EnvOK
  BY DEF IndInv, OnePlace
<1>1. /\ repo' = [repo EXCEPT ![p] = "deleted"]
      /\ pelQueue' = RemoveFirst(pelQueue, p) /\ sentPELs' = RemoveFirst(sentPELs, p)
      /\ UNCHANGED <<hmcAcked, hmcManaged, env, inProgressPEL, cmdInProgress, retryCount>>
      /\ UNCHANGED <<hostFull, retryTimer, hostFullTimer, hostUpTimer, dispatcher, hostUp, told>>
  BY DEF deleteLogCallback, fixed
<1>2. /\ pelQueue' \in Seq(PELs) /\ NoDups(pelQueue') /\ ToSet(pelQueue') = Queued \ {p}
      /\ sentPELs' \in Seq(PELs) /\ NoDups(sentPELs') /\ ToSet(sentPELs') = Sent \ {p}
  BY <1>0, <1>1, RemoveNoDups DEF OnePlace, TypeOK, Queued, Sent
<1>3. pelQueue' # << >> => pelQueue # << >>
  <2>1. pelQueue = << >> => Queued = {}
    BY DEF Queued, ToSet
  <2>2. ToSet(pelQueue') = {} => pelQueue' = << >>
    BY <1>2 DEF ToSet
  <2> QED  BY <1>2, <2>1, <2>2
<1>4. /\ Hidden' = Hidden /\ NoReport' = NoReport /\ HostMayBeFull' = HostMayBeFull
      /\ StrayVerdicts' = StrayVerdicts /\ EnvOK'
  BY <1>0, <1>1, EnvFixed
<1>5. /\ repo' \in [PELs -> States \cup {"none", "deleted"}] /\ repo'[p] = "deleted"
      /\ \A x \in PELs \ {p} : repo'[x] = repo[x]
  BY <1>0, <1>1 DEF TypeOK
<1>6. OnePlace'
  <2>1. TypeOK'
    BY <1>0, <1>1, <1>2, <1>5 DEF TypeOK
  <2> QED  BY <1>0, <1>1, <1>2, <2>1 DEF OnePlace, Queued, Sent
<1>7. OnlyReportable'
  BY <1>0, <1>1, <1>2, <1>4, <1>5 DEF OnlyReportable, Queued, Sent
<1>8. RetriesLeft' /\ Served'
  BY <1>0, <1>1, <1>3, <1>4 DEF RetriesLeft, Served
<1>9. Orderly'
  BY <1>0, <1>1, <1>2, <1>4, <1>5 DEF Orderly, Sent
<1>10. Roomy'
  <2>1. ASSUME ~HostMayBeFull PROVE NoPELLost'
    BY <1>0, <1>1, <1>2, <1>4, <1>5, <2>1 DEF Roomy, NoPELLost, Queued, Sent
  <2> QED  BY <1>0, <1>1, <1>4, <2>1 DEF Roomy
<1> QED  BY <1>1, <1>4, <1>6, <1>7, <1>8, <1>9, <1>10 DEF IndInv, StartsWanted

\* The host comes up.
LEMMA HostUpKeepsInv ==
    ASSUME IndInv, hostStateChangeUp
    PROVE  IndInv' /\ StartsWanted
<1>0. TypeOK /\ OnePlace /\ OnlyReportable /\ RetriesLeft /\ Served /\ Orderly /\ Roomy /\ EnvOK
  BY DEF IndInv, OnePlace
<1>1. /\ ~hostUp /\ ~dispatcher /\ hostUp' = TRUE /\ retryCount' = 0 /\ hostFull' = FALSE
      /\ hostUpTimer' = (hostUpTimer \/ pelQueue # << >>)
      /\ UNCHANGED <<repo, hmcAcked, hmcManaged, env, pelQueue, sentPELs, inProgressPEL>>
      /\ UNCHANGED <<cmdInProgress, retryTimer, hostFullTimer, dispatcher, told>>
  BY DEF hostStateChangeUp, fixed
<1>2. ~cmdInProgress /\ ~retryTimer
  BY <1>0, <1>1 DEF RetriesLeft
<1>3. /\ Hidden' = Hidden /\ NoReport' = NoReport /\ HostMayBeFull' = HostMayBeFull
      /\ StrayVerdicts' = StrayVerdicts /\ EnvOK'
  BY <1>0, <1>1, EnvFixed
<1>4. OnePlace'
  <2>1. 0 \in 0..maxRetryAttempts /\ hostUpTimer' \in BOOLEAN
    BY <1>0, <1>1, NotifierAssumption DEF TypeOK
  <2>2. TypeOK'
    BY <1>0, <1>1, <2>1 DEF TypeOK
  <2> QED  BY <1>0, <1>1, <2>2 DEF OnePlace
<1>5. OnlyReportable'
  BY <1>0, <1>1, <1>3 DEF OnlyReportable, Queued, Sent
<1>6. RetriesLeft' /\ Served'
  BY <1>1, <1>2 DEF RetriesLeft, Served
<1>7. Orderly'
  BY <1>0, <1>1, <1>3 DEF Orderly, Sent
<1>8. Roomy'
  <2>1. ASSUME ~HostMayBeFull PROVE NoPELLost'
    BY <1>0, <1>1, <1>3, <2>1 DEF Roomy, NoPELLost
  <2> QED  BY <1>0, <1>1, <1>2, <1>3, <2>1 DEF Roomy
<1> QED  BY <1>1, <1>3, <1>4, <1>5, <1>6, <1>7, <1>8 DEF IndInv, StartsWanted

\* The host goes down: all that was on its way is queued again, once.
LEMMA HostDownKeepsInv ==
    ASSUME IndInv, hostStateChangeDown
    PROVE  IndInv' /\ StartsWanted
<1>0. TypeOK /\ OnePlace /\ OnlyReportable /\ RetriesLeft /\ Served /\ Orderly /\ Roomy /\ EnvOK
  BY DEF IndInv, OnePlace
<1> DEFINE head == IF inProgressPEL # 0 THEN <<inProgressPEL>> ELSE << >>
<1>1. /\ ~dispatcher /\ hostUp' = FALSE /\ retryCount' = 0 /\ hostFull' = FALSE
      /\ pelQueue' = head \o pelQueue \o sentPELs /\ sentPELs' = << >>
      /\ inProgressPEL' = 0 /\ cmdInProgress' = FALSE
      /\ repo' = setPELHostTransState(repo, Sent, "new")
      /\ retryTimer' = FALSE /\ hostFullTimer' = FALSE /\ hostUpTimer' = FALSE
      /\ told' = (IF StrayVerdicts THEN told ELSE {})
      /\ UNCHANGED <<hmcAcked, hmcManaged, env, dispatcher>>
  BY DEF hostStateChangeDown, fixed, cancelCmd, Sent
<1>2. /\ head \in Seq(PELs) /\ NoDups(head)
      /\ ToSet(head) = IF inProgressPEL # 0 THEN {inProgressPEL} ELSE {}
  <2>1. CASE inProgressPEL = 0
    BY <2>1 DEF NoDups, ToSet
  <2>2. CASE inProgressPEL # 0
    <3>1. inProgressPEL \in PELs /\ head = <<inProgressPEL>>
      BY <1>0, <2>2 DEF TypeOK
    <3> QED  BY <2>2, <3>1 DEF NoDups, ToSet
  <2> QED  BY <2>1, <2>2
<1> HIDE DEF head
<1>3. /\ head \o pelQueue \in Seq(PELs) /\ NoDups(head \o pelQueue)
      /\ ToSet(head \o pelQueue) = ToSet(head) \cup Queued
  <2>1. ToSet(head) \cap ToSet(pelQueue) = {}
    BY <1>0, <1>2 DEF OnePlace
  <2> QED  BY <1>0, <1>2, <2>1, ConcatNoDups DEF OnePlace, TypeOK, Queued
<1>4. /\ pelQueue' \in Seq(PELs) /\ NoDups(pelQueue')
      /\ ToSet(pelQueue') = ToSet(head) \cup Queued \cup Sent
  <2>1. ToSet(head \o pelQueue) \cap ToSet(sentPELs) = {}
    BY <1>0, <1>2, <1>3 DEF OnePlace, Queued
  <2> DEFINE h == head \o pelQueue
  <2>2. h \in Seq(PELs) /\ NoDups(h) /\ ToSet(h) = ToSet(head) \cup Queued
        /\ ToSet(h) \cap ToSet(sentPELs) = {}
    BY <1>3, <2>1
  <2>3. pelQueue' = h \o sentPELs
    BY <1>1
  <2> HIDE DEF h
  <2>4. sentPELs \in Seq(PELs) /\ NoDups(sentPELs)
    BY <1>0 DEF OnePlace, TypeOK
  <2>5. /\ h \o sentPELs \in Seq(PELs) /\ NoDups(h \o sentPELs)
        /\ ToSet(h \o sentPELs) = ToSet(h) \cup ToSet(sentPELs)
    BY <2>2, <2>4, ConcatNoDups
  <2> QED  BY <2>2, <2>3, <2>5 DEF Sent
<1>5. /\ Hidden' = Hidden /\ NoReport' = NoReport /\ HostMayBeFull' = HostMayBeFull
      /\ StrayVerdicts' = StrayVerdicts /\ EnvOK'
  BY <1>0, <1>1, EnvFixed
<1>6. /\ repo' \in [PELs -> States \cup {"none", "deleted"}]
      /\ \A x \in PELs : /\ repo'[x] = "none" <=> repo[x] = "none"
                         /\ repo'[x] = "acked" => repo[x] = "acked"
                         /\ repo'[x] \in {"new", "sent"} => x \in Sent \/ repo'[x] = repo[x]
  BY <1>0, <1>1 DEF setPELHostTransState, TypeOK, States
<1>7. << >> \in Seq(PELs) /\ NoDups(<< >>) /\ ToSet(<< >>) = {} /\ 0 \notin PELs
  BY NotifierAssumption DEF NoDups, ToSet, PELs
<1>8. OnePlace'
  <2>1. 0 \in 0..maxRetryAttempts
    BY NotifierAssumption
  <2>2. TypeOK'
    BY <1>0, <1>1, <1>4, <1>6, <1>7, <2>1 DEF TypeOK
  <2>3. 0 \notin ToSet(pelQueue') \cup ToSet(sentPELs')
    BY <1>1, <1>4, <1>7 DEF ToSet
  <2> QED  BY <1>1, <1>4, <1>7, <2>2, <2>3 DEF OnePlace
<1>9. OnlyReportable'
  BY <1>0, <1>1, <1>2, <1>4, <1>5, <1>6, <1>7 DEF OnlyReportable, Queued, Sent
<1>10. RetriesLeft' /\ Served'
  BY <1>1 DEF RetriesLeft, Served
<1>11. Orderly'
  BY <1>1, <1>5, <1>7 DEF Orderly, Sent
<1>12. Roomy'
  <2>1. ASSUME ~HostMayBeFull PROVE NoPELLost'
    <3>1. ASSUME NEW x \in PELs \ (NoReport \cup Hidden), repo'[x] \in {"new", "sent"}
          PROVE  x \in ToSet(pelQueue')
      <4>1. x \in Sent \/ repo[x] \in {"new", "sent"}
        BY <1>6, <3>1
      <4>2. x \in Sent \/ x \in Queued \/ x = inProgressPEL
        BY <1>0, <2>1, <3>1, <4>1 DEF Roomy, NoPELLost, Queued, Sent
      <4> QED  BY <1>2, <1>4, <1>7, <3>1, <4>2
    <3> QED  BY <1>5, <3>1 DEF NoPELLost
  <2> QED  BY <1>0, <1>1, <1>5, <2>1 DEF Roomy
<1> QED  BY <1>1, <1>5, <1>8, <1>9, <1>10, <1>11, <1>12 DEF IndInv, StartsWanted

\* The host's verdicts, early, late or in order.
LEMMA VerdictsKeepInv ==
    ASSUME IndInv, NEW p \in PELs, ackPEL(p) \/ setHostFull(p) \/ setBadPEL(p)
    PROVE  IndInv' /\ StartsWanted
<1>0. TypeOK /\ OnePlace /\ OnlyReportable /\ RetriesLeft /\ Served /\ Orderly /\ Roomy /\ EnvOK
  BY DEF IndInv, OnePlace
<1>1. /\ ~dispatcher /\ p \in told /\ (StrayVerdicts \/ p # inProgressPEL) /\ Known(p)
      /\ told' = told \ {p}
      /\ UNCHANGED <<hmcAcked, hmcManaged, env, inProgressPEL, cmdInProgress, retryCount>>
      /\ UNCHANGED <<retryTimer, hostUpTimer, hostUp>>
  BY DEF ackPEL, setHostFull, setBadPEL, Verdict, fixed
<1>2. /\ OffSentList(p) \in Seq(PELs) /\ NoDups(OffSentList(p))
      /\ ToSet(OffSentList(p)) = Sent \ {p}
  BY <1>0, RemoveNoDups DEF OnePlace, TypeOK, OffSentList, Sent
<1>3. /\ Hidden' = Hidden /\ NoReport' = NoReport /\ HostMayBeFull' = HostMayBeFull
      /\ StrayVerdicts' = StrayVerdicts /\ EnvOK'
  BY <1>0, <1>1, EnvFixed
<1>4. ASSUME NEW state \in {"acked", "new", "bad"}
      PROVE  LET r == setPELHostTransState(repo, {p}, state)
             IN  /\ r \in [PELs -> States \cup {"none", "deleted"}] /\ r[p] = state
                 /\ \A x \in PELs \ {p} : r[x] = repo[x]
  BY <1>0, <1>1, <1>4 DEF setPELHostTransState, TypeOK, States, Known
<1>5. RetriesLeft'
  BY <1>0, <1>1 DEF RetriesLeft
<1>6. CASE ackPEL(p)
  <2>1. /\ repo' = setPELHostTransState(repo, {p}, "acked") /\ sentPELs' = OffSentList(p)
        /\ hostFullTimer' = FALSE /\ hostFull' = FALSE
        /\ dispatcher' = (dispatcher \/ (hostFull /\ pelQueue # << >>))
        /\ pelQueue' = pelQueue
    BY <1>6 DEF ackPEL
  <2>2. /\ repo' \in [PELs -> States \cup {"none", "deleted"}] /\ repo'[p] = "acked"
        /\ \A x \in PELs \ {p} : repo'[x] = repo[x]
    BY <1>4, <2>1
  <2>3. OnePlace'
    <3>1. dispatcher' \in BOOLEAN
      BY <1>0, <2>1 DEF TypeOK
    <3>2. TypeOK'
      BY <1>0, <1>1, <1>2, <2>1, <2>2, <3>1 DEF TypeOK
    <3> QED  BY <1>0, <1>1, <1>2, <2>1, <3>2 DEF OnePlace, Sent
  <2>4. OnlyReportable'
    BY <1>0, <1>1, <1>2, <1>3, <2>1, <2>2 DEF OnlyReportable, Queued, Sent
  <2>5. Served'
    <3>1. ~StrayVerdicts /\ ~hostFull => ~hostFullTimer
      BY <1>0 DEF Orderly
    <3> QED  BY <1>0, <1>1, <1>3, <2>1, <3>1 DEF Served
  <2>6. Orderly'
    BY <1>0, <1>1, <1>2, <1>3, <2>1, <2>2 DEF Orderly, Sent
  <2>7. Roomy'
    <3>1. ASSUME ~HostMayBeFull PROVE NoPELLost'
      BY <1>0, <1>1, <1>2, <1>3, <2>1, <2>2, <3>1 DEF Roomy, NoPELLost, Sent
    <3> QED  BY <1>0, <1>1, <1>3, <2>1, <3>1 DEF Roomy
  <2> QED  BY <1>1, <1>3, <1>5, <2>3, <2>4, <2>5, <2>6, <2>7 DEF IndInv, StartsWanted
<1>7. CASE setBadPEL(p)
  <2>1. /\ repo' = setPELHostTransState(repo, {p}, "bad") /\ sentPELs' = OffSentList(p)
        /\ UNCHANGED <<pelQueue, hostFull, hostFullTimer, dispatcher>>
    BY <1>7 DEF setBadPEL
  <2>2. /\ repo' \in [PELs -> States \cup {"none", "deleted"}] /\ repo'[p] = "bad"
        /\ \A x \in PELs \ {p} : repo'[x] = repo[x]
    BY <1>4, <2>1
  <2>3. OnePlace'
    <3>1. TypeOK'
      BY <1>0, <1>1, <1>2, <2>1, <2>2 DEF TypeOK
    <3> QED  BY <1>0, <1>1, <1>2, <2>1, <3>1 DEF OnePlace, Sent
  <2>4. OnlyReportable'
    BY <1>0, <1>1, <1>2, <1>3, <2>1, <2>2 DEF OnlyReportable, Queued, Sent
  <2>5. Served'
    BY <1>0, <1>1, <1>3, <2>1 DEF Served
  <2>6. Orderly'
    BY <1>0, <1>1, <1>2, <1>3, <2>1, <2>2 DEF Orderly, Sent
  <2>7. Roomy'
    <3>1. ASSUME ~HostMayBeFull PROVE NoPELLost'
      BY <1>0, <1>1, <1>2, <1>3, <2>1, <2>2, <3>1 DEF Roomy, NoPELLost, Sent
    <3> QED  BY <1>0, <1>1, <1>3, <2>1, <3>1 DEF Roomy
  <2> QED  BY <1>1, <1>3, <1>5, <2>3, <2>4, <2>5, <2>6, <2>7 DEF IndInv, StartsWanted
<1>8. CASE setHostFull(p)
  <2>1. /\ HostMayBeFull /\ hostFull' = TRUE /\ hostFullTimer' = TRUE /\ dispatcher' = dispatcher
    BY <1>8 DEF setHostFull
  <2>2. Served' /\ Roomy'
    BY <1>3, <2>1 DEF Served, Roomy
  <2>3. ~StrayVerdicts => hostUp
    BY <1>0, <1>1 DEF Orderly
  <2>4. CASE p \in Sent
    <3>1. /\ sentPELs' = OffSentList(p) /\ repo' = setPELHostTransState(repo, {p}, "new")
          /\ pelQueue' = PutBack(p, pelQueue) /\ p \notin Queued
      BY <1>0, <1>8, <2>4 DEF setHostFull, OnePlace, Queued, Sent
    <3>2. /\ repo' \in [PELs -> States \cup {"none", "deleted"}] /\ repo'[p] = "new"
          /\ \A x \in PELs \ {p} : repo'[x] = repo[x]
      BY <1>4, <3>1
    <3>3. /\ pelQueue' \in Seq(PELs) /\ NoDups(pelQueue') /\ ToSet(pelQueue') = Queued \cup {p}
      BY <1>0, <3>1, PutBackNoDups DEF OnePlace, TypeOK, Queued
    <3>4. OnePlace'
      <4>1. TypeOK'
        BY <1>0, <1>1, <1>2, <2>1, <3>1, <3>2, <3>3 DEF TypeOK
      <4> QED  BY <1>0, <1>1, <1>2, <2>4, <3>1, <3>3, <4>1 DEF OnePlace, Sent, Queued
    <3>5. OnlyReportable'
      BY <1>0, <1>1, <1>2, <1>3, <2>4, <3>1, <3>2, <3>3 DEF OnlyReportable, Queued, Sent
    <3>6. Orderly'
      BY <1>0, <1>1, <1>2, <1>3, <2>1, <2>3, <3>1, <3>2 DEF Orderly, Sent
    <3> QED  BY <1>1, <1>3, <1>5, <2>2, <3>4, <3>5, <3>6 DEF IndInv, StartsWanted
  <2>5. CASE p \notin Sent
    <3>1. UNCHANGED <<sentPELs, repo, pelQueue>>
      BY <1>8, <2>5 DEF setHostFull, Sent
    <3>2. OnePlace'
      <4>1. TypeOK'
        BY <1>0, <1>1, <2>1, <3>1 DEF TypeOK
      <4> QED  BY <1>0, <1>1, <3>1, <4>1 DEF OnePlace
    <3>3. OnlyReportable'
      BY <1>0, <1>1, <1>3, <3>1 DEF OnlyReportable, Queued, Sent
    <3>4. Orderly'
      BY <1>0, <1>1, <1>3, <2>1, <2>3, <3>1 DEF Orderly, Sent
    <3> QED  BY <1>1, <1>3, <1>5, <2>2, <3>2, <3>3, <3>4 DEF IndInv, StartsWanted
  <2> QED  BY <2>4, <2>5
<1> QED  BY <1>6, <1>7, <1>8
\* An HMC acks a hidden PEL, takes its ack back, comes or goes: the notifier
\* is told of none of it.
LEMMA HMCKeepsInv ==
    ASSUME IndInv, hmcComesOrGoes \/ \E p \in PELs : managementSystemAck(p)
    PROVE  IndInv' /\ StartsWanted
<1>0. TypeOK /\ OnePlace /\ OnlyReportable /\ RetriesLeft /\ Served /\ Orderly /\ Roomy /\ EnvOK
  BY DEF IndInv, OnePlace
<1>1. /\ UNCHANGED <<repo, env, hostUp, told, pelQueue, sentPELs, inProgressPEL, cmdInProgress>>
      /\ UNCHANGED <<retryCount, hostFull, retryTimer, hostFullTimer, hostUpTimer, dispatcher>>
  BY DEF hmcComesOrGoes, managementSystemAck, memory
<1>2. hmcAcked' \subseteq PELs /\ hmcManaged' \in BOOLEAN
  BY <1>0 DEF hmcComesOrGoes, managementSystemAck, TypeOK
<1>3. /\ Hidden' = Hidden /\ NoReport' = NoReport /\ HostMayBeFull' = HostMayBeFull
      /\ StrayVerdicts' = StrayVerdicts /\ EnvOK'
  BY <1>0, <1>1, EnvFixed
<1>4. OnePlace'
  <2>1. TypeOK'
    BY <1>0, <1>1, <1>2 DEF TypeOK
  <2> QED  BY <1>0, <1>1, <2>1 DEF OnePlace
<1>5. OnlyReportable'
  BY <1>0, <1>1, <1>3 DEF OnlyReportable, Queued, Sent
<1>6. RetriesLeft' /\ Served'
  BY <1>0, <1>1, <1>3 DEF RetriesLeft, Served
<1>7. Orderly'
  BY <1>0, <1>1, <1>3 DEF Orderly, Sent
<1>8. Roomy'
  <2>1. ASSUME ~HostMayBeFull PROVE NoPELLost'
    BY <1>0, <1>1, <1>3, <2>1 DEF Roomy, NoPELLost
  <2> QED  BY <1>0, <1>1, <1>3, <2>1 DEF Roomy
<1> QED  BY <1>1, <1>3, <1>4, <1>5, <1>6, <1>7, <1>8 DEF IndInv, StartsWanted

\* The daemon restarts: what the host still has to hear of is queued from the
\* states the repository kept.
LEMMA RestartKeepsInv ==
    ASSUME IndInv, restart
    PROVE  IndInv' /\ StartsWanted
<1>0. TypeOK /\ OnePlace /\ OnlyReportable /\ RetriesLeft /\ Served /\ Orderly /\ Roomy /\ EnvOK
  BY DEF IndInv, OnePlace
<1> DEFINE required == {p \in PELs : enqueueRequired(repo, p)}
<1>1. /\ sentPELs' = << >> /\ inProgressPEL' = 0 /\ cmdInProgress' = FALSE
      /\ retryCount' = 0 /\ hostFull' = FALSE /\ retryTimer' = FALSE /\ hostFullTimer' = FALSE
      /\ dispatcher' = FALSE
      /\ repo' = setPELHostTransState(repo, {p \in PELs : repo[p] = "sent"}, "new")
      /\ UNCHANGED <<hmcAcked, hmcManaged, env, hostUp, told>>
  BY DEF restart, fixed
<1>17. /\ repo' \in [PELs -> States \cup {"none", "deleted"}]
      /\ \A p \in PELs : repo'[p] = IF repo[p] = "sent" THEN "new" ELSE repo[p]
  BY <1>0, <1>1 DEF setPELHostTransState, TypeOK, States
<1>2. PICK q \in [1..Cardinality(required) -> required] :
        /\ ToSet(q) = required
        /\ \A m, n \in DOMAIN q : m < n => q[m] < q[n]
        /\ pelQueue' = q
        /\ hostUpTimer' = (hostUp /\ required # {})
  BY DEF restart
<1>3. Cardinality(required) \in Nat
  <2>1. IsFiniteSet(PELs)
    BY FS_Interval, NotifierAssumption DEF PELs
  <2>2. IsFiniteSet(required)
    BY <2>1, FS_Subset
  <2> QED  BY <2>2, FS_CardinalityType
<1>4. \A p \in required : p \in PELs /\ repo[p] \in {"new", "sent"} /\ p \notin NoReport
  BY DEF enqueueRequired
<1>5. \A p \in PELs \ (NoReport \cup Hidden) : repo[p] \in {"new", "sent"} => p \in required
  BY DEF enqueueRequired
<1>6. required \subseteq Nat
  BY NotifierAssumption DEF PELs
<1> HIDE DEF required
<1>7. pelQueue' \in Seq(PELs) /\ ToSet(pelQueue') = required /\ NoDups(pelQueue')
  <2>1. q \in Seq(PELs)
    <3>1. \A n \in 1..Cardinality(required) : q[n] \in PELs
      BY <1>4
    <3> QED  BY <1>3, <3>1
  <2>2. \A m, n \in DOMAIN q : q[m] = q[n] => m = n
    <3>1. DOMAIN q = 1..Cardinality(required)
      OBVIOUS
    <3>2. \A n \in 1..Cardinality(required) : n \in Nat /\ q[n] \in required
      BY <1>3
    <3>3. \A n \in DOMAIN q : n \in Nat /\ q[n] \in Nat
      BY <1>6, <3>1, <3>2
    <3> QED  BY <1>2, <3>3
  <2> QED  BY <1>2, <2>1, <2>2 DEF NoDups
<1>8. pelQueue' # << >> => required # {}
  <2>1. required = {} => 1 \notin DOMAIN pelQueue'
    BY <1>7 DEF ToSet
  <2>2. pelQueue' # << >> => 1 \in DOMAIN pelQueue'
    BY <1>7
  <2> QED  BY <2>1, <2>2
<1>9. /\ Hidden' = Hidden /\ NoReport' = NoReport /\ HostMayBeFull' = HostMayBeFull
      /\ StrayVerdicts' = StrayVerdicts /\ EnvOK'
  BY <1>0, <1>1, EnvFixed
<1>10. << >> \in Seq(PELs) /\ NoDups(<< >>) /\ ToSet(<< >>) = {} /\ 0 \notin PELs
  BY NotifierAssumption DEF NoDups, ToSet, PELs
<1>11. OnePlace'
  <2>1. 0 \in 0..maxRetryAttempts /\ hostUpTimer' \in BOOLEAN
    BY <1>0, <1>2, NotifierAssumption DEF TypeOK
  <2>2. TypeOK'
    BY <1>0, <1>1, <1>17, <1>7, <1>10, <2>1 DEF TypeOK
  <2>3. 0 \notin required
    BY <1>4, <1>10
  <2> QED  BY <1>1, <1>7, <1>10, <2>2, <2>3 DEF OnePlace
<1>12. OnlyReportable'
  BY <1>0, <1>1, <1>17, <1>4, <1>7, <1>9, <1>10 DEF OnlyReportable, Queued, Sent
<1>13. RetriesLeft' /\ Served'
  BY <1>1, <1>2, <1>8 DEF RetriesLeft, Served
<1>14. Orderly'
  BY <1>0, <1>1, <1>17, <1>9, <1>10 DEF Orderly, Sent
<1>15. Roomy'
  <2>1. NoPELLost'
    BY <1>1, <1>17, <1>5, <1>7, <1>9 DEF NoPELLost
  <2> QED  BY <1>1, <2>1 DEF Roomy
<1> QED  BY <1>1, <1>9, <1>11, <1>12, <1>13, <1>14, <1>15 DEF IndInv, StartsWanted
-----------------------------------------------------------------------------
(* The theorems.                                                           *)

\* The notifier as the constructor leaves it for an empty repository.
LEMMA InitEstablishesInv == Init => IndInv
<1> SUFFICES ASSUME Init PROVE IndInv
  OBVIOUS
<1>1. /\ repo = [p \in PELs |-> "none"] /\ hmcAcked = {} /\ hmcManaged = FALSE
      /\ pelQueue = << >> /\ sentPELs = << >> /\ inProgressPEL = 0 /\ cmdInProgress = FALSE
      /\ retryCount = 0 /\ hostFull = FALSE /\ retryTimer = FALSE /\ hostFullTimer = FALSE
      /\ hostUpTimer = FALSE /\ dispatcher = FALSE /\ hostUp = FALSE /\ told = {}
      /\ EnvOK
  BY NotifierAssumption DEF Init, EnvOK
<1>2. << >> \in Seq(PELs) /\ NoDups(<< >>) /\ ToSet(<< >>) = {} /\ 0 \notin PELs
  BY NotifierAssumption DEF NoDups, ToSet, PELs
<1>3. OnePlace
  <2>1. 0 \in 0..maxRetryAttempts
    BY NotifierAssumption
  <2>2. TypeOK
    BY <1>1, <1>2, <2>1 DEF TypeOK
  <2> QED  BY <1>1, <1>2, <2>2 DEF OnePlace
<1>4. OnlyReportable /\ RetriesLeft /\ Served
  BY <1>1, <1>2 DEF OnlyReportable, RetriesLeft, Served, Queued, Sent
<1>5. Orderly
  BY <1>1, <1>2 DEF Orderly, Sent
<1>6. Roomy
  BY <1>1 DEF Roomy, NoPELLost
<1> QED  BY <1>1, <1>3, <1>4, <1>5, <1>6 DEF IndInv

\* No step of the notifier, the host, the repository or an HMC breaks the
\* invariant, and none starts a command for a PEL that is not wanted.
LEMMA NextKeepsInv ==
    ASSUME IndInv, Next
    PROVE  IndInv' /\ StartsWanted
<1>1. CASE \E p \in PELs : newLogCallback(p) \/ deleteLogCallback(p)
  BY <1>1, NewLogKeepsInv, DeleteLogKeepsInv
<1>2. CASE Callbacks
  BY <1>2, CallbacksKeepInv
<1>3. CASE Responses
  BY <1>3, ResponsesKeepInv
<1>4. CASE hostStateChangeUp
  BY <1>4, HostUpKeepsInv
<1>5. CASE hostStateChangeDown
  BY <1>5, HostDownKeepsInv
<1>6. CASE \E p \in PELs : ackPEL(p) \/ setHostFull(p) \/ setBadPEL(p)
  BY <1>6, VerdictsKeepInv
<1>7. CASE hmcComesOrGoes \/ \E p \in PELs : managementSystemAck(p)
  BY <1>7, HMCKeepsInv
<1>8. CASE restart
  BY <1>8, RestartKeepsInv
<1> QED  BY <1>1, <1>2, <1>3, <1>4, <1>5, <1>6, <1>7, <1>8 DEF Next

\* A step that changes nothing.
LEMMA StutterKeepsInv ==
    ASSUME IndInv, UNCHANGED vars
    PROVE  IndInv' /\ StartsWanted
<1>1. /\ UNCHANGED <<repo, hmcAcked, hmcManaged, env, hostUp, told, pelQueue, sentPELs>>
      /\ UNCHANGED <<inProgressPEL, cmdInProgress, retryCount, hostFull, retryTimer>>
      /\ UNCHANGED <<hostFullTimer, hostUpTimer, dispatcher>>
  BY DEF vars
<1>2. IndInv'
  BY <1>1 DEF IndInv, OnePlace, TypeOK, OnlyReportable, RetriesLeft, Served, Orderly, Roomy,
              NoPELLost, EnvOK, Queued, Sent, Hidden, NoReport, StrayVerdicts, HostMayBeFull
<1> QED  BY <1>1, <1>2 DEF StartsWanted

\* Type correctness, the one place of each PEL, and what the other theorems need
\* hold throughout, for any number of PELs and of retries, whatever the order of
\* timers, responses, verdicts and host state changes, and with restarts.
THEOREM IndInvHolds == Spec => []IndInv
<1>1. IndInv /\ [Next]_vars => IndInv'
  BY NextKeepsInv, StutterKeepsInv
<1> QED  BY <1>1, InitEstablishesInv, PTL DEF Spec

\* OnePlace: the queue, the sent list and the command in progress never hold the
\* same PEL, none holds a PEL twice, and the notifier and the command interface
\* agree on whether a response is due.
THEOREM OnePlaceCorrect == Spec => []OnePlace
<1>1. IndInv => OnePlace
  BY DEF IndInv
<1> QED  BY <1>1, IndInvHolds, PTL

\* RoomyHostLosesNone: a host that is never full hears of every PEL that is for
\* it, however responses, verdicts, reboots and restarts fall.
THEOREM RoomyHostCorrect == Spec => []RoomyHostLosesNone
<1>1. IndInv => RoomyHostLosesNone
  BY DEF IndInv, Roomy, RoomyHostLosesNone
<1> QED  BY <1>1, IndInvHolds, PTL

\* QueueIsServed: with verdicts in order, a queue with a PEL to send is never
\* left without a command, a timer or a dispatch that will look at it.
THEOREM QueueServedCorrect == Spec => []QueueIsServed
<1>1. IndInv => QueueIsServed
  <2>1. ASSUME pelQueue = << >> PROVE ~\E n \in DOMAIN pelQueue : notifyRequired(repo, pelQueue[n])
    BY <2>1
  <2> QED  BY <2>1 DEF IndInv, Served, QueueIsServed
<1> QED  BY <1>1, IndInvHolds, PTL
\* What setPELHostTransState() leaves alone.
LEMMA TransStateKeeps ==
    ASSUME NEW S, NEW state, NEW x \in PELs, x \notin S \/ repo[x] \notin States
    PROVE  setPELHostTransState(repo, S, state)[x] = repo[x]
BY DEF setPELHostTransState

\* A deleted PEL does not come back; and a host that answers in order, having
\* acked a PEL, answers for it no more and is not sent it again.
LEMMA RepoSteps ==
    ASSUME IndInv, Next, NEW x \in PELs
    PROVE  /\ repo[x] = "deleted" => repo'[x] = "deleted"
           /\ ~StrayVerdicts /\ repo[x] = "acked" => repo'[x] \in {"acked", "deleted"}
<1>0. TypeOK /\ Orderly
  BY DEF IndInv, OnePlace
<1>1. CASE repo' = repo
  BY <1>1
<1>2. ASSUME NEW p \in PELs, newLogCallback(p) PROVE repo[x] \in {"deleted", "acked"} => repo'[x] = repo[x]
  BY <1>0, <1>2 DEF newLogCallback, TypeOK
<1>3. ASSUME NEW p \in PELs, deleteLogCallback(p) PROVE repo'[x] \in {repo[x], "deleted"}
  BY <1>0, <1>3 DEF deleteLogCallback, TypeOK
<1> DEFINE Stays(S) == ~StrayVerdicts /\ repo[x] = "acked" => x \notin S
           Sets(S) == \E state : repo' = setPELHostTransState(repo, S, state)
<1>4. ASSUME NEW S, Stays(S), Sets(S)
      PROVE  /\ repo[x] = "deleted" => repo'[x] = repo[x]
             /\ ~StrayVerdicts /\ repo[x] = "acked" => repo'[x] = repo[x]
  <2>1. "deleted" \notin States
    BY DEF States
  <2> QED  BY <1>4, <2>1, TransStateKeeps
<1>5. CASE commandResponseSuccess
  <2>1. Sets({inProgressPEL})
    BY <1>5 DEF commandResponseSuccess
  <2>2. Stays({inProgressPEL})
    BY <1>0 DEF Orderly
  <2> HIDE DEF Sets, Stays
  <2> QED  BY <1>4, <2>1, <2>2
<1>6. CASE hostStateChangeDown
  <2>1. Sets(ToSet(sentPELs))
    BY <1>6 DEF hostStateChangeDown
  <2>2. Stays(ToSet(sentPELs))
    BY <1>0 DEF Orderly, Sent
  <2> HIDE DEF Sets, Stays
  <2> QED  BY <1>4, <2>1, <2>2
<1>7. ASSUME NEW p \in PELs, ackPEL(p) \/ setHostFull(p) \/ setBadPEL(p)
      PROVE  /\ repo[x] = "deleted" => repo'[x] = repo[x]
             /\ ~StrayVerdicts /\ repo[x] = "acked" => repo'[x] = repo[x]
  <2>1. repo' = repo \/ Sets({p})
    BY <1>7 DEF ackPEL, setHostFull, setBadPEL
  <2>2. Stays({p})
    BY <1>0, <1>7 DEF Orderly, ackPEL, setHostFull, setBadPEL, Verdict
  <2> HIDE DEF Sets, Stays
  <2>3. CASE Sets({p})
    BY <1>4, <2>2, <2>3
  <2>4. CASE repo' = repo
    BY <2>4
  <2> QED  BY <2>1, <2>3, <2>4
<1>8. CASE Callbacks \/ commandResponseFailure \/ hostStateChangeUp \/ hmcComesOrGoes
  <2>1. repo' = repo
    BY <1>8 DEF Callbacks, dispatch, retryTimerExpired, hostFullTimerExpired, hostUpTimerExpired,
                commandResponseFailure, hostStateChangeUp, hmcComesOrGoes
  <2> QED  BY <2>1
<1>9. ASSUME NEW p \in PELs, managementSystemAck(p) PROVE repo' = repo
  BY <1>9 DEF managementSystemAck
<1>10. CASE restart
  <2>1. Sets({p \in PELs : repo[p] = "sent"})
    BY <1>10 DEF restart
  <2>2. Stays({p \in PELs : repo[p] = "sent"})
    OBVIOUS
  <2> HIDE DEF Sets, Stays
  <2> QED  BY <1>4, <2>1, <2>2
<1> QED  BY <1>2, <1>3, <1>5, <1>6, <1>7, <1>8, <1>9, <1>10 DEF Next, Responses

\* SendsOnlyWanted: a command is started only with the host up and not waiting for
\* room, and only for a PEL that exists, is for the host, and is not an HMC's.
THEOREM SendsCorrect == Spec => SendsOnlyWanted
<1>1. ASSUME IndInv, Next, NEW p \in PELs, Begins(p)
      PROVE  /\ hostUp /\ ~hostFullTimer'
             /\ Known(p) /\ p \notin NoReport
             /\ p \in Hidden => p \notin hmcAcked /\ ~hmcManaged
  <2>1. inProgressPEL' = p /\ inProgressPEL # p /\ p # 0
    BY <1>1, NotifierAssumption DEF Begins, PELs
  <2>2. StartsWanted
    BY <1>1, NextKeepsInv
  <2>3. hostUp /\ ~hostFullTimer' /\ p \in Queued /\ notifyRequired(repo', p)
    BY <2>1, <2>2 DEF StartsWanted
  <2>4. repo[p] # "none" /\ p \notin NoReport
    BY <1>1, <2>3 DEF IndInv, OnlyReportable
  <2>5. repo[p] # "deleted"
    BY <1>1, <2>3, RepoSteps DEF notifyRequired
  <2>6. Known(p)
    BY <1>1, <2>4, <2>5 DEF IndInv, OnePlace, TypeOK, Known
  <2> QED  BY <2>3, <2>4, <2>6 DEF notifyRequired
<1>2. ASSUME UNCHANGED vars, NEW p \in PELs PROVE ~Begins(p)
  BY <1>2 DEF vars, Begins
<1>3. IndInv /\ [Next]_vars =>
        [\A p \in PELs : Begins(p) =>
            /\ hostUp /\ ~hostFullTimer'
            /\ Known(p) /\ p \notin NoReport
            /\ p \in Hidden => p \notin hmcAcked /\ ~hmcManaged]_vars
  BY <1>1, <1>2
<1> QED  BY <1>3, IndInvHolds, PTL DEF Spec, SendsOnlyWanted

\* OrderlyAckIsFinal: once a host that answers in order has acked a PEL, nothing
\* sends it again or takes the ack back.
THEOREM OrderlyAckCorrect == Spec => OrderlyAckIsFinal
<1>1. ASSUME IndInv, Next, ~StrayVerdicts, NEW p \in PELs, repo[p] = "acked"
      PROVE  repo'[p] \in {"acked", "deleted"} /\ ~Begins(p)
  <2>1. repo'[p] \in {"acked", "deleted"}
    BY <1>1, RepoSteps
  <2>2. ASSUME Begins(p) PROVE FALSE
    <3>1. inProgressPEL' = p /\ inProgressPEL # p /\ p # 0
      BY <2>2, NotifierAssumption DEF Begins, PELs
    <3>2. notifyRequired(repo', p)
      BY <1>1, <3>1, NextKeepsInv DEF StartsWanted
    <3> QED  BY <2>1, <3>2 DEF notifyRequired
  <2> QED  BY <2>1, <2>2
<1>2. IndInv /\ [Next]_vars =>
        [~StrayVerdicts => \A p \in PELs : repo[p] = "acked" =>
            repo'[p] \in {"acked", "deleted"} /\ ~Begins(p)]_vars
  BY <1>1
<1> QED  BY <1>2, IndInvHolds, PTL DEF Spec, OrderlyAckIsFinal
=============================================================================
