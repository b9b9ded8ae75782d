---------------------------- MODULE PartsProofs ----------------------------
(***************************************************************************)
(* For any values of the constants: what the parts of MCParts promise,     *)
(* whichever part a behaviour is of.                                       *)
(***************************************************************************)
EXTENDS MCParts, LoopsProofs, FiniteSetTheorems, TLAPS

allVars == <<part, pldmVars, rsyslogVars, journalVars, syncVars, idsVars,
             calloutsVars, pelVars, dataifVars, eventsVars, phalVars>>

\* A step is one of a part that leaves all others alone.
LEMMA OneAtATime ==
  ASSUME [Next]_allVars
  PROVE  /\ PLDM!Next \/ UNCHANGED pldmVars
         /\ Rsyslog!Next \/ UNCHANGED rsyslogVars
         /\ Journal!Next \/ UNCHANGED journalVars
         /\ Sync!Next \/ UNCHANGED syncVars
         /\ Ids!Next \/ UNCHANGED idsVars
         /\ Light!LightNext \/ UNCHANGED calloutsVars
         /\ Pel!Next \/ UNCHANGED pelVars
         /\ Data!Next \/ UNCHANGED dataifVars
         /\ Logger!Next \/ UNCHANGED eventsVars
         /\ PHAL!Next \/ UNCHANGED phalVars
  BY DEF Next, Only, allVars

-----------------------------------------------------------------------------
(* EventLogger.                                                            *)

\* A step of the event logger keeps its queue served.
LEMMA LoggerStep ==
  ASSUME EventsAreServed, Logger!Next
  PROVE  EventsAreServed'
<1> USE DEF EventsAreServed, Logger!EventsAreServed
<1>1. ASSUME NEW e \in Events, Logger!log(e) \/ Logger!logIgnored(e)
      PROVE  EventsAreServed'
  BY <1>1 DEF Logger!log, Logger!logIgnored, Logger!vars
<1>2. CASE Logger!createStarts
  BY <1>2 DEF Logger!createStarts
<1>3. CASE Logger!createEnds
  BY <1>3 DEF Logger!createEnds
<1> QED  BY <1>1, <1>2, <1>3 DEF Logger!Next

\* No error that the PEL code wants to log is forgotten, however many wait and
\* whatever is logged while one is created (EventLogger::log, EventLogger::create).
THEOREM EventsServed == Spec => []EventsAreServed
<1>1. Init => EventsAreServed
  BY DEF Init, Logger!Init, EventsAreServed, Logger!EventsAreServed
<1>2. EventsAreServed /\ [Next]_allVars => EventsAreServed'
  <2> SUFFICES ASSUME EventsAreServed, [Next]_allVars  PROVE EventsAreServed'
    OBVIOUS
  <2>1. CASE Logger!Next
    BY <2>1, LoggerStep
  <2>2. CASE UNCHANGED eventsVars
    BY <2>2 DEF eventsVars, EventsAreServed, Logger!EventsAreServed
  <2> QED  BY <2>1, <2>2, OneAtATime
<1> QED  BY <1>1, <1>2, PTL DEF Spec, allVars

-----------------------------------------------------------------------------
(* ServerConf.                                                             *)

\* Settings a setter accepts or the file gives.
GoodSettings(s) ==
    s \in [addr : Names \cup IPv6 \cup Scoped \cup {Rsyslog!NoAddress},
           port : Ports \cup {0}, proto : Rsyslog!Transports]

\* What can be in the file: one of the lines without a rule, or the rule for good
\* settings, which are those the rule is taken apart to unless their address
\* has a zone; and unless the last change failed, the properties are what the
\* file was written from or what it is read as.
ConfInv ==
    /\ GoodSettings(settings)
    /\ \/ confFile \in {Rsyslog!Null, Rsyslog!Empty, Rsyslog!Comment}
       \/ \E s : GoodSettings(s) /\ confFile = Rsyslog!Config(s)
    /\ \/ diverged
       \/ confFile = Rsyslog!Config(settings)
       \/ settings = Rsyslog!parseConfig(confFile)
    /\ Rsyslog!RsyslogFollowsFile

\* A file without a rule sends the logs nowhere and is read as the defaults.
LEMMA NoRuleFiles ==
  ASSUME NEW c \in {Rsyslog!Null, Rsyslog!Empty, Rsyslog!Comment}
  PROVE  Rsyslog!Target(c) = {} /\ Rsyslog!parseConfig(c) = Rsyslog!Defaults
  BY DEF Rsyslog!Target, Rsyslog!parseConfig, Rsyslog!Parses, Rsyslog!HasRule

\* A rule with its brackets is none of the lines without a rule.
LEMMA RuleIsRule ==
  ASSUME NEW s, NEW b
  PROVE  Rsyslog!HasRule([rule |-> s, brackets |-> b])
<1> DEFINE c == [rule |-> s, brackets |-> b]
<1>1. DOMAIN c = {"rule", "brackets"}
  OBVIOUS
<1>2. \A x : DOMAIN Rsyslog!NoRule(x) = {"rule"}
  BY DEF Rsyslog!NoRule
<1>3. "brackets" # "rule"
  OBVIOUS
<1> HIDE DEF c
<1>4. \A x : c # Rsyslog!NoRule(x)
  BY <1>1, <1>2, <1>3
<1>5. Rsyslog!HasRule(c)
  BY <1>4 DEF Rsyslog!HasRule, Rsyslog!Null, Rsyslog!Empty, Rsyslog!Comment
<1> QED  BY <1>5 DEF c

\* The file that is written for settings sends the logs where they say.
LEMMA ConfigTarget ==
  ASSUME NEW s, GoodSettings(s)
  PROVE  Rsyslog!Target(Rsyslog!Config(s)) = Rsyslog!Wanted(s)
<1>1. CASE s.port # 0 /\ s.addr # Rsyslog!NoAddress
  <2>1. Rsyslog!Config(s) = [rule |-> s, brackets |-> s.addr \in IPv6]
    BY <1>1 DEF Rsyslog!Config, Rsyslog!isIPv6Address
  <2>2. Rsyslog!HasRule(Rsyslog!Config(s))
    BY <2>1, RuleIsRule
  <2> QED  BY <1>1, <2>1, <2>2 DEF Rsyslog!Target, Rsyslog!Wanted
<1>2. CASE ~(s.port # 0 /\ s.addr # Rsyslog!NoAddress)
  BY <1>2 DEF Rsyslog!Config, Rsyslog!Target, Rsyslog!Wanted, Rsyslog!HasRule
<1> QED  BY <1>1, <1>2

\* What is read from that file is the settings it was written for, or the
\* defaults when it has no rule or an address with a zone.
LEMMA ConfigReadBack ==
  ASSUME NEW s, GoodSettings(s)
  PROVE  LET c == Rsyslog!Config(s)
         IN  \/ Rsyslog!parseConfig(c) = s /\ Rsyslog!Target(c) = {s}
             \/ /\ Rsyslog!parseConfig(c) = Rsyslog!Defaults
                /\ Rsyslog!Target(c) = {} \/ (Rsyslog!Target(c) = {s} /\ s.addr \in Scoped)
<1>1. CASE s.port # 0 /\ s.addr # Rsyslog!NoAddress
  <2>1. Rsyslog!Config(s) = [rule |-> s, brackets |-> s.addr \in IPv6]
    BY <1>1 DEF Rsyslog!Config, Rsyslog!isIPv6Address
  <2>2. Rsyslog!HasRule(Rsyslog!Config(s))
    BY <2>1, RuleIsRule
  <2>3. Rsyslog!Target(Rsyslog!Config(s)) = {s}
    BY <2>1, <2>2 DEF Rsyslog!Target
  <2>4. s.addr \in Names \cup IPv6 \/ s.addr \in Scoped
    BY <1>1 DEF GoodSettings
  <2>5. CASE s.addr \in Names \cup IPv6
    <3>1. Rsyslog!Config(s).rule = s /\ Rsyslog!Config(s).brackets = (s.addr \in IPv6)
      BY <2>1
    <3>2. Rsyslog!Parses(Rsyslog!Config(s))
      BY <2>2, <2>5, <3>1, Zenon DEF Rsyslog!Parses
    <3> QED  BY <2>3, <3>1, <3>2 DEF Rsyslog!parseConfig
  <2>6. CASE s.addr \notin Names \cup IPv6
    BY <2>1, <2>2, <2>3, <2>4, <2>6 DEF Rsyslog!parseConfig, Rsyslog!Parses
  <2> QED  BY <2>5, <2>6
<1>2. CASE ~(s.port # 0 /\ s.addr # Rsyslog!NoAddress)
  <2>1. Rsyslog!Config(s) = Rsyslog!Null
    BY <1>2 DEF Rsyslog!Config
  <2> QED  BY <2>1, NoRuleFiles
<1> QED  BY <1>1, <1>2

\* The defaults are good settings that want nothing.
LEMMA DefaultsGood ==
  GoodSettings(Rsyslog!Defaults) /\ Rsyslog!Wanted(Rsyslog!Defaults) = {}
  BY DEF GoodSettings, Rsyslog!Defaults, Rsyslog!Wanted, Rsyslog!Transports

\* Writing the file for good settings, with whatever becomes of it, keeps the
\* invariant (Server::writeConfig).
LEMMA WriteKeeps ==
  ASSUME ConfInv,
         NEW s, GoodSettings(s), Rsyslog!writeConfig(s)
  PROVE  ConfInv'
<1>1. CASE Rsyslog!Written(s)
  BY <1>1 DEF ConfInv, GoodSettings, Rsyslog!Written, Rsyslog!RsyslogFollowsFile
<1>2. CASE Rsyslog!WriteFails(s)
  BY <1>2 DEF ConfInv, GoodSettings, Rsyslog!WriteFails, Rsyslog!RsyslogFollowsFile
<1>3. CASE Rsyslog!RestartFails(s)
  BY <1>3 DEF ConfInv, GoodSettings, Rsyslog!RestartFails, Rsyslog!RsyslogFollowsFile
<1>4. CASE Rsyslog!Dies(s)
  <2>1. GoodSettings(Rsyslog!parseConfig(confFile'))
    BY <1>4, NoRuleFiles, ConfigReadBack, DefaultsGood DEF Rsyslog!Dies
  <2> QED  BY <1>4, <2>1 DEF ConfInv, GoodSettings, Rsyslog!Dies, Rsyslog!RsyslogFollowsFile
<1> QED  BY <1>1, <1>2, <1>3, <1>4 DEF Rsyslog!writeConfig

\* Every step of the daemon and of systemd keeps the invariant.
LEMMA ConfStep ==
  ASSUME ConfInv, Rsyslog!Next
  PROVE  ConfInv'
<1>1. ASSUME NEW a \in Rsyslog!Addresses, Rsyslog!address(a)
      PROVE  ConfInv'
  <2>1. GoodSettings([settings EXCEPT !.addr = a])
    BY <1>1 DEF ConfInv, GoodSettings, Rsyslog!address, Rsyslog!addressValid, Rsyslog!Addresses
  <2> QED  BY <1>1, <2>1, WriteKeeps DEF Rsyslog!address
<1>2. ASSUME NEW p \in Ports \cup {0}, Rsyslog!port(p)
      PROVE  ConfInv'
  <2>1. GoodSettings([settings EXCEPT !.port = p])
    BY DEF ConfInv, GoodSettings
  <2> QED  BY <1>2, <2>1, WriteKeeps DEF Rsyslog!port
<1>3. ASSUME NEW t \in Rsyslog!Transports, Rsyslog!transportProtocol(t)
      PROVE  ConfInv'
  <2>1. GoodSettings([settings EXCEPT !.proto = t])
    BY DEF ConfInv, GoodSettings
  <2> QED  BY <1>3, <2>1, WriteKeeps DEF Rsyslog!transportProtocol
<1>4. CASE Rsyslog!hostnameChanged
  BY <1>4 DEF ConfInv, GoodSettings, Rsyslog!hostnameChanged, Rsyslog!RsyslogFollowsFile
<1>5. CASE Rsyslog!Restart
  <2>1. GoodSettings(Rsyslog!parseConfig(confFile))
    BY NoRuleFiles, ConfigReadBack, DefaultsGood DEF ConfInv
  <2> QED  BY <1>5, <2>1 DEF ConfInv, GoodSettings, Rsyslog!Restart, Rsyslog!RsyslogFollowsFile
<1>6. CASE Rsyslog!RestartUnit
  BY <1>6 DEF ConfInv, GoodSettings, Rsyslog!RestartUnit, Rsyslog!RsyslogFollowsFile
<1> QED  BY <1>1, <1>2, <1>3, <1>4, <1>5, <1>6 DEF Rsyslog!Next

\* With the invariant the logs go where the properties say.
LEMMA ConfTells ==
  ASSUME ConfInv
  PROVE  LogsGoWhereTold
<1> SUFFICES ASSUME ~diverged, \A s \in Rsyslog!Target(confFile) : s.addr \notin Scoped
             PROVE  Rsyslog!Target(confFile) = Rsyslog!Wanted(settings)
  BY DEF ConfInv, LogsGoWhereTold, Rsyslog!PropertiesTellTarget
<1>1. CASE confFile = Rsyslog!Config(settings)
  BY <1>1, ConfigTarget DEF ConfInv
<1>2. CASE settings = Rsyslog!parseConfig(confFile)
  <2>1. CASE confFile \in {Rsyslog!Null, Rsyslog!Empty, Rsyslog!Comment}
    BY <1>2, <2>1, NoRuleFiles, DefaultsGood
  <2>2. ASSUME NEW s, GoodSettings(s), confFile = Rsyslog!Config(s)
        PROVE  Rsyslog!Target(confFile) = Rsyslog!Wanted(settings)
    BY <1>2, <2>2, ConfigReadBack, ConfigTarget, DefaultsGood
  <2> QED  BY <2>1, <2>2 DEF ConfInv
<1> QED  BY <1>1, <1>2 DEF ConfInv

\* After any mix of changes, failures and restarts, remote logging is what the
\* properties say, unless the last change failed or the address has a zone, and
\* rsyslog works with the file or will, unless nobody asked for its restart; for
\* any addresses and ports (Server::address, Server::writeConfig, Server::restore).
THEOREM LogsGoRight ==
  Spec => []LogsGoWhereTold
<1>1. Init => ConfInv
  BY NoRuleFiles, DefaultsGood
  DEF Init, Rsyslog!Init, ConfInv, Rsyslog!RsyslogFollowsFile
<1>2. ConfInv /\ [Next]_allVars => ConfInv'
  <2> SUFFICES ASSUME ConfInv, [Next]_allVars  PROVE ConfInv'
    OBVIOUS
  <2>1. CASE Rsyslog!Next
    BY <2>1, ConfStep
  <2>2. CASE UNCHANGED rsyslogVars
    BY <2>2 DEF rsyslogVars, ConfInv, GoodSettings, Rsyslog!RsyslogFollowsFile
  <2> QED  BY <2>1, <2>2, OneAtATime
<1>3. ConfInv => LogsGoWhereTold
  BY ConfTells
<1> QED  BY <1>1, <1>2, <1>3, PTL DEF Spec, allVars

-----------------------------------------------------------------------------
(* Phal.                                                                   *)

\* The signals that wait are counted, and the cache and the service are right.
PhalInv == jobs \in Nat /\ DIMMCacheIsTrue

\* A question that is answered puts a true answer into the cache, and one that
\* is not leaves it alone (DataInterfaceBase::isDIMM).
LEMMA AnswerIsTrue ==
  ASSUME PhalInv, NEW l \in LocCodes, PHAL!isDIMM(l)
  PROVE  PhalInv'
<1>1. PICK type \in PHAL!getFRUType(l) :
        IF type = "unknown" THEN UNCHANGED locationCache
        ELSE PHAL!addDIMMLocCode(l, type = "DIMM")
  BY DEF PHAL!isDIMM
<1>2. UNCHANGED <<jobs, owed>>
  BY DEF PHAL!isDIMM
<1>3. CASE type = "unknown"
  BY <1>1, <1>2, <1>3 DEF PhalInv, DIMMCacheIsTrue, PHAL!DIMMCacheIsTrue
<1>4. CASE type # "unknown"
  <2>1. type = IF l \in DIMMs THEN "DIMM" ELSE "other"
    BY <1>1, <1>4 DEF PHAL!getFRUType
  <2>2. (type = "DIMM") <=> l \in DIMMs
    BY <2>1
  <2>3. locationCache' = [m \in DOMAIN locationCache \cup {l} |->
                             IF m = l THEN type = "DIMM" ELSE locationCache[m]]
    BY <1>1, <1>4 DEF PHAL!addDIMMLocCode
  <2>4. \A m \in DOMAIN locationCache' :
           (locationCache')[m] = IF m = l THEN type = "DIMM" ELSE locationCache[m]
    BY <2>3, Zenon
  <2>5. DOMAIN locationCache' = DOMAIN locationCache \cup {l}
    BY <2>3
  <2>6. ASSUME NEW m \in DOMAIN locationCache'
        PROVE  (locationCache')[m] <=> m \in DIMMs
    <3>1. CASE m = l
      BY <2>2, <2>4, <3>1, Zenon
    <3>2. CASE m # l
      <4>1. m \in DOMAIN locationCache
        BY <2>5, <3>2
      <4> QED  BY <2>4, <3>2, <4>1, Zenon DEF PhalInv, DIMMCacheIsTrue, PHAL!DIMMCacheIsTrue
    <3> QED  BY <3>1, <3>2
  <2> QED  BY <1>2, <2>6 DEF PhalInv, DIMMCacheIsTrue, PHAL!DIMMCacheIsTrue
<1> QED  BY <1>3, <1>4

\* Every step keeps the cache true and the finished service noticed.
LEMMA PhalStep ==
  ASSUME PhalInv, PHAL!Next
  PROVE  PhalInv'
<1> USE DEF PhalInv, DIMMCacheIsTrue, PHAL!DIMMCacheIsTrue
<1>1. CASE PHAL!construct
  BY <1>1 DEF PHAL!construct
<1>2. CASE PHAL!subscribed
  BY <1>2 DEF PHAL!subscribed
<1>3. CASE PHAL!unsubscribed
  BY <1>3 DEF PHAL!unsubscribed
<1>4. CASE PHAL!RecoverPNOR
  <2>1. owed' = (owed \/ systemdMatch) /\ UNCHANGED locationCache
        /\ jobs' = IF systemdMatch THEN jobs + 1 ELSE jobs
    BY <1>4 DEF PHAL!RecoverPNOR
  <2>2. owed' => owed \/ systemdMatch
    BY <2>1, Zenon
  <2>3. CASE systemdMatch
    <3>1. jobs' = jobs + 1
      BY <2>1, <2>3, Zenon
    <3> QED  BY <2>1, <3>1
  <2>4. CASE ~systemdMatch
    <3>1. jobs' = jobs
      BY <2>1, <2>4, Zenon
    <3> QED  BY <2>1, <2>2, <2>4, <3>1
  <2> QED  BY <2>3, <2>4
<1>5. CASE PHAL!jobRemoved
  BY <1>5 DEF PHAL!jobRemoved
<1>6. CASE PHAL!addAdDetailsForDIMMsCallout
  BY <1>6, AnswerIsTrue DEF PHAL!addAdDetailsForDIMMsCallout
<1>7. CASE PHAL!Restart
  BY <1>7 DEF PHAL!Restart
<1> QED  BY <1>1, <1>2, <1>3, <1>4, <1>5, <1>6, <1>7 DEF PHAL!Next

\* For any location codes and DIMMs: only true answers of PHAL are remembered,
\* and a service that finishes while it is watched is noticed
\* (DataInterfaceBase::isDIMM, DataInterface::subscribeToSystemdSignals).
THEOREM DIMMCacheTrue == Spec => []DIMMCacheIsTrue
<1>1. Init => PhalInv
  BY DEF Init, PHAL!Init, PhalInv, DIMMCacheIsTrue, PHAL!DIMMCacheIsTrue
<1>2. PhalInv /\ [Next]_allVars => PhalInv'
  <2> SUFFICES ASSUME PhalInv, [Next]_allVars  PROVE PhalInv'
    OBVIOUS
  <2>1. CASE PHAL!Next
    BY <2>1, PhalStep
  <2>2. CASE UNCHANGED phalVars
    BY <2>2 DEF phalVars, PhalInv, DIMMCacheIsTrue, PHAL!DIMMCacheIsTrue
  <2> QED  BY <2>1, <2>2, OneAtATime
<1>3. PhalInv => DIMMCacheIsTrue
  BY DEF PhalInv
<1> QED  BY <1>1, <1>2, <1>3, PTL DEF Spec, allVars
-----------------------------------------------------------------------------
(* DataInterface.                                                          *)

BusValues == {"Unspecified", "OSRunning", "NotReady", "Ready"}

Signal == [kind : {"property"}, of : Data!Props, value : BusValues]
          \cup [kind : {"added", "present"}, of : Frus, value : BOOLEAN]

DataTyped ==
    /\ DOMAIN onBus = Data!Props /\ DOMAIN values = Data!Props
    /\ watcher \in [Data!Props -> {"none", "matched", "on"}]
    /\ hostUp \in BOOLEAN
    /\ signals \in Seq(Signal)

\* Signal i of q tells of property p.
TellsOf(q, i, p) == q[i].kind = "property" /\ q[i].of = p

\* The last signal of p that waits has the value on the bus.
LastIsNews(p) ==
    \A i \in DOMAIN signals :
        TellsOf(signals, i, p) /\ (\A j \in DOMAIN signals : TellsOf(signals, j, p) => j <= i)
            => signals[i].value = onBus[p]

\* A property nobody watches has no signals, and before it is read no copy.
WatchersInv ==
    /\ \A p \in Data!Props : LastIsNews(p)
    /\ \A p \in Data!Props : watcher[p] = "none" => ~Data!Waits("property", p)
    /\ \A p \in Data!Props : watcher[p] # "on" => values[p] = Data!Absent
    /\ Data!Started => \A p \in Data!Props : watcher[p] = "on"

\* What the mapper did not list was added after the match for new FRUs.
PlugsInv ==
    /\ plugWatch \notin {"off", "start"} => invIaMatch
    /\ plugWatch \in {"listed", "cleared"} =>
          \A f \in frusOnBus : f \in paths \/ Data!Waits("added", f)

\* The copy of the boot progress, hostUp and what the subscriber was told.
HostKnown ==
    /\ hostUp \in BOOLEAN
    /\ hostUp <=> values["BootProgress"] = "OSRunning"
    /\ Data!Started => told = {hostUp}

\* The other parts of ViewCatchesUp: of the copies and of the FRUs.
CopiesFollow ==
    \A p \in Data!Props :
        watcher[p] = "on" /\ p \notin unreadProps =>
            Data!Waits("property", p) \/ values[p] = onBus[p]

FrusFollow ==
    /\ plugWatch = "idle" /\ ~unlisted =>
          \A f \in frusOnBus : f \in invPresentMatches \/ Data!Waits("added", f)
    /\ frusTold \cap PLDMFrus = {}

DataInv ==
    /\ DataTyped /\ WatchersInv /\ PlugsInv
    /\ CopiesFollow /\ HostKnown /\ FrusFollow
\* What appending to a queue does.
LEMMA Appended ==
  ASSUME NEW S, NEW q \in Seq(S), NEW x \in S
  PROVE  /\ Append(q, x) \in Seq(S)
         /\ Len(q) \in Nat /\ DOMAIN q = 1..Len(q)
         /\ DOMAIN Append(q, x) = 1..(Len(q) + 1)
         /\ \A i \in 1..Len(q) : Append(q, x)[i] = q[i]
         /\ Append(q, x)[Len(q) + 1] = x
  OBVIOUS

\* What taking the head off a queue does.
LEMMA Taken ==
  ASSUME NEW S, NEW q \in Seq(S), q # <<>>
  PROVE  /\ Tail(q) \in Seq(S)
         /\ Len(q) \in Nat \ {0} /\ DOMAIN q = 1..Len(q)
         /\ DOMAIN Tail(q) = 1..(Len(q) - 1)
         /\ \A i \in 1..(Len(q) - 1) : Tail(q)[i] = q[i + 1]
         /\ Head(q) = q[1] /\ q[1] \in S
  OBVIOUS

\* A signal that is sent waits behind those that wait, and is news of the
\* property it tells of.
LEMMA SignalSent ==
  ASSUME DataTyped, NEW s \in Signal, signals' = Append(signals, s)
  PROVE  /\ signals' \in Seq(Signal)
         /\ \A kind, of : Data!Waits(kind, of)' <=>
                Data!Waits(kind, of) \/ (s.kind = kind /\ s.of = of)
         /\ \A p : /\ IF s.kind = "property" /\ s.of = p THEN onBus'[p] = s.value
                      ELSE onBus'[p] = onBus[p] /\ LastIsNews(p)
                   => LastIsNews(p)'
<1> DEFINE n == Len(signals)
<1>1. /\ signals' \in Seq(Signal) /\ n \in Nat
      /\ DOMAIN signals = 1..n /\ DOMAIN signals' = 1..(n + 1)
      /\ \A i \in 1..n : (signals')[i] = signals[i]
      /\ (signals')[n + 1] = s
  BY Appended DEF DataTyped
<1> HIDE DEF n
<1>2. ASSUME NEW kind, NEW of
      PROVE  Data!Waits(kind, of)' <=> Data!Waits(kind, of) \/ (s.kind = kind /\ s.of = of)
  <2>1. Data!Waits(kind, of)' => Data!Waits(kind, of) \/ (s.kind = kind /\ s.of = of)
    <3> SUFFICES ASSUME NEW i \in 1..(n + 1), (signals')[i].kind = kind, (signals')[i].of = of
                 PROVE  Data!Waits(kind, of) \/ (s.kind = kind /\ s.of = of)
      BY <1>1 DEF Data!Waits
    <3>1. i \in 1..n \/ i = n + 1
      BY <1>1
    <3> QED  BY <1>1, <3>1 DEF Data!Waits
  <2>2. Data!Waits(kind, of) => Data!Waits(kind, of)'
    BY <1>1 DEF Data!Waits
  <2>3. s.kind = kind /\ s.of = of => Data!Waits(kind, of)'
    BY <1>1 DEF Data!Waits
  <2> QED  BY <2>1, <2>2, <2>3
<1>3. ASSUME NEW p,
             IF s.kind = "property" /\ s.of = p THEN onBus'[p] = s.value
             ELSE onBus'[p] = onBus[p] /\ LastIsNews(p)
      PROVE  LastIsNews(p)'
  <2> SUFFICES ASSUME NEW i \in 1..(n + 1), TellsOf(signals', i, p),
                      \A j \in 1..(n + 1) : TellsOf(signals', j, p) => j <= i
               PROVE  (signals')[i].value = onBus'[p]
    BY <1>1 DEF LastIsNews
  <2>1. CASE s.kind = "property" /\ s.of = p
    <3>1. i = n + 1
      BY <1>1, <2>1 DEF TellsOf
    <3> QED  BY <1>1, <1>3, <2>1, <3>1
  <2>2. CASE ~(s.kind = "property" /\ s.of = p)
    <3>1. i \in 1..n
      BY <1>1, <2>2 DEF TellsOf
    <3>2. TellsOf(signals, i, p) /\ \A j \in 1..n : TellsOf(signals, j, p) => j <= i
      BY <1>1, <3>1 DEF TellsOf
    <3>3. signals[i].value = onBus[p]
      BY <1>1, <1>3, <2>2, <3>1, <3>2 DEF LastIsNews
    <3> QED  BY <1>1, <1>3, <2>2, <3>1, <3>3
  <2> QED  BY <2>1, <2>2
<1> QED  BY <1>1, <1>2, <1>3

\* When a signal is taken, those behind it still wait; the last about a property
\* stays the last, or had the value on the bus.
LEMMA SignalTaken ==
  ASSUME DataTyped, signals # <<>>, signals' = Tail(signals), onBus' = onBus
  PROVE  /\ signals' \in Seq(Signal) /\ Head(signals) \in Signal
         /\ \A kind, of : Data!Waits(kind, of)' => Data!Waits(kind, of)
         /\ \A kind, of : Data!Waits(kind, of) =>
                \/ Data!Waits(kind, of)'
                \/ Head(signals).kind = kind /\ Head(signals).of = of
         /\ \A p : LastIsNews(p) => LastIsNews(p)'
         /\ \A p : /\ LastIsNews(p) /\ ~Data!Waits("property", p)'
                   /\ Head(signals).kind = "property" /\ Head(signals).of = p
                   => Head(signals).value = onBus[p]
<1> DEFINE n == Len(signals)
<1>1. /\ signals' \in Seq(Signal) /\ n \in Nat \ {0}
      /\ DOMAIN signals = 1..n /\ DOMAIN signals' = 1..(n - 1)
      /\ \A i \in 1..(n - 1) : (signals')[i] = signals[i + 1]
      /\ Head(signals) = signals[1] /\ Head(signals) \in Signal
  BY Taken DEF DataTyped
<1> HIDE DEF n
<1>2. \A kind, of : Data!Waits(kind, of)' => Data!Waits(kind, of)
  BY <1>1 DEF Data!Waits
<1>3. ASSUME NEW kind, NEW of, Data!Waits(kind, of)
      PROVE  Data!Waits(kind, of)' \/ (Head(signals).kind = kind /\ Head(signals).of = of)
  <2>1. PICK i \in 1..n : signals[i].kind = kind /\ signals[i].of = of
    BY <1>1, <1>3 DEF Data!Waits
  <2>2. CASE i = 1
    BY <1>1, <2>1, <2>2
  <2>3. CASE i # 1
    <3>1. i - 1 \in 1..(n - 1) /\ (signals')[i - 1] = signals[i]
      BY <1>1, <2>3
    <3> QED  BY <1>1, <2>1, <3>1 DEF Data!Waits
  <2> QED  BY <2>2, <2>3
<1>4. ASSUME NEW p, LastIsNews(p)
      PROVE  LastIsNews(p)'
  <2> SUFFICES ASSUME NEW i \in 1..(n - 1), TellsOf(signals', i, p),
                      \A j \in 1..(n - 1) : TellsOf(signals', j, p) => j <= i
               PROVE  (signals')[i].value = onBus[p]
    BY <1>1 DEF LastIsNews
  <2>1. TellsOf(signals, i + 1, p) /\ i + 1 \in 1..n
    BY <1>1 DEF TellsOf
  <2>2. ASSUME NEW j \in 1..n, TellsOf(signals, j, p)
        PROVE  j <= i + 1
    <3>1. CASE j = 1
      BY <3>1
    <3>2. CASE j # 1
      <4>1. j - 1 \in 1..(n - 1) /\ (signals')[j - 1] = signals[j]
        BY <1>1, <3>2
      <4>2. TellsOf(signals', j - 1, p)
        BY <2>2, <4>1 DEF TellsOf
      <4> QED  BY <4>1, <4>2
    <3> QED  BY <3>1, <3>2
  <2>3. signals[i + 1].value = onBus[p]
    BY <1>1, <1>4, <2>1, <2>2 DEF LastIsNews
  <2> QED  BY <1>1, <2>3
<1>5. ASSUME NEW p, LastIsNews(p), ~Data!Waits("property", p)',
             Head(signals).kind = "property", Head(signals).of = p
      PROVE  Head(signals).value = onBus[p]
  <2>1. TellsOf(signals, 1, p) /\ 1 \in 1..n
    BY <1>1, <1>5 DEF TellsOf
  <2>2. ASSUME NEW j \in 1..n, TellsOf(signals, j, p)
        PROVE  j <= 1
    <3>1. SUFFICES ASSUME j # 1  PROVE FALSE
      OBVIOUS
    <3>2. j - 1 \in 1..(n - 1) /\ (signals')[j - 1] = signals[j]
      BY <1>1, <3>1
    <3> QED  BY <1>1, <1>5, <2>2, <3>2 DEF TellsOf, Data!Waits
  <2> QED  BY <1>1, <1>5, <2>1, <2>2 DEF LastIsNews
<1> QED  BY <1>1, <1>2, <1>3, <1>4, <1>5
\* A new value reaches the copy, and from there the state of the host and its
\* subscriber (DataInterfaceBase::setHostUp).
LEMMA ValueSet ==
  ASSUME HostKnown, DOMAIN values = Data!Props,
         NEW p \in Data!Props, NEW v, Data!setFunc(p, v)
  PROVE  /\ HostKnown'
         /\ Data!Started' => Data!Started
         /\ DOMAIN values' = Data!Props
         /\ (values')[p] = v
         /\ \A q \in Data!Props \ {p} : (values')[q] = values[q]
         /\ unreadProps' = unreadProps \ {p}
         /\ plugWatch' \in {plugWatch, "start"}
<1>1. /\ DOMAIN values' = Data!Props
      /\ (values')[p] = v
      /\ \A q \in Data!Props \ {p} : (values')[q] = values[q]
      /\ unreadProps' = unreadProps \ {p}
      /\ plugWatch' \in {plugWatch, "start"}
  BY DEF Data!setFunc
<1>2. "BootProgress" \in Data!Props
  BY DEF Data!Props
<1>3. CASE p = "BootProgress"
  <2> DEFINE up == v = "OSRunning"
  <2>1. Data!setHostUp(up)
    BY <1>3 DEF Data!setFunc
  <2>2. up \in BOOLEAN /\ (up <=> (values')["BootProgress"] = "OSRunning")
    BY <1>1, <1>3
  <2> HIDE DEF up
  <2>3. hostUp' = up /\ told' = IF up # hostUp /\ told # {} THEN {up} ELSE told
    BY <2>1 DEF Data!setHostUp
  <2>4. told' # {} => told # {}
    BY <2>3, Zenon
  <2>5. told' # {} => told' = {up}
    <3>1. CASE up = hostUp
      BY <2>3, <3>1, Zenon DEF HostKnown, Data!Started
    <3>2. CASE up # hostUp
      BY <2>3, <3>2, Zenon
    <3> QED  BY <3>1, <3>2
  <2>6. told' # {} => told' = {hostUp'}
    BY <2>3, <2>5, Zenon
  <2>7. hostUp' \in BOOLEAN /\ (hostUp' <=> (values')["BootProgress"] = "OSRunning")
    BY <2>2, <2>3, Zenon
  <2> QED  BY <1>1, <2>4, <2>6, <2>7 DEF HostKnown, Data!Started
<1>4. CASE p # "BootProgress"
  <2>1. UNCHANGED <<hostUp, told>>
    BY <1>4 DEF Data!setFunc
  <2>2. (values')["BootProgress"] = values["BootProgress"]
    BY <1>1, <1>2, <1>4
  <2>3. HostKnown'
    BY <2>1, <2>2, Zenon DEF HostKnown, Data!Started
  <2> QED  BY <1>1, <2>1, <2>3 DEF Data!Started
<1> QED  BY <1>3, <1>4

\* The constructor's steps: a watcher subscribes, then it reads, and the subscriber
\* to the host state comes last (PropertyWatcher, InterfaceWatcher).
LEMMA WatcherSteps ==
  ASSUME DataInv,
         NEW p \in Data!Props, Data!addMatches(p) \/ Data!read(p)
  PROVE  DataInv'
<1>0. DataTyped /\ WatchersInv /\ PlugsInv /\ CopiesFollow /\ HostKnown /\ FrusFollow
  BY DEF DataInv
<1>1. CASE Data!addMatches(p)
  <2>1. /\ watcher[p] = "none" /\ watcher' = [watcher EXCEPT ![p] = "matched"]
        /\ UNCHANGED <<onBus, unreadProps, values, hostUp, told, signals>>
        /\ UNCHANGED <<frusOnBus, plugWatch, paths, unlisted, invIaMatch, invPresentMatches, frusTold>>
    BY <1>1 DEF Data!addMatches, Data!fruVars
  <2>2. \A q \in Data!Props : (watcher')[q] = IF q = p THEN "matched" ELSE watcher[q]
    BY <1>0, <2>1 DEF DataTyped
  <2>3. DataTyped'
    BY <1>0, <2>1 DEF DataTyped
  <2>4. ~Data!Started
    BY <1>0, <2>1 DEF WatchersInv
  <2>5. WatchersInv'
    BY <1>0, <2>1, <2>2, <2>4 DEF WatchersInv, LastIsNews, Data!Waits, Data!Started
  <2>6. CopiesFollow'
    BY <1>0, <2>1, <2>2 DEF CopiesFollow, Data!Waits
  <2>7. PlugsInv' /\ FrusFollow'
    BY <1>0, <2>1 DEF PlugsInv, FrusFollow, Data!Waits
  <2>8. HostKnown'
    BY <1>0, <2>1, Zenon DEF HostKnown, Data!Started
  <2> QED  BY <2>3, <2>5, <2>6, <2>7, <2>8 DEF DataInv
<1>2. CASE Data!read(p)
  <2>1. /\ watcher[p] = "matched" /\ watcher' = [watcher EXCEPT ![p] = "on"]
        /\ UNCHANGED <<onBus, signals, frusOnBus, paths, unlisted, invIaMatch, invPresentMatches, frusTold>>
    BY <1>2 DEF Data!read
  <2>2. \A q \in Data!Props : (watcher')[q] = IF q = p THEN "on" ELSE watcher[q]
    BY <1>0, <2>1 DEF DataTyped
  <2>3. ~Data!Started
    BY <1>0, <2>1 DEF WatchersInv
  <2>4. /\ \/ /\ (values')[p] = onBus[p]
              /\ unreadProps' \in {unreadProps, unreadProps \ {p}}
           \/ values' = values /\ unreadProps' = unreadProps \cup {p}
        /\ \A q \in Data!Props \ {p} : (values')[q] = values[q]
        /\ DOMAIN values' = Data!Props
        /\ plugWatch' \in {plugWatch, "start"}
        /\ HostKnown' /\ (Data!Started' => Data!Started)
    <3>1. CASE onBus[p] # Data!Absent /\ unreadProps' = unreadProps \cup {p}
               /\ UNCHANGED <<values, hostUp, told, plugWatch>>
      <4>1. HostKnown' /\ (Data!Started' => Data!Started)
        BY <1>0, <3>1, Zenon DEF HostKnown, Data!Started
      <4> QED  BY <1>0, <3>1, <4>1 DEF DataTyped
    <3>2. CASE Data!Read(p, onBus[p]) /\ onBus[p] = Data!Absent
      <4>1. UNCHANGED <<values, unreadProps, hostUp, told, plugWatch>>
        BY <3>2 DEF Data!Read
      <4>2. values[p] = onBus[p]
        BY <1>0, <2>1, <3>2 DEF WatchersInv
      <4>3. HostKnown' /\ (Data!Started' => Data!Started)
        BY <1>0, <4>1, Zenon DEF HostKnown, Data!Started
      <4> QED  BY <1>0, <4>1, <4>2, <4>3 DEF DataTyped
    <3>3. CASE Data!Read(p, onBus[p]) /\ onBus[p] # Data!Absent
      <4>1. Data!setFunc(p, onBus[p])
        BY <3>3 DEF Data!Read
      <4> QED  BY <1>0, <4>1, ValueSet DEF DataTyped
    <3> QED  BY <1>2, <3>1, <3>2, <3>3 DEF Data!read
  <2>5. DataTyped'
    BY <1>0, <2>1, <2>4 DEF DataTyped, HostKnown
  <2>6. WatchersInv'
    BY <1>0, <2>1, <2>2, <2>3, <2>4 DEF WatchersInv, LastIsNews, Data!Waits
  <2>7. CopiesFollow'
    BY <1>0, <2>1, <2>2, <2>4 DEF CopiesFollow, Data!Waits
  <2>8. PlugsInv' /\ FrusFollow'
    BY <1>0, <2>1, <2>4 DEF PlugsInv, FrusFollow, Data!Waits
  <2> QED  BY <2>4, <2>5, <2>6, <2>7, <2>8 DEF DataInv
<1> QED  BY <1>1, <1>2
\* The end of the constructor and the steps of startFruPlugWatch: what is added
\* after the match for new FRUs is made waits as a signal, so that listing the
\* FRUs, dropping the old matches and making those of the list misses none.
LEMMA PlugSteps ==
  ASSUME DataInv,
         \/ Data!subscribeToHostStateChange
         \/ Data!addIaMatch \/ Data!getPaths \/ Data!clearMatches \/ Data!addHotplugWatches
  PROVE  DataInv'
<1>0. DataTyped /\ WatchersInv /\ PlugsInv /\ CopiesFollow /\ HostKnown /\ FrusFollow
  BY DEF DataInv
<1>1. UNCHANGED <<onBus, watcher, unreadProps, values, hostUp, signals, frusOnBus, frusTold>>
  BY DEF Data!subscribeToHostStateChange, Data!addIaMatch, Data!getPaths,
         Data!clearMatches, Data!addHotplugWatches, Data!fruVars
<1>2. DataTyped' /\ CopiesFollow'
  BY <1>0, <1>1 DEF DataTyped, CopiesFollow, Data!Waits
<1>3. CASE Data!subscribeToHostStateChange
  <2>1. /\ told' = {hostUp} /\ \A p \in Data!Props : watcher[p] = "on"
        /\ UNCHANGED <<plugWatch, paths, unlisted, invIaMatch, invPresentMatches>>
    BY <1>3 DEF Data!subscribeToHostStateChange, Data!fruVars
  <2>2. WatchersInv'
    BY <1>0, <1>1, <2>1 DEF WatchersInv, LastIsNews, Data!Waits
  <2>3. PlugsInv' /\ FrusFollow'
    BY <1>0, <1>1, <2>1 DEF PlugsInv, FrusFollow, Data!Waits
  <2>4. HostKnown'
    BY <1>0, <1>1, <2>1, Zenon DEF HostKnown, Data!Started
  <2> QED  BY <1>2, <2>2, <2>3, <2>4 DEF DataInv
<1>4. CASE Data!addIaMatch \/ Data!getPaths \/ Data!clearMatches \/ Data!addHotplugWatches
  <2>1. told' = told
    BY <1>4 DEF Data!addIaMatch, Data!getPaths, Data!clearMatches, Data!addHotplugWatches
  <2>2. HostKnown'
    BY <1>0, <1>1, <2>1, Zenon DEF HostKnown, Data!Started
  <2>3. WatchersInv'
    BY <1>0, <1>1, <2>1 DEF WatchersInv, LastIsNews, Data!Waits, Data!Started
  <2>4. CASE Data!addIaMatch
    BY <1>0, <1>1, <1>2, <2>2, <2>3, <2>4
    DEF Data!addIaMatch, DataInv, PlugsInv, FrusFollow
  <2>5. CASE Data!getPaths
    BY <1>0, <1>1, <1>2, <2>2, <2>3, <2>5
    DEF Data!getPaths, DataInv, PlugsInv, FrusFollow
  <2>6. CASE Data!clearMatches
    BY <1>0, <1>1, <1>2, <2>2, <2>3, <2>6
    DEF Data!clearMatches, DataInv, PlugsInv, FrusFollow, Data!Waits
  <2>7. CASE Data!addHotplugWatches
    BY <1>0, <1>1, <1>2, <2>2, <2>3, <2>7
    DEF Data!addHotplugWatches, DataInv, PlugsInv, FrusFollow, Data!Waits
  <2> QED  BY <1>4, <2>4, <2>5, <2>6, <2>7
<1> QED  BY <1>3, <1>4

\* A change on the bus is told to who has a match for it.
LEMMA BusSteps ==
  ASSUME DataInv,
         \/ \E p \in Data!Props : Data!PropertyChanges(p)
         \/ \E f \in Frus : Data!FruAdded(f) \/ Data!FruPlugged(f)
  PROVE  DataInv'
<1>0. DataTyped /\ WatchersInv /\ PlugsInv /\ CopiesFollow /\ HostKnown /\ FrusFollow
  BY DEF DataInv
<1>1. ASSUME NEW p \in Data!Props, Data!PropertyChanges(p)
      PROVE  DataInv'
  <2>1. PICK v \in Data!Values(p) :
           /\ onBus' = [onBus EXCEPT ![p] = v]
           /\ IF watcher[p] = "none" THEN UNCHANGED signals
              ELSE signals' = Append(signals, [kind |-> "property", of |-> p, value |-> v])
    BY <1>1 DEF Data!PropertyChanges, Data!Send
  <2>2. /\ UNCHANGED <<watcher, unreadProps, values, hostUp, told>>
        /\ UNCHANGED <<frusOnBus, plugWatch, paths, unlisted, invIaMatch, invPresentMatches, frusTold>>
    BY <1>1 DEF Data!PropertyChanges, Data!fruVars
  <2>3. /\ DOMAIN onBus' = Data!Props /\ onBus'[p] = v
        /\ \A q \in Data!Props \ {p} : onBus'[q] = onBus[q]
    BY <1>0, <2>1 DEF DataTyped
  <2>4. HostKnown'
    BY <1>0, <2>2, Zenon DEF HostKnown, Data!Started
  <2>5. CASE watcher[p] = "none"
    <3>1. signals' = signals
      BY <2>1, <2>5
    <3>2. DataTyped'
      BY <1>0, <2>2, <2>3, <3>1 DEF DataTyped
    <3>3. WatchersInv'
      <4>1. ASSUME NEW q \in Data!Props  PROVE LastIsNews(q)'
        <5>1. CASE q = p
          BY <1>0, <2>5, <3>1, <5>1 DEF WatchersInv, Data!Waits, LastIsNews, TellsOf
        <5>2. CASE q # p
          BY <1>0, <2>3, <3>1, <5>2 DEF WatchersInv, LastIsNews
        <5> QED  BY <5>1, <5>2
      <4> QED  BY <1>0, <2>2, <3>1, <4>1 DEF WatchersInv, Data!Waits, Data!Started
    <3>4. CopiesFollow'
      BY <1>0, <2>2, <2>3, <2>5, <3>1 DEF CopiesFollow, Data!Waits
    <3>5. PlugsInv' /\ FrusFollow'
      BY <1>0, <2>2, <3>1 DEF PlugsInv, FrusFollow, Data!Waits
    <3> QED  BY <2>4, <3>2, <3>3, <3>4, <3>5 DEF DataInv
  <2>6. CASE watcher[p] # "none"
    <3> DEFINE s == [kind |-> "property", of |-> p, value |-> v]
    <3>1. s \in Signal /\ s.kind = "property" /\ s.of = p /\ s.value = v
      BY DEF Signal, Data!Values, BusValues
    <3>2. signals' = Append(signals, s)
      BY <2>1, <2>6
    <3> HIDE DEF s
    <3>3. /\ signals' \in Seq(Signal)
          /\ \A kind, of : Data!Waits(kind, of)' <=>
                Data!Waits(kind, of) \/ (s.kind = kind /\ s.of = of)
          /\ \A q : /\ IF s.kind = "property" /\ s.of = q THEN onBus'[q] = s.value
                       ELSE onBus'[q] = onBus[q] /\ LastIsNews(q)
                    => LastIsNews(q)'
      BY <1>0, <3>1, <3>2, SignalSent
    <3>4. DataTyped'
      BY <1>0, <2>2, <2>3, <3>3 DEF DataTyped
    <3>5. \A q \in Data!Props : LastIsNews(q)'
      BY <1>0, <2>3, <3>1, <3>3 DEF WatchersInv
    <3>6. WatchersInv'
      BY <1>0, <2>2, <2>6, <3>1, <3>3, <3>5 DEF WatchersInv, Data!Started
    <3>7. CopiesFollow'
      BY <1>0, <2>2, <2>3, <3>1, <3>3 DEF CopiesFollow
    <3>8. PlugsInv' /\ FrusFollow'
      BY <1>0, <2>2, <3>3 DEF PlugsInv, FrusFollow
    <3> QED  BY <2>4, <3>4, <3>6, <3>7, <3>8 DEF DataInv
  <2> QED  BY <2>5, <2>6
<1>2. ASSUME NEW f \in Frus, Data!FruAdded(f) \/ Data!FruPlugged(f)
      PROVE  DataInv'
  <2>1. /\ UNCHANGED <<onBus, watcher, unreadProps, values, hostUp, told>>
        /\ UNCHANGED <<plugWatch, paths, unlisted, invIaMatch, invPresentMatches, frusTold>>
        /\ frusOnBus' \in {frusOnBus, frusOnBus \cup {f}}
        /\ \/ signals' = signals /\ (frusOnBus' = frusOnBus \/ ~invIaMatch)
           \/ \E present \in BOOLEAN :
                 signals' = Append(signals, [kind |-> "added", of |-> f, value |-> present])
           \/ /\ signals' = Append(signals, [kind |-> "present", of |-> f, value |-> TRUE])
              /\ frusOnBus' = frusOnBus
    BY <1>2 DEF Data!FruAdded, Data!FruPlugged, Data!Send, Data!fruVars
  <2>2. HostKnown'
    BY <1>0, <2>1, Zenon DEF HostKnown, Data!Started
  <2>3. CASE signals' = signals /\ (frusOnBus' = frusOnBus \/ ~invIaMatch)
    <3>1. DataTyped' /\ CopiesFollow'
      BY <1>0, <2>1, <2>3 DEF DataTyped, CopiesFollow, Data!Waits
    <3>2. WatchersInv'
      BY <1>0, <2>1, <2>3 DEF WatchersInv, LastIsNews, Data!Waits, Data!Started
    <3>3. PlugsInv' /\ FrusFollow'
      BY <1>0, <2>1, <2>3 DEF PlugsInv, FrusFollow, Data!Waits
    <3> QED  BY <2>2, <3>1, <3>2, <3>3 DEF DataInv
  <2>4. ASSUME NEW s \in Signal, signals' = Append(signals, s), s.of = f,
               \/ s.kind = "added"
               \/ s.kind = "present" /\ frusOnBus' = frusOnBus
        PROVE  DataInv'
    <3>1. /\ signals' \in Seq(Signal)
          /\ \A kind, of : Data!Waits(kind, of)' <=>
                Data!Waits(kind, of) \/ (s.kind = kind /\ s.of = of)
          /\ \A q : /\ IF s.kind = "property" /\ s.of = q THEN onBus'[q] = s.value
                       ELSE onBus'[q] = onBus[q] /\ LastIsNews(q)
                    => LastIsNews(q)'
      BY <1>0, <2>4, SignalSent
    <3>2. s.kind # "property"
      BY <2>4
    <3>3. DataTyped'
      BY <1>0, <2>1, <3>1 DEF DataTyped
    <3>4. \A q \in Data!Props : LastIsNews(q)'
      BY <1>0, <2>1, <3>1, <3>2 DEF WatchersInv
    <3>5. WatchersInv'
      BY <1>0, <2>1, <3>1, <3>2, <3>4 DEF WatchersInv, Data!Started
    <3>6. CopiesFollow'
      BY <1>0, <2>1, <3>1 DEF CopiesFollow
    <3>7. PlugsInv' /\ FrusFollow'
      BY <1>0, <2>1, <2>4, <3>1 DEF PlugsInv, FrusFollow
    <3> QED  BY <2>2, <3>3, <3>5, <3>6, <3>7 DEF DataInv
  <2>5. ASSUME NEW present \in BOOLEAN,
               signals' = Append(signals, [kind |-> "added", of |-> f, value |-> present])
        PROVE  DataInv'
    <3> DEFINE s == [kind |-> "added", of |-> f, value |-> present]
    <3>1. s \in Signal /\ s.kind = "added" /\ s.of = f
      BY DEF Signal
    <3> HIDE DEF s
    <3>2. signals' = Append(signals, s)
      BY <2>5 DEF s
    <3> QED  BY <2>4, <3>1, <3>2
  <2>6. CASE /\ signals' = Append(signals, [kind |-> "present", of |-> f, value |-> TRUE])
             /\ frusOnBus' = frusOnBus
    <3> DEFINE s == [kind |-> "present", of |-> f, value |-> TRUE]
    <3>1. s \in Signal /\ s.kind = "present" /\ s.of = f
      BY DEF Signal
    <3> HIDE DEF s
    <3>2. signals' = Append(signals, s)
      BY <2>6 DEF s
    <3> QED  BY <2>4, <2>6, <3>1, <3>2
  <2> QED  BY <2>1, <2>3, <2>5, <2>6
<1> QED  BY <1>1, <1>2
\* A handler takes its signal off the queue: the copy of the property gets the
\* value that was sent, a new FRU its match, and PLDM's FRUs are not told of
\* (propChanged, inventoryIfaceAdded, presenceChanged).
LEMMA HandlerSteps ==
  ASSUME DataInv,
         Data!propChanged \/ Data!inventoryIfaceAdded \/ Data!presenceChanged
  PROVE  DataInv'
<1>0. DataTyped /\ WatchersInv /\ PlugsInv /\ CopiesFollow /\ HostKnown /\ FrusFollow
  BY DEF DataInv
<1> DEFINE s == Head(signals)
<1>1. /\ signals # <<>> /\ signals' = Tail(signals) /\ Data!Started
      /\ UNCHANGED <<onBus, watcher, frusOnBus, paths, unlisted, invIaMatch>>
  BY DEF Data!propChanged, Data!inventoryIfaceAdded, Data!presenceChanged, Data!Handles
<1>2. /\ signals' \in Seq(Signal) /\ s \in Signal
      /\ \A kind, of : Data!Waits(kind, of)' => Data!Waits(kind, of)
      /\ \A kind, of : Data!Waits(kind, of) =>
             Data!Waits(kind, of)' \/ (s.kind = kind /\ s.of = of)
      /\ \A p : LastIsNews(p) => LastIsNews(p)'
      /\ \A p : /\ LastIsNews(p) /\ ~Data!Waits("property", p)'
                /\ s.kind = "property" /\ s.of = p
                => s.value = onBus[p]
  BY <1>0, <1>1, SignalTaken
<1>3. \A p \in Data!Props : LastIsNews(p)' /\ watcher[p] = "on"
  BY <1>0, <1>1, <1>2 DEF WatchersInv
<1>4. WatchersInv'
  BY <1>1, <1>3 DEF WatchersInv
<1>5. CASE Data!propChanged
  <2>1. /\ s.kind = "property" /\ Data!setFunc(s.of, s.value)
        /\ UNCHANGED <<invPresentMatches, frusTold>>
    BY <1>5 DEF Data!propChanged, Data!Handles
  <2>2. s.of \in Data!Props
    BY <1>2, <2>1 DEF Signal
  <2> HIDE DEF s
  <2>3. /\ HostKnown' /\ DOMAIN values' = Data!Props /\ (values')[s.of] = s.value
        /\ \A q \in Data!Props \ {s.of} : (values')[q] = values[q]
        /\ unreadProps' = unreadProps \ {s.of}
        /\ plugWatch' \in {plugWatch, "start"}
    BY <1>0, <2>1, <2>2, ValueSet DEF DataTyped
  <2>4. DataTyped'
    BY <1>0, <1>1, <1>2, <2>3 DEF DataTyped, HostKnown
  <2>5. ASSUME NEW p \in Data!Props, p \notin unreadProps'
        PROVE  Data!Waits("property", p)' \/ (values')[p] = onBus[p]
    <3>1. CASE p = s.of
      BY <1>0, <1>2, <2>1, <2>3, <3>1 DEF WatchersInv
    <3>2. CASE p # s.of
      BY <1>0, <1>2, <1>3, <2>3, <2>5, <3>2 DEF CopiesFollow
    <3> QED  BY <3>1, <3>2
  <2>6. CopiesFollow'
    BY <1>1, <2>5 DEF CopiesFollow
  <2>7. PlugsInv' /\ FrusFollow'
    BY <1>0, <1>1, <1>2, <2>1, <2>3 DEF PlugsInv, FrusFollow
  <2> QED  BY <1>4, <2>3, <2>4, <2>6, <2>7 DEF DataInv
<1>6. CASE Data!inventoryIfaceAdded \/ Data!presenceChanged
  <2>1. /\ UNCHANGED <<unreadProps, values, hostUp, told, plugWatch>>
        /\ s.kind \in {"added", "present"}
        /\ plugWatch \in {"off", "idle"}
    BY <1>6 DEF Data!inventoryIfaceAdded, Data!presenceChanged, Data!Handles, Data!Idle
  <2>2. /\ invPresentMatches \subseteq invPresentMatches'
        /\ s.kind = "added" => s.of \in invPresentMatches'
        /\ frusTold' = frusTold \/ (frusTold' = frusTold \cup {s.of} /\ s.of \notin PLDMFrus)
    BY <1>6 DEF Data!inventoryIfaceAdded, Data!presenceChanged, Data!Handles,
                Data!notifyPresenceSubscribers, Data!setFruPresent
  <2> HIDE DEF s
  <2>3. HostKnown'
    BY <1>0, <2>1, Zenon DEF HostKnown, Data!Started
  <2>4. DataTyped'
    BY <1>0, <1>1, <1>2, <2>1 DEF DataTyped
  <2>5. CopiesFollow'
    BY <1>0, <1>1, <1>2, <2>1 DEF CopiesFollow
  <2>6. PlugsInv' /\ FrusFollow'
    BY <1>0, <1>1, <1>2, <2>1, <2>2 DEF PlugsInv, FrusFollow
  <2> QED  BY <1>4, <2>3, <2>4, <2>5, <2>6 DEF DataInv
<1> QED  BY <1>5, <1>6

\* For any FRUs and any number of signals that wait: the copies of properties, the
\* subscriber to the host state and the hot plug watches catch up with the bus,
\* whatever changes while the constructor and startFruPlugWatch run
\* (PropertyWatcher, setHostUp, startFruPlugWatch).
THEOREM ViewCorrect == Spec => []ViewCatchesUp
<1>1. Init => DataInv
  <2> SUFFICES ASSUME Init  PROVE DataInv
    OBVIOUS
  <2>1. Data!Init
    BY DEF Init
  <2>2. DataTyped
    <3>1. <<>> \in Seq(Signal)
      OBVIOUS
    <3> QED  BY <2>1, <3>1 DEF Data!Init, DataTyped
  <2>3. signals = <<>> /\ told = {} /\ hostUp = FALSE /\ frusOnBus = {} /\ frusTold = {}
        /\ plugWatch = "off" /\ \A p \in Data!Props : watcher[p] = "none" /\ values[p] = Data!Absent
    BY <2>1 DEF Data!Init
  <2>4. WatchersInv /\ CopiesFollow
    BY <2>3 DEF WatchersInv, LastIsNews, Data!Waits, Data!Started, CopiesFollow
  <2>5. PlugsInv /\ FrusFollow
    BY <2>3 DEF PlugsInv, FrusFollow
  <2>6. HostKnown
    BY <2>3 DEF HostKnown, Data!Started, Data!Absent, Data!Props
  <2> QED  BY <2>2, <2>4, <2>5, <2>6 DEF DataInv
<1>2. DataInv /\ [Next]_allVars => DataInv'
  <2> SUFFICES ASSUME DataInv, [Next]_allVars  PROVE DataInv'
    OBVIOUS
  <2>1. CASE Data!Next
    BY <2>1, WatcherSteps, PlugSteps, BusSteps, HandlerSteps DEF Data!Next
  <2>2. CASE UNCHANGED dataifVars
    <3>1. HostKnown'
      BY <2>2, Zenon DEF dataifVars, DataInv, HostKnown, Data!Started
    <3>2. DataTyped' /\ CopiesFollow'
      BY <2>2 DEF dataifVars, DataInv, DataTyped, CopiesFollow, Data!Waits
    <3>3. WatchersInv'
      BY <2>2 DEF dataifVars, DataInv, WatchersInv, LastIsNews, Data!Waits, Data!Started
    <3>4. PlugsInv' /\ FrusFollow'
      BY <2>2 DEF dataifVars, DataInv, PlugsInv, FrusFollow, Data!Waits
    <3> QED  BY <3>1, <3>2, <3>3, <3>4 DEF DataInv
  <2> QED  BY <2>1, <2>2, OneAtATime
<1>3. DataInv => ViewCatchesUp
  BY Zenon DEF DataInv, ViewCatchesUp, Data!ViewCatchesUp, CopiesFollow, FrusFollow, HostKnown
<1> QED  BY <1>1, <1>2, <1>3, PTL DEF Spec, allVars
-----------------------------------------------------------------------------
(* PEL: the event log and its PEL.                                         *)

\* Is the PEL informational, or was the error recovered?
NoError == Pel!SeverityType(severity) \in {"nonError", "recovered"}

\* The flags the rules give: none but an error is serviced and calls home.
RuledFlags ==
    /\ "report" \in actionFlags
    /\ Pel!SeverityType(severity) = "recovered" => "hidden" \in actionFlags
    /\ NoError => actionFlags \cap {"serviceAction", "callHome"} = {}
    /\ ~NoError => /\ {"serviceAction", "callHome"} \subseteq actionFlags
                   /\ "hidden" \notin actionFlags

\* What is known of a PEL of the BMC while it is made.
LogInv ==
    /\ stage \in {"idle", "fill", "built", "done"}
    /\ stage = "idle" => ~external
    /\ stage # "idle" /\ ~external /\ terminateBit => severity = "critSysTerm"
    /\ stage \in {"built", "done"} /\ ~external /\ ~given => RuledFlags
    /\ LogAgreesWithPEL

\* The rules give such flags, whatever the type of the event (pel_rules::check).
LEMMA RulesGiveFlags ==
  ASSUME NEW type, actionFlags' = Pel!rulesActionFlags(type, severity), severity' = severity
  PROVE  RuledFlags'
<1> DEFINE sev == Pel!SeverityType(severity)
<1>1. CASE sev = "nonError"
  <2>1. actionFlags' \in {{"report"}, {"report", "hidden"}}
    BY <1>1 DEF Pel!rulesActionFlags
  <2> QED  BY <1>1, <2>1 DEF RuledFlags, NoError, Pel!SeverityType
<1>2. CASE sev = "recovered"
  <2>1. actionFlags' = {"report", "hidden"}
    BY <1>2 DEF Pel!rulesActionFlags
  <2> QED  BY <1>2, <2>1 DEF RuledFlags, NoError, Pel!SeverityType
<1>3. CASE sev \notin {"nonError", "recovered"}
  <2>1. actionFlags' = {"report", "serviceAction", "callHome"}
    BY <1>3 DEF Pel!rulesActionFlags
  <2> QED  BY <1>3, <2>1 DEF RuledFlags, NoError, Pel!SeverityType
<1> QED  BY <1>1, <1>2, <1>3

\* An event log is made to agree with a PEL of the BMC in its severity
\* (fixupLogSeverity).
LEMMA SeverityFixed ==
  ASSUME NEW logSev, NEW sev
  PROVE  LET fixed == Pel!fixupLogSeverity(logSev, sev)
         IN  /\ sev \in {"nonError", "recovered"} <=> fixed \in Pel!NonErrorLog
             /\ sev = "critical" => fixed = "Critical"
<1>1. CASE sev \in {"nonError", "recovered"}
  BY <1>1 DEF Pel!fixupLogSeverity, Pel!NonErrorLog
<1>2. CASE sev \notin {"nonError", "recovered"} /\ logSev \in Pel!NonErrorLog
  <2>1. Pel!fixupLogSeverity(logSev, sev) = Pel!convertPELSeverityToOBMC(sev)
    BY <1>2 DEF Pel!fixupLogSeverity
  <2>2. /\ Pel!convertPELSeverityToOBMC(sev) \in {"Warning", "Critical", "Error"}
        /\ sev = "critical" => Pel!convertPELSeverityToOBMC(sev) = "Critical"
    BY <1>2 DEF Pel!convertPELSeverityToOBMC
  <2> QED  BY <1>2, <2>1, <2>2 DEF Pel!NonErrorLog
<1>3. CASE sev \notin {"nonError", "recovered"} /\ logSev \notin Pel!NonErrorLog
  BY <1>3 DEF Pel!fixupLogSeverity, Pel!NonErrorLog
<1> QED  BY <1>1, <1>2, <1>3

\* Publishing a PEL makes its event log agree with it (updateDBusSeverity,
\* createPELEntry, setServiceProviderNotifyFlag).
LEMMA PublishAgrees ==
  ASSUME LogInv, Pel!publish
  PROVE  LogInv'
<1>1. /\ stage = "built" /\ stage' = "done"
      /\ UNCHANGED <<severity, actionFlags, given, external, terminateBit>>
      /\ pelLog' = [severity |-> IF external THEN pelLog.severity
                        ELSE Pel!fixupLogSeverity(pelLog.severity, Pel!SeverityType(severity)),
                    hidden |-> Pel!isHidden(severity, actionFlags),
                    notify |-> "callHome" \in actionFlags]
  BY DEF Pel!publish
<1>2. /\ pelLog'.hidden = Pel!isHidden(severity, actionFlags)
      /\ pelLog'.notify = ("callHome" \in actionFlags)
      /\ ~external => pelLog'.severity =
             Pel!fixupLogSeverity(pelLog.severity, Pel!SeverityType(severity))
  BY <1>1
<1>3. RuledFlags' <=> RuledFlags
  BY <1>1 DEF RuledFlags, NoError
<1>4. ASSUME ~external
      PROVE  /\ NoError <=> pelLog'.severity \in Pel!NonErrorLog
             /\ Pel!SeverityType(severity) = "critical" => pelLog'.severity = "Critical"
  BY <1>2, <1>4, SeverityFixed DEF NoError
<1>5. ASSUME ~external, ~given
      PROVE  pelLog'.hidden = NoError /\ pelLog'.notify = ~NoError
  <2>1. RuledFlags
    BY <1>1, <1>5 DEF LogInv
  <2>2. Pel!isHidden(severity, actionFlags) = NoError
    BY <2>1 DEF RuledFlags, NoError, Pel!isHidden, Pel!SeverityType
  <2>3. ("callHome" \in actionFlags) = ~NoError
    BY <2>1 DEF RuledFlags
  <2> QED  BY <1>2, <2>2, <2>3, Zenon
<1>6. ASSUME ~external, terminateBit
      PROVE  pelLog'.severity = "Critical"
  <2>1. severity = "critSysTerm"
    BY <1>1, <1>6 DEF LogInv
  <2> QED  BY <1>4, <1>6, <2>1 DEF Pel!SeverityType
<1>7. LogAgreesWithPEL'
  BY <1>1, <1>4, <1>5, <1>6, Zenon DEF LogAgreesWithPEL, Pel!LogAgreesWithPEL, NoError
<1> QED  BY <1>1, <1>3, <1>7 DEF LogInv
\* The steps before it, and the next PEL, leave it to that.
LEMMA LogStep ==
  ASSUME LogInv, Pel!Next
  PROVE  LogInv'
<1> USE DEF LogInv, LogAgreesWithPEL, Pel!LogAgreesWithPEL
<1>1. CASE Pel!construct
  <2>1. /\ stage = "idle" /\ stage' = "fill" /\ UNCHANGED external
        /\ terminateBit' = (severity' = "critSysTerm")
    BY <1>1 DEF Pel!construct, Pel!updateTerminateBitInSRCSection
  <2>2. terminateBit' => severity' = "critSysTerm"
    BY <2>1, Zenon
  <2> QED  BY <2>1, <2>2
<1>2. CASE Pel!addUserData \/ Pel!addJournalSections
  BY <1>2 DEF Pel!addUserData, Pel!addJournalSections
<1>3. CASE Pel!checkRulesAndFix
  <2>1. /\ stage = "fill" /\ stage' = "built"
        /\ UNCHANGED <<severity, given, external, terminateBit>>
        /\ ~given => actionFlags' = Pel!rulesActionFlags(eventType, severity)
    BY <1>3 DEF Pel!checkRulesAndFix
  <2>2. ~given => RuledFlags'
    BY <2>1, RulesGiveFlags
  <2> QED  BY <2>1, <2>2
<1>4. ASSUME NEW raw \in RawPELs, Pel!addPEL(raw) \/ Pel!addInvalidPEL(raw)
      PROVE  LogInv'
  <2>1. stage' \in {"built", "done"} /\ external' = TRUE
    BY <1>4 DEF Pel!addPEL, Pel!addInvalidPEL
  <2> QED  BY <2>1
<1>5. CASE Pel!NextPEL
  <2>1. stage' = "idle" /\ external' = FALSE
    BY <1>5 DEF Pel!NextPEL
  <2> QED  BY <2>1
<1> QED  BY <1>1, <1>2, <1>3, <1>4, <1>5, PublishAgrees DEF Pel!Next

\* For any registry, any severities and any PELs from outside: the event log of a
\* PEL the BMC made agrees with it in severity, Hidden and Notify
\* (updateDBusSeverity, checkRulesAndFix, createPELEntry).
THEOREM LogAgrees == Spec => []LogAgreesWithPEL
<1>1. Init => LogInv
  BY DEF Init, Pel!Init, LogInv, LogAgreesWithPEL, Pel!LogAgreesWithPEL
<1>2. LogInv /\ [Next]_allVars => LogInv'
  <2> SUFFICES ASSUME LogInv, [Next]_allVars  PROVE LogInv'
    OBVIOUS
  <2>1. CASE Pel!Next
    BY <2>1, LogStep
  <2>2. CASE UNCHANGED pelVars
    <3>1. UNCHANGED <<stage, severity, actionFlags, given, external, terminateBit, pelLog>>
      BY <2>2 DEF pelVars
    <3> QED  BY <3>1 DEF LogInv, RuledFlags, NoError, LogAgreesWithPEL, Pel!LogAgreesWithPEL
  <2> QED  BY <2>1, <2>2, OneAtATime
<1>3. LogInv => LogAgreesWithPEL
  BY DEF LogInv
<1> QED  BY <1>1, <1>2, <1>3, PTL DEF Spec, allVars
-----------------------------------------------------------------------------
(* PEL: the sections.                                                      *)

\* What the code guarantees of the constants: a section is made of some data
\* (makeFFDCuserDataSection), the fixed sections fit, and the count of all fits
\* its byte; a PEL from outside is a list of sections with the bytes their
\* headers say.
PELConstants ==
    /\ FixedSize \in Nat /\ maxPELSize \in Nat /\ FixedSize <= maxPELSize
    /\ DataSizes \subseteq Nat \ {0}
    /\ MaxUserData \in 0..250
    /\ \A raw \in RawPELs :
          /\ raw.count \in Nat
          /\ \E S : raw.sections \in Seq(S)
          /\ \A i \in 1..Len(raw.sections) :
                raw.sections[i].data \in Nat /\ raw.sections[i].size = 8 + raw.sections[i].data

Section == [size : Nat, data : Nat]

\* A section whose header has the length of its data, in whole words.
SoundSection(s) == s.size = 8 + s.data /\ s.data % 4 = 0 /\ s.data > 0

Overflows(list) == \E i \in DOMAIN list : 8 + list[i].data > 65535

\* A section from outside that can be read back.
ReadBack(s) == Pel!create(s) /\ s.size = 8 + s.data

\* The sections of a PEL of the BMC fit and are sound, or one has overflowed.
SoundSections(list) ==
    \/ Overflows(list)
    \/ Pel!pelSize(list) <= maxPELSize /\ \A i \in DOMAIN list : SoundSection(list[i])

SectionsInv ==
    /\ stage \in {"idle", "fill", "built", "done"}
    /\ stage = "idle" => sections = <<>>
    /\ stage \in {"idle", "fill"} => ~external
    /\ external => \A i \in DOMAIN sections : ReadBack(sections[i])
    /\ ~external =>
          /\ sections \in Seq(Section) /\ Len(sections) <= MaxUserData
          /\ SoundSections(sections)
          /\ stage \in {"built", "done"} => sectionCount = 5 + Len(sections)

\* The sizes of the sections are numbers.
LEMMA SizesAreNumbers ==
  ASSUME NEW list \in Seq(Section), NEW n \in 0..Len(list)
  PROVE  /\ NumbersTo([k \in DOMAIN list |-> list[k].size], n)
         /\ NumbersTo([k \in DOMAIN list |-> 8 + list[k].data], n)
<1>1. ASSUME NEW k \in 1..n
      PROVE  k \in DOMAIN list /\ list[k].size \in Nat /\ list[k].data \in Nat
  <2>1. k \in DOMAIN list /\ list[k] \in Section
    OBVIOUS
  <2> QED  BY <2>1 DEF Section
<1> QED  BY <1>1 DEF NumbersTo

\* The sum of PEL is that of Loops.
LEMMA SumOfPEL == \A x, n : Pel!SumTo(x, n) = SumTo(x, n)
  BY Zenon DEF Pel!SumTo, SumTo

\* The fixed sections alone have their size.
LEMMA SizeOfNone == Pel!pelSize(<<>>) = FixedSize + 0
<1>1. Pel!pelSize(<<>>) = FixedSize + SumTo([k \in DOMAIN <<>> |-> <<>>[k].size], (Len(<<>>) + 1) - 1)
  BY SumOfPEL DEF Pel!pelSize, Pel!populateAt
<1>2. (Len(<<>>) + 1) - 1 = 0
  OBVIOUS
<1> QED  BY <1>1, <1>2, SumOfNone

\* A section more adds its length.
LEMMA SizeGrows ==
  ASSUME FixedSize \in Nat, NEW list \in Seq(Section), NEW s \in Section
  PROVE  /\ Pel!pelSize(list) \in Nat
         /\ Pel!pelSize(Append(list, s)) = Pel!pelSize(list) + s.size
<1> DEFINE n == Len(list)
           x == [k \in DOMAIN list |-> list[k].size]
           y == [k \in DOMAIN Append(list, s) |-> Append(list, s)[k].size]
<1>1. n \in Nat /\ Append(list, s) \in Seq(Section) /\ Len(Append(list, s)) = n + 1
      /\ (n + 1) - 1 = n /\ (n + 1 + 1) - 1 = n + 1
  OBVIOUS
<1>2. Pel!pelSize(list) = FixedSize + SumTo(x, n)
  BY <1>1, SumOfPEL DEF Pel!pelSize, Pel!populateAt
<1>3. Pel!pelSize(Append(list, s)) = FixedSize + SumTo(y, n + 1)
  BY <1>1, SumOfPEL DEF Pel!pelSize, Pel!populateAt
<1>4. NumbersTo(x, n) /\ NumbersTo(y, n + 1)
  <2>1. n \in 0..Len(list) /\ n + 1 \in 0..Len(Append(list, s))
    BY <1>1
  <2> HIDE DEF n
  <2> QED  BY <1>1, <2>1, SizesAreNumbers
<1>5. (\A k \in 1..n : x[k] = y[k]) /\ y[n + 1] = s.size /\ s.size \in Nat
  BY <1>1 DEF Section
<1> HIDE DEF n, x, y
<1>6. SumTo(y, n + 1) = SumTo(y, n) + y[n + 1] /\ SumTo(y, n) \in Nat
  BY <1>1, <1>4, SumGrows
<1>7. SumTo(x, n) = SumTo(y, n)
  BY <1>1, <1>4, <1>5, SameSum
<1> QED  BY <1>2, <1>3, <1>5, <1>6, <1>7

\* With sound sections a reader finds each where it was written.
LEMMA FoundAgain ==
  ASSUME FixedSize \in Nat, NEW list \in Seq(Section),
         \A i \in DOMAIN list : SoundSection(list[i])
  PROVE  /\ \A i \in DOMAIN list : Pel!populateAt(list, i) = Pel!flattenAt(list, i)
         /\ Pel!pelSize(list) = Pel!flattenAt(list, Len(list) + 1)
<1> DEFINE x == [k \in DOMAIN list |-> list[k].size]
           y == [k \in DOMAIN list |-> 8 + list[k].data]
<1>1. ASSUME NEW i \in 1..(Len(list) + 1)
      PROVE  Pel!populateAt(list, i) = Pel!flattenAt(list, i)
  <2>1. i - 1 \in 0..Len(list) /\ i - 1 \in Nat
    OBVIOUS
  <2>2. \A k \in 1..(i - 1) : k \in DOMAIN list
    OBVIOUS
  <2>3. \A k \in 1..(i - 1) : x[k] = y[k]
    BY <2>2 DEF SoundSection
  <2>4. NumbersTo(x, i - 1)
    BY <2>1, SizesAreNumbers
  <2>5. /\ Pel!populateAt(list, i) = FixedSize + SumTo(x, i - 1)
        /\ Pel!flattenAt(list, i) = FixedSize + SumTo(y, i - 1)
    BY SumOfPEL DEF Pel!populateAt, Pel!flattenAt
  <2> HIDE DEF x, y
  <2>6. SumTo(x, i - 1) = SumTo(y, i - 1)
    BY <2>1, <2>3, <2>4, SameSum
  <2> QED  BY <2>5, <2>6
<1>2. Len(list) + 1 \in 1..(Len(list) + 1) /\ DOMAIN list \subseteq 1..(Len(list) + 1)
  OBVIOUS
<1> QED  BY <1>1, <1>2 DEF Pel!pelSize
\* The data of a section is padded to whole words, and the field for its length
\* has 16 bits (UserData::UserData).
LEMMA Padded ==
  ASSUME NEW bytes \in Nat \ {0}
  PROVE  /\ Pel!Pad4(bytes) \in Nat \ {0} /\ Pel!Pad4(bytes) % 4 = 0
         /\ Pel!UserData(bytes) \in Section
         /\ Pel!UserData(bytes).data = Pel!Pad4(bytes)
         /\ Pel!UserData(bytes).size = (8 + Pel!Pad4(bytes)) % 65536
<1>1. Pel!Pad4(bytes) \in Nat \ {0} /\ Pel!Pad4(bytes) % 4 = 0
  BY DEF Pel!Pad4
<1>2. (8 + Pel!Pad4(bytes)) % 65536 \in Nat
  BY <1>1
<1> QED  BY <1>1, <1>2 DEF Pel!UserData, Section

\* Such a section: its length is that of its data, if it has not overflowed.
LEMMA UserDataSound ==
  ASSUME NEW bytes \in Nat \ {0}
  PROVE  LET ud == Pel!UserData(bytes)
         IN  ud \in Section /\ (8 + ud.data <= 65535 => SoundSection(ud))
<1> DEFINE ud == Pel!UserData(bytes)
<1>1. /\ Pel!Pad4(bytes) \in Nat \ {0} /\ Pel!Pad4(bytes) % 4 = 0 /\ ud \in Section
      /\ ud.data = Pel!Pad4(bytes) /\ ud.size = (8 + Pel!Pad4(bytes)) % 65536
  BY Padded
<1> HIDE DEF ud
<1>2. 8 + ud.data <= 65535 => ud.size = 8 + ud.data
  BY <1>1
<1>3. ud \in Section /\ (8 + ud.data <= 65535 => SoundSection(ud))
  BY <1>1, <1>2 DEF SoundSection
<1> QED  BY <1>3 DEF ud

\* A section that fits, and is sound or has overflowed, keeps the list sound.
LEMMA AppendSound ==
  ASSUME FixedSize \in Nat, maxPELSize \in Nat,
         NEW list \in Seq(Section), SoundSections(list), NEW s \in Section,
         8 + s.data <= 65535 => /\ SoundSection(s)
                                /\ Pel!pelSize(list) + s.size <= maxPELSize
  PROVE  SoundSections(Append(list, s))
<1>1. /\ Len(list) \in Nat /\ DOMAIN list = 1..Len(list)
      /\ DOMAIN Append(list, s) = 1..(Len(list) + 1)
      /\ \A i \in 1..Len(list) : Append(list, s)[i] = list[i]
      /\ Append(list, s)[Len(list) + 1] = s
  BY Appended
<1>2. s.data \in Nat
  BY DEF Section
<1>3. CASE Overflows(list)
  BY <1>1, <1>3 DEF SoundSections, Overflows
<1>4. CASE 8 + s.data > 65535
  BY <1>1, <1>4 DEF SoundSections, Overflows
<1>5. CASE ~Overflows(list) /\ ~(8 + s.data > 65535)
  <2>1. SoundSection(s) /\ Pel!pelSize(list) + s.size <= maxPELSize
    BY <1>2, <1>5
  <2>2. Pel!pelSize(Append(list, s)) <= maxPELSize
    BY <2>1, SizeGrows
  <2>3. ASSUME NEW i \in 1..(Len(list) + 1)  PROVE SoundSection(Append(list, s)[i])
    <3>1. i \in 1..Len(list) \/ i = Len(list) + 1
      BY <1>1
    <3> QED  BY <1>1, <1>5, <2>1, <3>1 DEF SoundSections
  <2> QED  BY <1>1, <2>2, <2>3 DEF SoundSections
<1> QED  BY <1>3, <1>4, <1>5

\* A section that is shrunk to the room there is fits, is sound and has data
\* (UserData::shrink).
LEMMA ShrunkFits ==
  ASSUME NEW ud, NEW room \in Int, room >= 12
  PROVE  LET s == Pel!shrink(ud, room)
         IN  s \in Section /\ SoundSection(s) /\ s.size <= room
<1> DEFINE words == (room - 8) \div 4
           s == Pel!shrink(ud, room)
<1>1. words \in Nat \ {0} /\ 4 * words <= room - 8
  OBVIOUS
<1> HIDE DEF words
<1>2. s = [size |-> 8 + 4 * words, data |-> 4 * words]
  BY DEF Pel!shrink, words
<1> HIDE DEF s
<1>3. s.size = 8 + 4 * words /\ s.data = 4 * words /\ s \in Section
  BY <1>1, <1>2 DEF Section
<1>4. (4 * words) % 4 = 0 /\ 4 * words > 0
  BY <1>1
<1>5. s \in Section /\ SoundSection(s) /\ s.size <= room
  BY <1>1, <1>3, <1>4 DEF SoundSection
<1> QED  BY <1>5 DEF s

\* Adding user data keeps the sections sound, be it whole, shrunk or left out
\* (PEL::addUserDataSection).
LEMMA UserDataAdded ==
  ASSUME FixedSize \in Nat, maxPELSize \in Nat,
         NEW list \in Seq(Section), SoundSections(list),
         NEW ud \in Section, 8 + ud.data <= 65535 => SoundSection(ud)
  PROVE  LET r == Pel!addUserDataSection(list, ud)
         IN  /\ r \in Seq(Section) /\ SoundSections(r)
             /\ Len(r) \in {Len(list), Len(list) + 1}
<1> DEFINE room == maxPELSize - Pel!pelSize(list)
           r == Pel!addUserDataSection(list, ud)
<1>1. room \in Int /\ Pel!pelSize(list) \in Nat /\ ud.size \in Nat
  BY SizeGrows DEF Section
<1>2. CASE ud.size <= room
  <2>1. r = Append(list, ud)
    BY <1>2 DEF Pel!addUserDataSection
  <2>2. Pel!pelSize(list) + ud.size <= maxPELSize
    BY <1>1, <1>2
  <2>3. SoundSections(Append(list, ud))
    BY <2>2, AppendSound
  <2> QED  BY <2>1, <2>3
<1>3. CASE ~(ud.size <= room) /\ Pel!canShrink(ud, room)
  <2> DEFINE s == Pel!shrink(ud, room)
  <2>1. r = Append(list, s)
    BY <1>3 DEF Pel!addUserDataSection
  <2>2. room >= 12
    BY <1>3 DEF Pel!canShrink
  <2>3. s \in Section /\ SoundSection(s) /\ s.size <= room
    BY <1>1, <2>2, ShrunkFits
  <2> HIDE DEF s
  <2>4. Pel!pelSize(list) + s.size <= maxPELSize /\ s.size \in Nat
    BY <1>1, <2>3 DEF Section
  <2>5. SoundSections(Append(list, s))
    BY <2>3, <2>4, AppendSound
  <2> QED  BY <2>1, <2>3, <2>5
<1>4. CASE ~(ud.size <= room) /\ ~Pel!canShrink(ud, room)
  BY <1>4 DEF Pel!addUserDataSection
<1> QED  BY <1>2, <1>3, <1>4
\* A section the BMC fills in with system information can still be read
\* (ExtendedUserData::updateDataSection).
LEMMA UpdatedIsRead ==
  ASSUME NEW ed, ReadBack(ed), ed.data \in Nat, NEW n \in Nat
  PROVE  ReadBack(Pel!updateDataSection(ed, n))
<1> DEFINE data == 4 + 4 * (n \div 4)
           new == [id |-> "ED", version |-> ed.version, size |-> 8 + data, data |-> data]
<1>1. CASE n >= 4 /\ 4 + n < ed.data
  <2>1. data \in Nat /\ data >= 8
    BY <1>1
  <2>2. Pel!updateDataSection(ed, n) = new
    BY <1>1 DEF Pel!updateDataSection
  <2> HIDE DEF data
  <2>3. new.id = "ED" /\ new.size = 8 + new.data /\ new.size > 12
    BY <2>1
  <2> HIDE DEF new
  <2>4. Pel!create(new)
    BY <2>3 DEF Pel!create, Pel!ExtendedUserDataValid
  <2> QED  BY <2>2, <2>3, <2>4 DEF ReadBack
<1>2. CASE ~(n >= 4 /\ 4 + n < ed.data)
  BY <1>2 DEF Pel!updateDataSection
<1> QED  BY <1>1, <1>2

\* A PEL from outside that is valid has sections that can be read, in the order
\* they came (PEL::valid, PEL::populateFromRawData).
LEMMA OutsideIsRead ==
  ASSUME PELConstants, NEW raw \in RawPELs, Pel!addPEL(raw)
  PROVE  \A i \in DOMAIN sections' : ReadBack((sections')[i])
<1>1. PICK S : raw.sections \in Seq(S)
  BY DEF PELConstants
<1>2. raw.count \in Nat /\ raw.count <= Len(raw.sections)
      /\ \A i \in 3..raw.count : Pel!create(raw.sections[i])
  <2>1. Len(raw.sections) \in Nat /\ raw.count \in Nat
    BY <1>1 DEF PELConstants
  <2> QED  BY <2>1 DEF Pel!addPEL, Pel!valid
<1>3. \A i \in 1..Len(raw.sections) :
         raw.sections[i].data \in Nat /\ raw.sections[i].size = 8 + raw.sections[i].data
  BY DEF PELConstants
<1> DEFINE q == raw.sections
           n == raw.count
           list == SubSeq(q, 3, n)
<1> HIDE DEF q, n
<1>4. q \in Seq(S) /\ n \in Nat /\ n <= Len(q)
  BY <1>1, <1>2 DEF q, n
<1>5. ASSUME NEW i \in DOMAIN list
      PROVE  i + 2 \in 3..n /\ i + 2 \in 1..Len(q) /\ list[i] = q[i + 2]
  BY <1>4, <1>5
<1>6. sections' \in Pel!updateSysInfoInExtendedUserDataSection(list)
  BY DEF Pel!addPEL, q, n
<1> HIDE DEF list
<1>7. \A i \in DOMAIN list : ReadBack(list[i]) /\ list[i].data \in Nat
  <2> SUFFICES ASSUME NEW i \in DOMAIN list
               PROVE  ReadBack(list[i]) /\ list[i].data \in Nat
    OBVIOUS
  <2>1. i + 2 \in 3..n /\ i + 2 \in 1..Len(q) /\ list[i] = q[i + 2]
    BY <1>5
  <2> DEFINE k == i + 2
  <2> HIDE DEF k
  <2>2. k \in 3..n /\ k \in 1..Len(q) /\ list[i] = q[k]
    BY <2>1 DEF k
  <2>3. Pel!create(q[k])
    BY <1>2, <2>2 DEF q, n
  <2>4. q[k].data \in Nat /\ q[k].size = 8 + q[k].data
    BY <1>3, <2>2 DEF q
  <2> QED  BY <2>2, <2>3, <2>4 DEF ReadBack
<1>8. CASE sections' = list
  BY <1>7, <1>8
<1>9. CASE sections' # list
  <2>1. PICK i \in DOMAIN list, bytes \in DataSizes :
           /\ list[i].id = "ED"
           /\ sections' = [list EXCEPT ![i] = Pel!updateDataSection(list[i], Pel!Pad4(bytes))]
    BY <1>6, <1>9 DEF Pel!updateSysInfoInExtendedUserDataSection
  <2> DEFINE new == Pel!updateDataSection(list[i], Pel!Pad4(bytes))
  <2>2. Pel!Pad4(bytes) \in Nat
    <3>1. bytes \in Nat
      BY DEF PELConstants
    <3> QED  BY <3>1 DEF Pel!Pad4
  <2>3. ReadBack(new)
    <3>1. list[i].data \in Nat /\ ReadBack(list[i])
      BY <1>7
    <3> QED  BY <2>2, <3>1, UpdatedIsRead
  <2> HIDE DEF new
  <2>4. sections' = [list EXCEPT ![i] = new]
    BY <2>1 DEF new
  <2> QED  BY <1>7, <2>3, <2>4
<1> QED  BY <1>8, <1>9

\* Each step keeps the sections in order.
LEMMA SectionsStep ==
  ASSUME PELConstants, SectionsInv, Pel!Next
  PROVE  SectionsInv'
<1>0. FixedSize \in Nat /\ maxPELSize \in Nat /\ MaxUserData \in 0..250
  BY DEF PELConstants
<1>1. CASE Pel!construct
  <2>1. stage = "idle" /\ stage' = "fill" /\ UNCHANGED <<sections, external>>
    BY <1>1 DEF Pel!construct
  <2> QED  BY <2>1 DEF SectionsInv
<1>2. CASE Pel!addUserData
  <2>1. PICK bytes \in DataSizes, cbor \in BOOLEAN :
           sections' = Pel!addUserDataSection(sections, Pel!makeFFDCuserDataSection(bytes, cbor))
    BY <1>2 DEF Pel!addUserData
  <2>2. /\ stage = "fill" /\ Len(sections) < MaxUserData
        /\ UNCHANGED <<stage, sectionCount, external>>
    BY <1>2 DEF Pel!addUserData
  <2>3. PICK b \in Nat \ {0} : Pel!makeFFDCuserDataSection(bytes, cbor) = Pel!UserData(b)
    <3>1. bytes \in Nat \ {0}
      BY DEF PELConstants
    <3>2. Pel!Pad4(bytes) \in Nat \ {0} /\ Pel!Pad4(bytes) + 4 \in Nat \ {0}
      BY <3>1, Padded
    <3> QED  BY <3>2 DEF Pel!makeFFDCuserDataSection
  <2>4. ~external /\ sections \in Seq(Section) /\ SoundSections(sections)
    BY <2>2 DEF SectionsInv
  <2> DEFINE ud == Pel!UserData(b)
  <2>5. ud \in Section /\ (8 + ud.data <= 65535 => SoundSection(ud))
    BY UserDataSound
  <2>6. sections' = Pel!addUserDataSection(sections, ud)
    BY <2>1, <2>3
  <2> HIDE DEF ud
  <2>7. /\ sections' \in Seq(Section) /\ SoundSections(sections')
        /\ Len(sections') \in {Len(sections), Len(sections) + 1}
    BY <1>0, <2>4, <2>5, <2>6, UserDataAdded
  <2>8. Len(sections') <= MaxUserData
    BY <1>0, <2>2, <2>4, <2>7
  <2>9. SoundSections(sections)'
    BY <2>7
  <2> QED  BY <2>2, <2>4, <2>7, <2>8, <2>9 DEF SectionsInv
<1>3. CASE Pel!addJournalSections
  <2>1. PICK bytes \in DataSizes : sections' = Pel!addJournalSection(sections, bytes)
    BY <1>3 DEF Pel!addJournalSections
  <2>2. /\ stage = "fill" /\ Len(sections) < MaxUserData
        /\ UNCHANGED <<stage, sectionCount, external>>
    BY <1>3 DEF Pel!addJournalSections
  <2>3. ~external /\ sections \in Seq(Section) /\ SoundSections(sections)
    BY <2>2 DEF SectionsInv
  <2> DEFINE ud == Pel!UserData(bytes)
  <2>4. ud \in Section /\ (8 + ud.data <= 65535 => SoundSection(ud))
    <3>1. bytes \in Nat \ {0}
      BY DEF PELConstants
    <3> QED  BY <3>1, UserDataSound
  <2>5. \/ sections' = sections
        \/ /\ sections' = Append(sections, ud)
           /\ Pel!pelSize(sections) + ud.size <= maxPELSize
    BY <2>1 DEF Pel!addJournalSection
  <2> HIDE DEF ud
  <2>6. CASE sections' = sections
    BY <2>2, <2>3, <2>6 DEF SectionsInv
  <2>7. CASE /\ sections' = Append(sections, ud)
             /\ Pel!pelSize(sections) + ud.size <= maxPELSize
    <3>1. SoundSections(Append(sections, ud))
      BY <1>0, <2>3, <2>4, <2>7, AppendSound
    <3>2. SoundSections(sections)'
      BY <2>7, <3>1
    <3>3. sections' \in Seq(Section) /\ Len(sections') <= MaxUserData
      BY <1>0, <2>2, <2>3, <2>4, <2>7
    <3> QED  BY <2>2, <2>3, <3>2, <3>3 DEF SectionsInv
  <2> QED  BY <2>5, <2>6, <2>7
<1>4. CASE Pel!checkRulesAndFix
  <2>1. /\ stage = "fill" /\ stage' = "built" /\ UNCHANGED <<sections, external>>
        /\ sectionCount' = (5 + Len(sections)) % 256
    BY <1>4 DEF Pel!checkRulesAndFix
  <2>2. ~external /\ sections \in Seq(Section) /\ Len(sections) <= MaxUserData
        /\ SoundSections(sections)
    BY <2>1 DEF SectionsInv
  <2>3. sectionCount' = 5 + Len(sections)
    BY <1>0, <2>1, <2>2
  <2>4. SoundSections(sections)'
    BY <2>1, <2>2
  <2> QED  BY <2>1, <2>2, <2>3, <2>4 DEF SectionsInv
<1>5. ASSUME NEW raw \in RawPELs, Pel!addPEL(raw)
      PROVE  SectionsInv'
  <2>1. stage' = "built" /\ external' = TRUE
    BY <1>5 DEF Pel!addPEL
  <2> QED  BY <1>5, <2>1, OutsideIsRead DEF SectionsInv
<1>6. ASSUME NEW raw \in RawPELs, Pel!addInvalidPEL(raw)
      PROVE  SectionsInv'
  <2>1. stage = "idle" /\ stage' = "done" /\ external' = TRUE /\ sections' = sections
    BY <1>6 DEF Pel!addInvalidPEL
  <2>2. DOMAIN sections' = {}
    BY <2>1 DEF SectionsInv
  <2> QED  BY <2>1, <2>2 DEF SectionsInv
<1>7. CASE Pel!publish
  <2>1. /\ stage = "built" /\ stage' = "done"
        /\ UNCHANGED <<sections, sectionCount, external>>
    BY <1>7 DEF Pel!publish
  <2> QED  BY <2>1 DEF SectionsInv
<1>8. CASE Pel!NextPEL
  <2>1. stage' = "idle" /\ sections' = <<>> /\ external' = FALSE
    BY <1>8 DEF Pel!NextPEL
  <2>2. SoundSections(<<>>)
    BY SizeOfNone DEF PELConstants, SoundSections
  <2>3. SoundSections(sections)'
    BY <2>1, <2>2
  <2>4. sections' \in Seq(Section) /\ Len(sections') <= MaxUserData
    BY <1>0, <2>1
  <2> QED  BY <2>1, <2>3, <2>4 DEF SectionsInv
<1> QED
  BY <1>1, <1>2, <1>3, <1>4, <1>5, <1>6, <1>7, <1>8 DEF Pel!Next

\* With the invariant the sections are found again.
LEMMA SectionsFound ==
  ASSUME PELConstants, SectionsInv
  PROVE  SectionsReadBack
<1>1. CASE Overflows(sections)
  BY <1>1 DEF Overflows, SectionsReadBack, Pel!SectionsReadBack
<1>2. CASE external
  BY <1>2 DEF ReadBack, SectionsInv, SectionsReadBack, Pel!SectionsReadBack
<1>3. CASE ~external /\ ~Overflows(sections)
  <2>1. /\ sections \in Seq(Section) /\ Pel!pelSize(sections) <= maxPELSize
        /\ \A i \in DOMAIN sections : SoundSection(sections[i])
        /\ stage \in {"built", "done"} => sectionCount = 5 + Len(sections)
    BY <1>3 DEF SectionsInv, SoundSections
  <2>2. /\ \A i \in DOMAIN sections : Pel!populateAt(sections, i) = Pel!flattenAt(sections, i)
        /\ Pel!pelSize(sections) = Pel!flattenAt(sections, Len(sections) + 1)
    BY <2>1, FoundAgain DEF PELConstants
  <2>3. ASSUME NEW i \in DOMAIN sections
        PROVE  /\ Pel!unflattens(sections[i])
               /\ sections[i].size = 8 + sections[i].data /\ sections[i].size % 4 = 0
    <3>1. PICK d \in Nat : d = sections[i].data
      <4>1. sections[i] \in Section
        BY <2>1
      <4> QED  BY <4>1 DEF Section
    <3>2. sections[i].size = 8 + d /\ d % 4 = 0 /\ d > 0
      BY <2>1, <3>1 DEF SoundSection
    <3>3. (8 + d) % 4 = 0 /\ 8 + d > 8
      BY <3>2
    <3> QED  BY <3>1, <3>2, <3>3 DEF Pel!unflattens
  <2> QED  BY <1>3, <2>1, <2>2, <2>3 DEF SectionsReadBack, Pel!SectionsReadBack
<1> QED  BY <1>1, <1>2, <1>3

\* For any sizes of data and any limit: the sections of a PEL are found again by
\* the lengths in their headers and the PEL is in its limit, unless a length
\* overflowed its 16 bits; a PEL from outside that was accepted can be read
\* (PEL::addUserDataSection, addJournalSections, UserData::shrink, PEL::valid).
THEOREM SectionsCorrect ==
  ASSUME PELConstants
  PROVE  Spec => []SectionsReadBack
<1>1. Init => SectionsInv
  <2> SUFFICES ASSUME Init  PROVE SectionsInv
    OBVIOUS
  <2>1. stage = "idle" /\ sections = <<>> /\ external = FALSE
    BY DEF Init, Pel!Init
  <2>2. SoundSections(<<>>)
    BY SizeOfNone DEF PELConstants, SoundSections
  <2>3. sections \in Seq(Section) /\ Len(sections) <= MaxUserData
    BY <2>1 DEF PELConstants
  <2> QED  BY <2>1, <2>2, <2>3 DEF SectionsInv
<1>2. SectionsInv /\ [Next]_allVars => SectionsInv'
  <2> SUFFICES ASSUME SectionsInv, [Next]_allVars  PROVE SectionsInv'
    OBVIOUS
  <2>1. CASE Pel!Next
    BY <2>1, SectionsStep
  <2>2. CASE UNCHANGED pelVars
    <3>1. UNCHANGED <<stage, sections, sectionCount, external>>
      BY <2>2 DEF pelVars
    <3>2. SoundSections(sections) => SoundSections(sections)'
      BY <3>1
    <3> QED  BY <3>1, <3>2 DEF SectionsInv
  <2> QED  BY <2>1, <2>2, OneAtATime
<1>3. SectionsInv => SectionsReadBack
  BY SectionsFound
<1> QED  BY <1>1, <1>2, <1>3, PTL DEF Spec, allVars
-----------------------------------------------------------------------------
(* JournalCommit.                                                          *)

\* No error is named like the states of a program that has none.
JournalConstants == "running" \notin Journal!Errors /\ "waiting" \notin Journal!Errors

\* A call waits for each program that waits, once, so that the program whose call
\* is handled logs nothing meanwhile.
CallsWait ==
    /\ IsList(calls) /\ IsList(inbox)
    /\ \A n \in 1..Len(calls) : calls[n].from \in Clients /\ client[calls[n].from] = "waiting"
    /\ \A m, n \in 1..Len(calls) : calls[m].from = calls[n].from => m = n
    /\ client = [c \in Clients |-> client[c]]
    /\ pc # "idle" => calls # << >>

\* Nothing of program c is on its way to the journal.
Flushed(c, sent) == \A n \in 1..Len(sent) : sent[n].from # c

\* A stamp that is fresh tells that what the caller has logged is in the journal,
\* and one that comes while the directory is watched leaves its event.
JournalInv ==
    /\ CallsWait
    /\ pc # "idle" /\ (stamp = "fresh" \/ sawSync) => Flushed(calls[1].from, inbox)
    /\ pc \in {"read3", "poll"} => watch
    /\ Journal!NoLostWakeup

\* A list with one item more.
LEMMA ListAppended ==
  ASSUME NEW s, IsList(s), NEW x
  PROVE  /\ IsList(Append(s, x)) /\ Len(Append(s, x)) = Len(s) + 1 /\ Append(s, x) # << >>
         /\ \A n \in 1..Len(s) : Append(s, x)[n] = s[n]
         /\ Append(s, x)[Len(s) + 1] = x
<1>1. PICK S : s \in Seq(S)
  BY ListOf
<1>2. s \in Seq(S \cup {x})
  <2>1. \A n \in 1..Len(s) : s[n] \in S
    BY <1>1
  <2>2. s \in [1..Len(s) -> S \cup {x}] /\ Len(s) \in Nat
    BY <1>1, <2>1
  <2> QED  BY <2>2
<1>3. /\ Append(s, x) \in Seq(S \cup {x}) /\ Len(Append(s, x)) = Len(s) + 1
      /\ \A n \in 1..Len(s) : Append(s, x)[n] = s[n]
      /\ Append(s, x)[Len(s) + 1] = x /\ Append(s, x) # << >>
  BY <1>2
<1>4. IsList(Append(s, x))
  BY <1>3, ListFrom
<1> QED  BY <1>3, <1>4

\* A program that does not wait logs a message.
LEMMA LogKeepsInv ==
  ASSUME JournalInv, NEW c \in Clients, client[c] # "waiting",
         NEW m, m.from = c, inbox' = Append(inbox, m),
         client' = client \/ \E e : e # "waiting" /\ client' = [client EXCEPT ![c] = e],
         UNCHANGED <<journal, stamp, calls, pc, watch, event, sawSync>>
  PROVE  JournalInv'
<1>1. /\ IsList(inbox') /\ Len(inbox') = Len(inbox) + 1
      /\ \A n \in 1..Len(inbox) : inbox'[n] = inbox[n]
      /\ inbox'[Len(inbox) + 1] = m /\ Len(inbox) \in Nat
  BY ListAppended, ListFacts DEF JournalInv, CallsWait
<1>2. \A d \in Clients : client[d] = "waiting" => client'[d] = "waiting"
  BY DEF JournalInv, CallsWait
<1>3. client' = [d \in Clients |-> client'[d]]
  BY DEF JournalInv, CallsWait
<1>4. CallsWait'
  BY <1>1, <1>2, <1>3 DEF JournalInv, CallsWait
<1>5. ASSUME pc' # "idle", stamp' = "fresh" \/ sawSync'
      PROVE  Flushed(calls'[1].from, inbox')
  <2>1. Flushed(calls[1].from, inbox) /\ calls # << >> /\ calls' = calls
    BY <1>5 DEF JournalInv, CallsWait
  <2>2. calls[1].from # c
    <3>1. 1 \in 1..Len(calls)
      BY <2>1, ListFacts DEF JournalInv, CallsWait
    <3> QED  BY <3>1 DEF JournalInv, CallsWait
  <2>3. \A n \in 1..Len(inbox') : n \in 1..Len(inbox) \/ n = Len(inbox) + 1
    BY <1>1
  <2> QED  BY <1>1, <2>1, <2>2, <2>3 DEF Flushed
<1>6. (pc' \in {"read3", "poll"} => watch') /\ Journal!NoLostWakeup'
  BY Zenon DEF JournalInv, Journal!NoLostWakeup
<1> QED  BY <1>4, <1>5, <1>6, Zenon DEF JournalInv

\* commit(): the program waits from now on.
LEMMA CommitKeepsInv ==
  ASSUME JournalConstants, JournalInv, NEW c \in Clients, Journal!commit(c)
  PROVE  JournalInv'
<1> DEFINE call == [from |-> c, error |-> client[c]]
<1>1. /\ client[c] \in Journal!Errors /\ client' = [client EXCEPT ![c] = "waiting"]
      /\ calls' = Append(calls, call)
      /\ UNCHANGED <<inbox, stamp, pc, watch, event, sawSync>>
  BY DEF Journal!commit
<1>2. call.from = c
  OBVIOUS
<1> HIDE DEF call
<1>3. /\ IsList(calls') /\ Len(calls') = Len(calls) + 1 /\ calls' # << >>
      /\ \A n \in 1..Len(calls) : calls'[n] = calls[n]
      /\ calls'[Len(calls) + 1] = call /\ Len(calls) \in Nat
  BY <1>1, ListAppended, ListFacts DEF JournalInv, CallsWait
<1>4. client[c] # "waiting"
  BY <1>1 DEF JournalConstants
<1>5. \A n \in 1..Len(calls') : n \in 1..Len(calls) \/ n = Len(calls) + 1
  BY <1>3
<1>6. \A n \in 1..Len(calls) : calls[n].from # c
  BY <1>4 DEF JournalInv, CallsWait
<1>7. /\ client' = [d \in Clients |-> client'[d]] /\ client'[c] = "waiting"
      /\ \A d \in Clients : d # c => client'[d] = client[d]
  BY <1>1 DEF JournalInv, CallsWait
<1>8. \A n \in 1..Len(calls') : calls'[n].from \in Clients /\ client'[calls'[n].from] = "waiting"
  BY <1>2, <1>3, <1>5, <1>6, <1>7 DEF JournalInv, CallsWait
<1>9. ASSUME NEW m \in 1..Len(calls'), NEW n \in 1..Len(calls'), calls'[m].from = calls'[n].from
      PROVE  m = n
  <2>1. CASE m \in 1..Len(calls) /\ n \in 1..Len(calls)
    BY <1>3, <1>9, <2>1 DEF JournalInv, CallsWait
  <2>2. CASE m = Len(calls) + 1 \/ n = Len(calls) + 1
    BY <1>2, <1>3, <1>5, <1>6, <1>9, <2>2
  <2> QED  BY <1>5, <2>1, <2>2
<1>10. CallsWait'
  BY <1>1, <1>3, <1>7, <1>8, <1>9 DEF JournalInv, CallsWait
<1>11. pc # "idle" => calls'[1] = calls[1]
  BY <1>3, ListFacts DEF JournalInv, CallsWait
<1>12. pc' # "idle" /\ (stamp' = "fresh" \/ sawSync') => Flushed(calls'[1].from, inbox')
  BY <1>1, <1>11, Zenon DEF JournalInv
<1>13. (pc' \in {"read3", "poll"} => watch') /\ Journal!NoLostWakeup'
  BY <1>1, Zenon DEF JournalInv, Journal!NoLostWakeup
<1> QED  BY <1>10, <1>12, <1>13, Zenon DEF JournalInv

\* journald takes what programs have sent.
LEMMA JournaldKeepsInv ==
  ASSUME JournalInv, Journal!Journald
  PROVE  JournalInv'
<1>1. CASE Journal!journaldReceives
  <2>1. /\ inbox # << >> /\ inbox' = Tail(inbox)
        /\ UNCHANGED <<client, stamp, calls, pc, watch, event, sawSync>>
    BY <1>1 DEF Journal!journaldReceives, Journal!daemon
  <2>2. /\ IsList(inbox') /\ Len(inbox') = Len(inbox) - 1 /\ Len(inbox) \in Nat
        /\ \A n \in 1..Len(inbox') : inbox'[n] = inbox[n + 1]
    BY <2>1, ListFacts DEF JournalInv, CallsWait
  <2>3. CallsWait'
    BY <2>1, <2>2 DEF JournalInv, CallsWait
  <2>4. \A c : Flushed(c, inbox) => Flushed(c, inbox')
    BY <2>2 DEF Flushed
  <2>5. pc' # "idle" /\ (stamp' = "fresh" \/ sawSync') => Flushed(calls'[1].from, inbox')
    BY <2>1, <2>4, Zenon DEF JournalInv
  <2>6. (pc' \in {"read3", "poll"} => watch') /\ Journal!NoLostWakeup'
    BY <2>1, Zenon DEF JournalInv, Journal!NoLostWakeup
  <2> QED  BY <2>3, <2>5, <2>6, Zenon DEF JournalInv
<1>2. CASE Journal!journaldSyncs
  <2>1. /\ inbox' = << >> /\ stamp' = (IF pc = "idle" THEN "old" ELSE "fresh")
        /\ event' = (event \/ watch)
        /\ UNCHANGED <<client, calls, pc, watch, sawSync>>
    BY <1>2 DEF Journal!journaldSyncs
  <2>2. << >> \in Seq({}) /\ Len(<< >>) = 0
    OBVIOUS
  <2>3. IsList(inbox') /\ Len(inbox') = 0
    BY <2>1, <2>2, ListFrom
  <2>4. CallsWait'
    BY <2>1, <2>3 DEF JournalInv, CallsWait
  <2>5. \A c : Flushed(c, inbox')
    BY <2>3 DEF Flushed
  <2>6. (pc' \in {"read3", "poll"} => watch') /\ Journal!NoLostWakeup'
    <3>1. "poll" \in {"read3", "poll"}
      OBVIOUS
    <3> QED  BY <2>1, <3>1, Zenon DEF JournalInv, Journal!NoLostWakeup
  <2> QED  BY <2>4, <2>5, <2>6, Zenon DEF JournalInv
<1>3. CASE Journal!otherFile
  <2>1. /\ event' = TRUE /\ UNCHANGED <<inbox, client, stamp, calls, pc, watch, sawSync>>
    BY <1>3 DEF Journal!otherFile
  <2> QED  BY <2>1, Zenon DEF JournalInv, CallsWait, Flushed, Journal!NoLostWakeup
<1> QED  BY <1>1, <1>2, <1>3 DEF Journal!Journald

\* journalSync(), step by step.
LEMMA SyncKeepsInv ==
  ASSUME JournalInv,
         \/ Journal!journalSync
         \/ Journal!readStamp("read1", "request") \/ Journal!readStamp("read2", "watch")
         \/ Journal!readStamp("read3", "poll")
         \/ Journal!requestSync \/ Journal!installWatch \/ Journal!poll
  PROVE  JournalInv'
<1>1. UNCHANGED <<client, inbox, calls>> /\ calls # << >>
  BY Zenon DEF Journal!journalSync, Journal!readStamp, Journal!requestSync, Journal!installWatch,
               Journal!poll, Journal!World, JournalInv, CallsWait
<1>2. CallsWait'
  BY <1>1 DEF JournalInv, CallsWait
<1>3. pc' # "idle" /\ (stamp' = "fresh" \/ sawSync') => Flushed(calls'[1].from, inbox')
  <2>1. CASE Journal!journalSync
    BY <2>1 DEF Journal!journalSync
  <2>2. CASE ~Journal!journalSync
    <3>1. pc # "idle" /\ stamp' = stamp /\ (sawSync' => sawSync \/ stamp = "fresh")
      BY <2>2 DEF Journal!readStamp, Journal!requestSync, Journal!installWatch,
                  Journal!poll, Journal!isFresh
    <3> QED  BY <1>1, <3>1, Zenon DEF JournalInv
  <2> QED  BY <2>1, <2>2
<1>4. (pc' \in {"read3", "poll"} => watch') /\ Journal!NoLostWakeup'
  <2>1. CASE Journal!journalSync
    BY <2>1 DEF Journal!journalSync, Journal!NoLostWakeup
  <2>2. CASE Journal!readStamp("read1", "request") \/ Journal!readStamp("read2", "watch")
    BY <2>2 DEF Journal!readStamp, Journal!NoLostWakeup
  <2>3. CASE Journal!readStamp("read3", "poll")
    <3>1. watch
      BY <2>3 DEF Journal!readStamp, JournalInv
    <3>2. watch' = watch /\ (pc' = "poll" => stamp' # "fresh")
      BY <2>3 DEF Journal!readStamp, Journal!isFresh
    <3> QED  BY <3>1, <3>2, Zenon DEF Journal!NoLostWakeup
  <2>4. CASE Journal!requestSync \/ Journal!poll
    BY <2>4 DEF Journal!requestSync, Journal!poll, Journal!NoLostWakeup
  <2>5. CASE Journal!installWatch
    BY <2>5 DEF Journal!installWatch, Journal!NoLostWakeup
  <2> QED  BY <2>1, <2>2, <2>3, <2>4, <2>5
<1> QED  BY <1>2, <1>3, <1>4, Zenon DEF JournalInv

\* The reply lets the program go on, which has no other call.
LEMMA ReplyKeepsInv ==
  ASSUME JournalInv, pc = "scan", Journal!Reply
  PROVE  JournalInv'
<1>1. /\ client' = [client EXCEPT ![Head(calls).from] = "running"]
      /\ calls' = Tail(calls) /\ pc' = "idle" /\ UNCHANGED inbox
  BY DEF Journal!Reply
<1>2. /\ calls # << >> /\ Len(calls) \in Nat /\ Len(calls) > 0 /\ IsList(Tail(calls))
      /\ Len(Tail(calls)) = Len(calls) - 1
      /\ \A n \in 1..Len(Tail(calls)) : Tail(calls)[n] = calls[n + 1]
  BY ListFacts DEF JournalInv, CallsWait
<1>3. Head(calls) = calls[1]
  OBVIOUS
<1> DEFINE t == Tail(calls)
<1>4. \A n \in 1..Len(t) : n + 1 \in 1..Len(calls) /\ n + 1 # 1
  BY <1>2
<1>5. 1 \in 1..Len(calls)
  BY <1>2
<1>6. \A n \in 1..Len(t) : t[n].from # calls[1].from
  BY <1>2, <1>4, <1>5 DEF JournalInv, CallsWait
<1> HIDE DEF t
<1>7. /\ client' = [d \in Clients |-> client'[d]]
      /\ \A d \in Clients : d # calls[1].from => client'[d] = client[d]
  BY <1>1, <1>3 DEF JournalInv, CallsWait
<1>8. \A n \in 1..Len(t) : t[n].from \in Clients /\ client'[t[n].from] = "waiting"
  <2> SUFFICES ASSUME NEW n \in 1..Len(t)
               PROVE  t[n].from \in Clients /\ client'[t[n].from] = "waiting"
    OBVIOUS
  <2>1. t[n] = calls[n + 1] /\ n + 1 \in 1..Len(calls)
    BY <1>2, <1>4 DEF t
  <2> QED  BY <1>6, <1>7, <2>1 DEF JournalInv, CallsWait
<1>9. \A m, n \in 1..Len(t) : t[m].from = t[n].from => m = n
  <2> SUFFICES ASSUME NEW m \in 1..Len(t), NEW n \in 1..Len(t), t[m].from = t[n].from
               PROVE  m = n
    OBVIOUS
  <2>1. t[n] = calls[n + 1] /\ n + 1 \in 1..Len(calls) /\ t[m] = calls[m + 1] /\ m + 1 \in 1..Len(calls)
    BY <1>2, <1>4 DEF t
  <2>2. n + 1 = m + 1
    BY <2>1 DEF JournalInv, CallsWait
  <2> QED  BY <2>2
<1>10. IsList(t) /\ IsList(inbox') /\ calls' = t
  BY <1>1, <1>2 DEF t, JournalInv, CallsWait
<1>11. CallsWait'
  BY <1>1, <1>7, <1>8, <1>9, <1>10 DEF CallsWait
<1> QED  BY <1>1, <1>11 DEF JournalInv, Journal!NoLostWakeup

\* Whatever programs log and however journald, other renames and failures fall:
\* a journalSync that saw a fresh stamp has everything the caller logged in the
\* journal, and no sync is missed by a log manager that goes to sleep in poll()
\* (lib/elog.cpp commit, util.cpp journalSync).
THEOREM JournalSynced ==
  ASSUME JournalConstants
  PROVE  Spec => [](Journal!SyncFlushesCaller /\ Journal!NoLostWakeup)
<1>1. Init => JournalInv
  <2> SUFFICES ASSUME Init  PROVE JournalInv
    OBVIOUS
  <2>1. /\ client = [c \in Clients |-> "running"] /\ inbox = << >> /\ calls = << >> /\ pc = "idle"
    BY DEF Init, Journal!Init
  <2>2. << >> \in Seq({}) /\ Len(<< >>) = 0
    OBVIOUS
  <2>3. IsList(<< >>)
    BY <2>2, ListFrom
  <2>4. CallsWait
    BY <2>1, <2>2, <2>3 DEF CallsWait
  <2> QED  BY <2>1, <2>4 DEF JournalInv, Journal!NoLostWakeup
<1>2. JournalInv /\ [Next]_allVars => JournalInv'
  <2> SUFFICES ASSUME JournalInv, [Next]_allVars  PROVE JournalInv'
    OBVIOUS
  <2>1. ASSUME NEW c \in Clients, Journal!trace(c)  PROVE JournalInv'
    <3> DEFINE m == Journal!Message(c, {}, 0)
    <3>1. m.from = c
      BY DEF Journal!Message
    <3> HIDE DEF m
    <3>2. /\ client[c] # "waiting" /\ inbox' = Append(inbox, m)
          /\ UNCHANGED <<client, journal, stamp, calls, pc, watch, event, sawSync>>
      BY <2>1 DEF Journal!trace, Journal!daemon, m
    <3> QED  BY <3>1, <3>2, LogKeepsInv
  <2>2. ASSUME NEW c \in Clients, NEW e \in Journal!Errors, Journal!elog(c, e)  PROVE JournalInv'
    <3> DEFINE m == Journal!Message(c, Meta[e], logged')
    <3>1. m.from = c
      BY DEF Journal!Message
    <3> HIDE DEF m
    <3>2. /\ client[c] = "running" /\ inbox' = Append(inbox, m)
          /\ client' = [client EXCEPT ![c] = e]
          /\ UNCHANGED <<journal, stamp, calls, pc, watch, event, sawSync>>
      BY <2>2 DEF Journal!elog, Journal!daemon, m
    <3>3. e # "waiting" /\ client[c] # "waiting"
      BY <3>2 DEF JournalConstants
    <3> QED  BY <3>1, <3>2, <3>3, LogKeepsInv
  <2>3. ASSUME NEW c \in Clients, Journal!commit(c)  PROVE JournalInv'
    BY <2>3, CommitKeepsInv
  <2>4. CASE Journal!Journald
    BY <2>4, JournaldKeepsInv
  <2>5. CASE Journal!LogManager
    <3>1. CASE Journal!scan \/ Journal!scanFails
      BY <3>1, ReplyKeepsInv DEF Journal!scan, Journal!scanFails
    <3> QED  BY <2>5, <3>1, SyncKeepsInv DEF Journal!LogManager
  <2>6. CASE UNCHANGED journalVars
    <3>1. UNCHANGED <<client, inbox, stamp, calls, pc, watch, event, sawSync>>
      BY <2>6 DEF journalVars
    <3> QED  BY <3>1, Zenon DEF JournalInv, CallsWait, Journal!NoLostWakeup
  <2> QED  BY <2>1, <2>2, <2>3, <2>4, <2>5, <2>6, OneAtATime DEF Journal!Next, Journal!Programs
<1>3. JournalInv => Journal!SyncFlushesCaller /\ Journal!NoLostWakeup
  <2> SUFFICES ASSUME JournalInv  PROVE Journal!SyncFlushesCaller /\ Journal!NoLostWakeup
    OBVIOUS
  <2>1. ASSUME pc = "scan", sawSync
        PROVE  \A n \in DOMAIN inbox : inbox[n].from # Head(calls).from
    <3>1. Flushed(calls[1].from, inbox)
      BY <2>1 DEF JournalInv
    <3>2. Head(calls) = calls[1] /\ DOMAIN inbox = 1..Len(inbox)
      BY ListFacts DEF JournalInv, CallsWait
    <3> QED  BY <3>1, <3>2 DEF Flushed
  <2> QED  BY <2>1 DEF JournalInv, Journal!SyncFlushesCaller
<1> QED  BY <1>1, <1>2, <1>3, PTL DEF Spec, allVars

-----------------------------------------------------------------------------
(* BMCSync.                                                                *)

\* What the code is built with: ids have lower bytes and positions, one of the
\* positions stands for none, and the sync tool moves files with such ids.
SyncConstants ==
    /\ M \in Nat /\ M > 1
    /\ NoPosition \in Nat /\ Position \in Nat /\ Position < NoPosition
    /\ SyncedIDs \subseteq Sync!IDs
    /\ MaxCreates \in Nat

\* A position and lower bytes make an id.
LEMMA IdRange ==
  ASSUME SyncConstants, NEW p \in Nat, p <= NoPosition, NEW r \in Nat, r < M
  PROVE  p * M + r \in Sync!IDs
<1>1. M \in Nat /\ NoPosition \in Nat
  BY DEF SyncConstants
<1>2. p * M <= NoPosition * M
  BY <1>1
<1>3. Sync!Width = NoPosition * M + M
  BY <1>1 DEF Sync!Width
<1>4. p * M \in Nat /\ NoPosition * M \in Nat
  BY <1>1
<1> QED  BY <1>1, <1>2, <1>3, <1>4 DEF Sync!IDs

\* 0, with which the numbering starts, is an id.
LEMMA ZeroIsId == ASSUME SyncConstants  PROVE 0 \in Sync!IDs
<1>1. 0 * M + 0 \in Sync!IDs
  <2>1. 0 < M /\ 0 <= NoPosition
    BY DEF SyncConstants
  <2> QED  BY <2>1, IdRange
<1>2. 0 * M + 0 = 0
  BY DEF SyncConstants
<1> QED  BY <1>1, <1>2

\* The position and the lower bytes are found again in the id they make.
LEMMA IdParts ==
  ASSUME SyncConstants, NEW p \in Nat, NEW r \in Nat, r < M
  PROVE  (p * M + r) \div M = p /\ (p * M + r) % M = r
<1>1. M \in Nat /\ M > 0
  BY DEF SyncConstants
<1>2. p * M \in Nat
  BY <1>1
<1> DEFINE n == p * M + r
<1>3. n = M * (n \div M) + (n % M) /\ n \div M \in Int /\ n % M \in 0..(M - 1)
  BY <1>1, <1>2
<1>5. n \div M = p
  <2>1. CASE n \div M > p
    <3>1. M * (n \div M) >= M * p + M
      BY <1>1, <1>3, <2>1
    <3> QED BY <3>1, <1>1, <1>2, <1>3
  <2>2. CASE n \div M < p
    <3>1. M * (n \div M) <= M * p - M
      BY <1>1, <1>3, <2>2
    <3> QED BY <3>1, <1>1, <1>2, <1>3
  <2> QED  BY <2>1, <2>2, <1>3
<1> QED  BY <1>1, <1>2, <1>3, <1>5

\* The events of a watch, and how they matter to id i: one waits for it, and
\* the last that does is of kind k.
FileEvents == {"MOVED_TO", "DELETE"} \X Sync!IDs
Waits(q, i) == \E n \in 1..Len(q) : q[n][2] = i
LastIs(q, k, i) ==
    \E n \in 1..Len(q) : q[n] = <<k, i>> /\ \A m \in (n + 1)..Len(q) : q[m][2] # i

\* An event that matters is taken, or still matters when the first is taken.
LEMMA TakeEvent ==
  ASSUME NEW q \in Seq(FileEvents), q # << >>, NEW i, NEW k
  PROVE  /\ Head(q) \in FileEvents /\ Tail(q) \in Seq(FileEvents)
         /\ Waits(q, i) => Head(q)[2] = i \/ Waits(Tail(q), i)
         /\ LastIs(q, k, i) => Head(q) = <<k, i>> \/ LastIs(Tail(q), k, i)
<1>1. /\ Len(q) \in Nat /\ Len(q) > 0 /\ Tail(q) \in Seq(FileEvents) /\ Len(Tail(q)) = Len(q) - 1
      /\ \A n \in 1..Len(Tail(q)) : Tail(q)[n] = q[n + 1]
      /\ Head(q) = q[1] /\ q[1] \in FileEvents
  OBVIOUS
<1>2. ASSUME Waits(q, i), Head(q)[2] # i  PROVE Waits(Tail(q), i)
  <2>1. PICK n \in 1..Len(q) : q[n][2] = i
    BY <1>2 DEF Waits
  <2>2. n - 1 \in 1..Len(Tail(q)) /\ Tail(q)[n - 1] = q[n]
    BY <1>1, <1>2, <2>1
  <2> QED  BY <2>1, <2>2 DEF Waits
<1>3. ASSUME LastIs(q, k, i), Head(q) # <<k, i>>  PROVE LastIs(Tail(q), k, i)
  <2>1. PICK n \in 1..Len(q) : q[n] = <<k, i>> /\ \A m \in (n + 1)..Len(q) : q[m][2] # i
    BY <1>3 DEF LastIs
  <2>2. n - 1 \in 1..Len(Tail(q)) /\ Tail(q)[n - 1] = q[n]
    BY <1>1, <1>3, <2>1
  <2>3. \A m \in n..Len(Tail(q)) : Tail(q)[m][2] # i
    BY <1>1, <2>1
  <2> QED  BY <2>1, <2>2, <2>3 DEF LastIs
<1> QED  BY <1>1, <1>2, <1>3

\* An event that matters still does when others are queued, unless one of
\* these is about the same file.
LEMMA QueueEvents ==
  ASSUME NEW q \in Seq(FileEvents), NEW r \in Seq(FileEvents), NEW i, NEW k
  PROVE  /\ q \o r \in Seq(FileEvents)
         /\ Waits(q, i) \/ Waits(r, i) => Waits(q \o r, i)
         /\ LastIs(q, k, i) /\ ~Waits(r, i) => LastIs(q \o r, k, i)
         /\ LastIs(r, k, i) => LastIs(q \o r, k, i)
<1>1. /\ q \o r \in Seq(FileEvents) /\ Len(q) \in Nat /\ Len(r) \in Nat /\ Len(q \o r) = Len(q) + Len(r)
      /\ \A n \in 1..Len(q) : (q \o r)[n] = q[n]
      /\ \A n \in 1..Len(r) : (q \o r)[n + Len(q)] = r[n]
  OBVIOUS
<1> DEFINE s == q \o r
<1> HIDE DEF s
<1>2. ASSUME Waits(q, i)  PROVE Waits(s, i)
  BY <1>1, <1>2 DEF Waits, s
<1>3. ASSUME Waits(r, i)  PROVE Waits(s, i)
  <2>1. PICK n \in 1..Len(r) : r[n][2] = i
    BY <1>3 DEF Waits
  <2>2. n + Len(q) \in 1..Len(s) /\ s[n + Len(q)] = r[n]
    BY <1>1, <2>1 DEF s
  <2> QED  BY <2>1, <2>2 DEF Waits
<1>4. ASSUME LastIs(q, k, i), ~Waits(r, i)  PROVE LastIs(s, k, i)
  <2>1. PICK n \in 1..Len(q) : q[n] = <<k, i>> /\ \A m \in (n + 1)..Len(q) : q[m][2] # i
    BY <1>4 DEF LastIs
  <2>2. ASSUME NEW m \in (n + 1)..Len(s)  PROVE s[m][2] # i
    <3>1. CASE m <= Len(q)
      BY <1>1, <2>1, <2>2, <3>1 DEF s
    <3>2. CASE m > Len(q)
      <4>1. m - Len(q) \in 1..Len(r) /\ s[m] = r[m - Len(q)]
        BY <1>1, <2>2, <3>2 DEF s
      <4> QED  BY <1>4, <4>1 DEF Waits
    <3> QED  BY <3>1, <3>2, <1>1, <2>1
  <2>3. n \in 1..Len(s) /\ s[n] = q[n]
    BY <1>1 DEF s
  <2> QED  BY <2>1, <2>2, <2>3 DEF LastIs
<1>5. ASSUME LastIs(r, k, i)  PROVE LastIs(s, k, i)
  <2>1. PICK n \in 1..Len(r) : r[n] = <<k, i>> /\ \A m \in (n + 1)..Len(r) : r[m][2] # i
    BY <1>5 DEF LastIs
  <2>2. n + Len(q) \in 1..Len(s) /\ s[n + Len(q)] = r[n]
    BY <1>1, <2>1 DEF s
  <2>3. ASSUME NEW m \in (n + Len(q) + 1)..Len(s)  PROVE s[m][2] # i
    <3>1. m - Len(q) \in (n + 1)..Len(r) /\ s[m] = r[m - Len(q)]
      BY <1>1, <2>1, <2>3 DEF s
    <3> QED  BY <2>1, <3>1
  <2> QED  BY <2>1, <2>2, <2>3 DEF LastIs
<1> QED  BY <1>1, <1>2, <1>3, <1>4, <1>5 DEF s

\* What a single deletion and a move queue.
LEMMA OneEvent ==
  ASSUME NEW i \in Sync!IDs, NEW S, NEW k \in {"MOVED_TO", "DELETE"}
  PROVE  /\ << <<k, i>> >> \in Seq(FileEvents) /\ LastIs(<< <<k, i>> >>, k, i)
         /\ Waits(<< <<k, i>> >>, i) /\ \A j : j # i => ~Waits(<< <<k, i>> >>, j)
         /\ Sync!Queue(i, S) \in Seq(FileEvents)
         /\ \A j : Waits(Sync!Queue(i, S), j) => j = i /\ i \in S
         /\ i \in S => LastIs(Sync!Queue(i, S), "DELETE", i)
<1>1. /\ << <<k, i>> >> \in Seq(FileEvents) /\ LastIs(<< <<k, i>> >>, k, i)
      /\ Waits(<< <<k, i>> >>, i) /\ \A j : j # i => ~Waits(<< <<k, i>> >>, j)
  BY DEF FileEvents, LastIs, Waits
<1>2. Sync!Queue(i, S) \in Seq(FileEvents)
  BY DEF Sync!Queue, FileEvents
<1>3. ASSUME NEW j, Waits(Sync!Queue(i, S), j)  PROVE j = i /\ i \in S
  BY <1>3 DEF Sync!Queue, Waits
<1>4. i \in S => LastIs(Sync!Queue(i, S), "DELETE", i)
  BY DEF Sync!Queue, LastIs
<1> QED  BY <1>1, <1>2, <1>3, <1>4

\* What the deletion of many files queues.
LEMMA ManyEvents ==
  ASSUME NEW S \in SUBSET Sync!IDs, SyncConstants, NEW q \in Sync!Queues(S), NEW i
  PROVE  /\ q \in Seq(FileEvents)
         /\ Waits(q, i) => i \in S
         /\ i \in S => LastIs(q, "DELETE", i)
<1>1. Cardinality(S) \in Nat
  <2>1. 0 \in Int /\ Sync!Width - 1 \in Int
    BY DEF SyncConstants, Sync!Width
  <2>2. IsFiniteSet(Sync!IDs)
    BY <2>1, FS_Interval DEF Sync!IDs
  <2>3. IsFiniteSet(S)
    BY <2>2, FS_Subset
  <2> QED  BY <2>3, FS_CardinalityType
<1>2. /\ q \in [1..Cardinality(S) -> Sync!Deleted(S)]
      /\ \A m, n \in DOMAIN q : m < n => q[m][2] < q[n][2]
      /\ \A e \in Sync!Deleted(S) : \E n \in DOMAIN q : q[n] = e
  <2>1. q \in {x \in [1..Cardinality(S) -> Sync!Deleted(S)] :
                   /\ \A m, n \in DOMAIN x : m < n => x[m][2] < x[n][2]
                   /\ \A e \in Sync!Deleted(S) : \E n \in DOMAIN x : x[n] = e}
    BY Zenon DEF Sync!Queues, Sync!Cardinality, Cardinality
  <2> QED  BY <2>1
<1>3. Sync!Deleted(S) \subseteq FileEvents
  BY DEF Sync!Deleted, FileEvents
<1>4. q \in Seq(FileEvents) /\ Len(q) = Cardinality(S) /\ DOMAIN q = 1..Len(q)
  BY <1>1, <1>2, <1>3
<1>5. Waits(q, i) => i \in S
  BY <1>2, <1>4 DEF Waits, Sync!Deleted
<1>6. ASSUME i \in S  PROVE LastIs(q, "DELETE", i)
  <2>1. <<"DELETE", i>> \in Sync!Deleted(S)
    BY <1>6 DEF Sync!Deleted
  <2>2. PICK n \in 1..Len(q) : q[n] = <<"DELETE", i>>
    BY <1>2, <1>4, <2>1
  <2>3. ASSUME NEW m \in (n + 1)..Len(q)  PROVE q[m][2] # i
    <3>1. m \in DOMAIN q /\ n \in DOMAIN q /\ n < m
      BY <1>4, <2>2
    <3>2. q[n][2] < q[m][2] /\ q[n][2] = i
      BY <1>2, <2>2, <3>1
    <3>3. i \in Int
      BY <1>6 DEF Sync!IDs
    <3> QED  BY <3>2, <3>3
  <2> QED  BY <2>2, <2>3 DEF LastIs
<1> QED  BY <1>4, <1>5, <1>6
\* What an event log can say.
Content == [resolved : BOOLEAN, message : {"old", "new"}]

\* The types of BMCSync's state.
SyncTyped ==
    /\ DOMAIN entries \subseteq Sync!IDs /\ DOMAIN errors \subseteq Sync!IDs
    /\ \A i \in DOMAIN entries : entries[i] \in Content
    /\ \A i \in DOMAIN errors : errors[i] \in Content
    /\ errEvents \in Seq(FileEvents) /\ pelEvents \in Seq(FileEvents)
    /\ entryId \in Sync!IDs
    /\ bmcPosition \in {Position, NoPosition}
    /\ creates \in Nat /\ creates <= MaxCreates

\* Unless the last handler gave up, the last event about a file tells what to do:
\* it is a deletion if there is only the entry and a move if there is only the
\* file, and while the two disagree one waits.
LogFollowed(i) ==
    /\ i \in DOMAIN entries /\ i \notin DOMAIN errors => LastIs(errEvents, "DELETE", i)
    /\ i \in DOMAIN errors /\ i \notin DOMAIN entries => LastIs(errEvents, "MOVED_TO", i)
    /\ i \in DOMAIN entries /\ i \in DOMAIN errors /\ entries[i].resolved # errors[i].resolved
          => Waits(errEvents, i)
LogsFollowed == \A i \in (DOMAIN entries \cup DOMAIN errors) \ refused : LogFollowed(i)

\* Only PELs with an event log are in the index, and one that is not there
\* waits for its event log, or for its event to be handled.
PELsTracked ==
    /\ pelIndex \subseteq DOMAIN entries
    /\ \A i \in pels \ pelIndex :
          \/ i \in pendingPELs /\ i \notin DOMAIN entries
          \/ \E n \in 1..Len(pelEvents) : pelEvents[n] = <<"MOVED_TO", i>>

SyncInv == SyncTyped /\ LogsFollowed /\ PELsTracked

\* An id that createEntry takes is one.
LEMMA NextTyped ==
  ASSUME SyncConstants, NEW last \in Sync!IDs, NEW p \in {Position, NoPosition},
         NEW i \in Sync!NextIDs(last, p)
  PROVE  i \in Sync!IDs
<1>1. M \in Nat /\ M > 1 /\ NoPosition \in Nat /\ Position \in Nat /\ p \in Nat /\ p <= NoPosition
  BY DEF SyncConstants
<1>2. CASE p = NoPosition
  <2>1. PICK t \in 0..(M - 1) : i = (p * M + t + 1) % Sync!Width
    BY <1>2 DEF Sync!NextIDs
  <2>2. Sync!Width \in Nat /\ Sync!Width > 0
    <3>1. Sync!Width = M * NoPosition + M
      BY <1>1 DEF Sync!Width
    <3>2. M * NoPosition \in Nat
      BY <1>1
    <3> QED  BY <1>1, <3>1, <3>2
  <2>3. p * M + t + 1 \in Int
    BY <1>1
  <2> HIDE DEF Sync!Width
  <2>4. (p * M + t + 1) % Sync!Width \in 0..(Sync!Width - 1)
    BY <2>2, <2>3
  <2> QED  BY <2>1, <2>4 DEF Sync!IDs
<1>3. CASE p # NoPosition
  <2> DEFINE r == IF last % M = M - 1 THEN 0 ELSE last % M
  <2>1. i = (p * M + r) + 1
    BY <1>3 DEF Sync!NextIDs, Sync!processEntryId
  <2>2. last \in Nat
    BY DEF Sync!IDs
  <2>3. last % M \in 0..(M - 1)
    BY <1>1, <2>2
  <2>4. r + 1 \in Nat /\ r + 1 < M /\ r \in Nat
    BY <1>1, <2>3
  <2>5. p * M + (r + 1) \in Sync!IDs
    BY <1>1, <2>4, IdRange
  <2>6. p * M \in Nat
    BY <1>1
  <2> HIDE DEF r
  <2>7. i = p * M + (r + 1)
    BY <2>1, <2>4, <2>6
  <2> QED  BY <2>5, <2>7
<1> QED  BY <1>2, <1>3

\* Some id is the largest, of ids that there are.
LEMMA LargestIs ==
  ASSUME SyncConstants, NEW T \in SUBSET Sync!IDs, T # {}
  PROVE  Sync!Largest(T) \in T /\ \A j \in T : j <= Sync!Largest(T)
<1> DEFINE W == Sync!Width
           D == {d \in Nat : W - d \in T}
<1>1. W \in Nat /\ W > 0
  <2>1. M \in Nat /\ M > 1 /\ NoPosition \in Nat
    BY DEF SyncConstants
  <2>2. Sync!Width = M * NoPosition + M
    BY <2>1 DEF Sync!Width
  <2>3. M * NoPosition \in Nat
    BY <2>1
  <2> QED  BY <2>1, <2>2, <2>3
<1>2. T \subseteq 0..(W - 1)
  BY DEF Sync!IDs
<1> HIDE DEF W
<1>3. PICK t \in T : t \in 0..(W - 1)
  BY <1>2
<1>4. W - t \in D
  <2>1. W - (W - t) = t /\ W - t \in Nat
    BY <1>1, <1>3
  <2> QED  BY <2>1
<1>5. PICK d \in D : \A e \in D : d <= e
  <2>1. D \subseteq Nat /\ D # {}
    BY <1>4
  <2> HIDE DEF D
  <2> QED  BY <2>1, LeastOfNats
<1>6. \A i \in T : i <= W - d
  <2> SUFFICES ASSUME NEW i \in T  PROVE i <= W - d
    OBVIOUS
  <2>1. i \in Nat /\ i < W
    BY <1>1, <1>2
  <2>2. W - i \in Nat /\ W - (W - i) = i
    BY <1>1, <2>1
  <2>3. W - i \in D
    BY <2>2
  <2>4. d <= W - i /\ d \in Nat
    BY <1>5, <2>3
  <2> QED  BY <1>1, <2>1, <2>4
<1>7. \E x \in T : \A j \in T : j <= x
  BY <1>5, <1>6
<1> QED  BY <1>7 DEF Sync!Largest

\* The largest own id is the id 0 or an own one among the entries, and none
\* of these is larger.
LEMMA LastOwnIs ==
  ASSUME SyncConstants, NEW S \in SUBSET Sync!IDs, NEW p
  PROVE  /\ Sync!LastOwn(S, p) \in {i \in S : Sync!idContainsCurrentPosition(i, p)} \cup {0}
         /\ Sync!LastOwn(S, p) \in Sync!IDs
         /\ \A i \in S : Sync!idContainsCurrentPosition(i, p) => i <= Sync!LastOwn(S, p)
<1> DEFINE T == {i \in S : Sync!idContainsCurrentPosition(i, p)} \cup {0}
<1>1. T \in SUBSET Sync!IDs /\ T # {}
  <2>1. 0 \in Sync!IDs
    BY ZeroIsId
  <2> QED  BY <2>1
<1>2. Sync!LastOwn(S, p) = Sync!Largest(T)
  BY DEF Sync!LastOwn
<1> HIDE DEF T
<1>3. Sync!Largest(T) \in T /\ \A j \in T : j <= Sync!Largest(T)
  BY <1>1, LargestIs
<1> QED  BY <1>1, <1>2, <1>3 DEF T

\* The last id after eraseAll is 0, or the largest that was kept.
LEMMA LastKeptIs ==
  ASSUME SyncConstants, NEW S \in SUBSET Sync!IDs
  PROVE  /\ Sync!LastKept(S) \in Sync!IDs
         /\ S = {} => Sync!LastKept(S) = 0
         /\ S # {} => Sync!LastKept(S) \in S /\ \A j \in S : j <= Sync!LastKept(S)
<1>1. CASE S = {}
  BY <1>1, ZeroIsId DEF Sync!LastKept
<1>2. CASE S # {}
  BY <1>2, LargestIs DEF Sync!LastKept
<1> QED  BY <1>1, <1>2

\* A step that concerns the event log x alone keeps what holds of the others.
LEMMA OthersFollowed ==
  ASSUME LogsFollowed, NEW x,
         \A i : i # x =>
            /\ i \in DOMAIN entries' <=> i \in DOMAIN entries
            /\ i \in DOMAIN errors' <=> i \in DOMAIN errors
            /\ i \in refused' <=> i \in refused
            /\ i \in DOMAIN entries => entries'[i] = entries[i]
            /\ i \in DOMAIN errors => errors'[i] = errors[i]
            /\ Waits(errEvents, i) => Waits(errEvents', i)
            /\ LastIs(errEvents, "DELETE", i) => LastIs(errEvents', "DELETE", i)
            /\ LastIs(errEvents, "MOVED_TO", i) => LastIs(errEvents', "MOVED_TO", i),
         x \in refused' \/ LogFollowed(x)'
  PROVE  LogsFollowed'
<1> SUFFICES ASSUME NEW i \in (DOMAIN entries' \cup DOMAIN errors') \ refused', i # x
             PROVE  LogFollowed(i)'
  BY Zenon DEF LogsFollowed
<1>1. LogFollowed(i)
  BY DEF LogsFollowed
<1> QED  BY <1>1 DEF LogFollowed

\* The erasure of the event logs S keeps the types and tracks the PELs.
LEMMA EraseKeeps ==
  ASSUME SyncTyped, PELsTracked, NEW S, Sync!Erase(S)
  PROVE  /\ DOMAIN entries' = DOMAIN entries \ S /\ DOMAIN errors' = DOMAIN errors \ S
         /\ \A i \in DOMAIN entries' : entries'[i] = entries[i]
         /\ \A i \in DOMAIN errors' : errors'[i] = errors[i]
         /\ refused' = refused \ S
         /\ pelEvents' = pelEvents /\ pendingPELs' = pendingPELs => PELsTracked'
         /\ pelIndex' \subseteq DOMAIN entries'
         /\ pels' \ pelIndex' = pels \ pelIndex
<1>1. /\ entries' = Sync!Without(entries, S) /\ errors' = Sync!Without(errors, S)
      /\ pelIndex' = pelIndex \ S /\ pels' = pels \ (S \cap pelIndex) /\ refused' = refused \ S
  BY DEF Sync!Erase
<1>2. /\ DOMAIN entries' = DOMAIN entries \ S /\ DOMAIN errors' = DOMAIN errors \ S
      /\ \A i \in DOMAIN entries' : entries'[i] = entries[i]
      /\ \A i \in DOMAIN errors' : errors'[i] = errors[i]
  BY <1>1 DEF Sync!Without
<1>3. pelIndex' \subseteq DOMAIN entries' /\ pels' \ pelIndex' = pels \ pelIndex
  BY <1>1, <1>2 DEF PELsTracked
<1>4. ASSUME pelEvents' = pelEvents, pendingPELs' = pendingPELs  PROVE PELsTracked'
  BY <1>1, <1>2, <1>3, <1>4 DEF PELsTracked
<1> QED  BY <1>1, <1>2, <1>3, <1>4

\* Events for the files that are erased do not concern the others.
LEMMA ErasedFollowed ==
  ASSUME LogsFollowed, errEvents \in Seq(FileEvents), NEW S, NEW q \in Seq(FileEvents),
         \A i : Waits(q, i) => i \in S, errEvents' = errEvents \o q,
         DOMAIN entries' = DOMAIN entries \ S, DOMAIN errors' = DOMAIN errors \ S,
         \A i \in DOMAIN entries' : entries'[i] = entries[i],
         \A i \in DOMAIN errors' : errors'[i] = errors[i],
         refused' = refused \ S
  PROVE  LogsFollowed'
<1> SUFFICES ASSUME NEW i \in (DOMAIN entries' \cup DOMAIN errors') \ refused'
             PROVE  LogFollowed(i)'
  BY Zenon DEF LogsFollowed
<1>1. LogFollowed(i) /\ ~Waits(q, i)
  BY DEF LogsFollowed
<1>2. /\ Waits(errEvents, i) => Waits(errEvents', i)
      /\ LastIs(errEvents, "DELETE", i) => LastIs(errEvents', "DELETE", i)
      /\ LastIs(errEvents, "MOVED_TO", i) => LastIs(errEvents', "MOVED_TO", i)
  BY <1>1, QueueEvents
<1> QED  BY <1>1, <1>2 DEF LogFollowed

\* The files that change are followed: a client's erase.
LEMMA EraseStep ==
  ASSUME SyncConstants, SyncInv, NEW x \in Sync!IDs, Sync!erase(x)
  PROVE  SyncInv'
<1>1. /\ x \in DOMAIN entries /\ Sync!Erase({x})
      /\ errEvents' = errEvents \o Sync!Queue(x, DOMAIN errors)
      /\ UNCHANGED <<pendingPELs, entryId, bmcPosition, pelEvents, creates>>
  BY DEF Sync!erase
<1>2. SyncTyped /\ LogsFollowed /\ PELsTracked
  BY DEF SyncInv
<1>3. /\ DOMAIN entries' = DOMAIN entries \ {x} /\ DOMAIN errors' = DOMAIN errors \ {x}
      /\ \A i \in DOMAIN entries' : entries'[i] = entries[i]
      /\ \A i \in DOMAIN errors' : errors'[i] = errors[i]
      /\ refused' = refused \ {x}
      /\ PELsTracked'
  BY <1>1, <1>2, EraseKeeps
<1> DEFINE q == Sync!Queue(x, DOMAIN errors)
<1>4. errEvents \in Seq(FileEvents) /\ q \in Seq(FileEvents) /\ \A j : Waits(q, j) => j \in {x}
  BY <1>2, OneEvent DEF SyncTyped
<1> HIDE DEF q
<1>5. errEvents' = errEvents \o q
  BY <1>1 DEF q
<1>6. errEvents' \in Seq(FileEvents)
  BY <1>4, <1>5, QueueEvents
<1>7. SyncTyped'
  BY <1>1, <1>2, <1>3, <1>6 DEF SyncTyped
<1>8. LogsFollowed'
  BY <1>2, <1>3, <1>4, <1>5, ErasedFollowed
<1> QED  BY <1>3, <1>7, <1>8 DEF SyncInv

\* The same of eraseAll up to a refusal.
LEMMA DeleteAllEndsStep ==
  ASSUME SyncConstants, SyncInv, NEW x \in Sync!IDs, Sync!deleteAllEnds(x)
  PROVE  SyncInv'
<1> DEFINE S == {j \in DOMAIN entries : j < x}
<1>1. /\ Sync!Erase(S)
      /\ UNCHANGED <<pendingPELs, entryId, bmcPosition, pelEvents, creates>>
  BY DEF Sync!deleteAllEnds
<1>2. PICK q \in Sync!Queues(S \cap DOMAIN errors) : errEvents' = errEvents \o q
  BY DEF Sync!deleteAllEnds
<1>3. SyncTyped /\ LogsFollowed /\ PELsTracked
  BY DEF SyncInv
<1>4. S \cap DOMAIN errors \in SUBSET Sync!IDs /\ errEvents \in Seq(FileEvents)
  BY <1>3 DEF SyncTyped
<1> HIDE DEF S
<1>5. /\ DOMAIN entries' = DOMAIN entries \ S /\ DOMAIN errors' = DOMAIN errors \ S
      /\ \A i \in DOMAIN entries' : entries'[i] = entries[i]
      /\ \A i \in DOMAIN errors' : errors'[i] = errors[i]
      /\ refused' = refused \ S
      /\ PELsTracked'
  BY <1>1, <1>3, EraseKeeps
<1>6. q \in Seq(FileEvents) /\ \A j : Waits(q, j) => j \in S
  BY <1>2, <1>4, ManyEvents
<1>7. errEvents' \in Seq(FileEvents)
  BY <1>2, <1>4, <1>6, QueueEvents
<1>8. SyncTyped'
  BY <1>1, <1>3, <1>5, <1>7 DEF SyncTyped
<1>9. LogsFollowed'
  BY <1>2, <1>3, <1>4, <1>5, <1>6, ErasedFollowed
<1> QED  BY <1>5, <1>8, <1>9 DEF SyncInv

\* The id that createEntry counts on from.
CountsFrom(S, last) == IF bmcPosition' # bmcPosition THEN Sync!LastOwn(S, bmcPosition') ELSE last

\* What createEntry does where spared is left of the entries: the others go,
\* and unless its id is taken one comes.
LEMMA AddKeeps ==
  ASSUME SyncConstants, SyncTyped, NEW spared \in SUBSET DOMAIN entries, NEW last \in Sync!IDs,
         Sync!addEntry(spared, last)
  PROVE  LET gone == DOMAIN entries \ spared
             from == CountsFrom(spared, last)
         IN  /\ bmcPosition' \in {Position, NoPosition}
             /\ bmcPosition # NoPosition => bmcPosition' = bmcPosition
             /\ from \in Sync!IDs
             /\ entryId' \in Sync!NextIDs(from, bmcPosition') /\ entryId' \in Sync!IDs
             /\ DOMAIN entries' = spared \cup {entryId'}
             /\ DOMAIN errors' = (DOMAIN errors \ gone) \cup ({entryId'} \ spared)
             /\ \A j \in spared : entries'[j] = entries[j]
             /\ \A j \in DOMAIN errors \ gone : j # entryId' \/ entryId' \in spared => errors'[j] = errors[j]
             /\ entryId' \notin spared => entries'[entryId'] = Sync!Fresh /\ errors'[entryId'] = Sync!Fresh
             /\ pels' = (pels \ (gone \cap pelIndex)) \cup ({entryId'} \ spared)
             /\ pelIndex' = (pelIndex \ gone) \cup ({entryId'} \ spared)
             /\ refused' = refused \ (gone \cup ({entryId'} \ spared))
<1> DEFINE gone == DOMAIN entries \ spared
           from == CountsFrom(spared, last)
<1>1. bmcPosition' \in {Position, NoPosition} /\ (bmcPosition # NoPosition => bmcPosition' = bmcPosition)
  BY DEF SyncTyped, Sync!addEntry, Sync!readBMCPosition
<1>2. PICK i \in Sync!NextIDs(from, bmcPosition') :
         /\ entryId' = i
         /\ entries' = [j \in spared \cup ({i} \ spared) |-> IF j \in {i} \ spared THEN Sync!Fresh ELSE entries[j]]
         /\ errors' = [j \in (DOMAIN errors \ gone) \cup ({i} \ spared) |->
                          IF j \in {i} \ spared THEN Sync!Fresh ELSE errors[j]]
         /\ pels' = (pels \ (gone \cap pelIndex)) \cup ({i} \ spared)
         /\ pelIndex' = (pelIndex \ gone) \cup ({i} \ spared)
         /\ refused' = refused \ (gone \cup ({i} \ spared))
  BY DEF Sync!addEntry, CountsFrom
<1>3. from \in Sync!IDs
  <2>1. spared \in SUBSET Sync!IDs
    BY DEF SyncTyped
  <2>2. Sync!LastOwn(spared, bmcPosition') \in Sync!IDs
    BY <2>1, LastOwnIs
  <2> QED  BY <2>2 DEF CountsFrom
<1> HIDE DEF from
<1>4. i \in Sync!IDs
  BY <1>1, <1>2, <1>3, NextTyped
<1>5. /\ DOMAIN entries' = spared \cup {i}
      /\ DOMAIN errors' = (DOMAIN errors \ gone) \cup ({i} \ spared)
      /\ \A j \in spared : entries'[j] = entries[j]
      /\ \A j \in DOMAIN errors \ gone : j # i \/ i \in spared => errors'[j] = errors[j]
      /\ i \notin spared => entries'[i] = Sync!Fresh /\ errors'[i] = Sync!Fresh
  <2> HIDE DEF gone
  <2> QED  BY <1>2
<1> QED  BY <1>1, <1>2, <1>3, <1>4, <1>5 DEF from

\* A new event log has its file and its PEL, and waiting events do no harm.
LEMMA AddStep ==
  ASSUME SyncConstants, SyncInv, NEW spared \in SUBSET DOMAIN entries, NEW last \in Sync!IDs,
         Sync!addEntry(spared, last), creates < MaxCreates, creates' = creates + 1,
         UNCHANGED <<pendingPELs, pelEvents>>,
         NEW q \in Seq(FileEvents), errEvents' = errEvents \o q,
         \A j : Waits(q, j) => j \in DOMAIN entries \ spared
  PROVE  SyncInv'
<1>1. SyncTyped /\ LogsFollowed /\ PELsTracked /\ errEvents \in Seq(FileEvents)
  BY DEF SyncInv, SyncTyped
<1> DEFINE gone == DOMAIN entries \ spared
<1>2. PICK i \in Sync!IDs :
         /\ entryId' = i
         /\ DOMAIN entries' = spared \cup {i}
         /\ DOMAIN errors' = (DOMAIN errors \ gone) \cup ({i} \ spared)
         /\ \A j \in spared : entries'[j] = entries[j]
         /\ \A j \in DOMAIN errors \ gone : j # i \/ i \in spared => errors'[j] = errors[j]
         /\ i \notin spared => entries'[i] = Sync!Fresh /\ errors'[i] = Sync!Fresh
         /\ pels' = (pels \ (gone \cap pelIndex)) \cup ({i} \ spared)
         /\ pelIndex' = (pelIndex \ gone) \cup ({i} \ spared)
         /\ refused' = refused \ (gone \cup ({i} \ spared))
  BY <1>1, AddKeeps
<1>3. bmcPosition' \in {Position, NoPosition}
  BY <1>1, AddKeeps
<1>4. SyncTyped'
  <2>1. Sync!Fresh \in Content
    BY DEF Sync!Fresh, Content
  <2>2. creates' \in Nat /\ creates' <= MaxCreates
    BY <1>1 DEF SyncTyped, SyncConstants
  <2>3. errEvents' \in Seq(FileEvents)
    BY <1>1, QueueEvents
  <2>4. \A j \in DOMAIN entries' : entries'[j] \in Content
    BY <1>1, <1>2, <2>1 DEF SyncTyped
  <2>5. \A j \in DOMAIN errors' : errors'[j] \in Content
    BY <1>1, <1>2, <2>1 DEF SyncTyped
  <2>6. DOMAIN entries' \subseteq Sync!IDs /\ DOMAIN errors' \subseteq Sync!IDs
    BY <1>1, <1>2 DEF SyncTyped
  <2> QED  BY <1>1, <1>2, <1>3, <2>2, <2>3, <2>4, <2>5, <2>6 DEF SyncTyped
<1>5. LogsFollowed'
  <2> SUFFICES ASSUME NEW j \in (DOMAIN entries' \cup DOMAIN errors') \ refused'
               PROVE  LogFollowed(j)'
    BY Zenon DEF LogsFollowed
  <2>1. CASE j = i /\ i \notin spared
    BY <1>2, <2>1 DEF LogFollowed
  <2>2. CASE ~(j = i /\ i \notin spared)
    <3>1. j \notin gone /\ j \notin refused /\ j \in DOMAIN entries \cup DOMAIN errors
      BY <1>2, <2>2
    <3>2. LogFollowed(j) /\ ~Waits(q, j)
      BY <1>1, <3>1 DEF LogsFollowed
    <3>3. /\ Waits(errEvents, j) => Waits(errEvents', j)
          /\ LastIs(errEvents, "DELETE", j) => LastIs(errEvents', "DELETE", j)
          /\ LastIs(errEvents, "MOVED_TO", j) => LastIs(errEvents', "MOVED_TO", j)
      BY <1>1, <3>2, QueueEvents
    <3>4. /\ j \in DOMAIN entries' <=> j \in DOMAIN entries
          /\ j \in DOMAIN errors' <=> j \in DOMAIN errors
          /\ j \in DOMAIN entries => entries'[j] = entries[j]
          /\ j \in DOMAIN errors => errors'[j] = errors[j]
      BY <1>2, <2>2, <3>1
    <3> QED  BY <3>2, <3>3, <3>4 DEF LogFollowed
  <2> QED  BY <2>1, <2>2
<1>6. PELsTracked'
  BY <1>1, <1>2 DEF PELsTracked
<1> QED  BY <1>4, <1>5, <1>6 DEF SyncInv

\* createEntry erases nothing.
LEMMA CreateStep ==
  ASSUME SyncConstants, SyncInv, Sync!createEntry
  PROVE  SyncInv'
<1>1. entryId \in Sync!IDs /\ errEvents \in Seq(FileEvents)
  BY DEF SyncInv, SyncTyped
<1>2. /\ Sync!addEntry(DOMAIN entries, entryId) /\ creates < MaxCreates /\ creates' = creates + 1
      /\ UNCHANGED <<pendingPELs, pelEvents>> /\ errEvents' = errEvents
  BY DEF Sync!createEntry
<1>3. << >> \in Seq(FileEvents) /\ errEvents' = errEvents \o << >> /\ \A j : ~Waits(<< >>, j)
  BY <1>1, <1>2 DEF Waits
<1> QED  BY <1>1, <1>2, <1>3, AddStep

\* What is not kept goes with its files, and one comes.
LEMMA DeleteAllStep ==
  ASSUME SyncConstants, SyncInv, Sync!deleteAll
  PROVE  SyncInv'
<1>1. SyncTyped
  BY DEF SyncInv
<1>2. PICK spared \in SUBSET DOMAIN entries :
         /\ Sync!addEntry(spared, Sync!LastKept(spared))
         /\ \E q \in Sync!Queues((DOMAIN entries \ spared) \cap DOMAIN errors) : errEvents' = errEvents \o q
  BY DEF Sync!deleteAll
<1>3. creates < MaxCreates /\ creates' = creates + 1 /\ UNCHANGED <<pendingPELs, pelEvents>>
  BY DEF Sync!deleteAll
<1>4. PICK q \in Sync!Queues((DOMAIN entries \ spared) \cap DOMAIN errors) : errEvents' = errEvents \o q
  BY <1>2
<1> DEFINE S == (DOMAIN entries \ spared) \cap DOMAIN errors
<1>5. S \in SUBSET Sync!IDs /\ spared \in SUBSET Sync!IDs
  BY <1>1 DEF SyncTyped
<1>6. q \in Seq(FileEvents) /\ \A j : Waits(q, j) => j \in S
  <2> HIDE DEF S
  <2>1. q \in Sync!Queues(S)
    BY <1>4 DEF S
  <2> QED  BY <1>5, <2>1, ManyEvents
<1>7. Sync!LastKept(spared) \in Sync!IDs
  BY <1>5, LastKeptIs
<1> QED  BY <1>2, <1>3, <1>4, <1>6, <1>7, AddStep
\* The sync tool changes files and queues the event for it.
LEMMA SyncLogStep ==
  ASSUME SyncConstants, SyncInv, NEW x \in SyncedIDs,
         \/ \E c \in {Sync!Fresh, Sync!Changed} : Sync!SyncLog(x, c)
         \/ Sync!SyncLogGone(x)
  PROVE  SyncInv'
<1>1. SyncTyped /\ LogsFollowed /\ PELsTracked /\ x \in Sync!IDs
  BY DEF SyncInv, SyncConstants
<1>2. /\ UNCHANGED <<entries, entryId, bmcPosition, refused, creates>>
      /\ UNCHANGED <<pels, pelIndex, pendingPELs, pelEvents>>
  BY DEF Sync!SyncLog, Sync!SyncLogGone, Sync!repo, Sync!Sync
<1>3. errEvents \in Seq(FileEvents)
  BY <1>1 DEF SyncTyped
<1>4. PELsTracked'
  BY <1>1, <1>2 DEF PELsTracked
<1>5. ASSUME NEW c \in {Sync!Fresh, Sync!Changed}, Sync!SyncLog(x, c)
      PROVE  SyncInv'
  <2>1. errors' = Sync!With(errors, x, c) /\ errEvents' = Append(errEvents, <<"MOVED_TO", x>>)
    BY <1>5 DEF Sync!SyncLog, Sync!MovedTo
  <2>2. /\ DOMAIN errors' = DOMAIN errors \cup {x} /\ errors'[x] = c
        /\ \A j \in DOMAIN errors : j # x => errors'[j] = errors[j]
    BY <2>1 DEF Sync!With
  <2>3. c \in Content
    <3>1. Sync!Fresh \in Content /\ Sync!Changed \in Content
      BY DEF Content, Sync!Fresh, Sync!Changed
    <3> QED  BY <3>1
  <2> DEFINE r == << <<"MOVED_TO", x>> >>
  <2>4. /\ r \in Seq(FileEvents) /\ LastIs(r, "MOVED_TO", x)
        /\ Waits(r, x) /\ \A j : j # x => ~Waits(r, j)
    BY <1>1, OneEvent
  <2>5. errEvents' = errEvents \o r
    BY <1>3, <2>1, <2>4
  <2> HIDE DEF r
  <2>6. errEvents' \in Seq(FileEvents) /\ LastIs(errEvents', "MOVED_TO", x) /\ Waits(errEvents', x)
    BY <1>3, <2>4, <2>5, QueueEvents
  <2>7. ASSUME NEW j, j # x
        PROVE  /\ Waits(errEvents, j) => Waits(errEvents', j)
               /\ LastIs(errEvents, "DELETE", j) => LastIs(errEvents', "DELETE", j)
               /\ LastIs(errEvents, "MOVED_TO", j) => LastIs(errEvents', "MOVED_TO", j)
    BY <1>3, <2>4, <2>5, <2>7, QueueEvents
  <2>8. SyncTyped'
    BY <1>1, <1>2, <2>2, <2>3, <2>6 DEF SyncTyped
  <2>9. LogFollowed(x)'
    BY <2>2, <2>6 DEF LogFollowed
  <2>10. LogsFollowed'
    BY <1>1, <1>2, <2>2, <2>7, <2>9, OthersFollowed
  <2> QED  BY <1>4, <2>8, <2>10 DEF SyncInv
<1>6. ASSUME Sync!SyncLogGone(x)  PROVE SyncInv'
  <2>1. /\ x \in DOMAIN errors /\ errors' = Sync!Without(errors, {x})
        /\ errEvents' = errEvents \o Sync!Queue(x, DOMAIN errors)
    BY <1>6 DEF Sync!SyncLogGone
  <2>2. /\ DOMAIN errors' = DOMAIN errors \ {x}
        /\ \A j \in DOMAIN errors : j # x => errors'[j] = errors[j]
    BY <2>1 DEF Sync!Without
  <2> DEFINE r == Sync!Queue(x, DOMAIN errors)
  <2>3. /\ r \in Seq(FileEvents) /\ LastIs(r, "DELETE", x)
        /\ \A j : j # x => ~Waits(r, j)
    BY <1>1, <2>1, OneEvent
  <2> HIDE DEF r
  <2>4. errEvents' = errEvents \o r
    BY <2>1 DEF r
  <2>5. errEvents' \in Seq(FileEvents) /\ LastIs(errEvents', "DELETE", x)
    BY <1>3, <2>3, <2>4, QueueEvents
  <2>6. ASSUME NEW j, j # x
        PROVE  /\ Waits(errEvents, j) => Waits(errEvents', j)
               /\ LastIs(errEvents, "DELETE", j) => LastIs(errEvents', "DELETE", j)
               /\ LastIs(errEvents, "MOVED_TO", j) => LastIs(errEvents', "MOVED_TO", j)
    BY <1>3, <2>3, <2>4, <2>6, QueueEvents
  <2>7. SyncTyped'
    BY <1>1, <1>2, <2>2, <2>5 DEF SyncTyped
  <2>8. LogFollowed(x)'
    BY <2>2, <2>5 DEF LogFollowed
  <2>9. LogsFollowed'
    BY <1>1, <1>2, <2>2, <2>6, <2>8, OthersFollowed
  <2> QED  BY <1>4, <2>7, <2>9 DEF SyncInv
<1> QED  BY <1>5, <1>6

\* The same of the files of PELs.
LEMMA SyncPELStep ==
  ASSUME SyncConstants, SyncInv, NEW x \in SyncedIDs,
         Sync!SyncPEL(x) \/ Sync!SyncPELGone(x)
  PROVE  SyncInv'
<1>1. SyncTyped /\ LogsFollowed /\ PELsTracked /\ x \in Sync!IDs
  BY DEF SyncInv, SyncConstants
<1>2. /\ UNCHANGED <<entries, errors, entryId, bmcPosition, errEvents, refused, creates>>
      /\ UNCHANGED <<pelIndex, pendingPELs>>
  BY DEF Sync!SyncPEL, Sync!SyncPELGone, Sync!logs, Sync!Sync
<1>3. pelEvents \in Seq(FileEvents)
  BY <1>1 DEF SyncTyped
<1>4. PICK r \in Seq(FileEvents) :
         /\ pelEvents' = pelEvents \o r
         /\ \A i \in pels' \ pels : \E n \in 1..Len(r) : r[n] = <<"MOVED_TO", i>>
  <2>1. CASE Sync!SyncPEL(x)
    <3> DEFINE r == << <<"MOVED_TO", x>> >>
    <3>1. r \in Seq(FileEvents)
      BY <1>1, OneEvent
    <3>2. pels' = pels \cup {x} /\ pelEvents' = pelEvents \o r
      BY <1>3, <2>1, <3>1 DEF Sync!SyncPEL, Sync!MovedTo
    <3>3. \A i \in pels' \ pels : \E n \in 1..Len(r) : r[n] = <<"MOVED_TO", i>>
      BY <3>2
    <3> QED  BY <3>1, <3>2, <3>3
  <2>2. CASE Sync!SyncPELGone(x)
    <3>1. pels' = pels \ {x} /\ pelEvents' = pelEvents \o Sync!Queue(x, pels)
      BY <2>2 DEF Sync!SyncPELGone
    <3>2. Sync!Queue(x, pels) \in Seq(FileEvents)
      BY <1>1, OneEvent
    <3> QED  BY <3>1, <3>2
  <2> QED  BY <2>1, <2>2
<1>5. /\ pelEvents' \in Seq(FileEvents)
      /\ Len(pelEvents) \in Nat /\ Len(r) \in Nat /\ Len(pelEvents') = Len(pelEvents) + Len(r)
      /\ \A n \in 1..Len(pelEvents) : pelEvents'[n] = pelEvents[n]
      /\ \A n \in 1..Len(r) : pelEvents'[n + Len(pelEvents)] = r[n]
  BY <1>3, <1>4
<1>6. SyncTyped'
  BY <1>1, <1>2, <1>5 DEF SyncTyped
<1>7. LogsFollowed'
  BY <1>1, <1>2 DEF LogsFollowed, LogFollowed
<1>8. PELsTracked'
  <2> SUFFICES ASSUME NEW i \in pels' \ pelIndex'
               PROVE  \/ i \in pendingPELs' /\ i \notin DOMAIN entries'
                      \/ \E n \in 1..Len(pelEvents') : pelEvents'[n] = <<"MOVED_TO", i>>
    BY <1>1, <1>2 DEF PELsTracked
  <2>1. CASE i \in pels
    <3>1. i \in pels \ pelIndex
      BY <1>2, <2>1
    <3>2. CASE i \in pendingPELs /\ i \notin DOMAIN entries
      BY <1>2, <3>2
    <3>3. CASE ~(i \in pendingPELs /\ i \notin DOMAIN entries)
      <4>1. PICK n \in 1..Len(pelEvents) : pelEvents[n] = <<"MOVED_TO", i>>
        BY <1>1, <3>1, <3>3 DEF PELsTracked
      <4>2. n \in 1..Len(pelEvents') /\ pelEvents'[n] = <<"MOVED_TO", i>>
        BY <1>5, <4>1
      <4> QED  BY <4>2
    <3> QED  BY <3>2, <3>3
  <2>2. CASE i \notin pels
    <3>1. PICK n \in 1..Len(r) : r[n] = <<"MOVED_TO", i>>
      BY <1>4, <2>2
    <3>2. n + Len(pelEvents) \in 1..Len(pelEvents')
      BY <1>5, <3>1
    <3> QED  BY <1>5, <3>1, <3>2
  <2> QED  BY <2>1, <2>2
<1> QED  BY <1>6, <1>7, <1>8 DEF SyncInv
\* A move is handled: what the file says is in the entry, or there is neither,
\* or the handler has given up.
LEMMA MovedStep ==
  ASSUME SyncConstants, SyncInv, NEW x \in Sync!IDs,
         Sync!restoreFromDisk(x) \/ Sync!refreshFromDisk(x)
  PROVE  SyncInv'
<1>1. SyncTyped /\ LogsFollowed /\ PELsTracked
  BY DEF SyncInv
<1>2. /\ errEvents # << >> /\ Head(errEvents) = <<"MOVED_TO", x>> /\ errEvents' = Tail(errEvents)
      /\ UNCHANGED <<bmcPosition, creates, pels, pelEvents>>
  BY DEF Sync!restoreFromDisk, Sync!refreshFromDisk, Sync!ErrEvent, Sync!repo
<1>3. errEvents \in Seq(FileEvents)
  BY <1>1 DEF SyncTyped
<1>4. /\ errEvents' \in Seq(FileEvents)
      /\ LastIs(errEvents, "DELETE", x) => LastIs(errEvents', "DELETE", x)
  BY <1>2, <1>3, TakeEvent
<1>5. ASSUME NEW j, j # x
      PROVE  /\ Waits(errEvents, j) => Waits(errEvents', j)
             /\ LastIs(errEvents, "DELETE", j) => LastIs(errEvents', "DELETE", j)
             /\ LastIs(errEvents, "MOVED_TO", j) => LastIs(errEvents', "MOVED_TO", j)
  BY <1>2, <1>3, <1>5, TakeEvent
<1>6. ASSUME Sync!restoreFromDisk(x)  PROVE SyncInv'
  <2>1. x \notin DOMAIN entries
    BY <1>6 DEF Sync!restoreFromDisk
  <2>2. CASE /\ x \in DOMAIN errors /\ UNCHANGED errors
             /\ entries' = Sync!With(entries, x, errors[x])
             /\ Sync!linkPELToEventLog(x, DOMAIN entries', pendingPELs)
             /\ entryId' = Sync!lastWith(x)
             /\ refused' = refused \ {x}
    <3>1. /\ DOMAIN entries' = DOMAIN entries \cup {x} /\ entries'[x] = errors[x]
          /\ \A j \in DOMAIN entries : j # x => entries'[j] = entries[j]
      BY <2>2 DEF Sync!With
    <3>2. pelIndex' = IF x \in pendingPELs THEN pelIndex \cup {x} ELSE pelIndex
      BY <2>2, <3>1 DEF Sync!linkPELToEventLog, Sync!completePELLink
    <3>3. pendingPELs' = pendingPELs \ {x}
      BY <2>2, <3>1 DEF Sync!linkPELToEventLog, Sync!completePELLink
    <3>4. entryId' \in Sync!IDs
      BY <1>1, <2>2 DEF Sync!lastWith, SyncTyped
    <3>5. SyncTyped'
      BY <1>1, <1>2, <1>4, <2>2, <3>1, <3>4 DEF SyncTyped
    <3>6. LogFollowed(x)'
      BY <2>2, <3>1 DEF LogFollowed
    <3>7. LogsFollowed'
      BY <1>1, <1>5, <2>2, <3>1, <3>6, OthersFollowed
    <3>8. PELsTracked'
      BY <1>1, <1>2, <3>1, <3>2, <3>3 DEF PELsTracked
    <3> QED  BY <3>5, <3>7, <3>8 DEF SyncInv
  <2>3. CASE /\ x \in DOMAIN errors /\ (Sync!corruptError(x) \/ UNCHANGED errors)
             /\ refused' = refused \cup {x}
             /\ UNCHANGED <<entries, pelIndex, pendingPELs, entryId>>
    <3>1. /\ DOMAIN errors' \subseteq DOMAIN errors
          /\ \A j \in DOMAIN errors : j # x => j \in DOMAIN errors'
          /\ \A j \in DOMAIN errors' : errors'[j] = errors[j]
      BY <2>3 DEF Sync!corruptError, Sync!Without
    <3>2. SyncTyped'
      BY <1>1, <1>2, <1>4, <2>3, <3>1 DEF SyncTyped
    <3>3. LogsFollowed'
      BY <1>1, <1>5, <2>3, <3>1, OthersFollowed
    <3>4. PELsTracked'
      BY <1>1, <1>2, <2>3 DEF PELsTracked
    <3> QED  BY <3>2, <3>3, <3>4 DEF SyncInv
  <2>4. CASE /\ x \notin DOMAIN errors
             /\ UNCHANGED <<entries, errors, pelIndex, pendingPELs, entryId, refused>>
    <3>1. SyncTyped'
      BY <1>1, <1>2, <1>4, <2>4 DEF SyncTyped
    <3>2. LogFollowed(x)'
      BY <2>1, <2>4 DEF LogFollowed
    <3>3. LogsFollowed'
      BY <1>1, <1>5, <2>4, <3>2, OthersFollowed
    <3>4. PELsTracked'
      BY <1>1, <1>2, <2>4 DEF PELsTracked
    <3> QED  BY <3>1, <3>3, <3>4 DEF SyncInv
  <2> QED  BY <1>6, <2>2, <2>3, <2>4 DEF Sync!restoreFromDisk
<1>7. ASSUME Sync!refreshFromDisk(x)  PROVE SyncInv'
  <2>1. x \in DOMAIN entries /\ UNCHANGED <<entryId, pelIndex, pendingPELs>>
    BY <1>7 DEF Sync!refreshFromDisk, Sync!repo
  <2>2. CASE x \in DOMAIN errors /\ Sync!assignEntry(x)
    <3> DEFINE old == [entries[x] EXCEPT !.resolved = errors[x].resolved]
    <3>1. /\ entries' = Sync!With(entries, x, errors[x])
          /\ errors' = IF entries[x].resolved = errors[x].resolved THEN errors
                       ELSE Sync!With(errors, x, old)
          /\ refused' = refused \ {x}
      BY <2>2 DEF Sync!assignEntry
    <3>2. entries[x] \in Content /\ errors[x] \in Content
      BY <1>1, <2>1, <2>2 DEF SyncTyped
    <3>3. old \in Content /\ old.resolved = errors[x].resolved
      BY <3>2 DEF Content
    <3> HIDE DEF old
    <3>4. /\ DOMAIN entries' = DOMAIN entries /\ entries'[x] = errors[x]
          /\ \A j \in DOMAIN entries : j # x => entries'[j] = entries[j]
      BY <2>1, <3>1 DEF Sync!With
    <3>5. /\ DOMAIN errors' = DOMAIN errors
          /\ errors'[x] \in Content /\ errors'[x].resolved = errors[x].resolved
          /\ \A j \in DOMAIN errors : j # x => errors'[j] = errors[j]
      BY <2>2, <3>1, <3>2, <3>3 DEF Sync!With
    <3>6. SyncTyped'
      BY <1>1, <1>2, <1>4, <2>1, <3>2, <3>4, <3>5 DEF SyncTyped
    <3>7. LogFollowed(x)'
      BY <2>1, <2>2, <3>4, <3>5 DEF LogFollowed
    <3>8. LogsFollowed'
      BY <1>1, <1>5, <3>1, <3>4, <3>5, <3>7, OthersFollowed
    <3>9. PELsTracked'
      BY <1>1, <1>2, <2>1, <3>4 DEF PELsTracked
    <3> QED  BY <3>6, <3>8, <3>9 DEF SyncInv
  <2>3. CASE /\ x \in DOMAIN errors /\ (Sync!corruptError(x) \/ UNCHANGED errors)
             /\ refused' = refused \cup {x}
             /\ UNCHANGED entries
    <3>1. /\ DOMAIN errors' \subseteq DOMAIN errors
          /\ \A j \in DOMAIN errors : j # x => j \in DOMAIN errors'
          /\ \A j \in DOMAIN errors' : errors'[j] = errors[j]
      BY <2>3 DEF Sync!corruptError, Sync!Without
    <3>2. SyncTyped'
      BY <1>1, <1>2, <1>4, <2>1, <2>3, <3>1 DEF SyncTyped
    <3>3. LogsFollowed'
      BY <1>1, <1>5, <2>3, <3>1, OthersFollowed
    <3>4. PELsTracked'
      BY <1>1, <1>2, <2>1, <2>3 DEF PELsTracked
    <3> QED  BY <3>2, <3>3, <3>4 DEF SyncInv
  <2>4. CASE x \notin DOMAIN errors /\ UNCHANGED <<entries, errors, refused>>
    <3>1. SyncTyped'
      BY <1>1, <1>2, <1>4, <2>1, <2>4 DEF SyncTyped
    <3>2. x \in refused \/ LogFollowed(x)
      BY <1>1, <2>1 DEF LogsFollowed
    <3>3. x \in refused' \/ LogFollowed(x)'
      BY <1>4, <2>1, <2>4, <3>2 DEF LogFollowed
    <3>4. LogsFollowed'
      BY <1>1, <1>5, <2>4, <3>3, OthersFollowed
    <3>5. PELsTracked'
      BY <1>1, <1>2, <2>1, <2>4 DEF PELsTracked
    <3> QED  BY <3>1, <3>4, <3>5 DEF SyncInv
  <2> QED  BY <1>7, <2>2, <2>3, <2>4 DEF Sync!refreshFromDisk
<1> QED  BY <1>6, <1>7
\* A deletion is handled: the entry goes, and a file that is there again; or
\* the handler has given up.
LEMMA DeletedStep ==
  ASSUME SyncConstants, SyncInv, NEW x \in Sync!IDs, Sync!errorFileDeleted(x)
  PROVE  SyncInv'
<1>1. SyncTyped /\ LogsFollowed /\ PELsTracked
  BY DEF SyncInv
<1>2. /\ errEvents # << >> /\ Head(errEvents) = <<"DELETE", x>>
      /\ UNCHANGED <<pendingPELs, entryId, bmcPosition, pelEvents, creates>>
  BY DEF Sync!errorFileDeleted, Sync!ErrEvent
<1>3. errEvents \in Seq(FileEvents)
  BY <1>1 DEF SyncTyped
<1>4. /\ Tail(errEvents) \in Seq(FileEvents)
      /\ LastIs(errEvents, "MOVED_TO", x) => LastIs(Tail(errEvents), "MOVED_TO", x)
  BY <1>2, <1>3, TakeEvent
<1>5. ASSUME NEW j, j # x
      PROVE  /\ Waits(errEvents, j) => Waits(Tail(errEvents), j)
             /\ LastIs(errEvents, "DELETE", j) => LastIs(Tail(errEvents), "DELETE", j)
             /\ LastIs(errEvents, "MOVED_TO", j) => LastIs(Tail(errEvents), "MOVED_TO", j)
  BY <1>2, <1>3, <1>5, TakeEvent
<1>6. CASE x \in DOMAIN entries /\ Sync!Erase({x}) /\ errEvents' = Tail(errEvents) \o Sync!Queue(x, DOMAIN errors)
  <2> DEFINE r == Sync!Queue(x, DOMAIN errors)
  <2>1. errEvents' = Tail(errEvents) \o r
    BY <1>6
  <2>2. /\ DOMAIN entries' = DOMAIN entries \ {x} /\ DOMAIN errors' = DOMAIN errors \ {x}
        /\ \A i \in DOMAIN entries' : entries'[i] = entries[i]
        /\ \A i \in DOMAIN errors' : errors'[i] = errors[i]
        /\ refused' = refused \ {x}
        /\ PELsTracked'
    BY <1>1, <1>2, <1>6, EraseKeeps
  <2>3. r \in Seq(FileEvents) /\ \A j : j # x => ~Waits(r, j)
    BY OneEvent
  <2> HIDE DEF r
  <2>4. errEvents' \in Seq(FileEvents)
    BY <1>4, <2>1, <2>3, QueueEvents
  <2>5. ASSUME NEW j, j # x
        PROVE  /\ Waits(errEvents, j) => Waits(errEvents', j)
               /\ LastIs(errEvents, "DELETE", j) => LastIs(errEvents', "DELETE", j)
               /\ LastIs(errEvents, "MOVED_TO", j) => LastIs(errEvents', "MOVED_TO", j)
    BY <1>4, <1>5, <2>1, <2>3, <2>5, QueueEvents
  <2>6. SyncTyped'
    BY <1>1, <1>2, <2>2, <2>4 DEF SyncTyped
  <2>7. LogFollowed(x)'
    BY <2>2 DEF LogFollowed
  <2>8. LogsFollowed'
    BY <1>1, <2>2, <2>5, <2>7, OthersFollowed
  <2> QED  BY <2>2, <2>6, <2>8 DEF SyncInv
<1>7. CASE /\ errEvents' = Tail(errEvents) /\ UNCHANGED <<entries, errors, pelIndex, pels>>
           /\ \/ refused' = refused \cup {x}
              \/ x \notin DOMAIN entries /\ UNCHANGED refused
  <2>1. SyncTyped'
    BY <1>1, <1>2, <1>4, <1>7 DEF SyncTyped
  <2>2. x \in refused' \/ LogFollowed(x)'
    BY <1>1, <1>4, <1>7 DEF LogsFollowed, LogFollowed
  <2>3. LogsFollowed'
    BY <1>1, <1>5, <1>7, <2>2, OthersFollowed
  <2>4. PELsTracked'
    BY <1>1, <1>2, <1>7 DEF PELsTracked
  <2> QED  BY <2>1, <2>3, <2>4 DEF SyncInv
<1> QED  BY <1>6, <1>7 DEF Sync!errorFileDeleted

\* The event of a PEL is handled: the others still wait.
LEMMA PELEventTaken ==
  ASSUME SyncTyped, NEW k, NEW x, Sync!PELEvent(k, x)
  PROVE  /\ pelEvents' \in Seq(FileEvents) /\ creates' = creates
         /\ \A i : (\E n \in 1..Len(pelEvents) : pelEvents[n] = <<"MOVED_TO", i>>) =>
               <<k, x>> = <<"MOVED_TO", i>> \/ \E n \in 1..Len(pelEvents') : pelEvents'[n] = <<"MOVED_TO", i>>
<1>1. /\ pelEvents \in Seq(FileEvents) /\ pelEvents # << >> /\ Head(pelEvents) = <<k, x>>
      /\ pelEvents' = Tail(pelEvents) /\ creates' = creates
  BY DEF SyncTyped, Sync!PELEvent
<1>2. /\ Len(pelEvents) \in Nat /\ pelEvents' \in Seq(FileEvents) /\ Len(pelEvents') = Len(pelEvents) - 1
      /\ \A n \in 1..Len(pelEvents') : pelEvents'[n] = pelEvents[n + 1]
      /\ pelEvents[1] = <<k, x>>
  BY <1>1
<1>3. ASSUME NEW i, NEW n \in 1..Len(pelEvents), pelEvents[n] = <<"MOVED_TO", i>>, <<k, x>> # <<"MOVED_TO", i>>
      PROVE  \E m \in 1..Len(pelEvents') : pelEvents'[m] = <<"MOVED_TO", i>>
  <2>1. n - 1 \in 1..Len(pelEvents') /\ pelEvents'[n - 1] = pelEvents[n]
    BY <1>2, <1>3
  <2> QED  BY <1>3, <2>1
<1> QED  BY <1>1, <1>2, <1>3

\* A PEL is indexed, or waits for its event log.
LEMMA PELMovedStep ==
  ASSUME SyncConstants, SyncInv, NEW x \in Sync!IDs, Sync!handlePELMovedTo(x)
  PROVE  SyncInv'
<1>1. SyncTyped /\ LogsFollowed /\ PELsTracked
  BY DEF SyncInv
<1>2. /\ pelEvents' \in Seq(FileEvents) /\ creates' = creates
      /\ \A i : (\E n \in 1..Len(pelEvents) : pelEvents[n] = <<"MOVED_TO", i>>) =>
            x = i \/ \E n \in 1..Len(pelEvents') : pelEvents'[n] = <<"MOVED_TO", i>>
  <2>1. Sync!PELEvent("MOVED_TO", x)
    BY DEF Sync!handlePELMovedTo
  <2> QED  BY <1>1, <2>1, PELEventTaken
<1>3. UNCHANGED <<entries, errors, entryId, bmcPosition, errEvents, refused, pels>>
  BY DEF Sync!handlePELMovedTo, Sync!logs
<1>4. SyncTyped'
  BY <1>1, <1>2, <1>3 DEF SyncTyped
<1>5. LogsFollowed'
  BY <1>1, <1>3 DEF LogsFollowed, LogFollowed
<1>6. PELsTracked'
  <2>1. /\ pelIndex \subseteq DOMAIN entries
        /\ \A i \in pels \ pelIndex :
              \/ i \in pendingPELs /\ i \notin DOMAIN entries
              \/ x = i \/ \E n \in 1..Len(pelEvents') : pelEvents'[n] = <<"MOVED_TO", i>>
    BY <1>1, <1>2 DEF PELsTracked
  <2>2. CASE x \in pelIndex \/ x \notin pels
    <3>1. UNCHANGED <<pelIndex, pendingPELs>>
      BY <2>2 DEF Sync!handlePELMovedTo, Sync!updatePELFromFile, Sync!parsePELFile
    <3> QED  BY <1>3, <2>1, <2>2, <3>1 DEF PELsTracked
  <2>3. CASE x \notin pelIndex /\ x \in pels
    <3>1. Sync!linkPELToEventLog(x, DOMAIN entries, pendingPELs \cup {x})
      BY <2>3 DEF Sync!handlePELMovedTo, Sync!importPELFromFile, Sync!parsePELFile
    <3>2. IF x \in DOMAIN entries
          THEN pelIndex' = pelIndex \cup {x} /\ pendingPELs' = (pendingPELs \cup {x}) \ {x}
          ELSE pelIndex' = pelIndex /\ pendingPELs' = pendingPELs \cup {x}
      BY <3>1 DEF Sync!linkPELToEventLog, Sync!completePELLink
    <3> QED  BY <1>3, <2>1, <3>2 DEF PELsTracked
  <2> QED  BY <2>2, <2>3
<1> QED  BY <1>4, <1>5, <1>6 DEF SyncInv

\* A PEL goes with its event log, and the file of the event log with that.
LEMMA PELDeletedStep ==
  ASSUME SyncConstants, SyncInv, NEW x \in Sync!IDs, Sync!handlePELDelete(x)
  PROVE  SyncInv'
<1>1. SyncTyped /\ LogsFollowed /\ PELsTracked
  BY DEF SyncInv
<1>2. /\ pelEvents' \in Seq(FileEvents) /\ creates' = creates
      /\ \A i : (\E n \in 1..Len(pelEvents) : pelEvents[n] = <<"MOVED_TO", i>>) =>
            \E n \in 1..Len(pelEvents') : pelEvents'[n] = <<"MOVED_TO", i>>
  <2>1. Sync!PELEvent("DELETE", x)
    BY DEF Sync!handlePELDelete
  <2>2. /\ pelEvents' \in Seq(FileEvents) /\ creates' = creates
        /\ \A i : (\E n \in 1..Len(pelEvents) : pelEvents[n] = <<"MOVED_TO", i>>) =>
              <<"DELETE", x>> = <<"MOVED_TO", i>> \/ \E n \in 1..Len(pelEvents') : pelEvents'[n] = <<"MOVED_TO", i>>
    BY <1>1, <2>1, PELEventTaken
  <2> QED  BY <2>2
<1>3. UNCHANGED <<pendingPELs, entryId, bmcPosition>>
  BY DEF Sync!handlePELDelete
<1>4. CASE x \in pelIndex
  <2> DEFINE r == Sync!Queue(x, DOMAIN entries \cap DOMAIN errors)
  <2>1. Sync!Erase({x}) /\ errEvents' = errEvents \o r
    BY <1>4 DEF Sync!handlePELDelete
  <2>2. /\ DOMAIN entries' = DOMAIN entries \ {x} /\ DOMAIN errors' = DOMAIN errors \ {x}
        /\ \A i \in DOMAIN entries' : entries'[i] = entries[i]
        /\ \A i \in DOMAIN errors' : errors'[i] = errors[i]
        /\ refused' = refused \ {x}
        /\ pelIndex' \subseteq DOMAIN entries'
        /\ pels' \ pelIndex' = pels \ pelIndex
    BY <1>1, <2>1, EraseKeeps
  <2>3. r \in Seq(FileEvents) /\ \A j : Waits(r, j) => j \in {x}
    BY OneEvent
  <2> HIDE DEF r
  <2>4. errEvents \in Seq(FileEvents) /\ errEvents' \in Seq(FileEvents)
    BY <1>1, <2>1, <2>3, QueueEvents DEF SyncTyped
  <2>6. SyncTyped'
    BY <1>1, <1>2, <1>3, <2>2, <2>4 DEF SyncTyped
  <2>8. LogsFollowed'
    BY <1>1, <2>1, <2>2, <2>3, <2>4, ErasedFollowed
  <2>9. PELsTracked'
    BY <1>1, <1>2, <1>3, <2>2 DEF PELsTracked
  <2> QED  BY <2>6, <2>8, <2>9 DEF SyncInv
<1>5. CASE x \notin pelIndex
  <2>1. UNCHANGED <<entries, errors, pelIndex, pels, refused, errEvents>>
    BY <1>5 DEF Sync!handlePELDelete
  <2>2. SyncTyped'
    BY <1>1, <1>2, <1>3, <2>1 DEF SyncTyped
  <2>3. LogsFollowed'
    BY <1>1, <2>1 DEF LogsFollowed, LogFollowed
  <2>4. PELsTracked'
    BY <1>1, <1>2, <1>3, <2>1 DEF PELsTracked
  <2> QED  BY <2>2, <2>3, <2>4 DEF SyncInv
<1> QED  BY <1>4, <1>5
\* Every step of BMCSync keeps the invariant.
LEMMA SyncStep ==
  ASSUME SyncConstants, SyncInv, Sync!Next
  PROVE  SyncInv'
<1>1. ASSUME NEW i \in SyncedIDs,
             \/ \E c \in {Sync!Fresh, Sync!Changed} : Sync!SyncLog(i, c)
             \/ Sync!SyncLogGone(i) \/ Sync!SyncPEL(i) \/ Sync!SyncPELGone(i)
      PROVE  SyncInv'
  BY <1>1, SyncLogStep, SyncPELStep
<1>2. ASSUME NEW i \in Sync!IDs,
             \/ Sync!restoreFromDisk(i) \/ Sync!refreshFromDisk(i) \/ Sync!errorFileDeleted(i)
             \/ Sync!handlePELMovedTo(i) \/ Sync!handlePELDelete(i)
      PROVE  SyncInv'
  BY <1>2, MovedStep, DeletedStep, PELMovedStep, PELDeletedStep
<1>3. ASSUME Sync!Done  PROVE SyncInv'
  <2>1. /\ UNCHANGED <<entries, errors, pels, pelIndex, pendingPELs, entryId, bmcPosition>>
        /\ UNCHANGED <<errEvents, pelEvents, refused, creates>>
    BY <1>3 DEF Sync!Done, Sync!vars
  <2> QED  BY <2>1 DEF SyncInv, SyncTyped, LogsFollowed, LogFollowed, PELsTracked
<1> QED  BY <1>1, <1>2, <1>3, CreateStep, DeleteAllStep, EraseStep, DeleteAllEndsStep
         DEF Sync!Next, Sync!SyncTool, Sync!Handlers

\* At the start there is nothing.
LEMMA SyncInit == ASSUME SyncConstants, Sync!Init  PROVE SyncInv
<1>1. /\ entries = << >> /\ errors = << >> /\ pels = {} /\ pelIndex = {} /\ pendingPELs = {}
      /\ entryId = 0 /\ bmcPosition \in {Position, NoPosition}
      /\ errEvents = << >> /\ pelEvents = << >> /\ creates = 0
  BY DEF Sync!Init
<1>2. DOMAIN entries = {} /\ DOMAIN errors = {}
  BY <1>1
<1>3. 0 \in Sync!IDs
  BY ZeroIsId
<1>4. SyncTyped
  BY <1>1, <1>2, <1>3 DEF SyncTyped, SyncConstants
<1>5. LogsFollowed /\ PELsTracked
  BY <1>1, <1>2 DEF LogsFollowed, PELsTracked
<1> QED  BY <1>4, <1>5 DEF SyncInv

\* Where no event waits, entries and files agree and the PELs are linked.
LEMMA QuietFollows == SyncInv => EntriesFollowFiles
<1> SUFFICES ASSUME SyncInv  PROVE Sync!EntriesFollowFiles /\ Sync!PELsAreLinked
  BY DEF EntriesFollowFiles
<1>1. SyncTyped /\ LogsFollowed /\ PELsTracked
  BY DEF SyncInv
<1>2. ASSUME errEvents = << >>
      PROVE  \A i \in (DOMAIN entries \cup DOMAIN errors) \ refused :
                /\ i \in DOMAIN entries /\ i \in DOMAIN errors
                /\ entries[i].resolved = errors[i].resolved
  <2>1. \A i, k : ~Waits(errEvents, i) /\ ~LastIs(errEvents, k, i)
    BY <1>2 DEF Waits, LastIs
  <2> QED  BY <1>1, <2>1 DEF LogsFollowed, LogFollowed
<1>3. ASSUME pelEvents = << >>  PROVE DOMAIN entries \cap pels \subseteq pelIndex
  BY <1>1, <1>3 DEF PELsTracked
<1> QED  BY <1>2, <1>3 DEF Sync!EntriesFollowFiles, Sync!PELsAreLinked, Sync!Quiet

\* Whatever the ids, the positions and the files the sync tool moves and
\* deletes, and whatever deletion or resolution is prohibited: once the events
\* are handled the entries are those on disk and agree with them, save for the
\* ids whose last event could not be applied, and an event log whose PEL is
\* there is linked to it (errorFileChanged, pelFileChanged, erase,
\* linkPELToEventLog).
THEOREM EntriesFollow ==
  ASSUME SyncConstants
  PROVE  Spec => []EntriesFollowFiles
<1>1. Init => SyncInv
  BY SyncInit DEF Init
<1>2. SyncInv /\ [Next]_allVars => SyncInv'
  <2> SUFFICES ASSUME SyncInv, [Next]_allVars  PROVE SyncInv'
    OBVIOUS
  <2>1. CASE Sync!Next
    BY <2>1, SyncStep
  <2>2. CASE UNCHANGED syncVars
    BY <2>2 DEF syncVars, SyncInv, SyncTyped, LogsFollowed, LogFollowed, PELsTracked
  <2> QED  BY <2>1, <2>2, OneAtATime
<1>3. SyncInv => EntriesFollowFiles
  BY QuietFollows
<1> QED  BY <1>1, <1>2, <1>3, PTL DEF Spec, allVars
\* The ids of this BMC, and those from which the creations left do not reach
\* the end of the counter.
Own(i) == i \div M = Position
Room(i) == (i % M) + (MaxCreates - creates) < M

\* The counter does not come to its end: neither from its start nor from an
\* own id that the sync tool brings back.
CounterLasts ==
    /\ MaxCreates < M
    /\ \A i \in SyncedIDs : Own(i) => (i % M) + MaxCreates < M

\* Unless the numbering went on from an id of the other BMC: the last id is
\* one of this BMC's that has room, if the position is known, and no own event
\* log has a larger one.  A file without an entry is the sync tool's.
LastIsLargest ==
    /\ DOMAIN errors \subseteq DOMAIN entries \cup SyncedIDs
    /\ ~borrowed =>
          /\ \A i \in DOMAIN entries : Own(i) => Room(i)
          /\ bmcPosition = Position =>
                /\ entryId = 0 \/ Own(entryId)
                /\ Room(entryId)
                /\ \A i \in DOMAIN entries : Own(i) => i <= entryId

\* The start of the numbering has room.
LEMMA ZeroHasRoom ==
  ASSUME SyncConstants, SyncTyped, CounterLasts
  PROVE  Room(0)
<1>1. M \in Nat /\ M > 1 /\ MaxCreates \in Nat /\ creates \in Nat /\ MaxCreates < M
  BY DEF SyncConstants, SyncTyped, CounterLasts
<1>2. 0 % M = 0
  BY <1>1
<1> QED  BY <1>1, <1>2 DEF Room

\* So has an own id that the sync tool brings.
LEMMA SyncedHasRoom ==
  ASSUME SyncConstants, SyncTyped, CounterLasts, NEW i \in SyncedIDs, Own(i)
  PROVE  Room(i)
<1>1. (i % M) + MaxCreates < M
  BY DEF CounterLasts
<1>2. i \in Nat /\ M \in Nat /\ M > 1 /\ MaxCreates \in Nat /\ creates \in Nat
  BY DEF SyncConstants, SyncTyped, Sync!IDs
<1>3. i % M \in 0..(M - 1)
  BY <1>2
<1> QED  BY <1>1, <1>2, <1>3 DEF Room

\* The id after the last: above all own ones.
LEMMA NextIsLarger ==
  ASSUME SyncConstants, SyncTyped, CounterLasts, creates < MaxCreates,
         NEW last \in Sync!IDs, last = 0 \/ Own(last), Room(last),
         NEW i \in Sync!NextIDs(last, Position)
  PROVE  /\ Own(i) /\ (i % M) + (MaxCreates - (creates + 1)) < M
         /\ \A j \in Sync!IDs : Own(j) /\ j <= last => j < i
<1>1. /\ M \in Nat /\ M > 1 /\ Position \in Nat /\ Position # NoPosition
      /\ MaxCreates \in Nat /\ creates \in Nat /\ last \in Nat
  BY DEF SyncConstants, SyncTyped, Sync!IDs
<1>2. last % M \in 0..(M - 1)
  BY <1>1
<1>3. (last % M) + 1 < M
  <2>1. MaxCreates - creates >= 1
    BY <1>1
  <2> QED  BY <1>1, <1>2, <2>1 DEF Room
<1> DEFINE r == (last % M) + 1
<1>4. r \in Nat /\ r < M /\ r >= 1
  BY <1>2, <1>3
<1>5. i = Position * M + r
  <2>1. i = Position * M + (last % M) + 1
    BY <1>1, <1>2, <1>3 DEF Sync!NextIDs, Sync!processEntryId
  <2>2. Position * M \in Nat
    BY <1>1
  <2> QED  BY <1>2, <2>1, <2>2
<1> HIDE DEF r
<1>6. i \div M = Position /\ i % M = r
  BY <1>1, <1>4, <1>5, IdParts
<1>7. (i % M) + (MaxCreates - (creates + 1)) < M
  BY <1>1, <1>2, <1>6 DEF r, Room
<1>8. ASSUME NEW j \in Sync!IDs, Own(j), j <= last  PROVE j < i
  <2>1. Position * M \in Nat /\ j \in Nat
    BY <1>1 DEF Sync!IDs
  <2>2. CASE last = 0
    BY <1>4, <1>5, <1>8, <2>1, <2>2
  <2>3. CASE Own(last)
    <3>1. last = M * (last \div M) + (last % M)
      BY <1>1
    <3>2. M * (last \div M) = Position * M
      BY <1>1, <2>3 DEF Own
    <3>3. i = last + 1
      BY <1>2, <1>5, <2>1, <3>1, <3>2 DEF r
    <3> QED  BY <1>1, <1>8, <2>1, <3>3
  <2> QED  BY <2>2, <2>3
<1> QED  BY <1>6, <1>7, <1>8 DEF Own

\* An id made from the time is not an own one, or is 0.
LEMMA TimeIsOther ==
  ASSUME SyncConstants, NEW last, NEW i \in Sync!NextIDs(last, NoPosition)
  PROVE  ~Own(i) \/ i = 0
<1>1. M \in Nat /\ M > 1 /\ NoPosition \in Nat /\ Position # NoPosition
  BY DEF SyncConstants
<1>2. PICK t \in 0..(M - 1) : i = (NoPosition * M + t + 1) % Sync!Width
  BY DEF Sync!NextIDs
<1>3. NoPosition * M \in Nat /\ Sync!Width = NoPosition * M + M
  BY <1>1 DEF Sync!Width
<1> DEFINE W == NoPosition * M + M
           n == NoPosition * M + (t + 1)
<1>4. i = n % W /\ W \in Nat /\ W > 0 /\ n \in Nat
  BY <1>1, <1>2, <1>3
<1>5. CASE t + 1 < M
  <2>1. n < W
    BY <1>1, <1>3, <1>5
  <2> HIDE DEF W
  <2>2. i = n
    <3> HIDE DEF n
    <3> QED  BY <1>4, <2>1
  <2>3. n \div M = NoPosition
    BY <1>1, <1>5, IdParts
  <2> QED  BY <1>1, <2>2, <2>3 DEF Own
<1>6. CASE t + 1 = M
  <2>1. n = W
    BY <1>6
  <2> HIDE DEF W, n
  <2>2. W % W = 0
    BY <1>4
  <2> QED  BY <1>4, <2>1, <2>2
<1> QED  BY <1>1, <1>5, <1>6

\* Nothing is said of the numbering where no id comes but from the sync tool.
LEMMA NumberingKept ==
  ASSUME LastIsLargest,
         DOMAIN entries' \subseteq DOMAIN entries,
         DOMAIN errors' \subseteq DOMAIN entries' \cup SyncedIDs,
         UNCHANGED <<entryId, bmcPosition, borrowed, creates>>
  PROVE  LastIsLargest'
<1>1. \A i : (Room(i)' <=> Room(i)) /\ (Own(i)' <=> Own(i))
  BY DEF Room, Own
<1> QED  BY <1>1 DEF LastIsLargest

\* A creation leaves the others less room, but enough.
LEMMA RoomLeft ==
  ASSUME SyncConstants, SyncTyped, CounterLasts, creates < MaxCreates, creates' = creates + 1,
         NEW j \in Sync!IDs, Room(j) \/ j = 0
  PROVE  Room(j)'
<1>1. M \in Nat /\ M > 1 /\ MaxCreates \in Nat /\ creates \in Nat /\ j \in Nat /\ MaxCreates < M
  BY DEF SyncConstants, SyncTyped, Sync!IDs, CounterLasts
<1>2. j % M \in 0..(M - 1)
  BY <1>1
<1>3. j = 0 => j % M = 0
  BY <1>1
<1> QED  BY <1>1, <1>2, <1>3 DEF Room

\* With the entries spared and a last id that is none of the others', or is the
\* largest own one, createEntry takes an id of its own, and the largest.
LEMMA AddNumbers ==
  ASSUME SyncConstants, CounterLasts, SyncInv, creates < MaxCreates, creates' = creates + 1,
         NEW spared \in SUBSET DOMAIN entries, NEW last \in Sync!IDs, Sync!addEntry(spared, last),
         \A j \in spared : Own(j) => Room(j),
         bmcPosition = Position =>
            /\ last = 0 \/ Own(last)
            /\ Room(last)
            /\ \A j \in spared : Own(j) => j <= last
  PROVE  /\ \A j \in DOMAIN entries' : Own(j) => Room(j)'
         /\ bmcPosition' = Position =>
               /\ Own(entryId') /\ Room(entryId)' /\ entryId' \notin spared
               /\ \A j \in DOMAIN entries' : Own(j) => j <= entryId'
<1>1. SyncTyped
  BY DEF SyncInv
<1> DEFINE from == CountsFrom(spared, last)
<1>2. bmcPosition' \in {Position, NoPosition} /\ from \in Sync!IDs
  BY <1>1, AddKeeps
<1>3. PICK i \in Sync!NextIDs(from, bmcPosition') : entryId' = i /\ i \in Sync!IDs /\ DOMAIN entries' = spared \cup {i}
  BY <1>1, AddKeeps
<1>4. spared \in SUBSET Sync!IDs /\ bmcPosition \in {Position, NoPosition} /\ Position # NoPosition
  BY <1>1 DEF SyncTyped, SyncConstants
<1>5. ASSUME NEW j \in spared, Own(j)  PROVE Room(j)'
  BY <1>1, <1>4, <1>5, RoomLeft
<1>6. CASE bmcPosition' = Position
  <2>1. (from = 0 \/ Own(from)) /\ Room(from) /\ \A j \in spared : Own(j) => j <= from
    <3>1. CASE bmcPosition = Position
      BY <1>6, <3>1 DEF CountsFrom
    <3>2. CASE bmcPosition # Position
      <4>1. from = Sync!LastOwn(spared, Position)
        BY <1>6, <3>2 DEF CountsFrom
      <4>2. /\ from \in {j \in spared : Sync!idContainsCurrentPosition(j, Position)} \cup {0}
            /\ \A j \in spared : Sync!idContainsCurrentPosition(j, Position) => j <= from
        BY <1>4, <4>1, LastOwnIs
      <4> HIDE DEF from
      <4>3. \A j : Sync!idContainsCurrentPosition(j, Position) <=> Own(j)
        BY DEF Own, Sync!idContainsCurrentPosition
      <4>4. Room(0)
        BY <1>1, ZeroHasRoom
      <4> QED  BY <4>2, <4>3, <4>4
    <3> QED  BY <3>1, <3>2
  <2> HIDE DEF from
  <2>2. /\ Own(i) /\ (i % M) + (MaxCreates - (creates + 1)) < M
        /\ \A j \in Sync!IDs : Own(j) /\ j <= from => j < i
    BY <1>1, <1>2, <1>3, <1>6, <2>1, NextIsLarger
  <2>3. Room(i)' /\ (Room(entryId)' <=> (entryId' % M) + (MaxCreates - creates') < M)
    BY <2>2 DEF Room
  <2>4. \A j \in spared : Own(j) => j < i
    BY <1>4, <2>1, <2>2
  <2>5. i \in Int /\ \A j \in spared : j \in Int
    BY <1>3, <1>4 DEF Sync!IDs
  <2>6. i \notin spared
    BY <2>2, <2>4, <2>5
  <2>7. Room(entryId)'
    BY <1>3, <2>2, <2>3
  <2>8. \A j \in DOMAIN entries' : Own(j) => j <= i
    BY <1>3, <2>4, <2>5
  <2>9. \A j \in DOMAIN entries' : Own(j) => Room(j)'
    BY <1>3, <1>5, <2>3
  <2> QED  BY <1>3, <2>2, <2>6, <2>7, <2>8, <2>9
<1>7. CASE bmcPosition' = NoPosition
  <2> HIDE DEF from
  <2>1. ~Own(i) \/ i = 0
    BY <1>3, <1>7, TimeIsOther
  <2>2. i = 0 => Room(i)'
    BY <1>1, ZeroIsId, RoomLeft
  <2>3. \A j \in DOMAIN entries' : Own(j) => Room(j)'
    BY <1>3, <1>5, <2>1, <2>2
  <2> QED  BY <1>4, <1>7, <2>3
<1> QED  BY <1>2, <1>6, <1>7

\* The files after createEntry are those of entries, or the sync tool's.
LEMMA AddFiles ==
  ASSUME SyncConstants, SyncTyped, LastIsLargest,
         NEW spared \in SUBSET DOMAIN entries, NEW last \in Sync!IDs, Sync!addEntry(spared, last)
  PROVE  DOMAIN errors' \subseteq DOMAIN entries' \cup SyncedIDs
<1>1. PICK i \in Sync!IDs :
         /\ DOMAIN entries' = spared \cup {i}
         /\ DOMAIN errors' = (DOMAIN errors \ (DOMAIN entries \ spared)) \cup ({i} \ spared)
  BY AddKeeps
<1> QED  BY <1>1 DEF LastIsLargest

\* createEntry takes an id of its own, and the largest.
LEMMA CreateNumbers ==
  ASSUME SyncConstants, CounterLasts, SyncInv, LastIsLargest, Sync!createEntry
  PROVE  LastIsLargest' /\ (bmcPosition' # NoPosition /\ ~borrowed => entryId' \notin DOMAIN entries)
<1>1. /\ Sync!addEntry(DOMAIN entries, entryId) /\ creates < MaxCreates /\ creates' = creates + 1
      /\ UNCHANGED borrowed
  BY DEF Sync!createEntry
<1>2. SyncTyped /\ entryId \in Sync!IDs
  BY DEF SyncInv, SyncTyped
<1>3. DOMAIN errors' \subseteq DOMAIN entries' \cup SyncedIDs
  BY <1>1, <1>2, AddFiles
<1>4. bmcPosition' \in {Position, NoPosition}
  BY <1>1, <1>2, AddKeeps
<1>5. CASE borrowed
  BY <1>1, <1>3, <1>5 DEF LastIsLargest
<1>6. CASE ~borrowed
  <2>1. /\ \A j \in DOMAIN entries' : Own(j) => Room(j)'
        /\ bmcPosition' = Position =>
              /\ Own(entryId') /\ Room(entryId)' /\ entryId' \notin DOMAIN entries
              /\ \A j \in DOMAIN entries' : Own(j) => j <= entryId'
    <3>1. /\ \A j \in DOMAIN entries : Own(j) => Room(j)
          /\ bmcPosition = Position =>
                /\ entryId = 0 \/ Own(entryId)
                /\ Room(entryId)
                /\ \A j \in DOMAIN entries : Own(j) => j <= entryId
      BY <1>6 DEF LastIsLargest
    <3> QED  BY <1>1, <1>2, <3>1, AddNumbers
  <2>2. (\A j : Own(j)' <=> Own(j)) /\ (Own(entryId)' <=> Own(entryId'))
    BY DEF Own
  <2> QED  BY <1>3, <1>4, <2>1, <2>2 DEF LastIsLargest
<1> QED  BY <1>5, <1>6

\* deleteAll starts the numbering anew, or goes on from the largest id kept.
LEMMA DeleteAllNumbers ==
  ASSUME SyncConstants, CounterLasts, SyncInv, LastIsLargest, Sync!deleteAll
  PROVE  LastIsLargest'
<1>1. PICK spared \in SUBSET DOMAIN entries :
         /\ Sync!addEntry(spared, Sync!LastKept(spared))
         /\ borrowed' = (/\ spared # {}
                         /\ \/ borrowed
                            \/ /\ bmcPosition # NoPosition
                               /\ ~Sync!idContainsCurrentPosition(Sync!LastKept(spared), bmcPosition))
  BY DEF Sync!deleteAll
<1>2. creates < MaxCreates /\ creates' = creates + 1
  BY DEF Sync!deleteAll
<1>3. SyncTyped /\ spared \in SUBSET Sync!IDs /\ Position # NoPosition
  BY DEF SyncInv, SyncTyped, SyncConstants
<1> DEFINE last == Sync!LastKept(spared)
<1>4. /\ last \in Sync!IDs
      /\ spared = {} => last = 0
      /\ spared # {} => last \in spared /\ \A j \in spared : j <= last
  BY <1>3, LastKeptIs
<1> HIDE DEF last
<1>5. Sync!addEntry(spared, last)
  BY <1>1 DEF last
<1>6. DOMAIN errors' \subseteq DOMAIN entries' \cup SyncedIDs
  BY <1>3, <1>4, <1>5, AddFiles
<1>7. CASE borrowed'
  BY <1>6, <1>7 DEF LastIsLargest
<1>8. CASE ~borrowed'
  <2>1. ASSUME NEW j \in spared, Own(j)  PROVE Room(j)
    <3>1. ~borrowed
      BY <1>1, <1>8, <2>1
    <3> QED  BY <2>1, <3>1 DEF LastIsLargest
  <2>2. ASSUME bmcPosition = Position
        PROVE  /\ last = 0 \/ Own(last)
               /\ Room(last)
               /\ \A j \in spared : Own(j) => j <= last
    <3>1. CASE spared = {}
      BY <1>3, <1>4, <3>1, ZeroHasRoom
    <3>2. CASE spared # {}
      <4>1. Sync!idContainsCurrentPosition(last, Position)
        BY <1>1, <1>3, <1>8, <2>2, <3>2 DEF last
      <4>2. Own(last)
        BY <4>1 DEF Own, Sync!idContainsCurrentPosition
      <4> QED  BY <1>4, <2>1, <3>2, <4>2
    <3> QED  BY <3>1, <3>2
  <2>3. /\ \A j \in DOMAIN entries' : Own(j) => Room(j)'
        /\ bmcPosition' = Position =>
              /\ Own(entryId') /\ Room(entryId)' /\ entryId' \notin spared
              /\ \A j \in DOMAIN entries' : Own(j) => j <= entryId'
    BY <1>2, <1>4, <1>5, <2>1, <2>2, AddNumbers
  <2>4. (\A j : Own(j)' <=> Own(j)) /\ (Own(entryId)' <=> Own(entryId'))
    BY DEF Own
  <2> QED  BY <1>6, <2>3, <2>4 DEF LastIsLargest
<1> QED  BY <1>7, <1>8

\* An own event log that comes back counts.
LEMMA RestoreNumbers ==
  ASSUME SyncConstants, CounterLasts, SyncInv, LastIsLargest, NEW x \in Sync!IDs, Sync!restoreFromDisk(x)
  PROVE  LastIsLargest'
<1>1. SyncTyped /\ x \notin DOMAIN entries /\ UNCHANGED <<bmcPosition, borrowed, creates>>
  BY DEF SyncInv, Sync!restoreFromDisk, Sync!ErrEvent
<1>2. (\A j : Own(j)' <=> Own(j)) /\ (\A j : Room(j)' <=> Room(j))
  BY <1>1 DEF Own, Room
<1>3. CASE /\ x \in DOMAIN errors /\ UNCHANGED errors
           /\ entries' = Sync!With(entries, x, errors[x]) /\ entryId' = Sync!lastWith(x)
  <2>1. DOMAIN entries' = DOMAIN entries \cup {x}
    BY <1>3 DEF Sync!With
  <2>2. DOMAIN errors' \subseteq DOMAIN entries' \cup SyncedIDs
    BY <1>3, <2>1 DEF LastIsLargest
  <2>3. Own(x) => Room(x)
    <3>1. x \in SyncedIDs
      BY <1>1, <1>3 DEF LastIsLargest
    <3> QED  BY <1>1, <3>1, SyncedHasRoom
  <2>4. ASSUME ~borrowed, bmcPosition = Position
        PROVE  /\ entryId' = 0 \/ Own(entryId')
               /\ Room(entryId')
               /\ \A j \in DOMAIN entries' : Own(j) => j <= entryId'
    <3>1. entryId' = IF Own(x) /\ x > entryId THEN x ELSE entryId
      BY <1>3, <2>4 DEF Sync!lastWith, Sync!idContainsCurrentPosition, Own
    <3>2. x \in Int /\ entryId \in Int /\ \A j \in DOMAIN entries : j \in Int
      BY <1>1 DEF SyncTyped, Sync!IDs
    <3> QED  BY <2>1, <2>3, <2>4, <3>1, <3>2 DEF LastIsLargest
  <2>5. (Own(entryId)' <=> Own(entryId')) /\ (Room(entryId)' <=> Room(entryId'))
    BY <1>1 DEF Own, Room
  <2>6. ~borrowed => \A j \in DOMAIN entries' : Own(j) => Room(j)
    BY <2>1, <2>3 DEF LastIsLargest
  <2> QED  BY <1>1, <1>2, <2>2, <2>4, <2>5, <2>6 DEF LastIsLargest
<1>4. CASE UNCHANGED <<entries, entryId>> /\ (UNCHANGED errors \/ Sync!corruptError(x))
  <2>1. DOMAIN errors' \subseteq DOMAIN errors
    BY <1>4 DEF Sync!corruptError, Sync!Without
  <2> QED  BY <1>1, <1>4, <2>1, NumberingKept DEF LastIsLargest
<1> QED  BY <1>3, <1>4 DEF Sync!restoreFromDisk

\* Every step keeps the last id the largest.
LEMMA NumbersStep ==
  ASSUME SyncConstants, CounterLasts, SyncInv, LastIsLargest, Sync!Next
  PROVE  LastIsLargest'
<1>1. SyncTyped /\ PELsTracked
  BY DEF SyncInv
<1>2. ASSUME NEW x \in SyncedIDs,
             \/ \E c \in {Sync!Fresh, Sync!Changed} : Sync!SyncLog(x, c)
             \/ Sync!SyncLogGone(x) \/ Sync!SyncPEL(x) \/ Sync!SyncPELGone(x)
      PROVE  LastIsLargest'
  <2>1. UNCHANGED <<entries, entryId, bmcPosition, borrowed, creates>>
    BY <1>2 DEF Sync!SyncLog, Sync!SyncLogGone, Sync!SyncPEL, Sync!SyncPELGone, Sync!Sync, Sync!logs
  <2>2. DOMAIN errors' \subseteq DOMAIN errors \cup SyncedIDs
    <3>1. ASSUME NEW c, Sync!SyncLog(x, c)  PROVE DOMAIN errors' = DOMAIN errors \cup {x}
      BY <3>1 DEF Sync!SyncLog, Sync!With
    <3>2. ASSUME Sync!SyncLogGone(x)  PROVE DOMAIN errors' = DOMAIN errors \ {x}
      BY <3>2 DEF Sync!SyncLogGone, Sync!Without
    <3>3. Sync!SyncPEL(x) \/ Sync!SyncPELGone(x) => UNCHANGED errors
      BY DEF Sync!SyncPEL, Sync!SyncPELGone, Sync!logs
    <3> QED  BY <1>2, <3>1, <3>2, <3>3
  <2> QED  BY <2>1, <2>2, NumberingKept DEF LastIsLargest
<1>3. ASSUME NEW x \in Sync!IDs,
             \/ Sync!erase(x) \/ Sync!deleteAllEnds(x) \/ Sync!errorFileDeleted(x)
             \/ Sync!handlePELMovedTo(x) \/ Sync!handlePELDelete(x)
      PROVE  LastIsLargest'
  <2>1. UNCHANGED <<entryId, bmcPosition, borrowed, creates>>
    BY <1>3 DEF Sync!erase, Sync!deleteAllEnds, Sync!errorFileDeleted, Sync!handlePELMovedTo,
                Sync!handlePELDelete, Sync!ErrEvent, Sync!PELEvent, Sync!logs
  <2>2. (\E S : Sync!Erase(S)) \/ UNCHANGED <<entries, errors>>
    BY <1>3 DEF Sync!erase, Sync!deleteAllEnds, Sync!errorFileDeleted, Sync!handlePELMovedTo,
                Sync!handlePELDelete, Sync!logs
  <2>3. ASSUME NEW S, Sync!Erase(S)
        PROVE  DOMAIN entries' = DOMAIN entries \ S /\ DOMAIN errors' = DOMAIN errors \ S
    BY <1>1, <2>3, EraseKeeps
  <2>4. /\ DOMAIN entries' \subseteq DOMAIN entries
        /\ DOMAIN errors' \subseteq DOMAIN entries' \cup SyncedIDs
    BY <2>2, <2>3 DEF LastIsLargest
  <2> QED  BY <2>1, <2>4, NumberingKept
<1>4. ASSUME NEW x \in Sync!IDs, Sync!refreshFromDisk(x)  PROVE LastIsLargest'
  <2>1. UNCHANGED <<entryId, bmcPosition, borrowed, creates>> /\ x \in DOMAIN entries
    BY <1>4 DEF Sync!refreshFromDisk, Sync!ErrEvent
  <2>2. CASE x \in DOMAIN errors /\ Sync!assignEntry(x)
    <3>1. entries' = Sync!With(entries, x, errors[x])
      BY <2>2 DEF Sync!assignEntry
    <3>2. PICK c : errors' = errors \/ errors' = Sync!With(errors, x, c)
      BY <2>2 DEF Sync!assignEntry
    <3>3. DOMAIN entries' = DOMAIN entries /\ DOMAIN errors' = DOMAIN errors
      BY <2>1, <2>2, <3>1, <3>2 DEF Sync!With
    <3> QED  BY <2>1, <3>3, NumberingKept DEF LastIsLargest
  <2>3. CASE UNCHANGED entries /\ (UNCHANGED errors \/ Sync!corruptError(x))
    <3>1. DOMAIN errors' \subseteq DOMAIN errors
      BY <2>3 DEF Sync!corruptError, Sync!Without
    <3> QED  BY <2>1, <2>3, <3>1, NumberingKept DEF LastIsLargest
  <2> QED  BY <1>4, <2>2, <2>3 DEF Sync!refreshFromDisk
<1>5. ASSUME Sync!Done  PROVE LastIsLargest'
  <2>1. UNCHANGED <<entries, errors, entryId, bmcPosition, borrowed, creates>>
    BY <1>5 DEF Sync!Done, Sync!vars
  <2> QED  BY <2>1, NumberingKept DEF LastIsLargest
<1> QED  BY <1>2, <1>3, <1>4, <1>5, CreateNumbers, DeleteAllNumbers, RestoreNumbers
         DEF Sync!Next, Sync!SyncTool, Sync!Handlers

\* At the start nothing has an id.
LEMMA NumbersInit == ASSUME SyncConstants, CounterLasts, Sync!Init  PROVE LastIsLargest
<1>1. entries = << >> /\ errors = << >> /\ entryId = 0 /\ creates = 0
  BY DEF Sync!Init
<1>2. DOMAIN entries = {} /\ DOMAIN errors = {}
  BY <1>1
<1>3. Room(0)
  <2>1. M \in Nat /\ M > 1 /\ MaxCreates \in Nat /\ MaxCreates < M
    BY DEF SyncConstants, CounterLasts
  <2>2. 0 % M = 0
    BY <2>1
  <2> QED  BY <1>1, <2>1, <2>2 DEF Room
<1> QED  BY <1>1, <1>2, <1>3 DEF LastIsLargest

\* Whatever is deleted, kept and synced, and however often the position is
\* not to be found: until the counter comes to its end, a new event log of a
\* BMC that knows its position has an id that no other event log has, unless
\* eraseAll has taken the last id from an event log of the other BMC
\* (createEntry, eraseAll, processEntryId, readBMCPosition, restoreFromDisk).
THEOREM IDsFresh ==
  ASSUME SyncConstants, CounterLasts
  PROVE  Spec => OwnIDsFresh
<1>1. Init => SyncInv /\ LastIsLargest
  BY SyncInit, NumbersInit DEF Init
<1>2. SyncInv /\ LastIsLargest /\ [Next]_allVars => (SyncInv /\ LastIsLargest)'
  <2> SUFFICES ASSUME SyncInv, LastIsLargest, [Next]_allVars  PROVE SyncInv' /\ LastIsLargest'
    OBVIOUS
  <2>1. CASE Sync!Next
    BY <2>1, SyncStep, NumbersStep
  <2>2. CASE UNCHANGED syncVars
    BY <2>2 DEF syncVars, SyncInv, SyncTyped, LogsFollowed, LogFollowed, PELsTracked, LastIsLargest, Own, Room
  <2> QED  BY <2>1, <2>2, OneAtATime
<1>3. SyncInv /\ LastIsLargest /\ [Next]_allVars =>
         [Sync!createEntry /\ bmcPosition' # NoPosition /\ ~borrowed =>
             entryId' \notin DOMAIN entries]_Sync!vars
  BY CreateNumbers
<1> QED  BY <1>1, <1>2, <1>3, PTL DEF Spec, allVars, OwnIDsFresh, Sync!OwnIDsFresh
-----------------------------------------------------------------------------
(* PLDMInterface and LogId, whose steps are proved in modules of their     *)
(* own.                                                                    *)

PLDMProved == INSTANCE PLDMInterfaceProofs
IdsProved == INSTANCE LogIdProofs

\* The proofs are about the part of MCParts.
LEMMA SamePLDM ==
  /\ PLDM!Init => PLDMProved!Init
  /\ PLDM!Next => PLDMProved!Next
  /\ PLDMProved!CommandCanEnd => CommandCanEnd
<1>1. PLDM!Init => PLDMProved!Init
  BY DEF PLDM!Init, PLDMProved!Init, PLDM!None, PLDMProved!None
<1>2. PLDM!Next => PLDMProved!Next
  BY Zenon DEF PLDM!Next, PLDM!FreeIDs, PLDM!allocIID, PLDM!freeIID, PLDM!cleanupCmd, PLDM!startCommand,
     PLDM!doSend, PLDM!sendNewLogCmd, PLDM!sendWithoutID, PLDM!startCommandFails, PLDM!correlate,
     PLDM!receive, PLDM!receiveFails, PLDM!answerLost, PLDM!receiveTimerExpired, PLDM!cancelCmd,
     PLDM!Restart, PLDM!OthersUseID, PLDM!None,
     PLDMProved!Next, PLDMProved!FreeIDs, PLDMProved!allocIID, PLDMProved!freeIID, PLDMProved!cleanupCmd, PLDMProved!startCommand,
     PLDMProved!doSend, PLDMProved!sendNewLogCmd, PLDMProved!sendWithoutID, PLDMProved!startCommandFails, PLDMProved!correlate,
     PLDMProved!receive, PLDMProved!receiveFails, PLDMProved!answerLost, PLDMProved!receiveTimerExpired, PLDMProved!cancelCmd,
     PLDMProved!Restart, PLDMProved!OthersUseID, PLDMProved!None
<1>3. PLDMProved!CommandCanEnd => CommandCanEnd
  BY DEF CommandCanEnd, PLDM!CommandCanEnd, PLDM!TypeOK, PLDM!WaitIsArmed, PLDM!NoIDLeaks, PLDM!None,
     PLDMProved!CommandCanEnd, PLDMProved!TypeOK, PLDMProved!WaitIsArmed, PLDMProved!NoIDLeaks, PLDMProved!None
<1> QED  BY <1>1, <1>2, <1>3

\* A step is one of the interface as it was proved about.
LEMMA PLDMSteps ==
  /\ Init => PLDMProved!Init
  /\ [Next]_allVars => [PLDMProved!Next]_PLDMProved!vars
<1>1. Init => PLDMProved!Init
  BY SamePLDM DEF Init
<1>2. [Next]_allVars => [PLDMProved!Next]_PLDMProved!vars
  BY OneAtATime, SamePLDM DEF PLDMProved!vars, pldmVars
<1> QED  BY <1>1, <1>2

\* Whatever instance ids and PELs there are, a command to the host can always
\* end: while one waits, its source, timer and socket are set up, and on every
\* way out of it they and the id are given back, but for the id that a timeout
\* keeps (PLDMInterface's sendNewLogCmd, receive, receiveTimerExpired,
\* cancelCmd).
THEOREM CommandsCanEnd ==
  ASSUME PLDM!None \notin InstanceIDs
  PROVE  Spec => []CommandCanEnd
<1>1. PLDMProved!CommandCanEnd => CommandCanEnd
  BY SamePLDM
<1>2. PLDMProved!Spec => []PLDMProved!CommandCanEnd
  BY PLDMProved!CommandsEnd DEF PLDMProved!None, PLDM!None
<1> QED  BY <1>1, <1>2, PLDMSteps, PTL DEF Spec, allVars, PLDMProved!Spec
\* Whatever instance ids and PELs there are, the host is said to have a PEL
\* only on an answer about that PEL or on an id kept from an earlier command,
\* and a command sent and not cancelled or replaced gets one response
\* (PLDMInterface's receive, receiveTimerExpired and cancelCmd).
THEOREM AnswersRight ==
  ASSUME PLDM!None \notin InstanceIDs
  PROVE  Spec => AnswersAreRight
<1>1. PLDMProved!None \notin InstanceIDs
  BY DEF PLDMProved!None, PLDM!None
<1>2. PLDMProved!Spec => PLDMProved!AnswerIsForPEL
  BY <1>1, PLDMProved!AnswersForPEL
<1>3. PLDMProved!Spec => PLDMProved!OneResponse
  BY <1>1, PLDMProved!KeepsPromise
<1>4. Spec => PLDMProved!Spec
  BY PLDMSteps, PTL DEF Spec, allVars, PLDMProved!Spec
<1>5. PLDMProved!AnswerIsForPEL => PLDM!AnswerIsForPEL
  BY PTL DEF PLDMProved!AnswerIsForPEL, PLDM!AnswerIsForPEL, PLDMProved!vars, PLDM!vars
<1>6. PLDMProved!OneResponse => PLDM!OneResponse
  BY PTL DEF PLDMProved!OneResponse, PLDM!OneResponse, PLDMProved!Promise!Spec, PLDM!Promise!Spec, PLDMProved!Promise!Init, PLDM!Promise!Init,
     PLDMProved!Promise!Next, PLDM!Promise!Next, PLDMProved!Promise!sendNewLogCmd, PLDM!Promise!sendNewLogCmd,
     PLDMProved!Promise!callResponseFunc, PLDM!Promise!callResponseFunc, PLDMProved!Promise!cancelCmd, PLDM!Promise!cancelCmd,
     PLDMProved!Promise!Restart, PLDM!Promise!Restart
<1> QED  BY <1>2, <1>3, <1>4, <1>5, <1>6, PTL DEF AnswersAreRight

\* The proofs of LogId are about the part of MCParts.
LEMMA SameIds ==
  /\ Init => IdsProved!Init
  /\ [Next]_allVars => [IdsProved!Next]_IdsProved!vars
<1>1. Ids!Init => IdsProved!Init
  BY DEF Ids!Init, IdsProved!Init, Ids!Absent, IdsProved!Absent
<1>2. Ids!Next => IdsProved!Next
  BY Zenon DEF Ids!Next, Ids!checkFileForZeroData, Ids!extractBMCPositionFromLogID, Ids!generatePELID,
     Ids!generateUnreadable, Ids!generateUnwritten, Ids!generateUnflushed, Ids!newID,
     Ids!Crash, Ids!counter, Ids!Used, Ids!addLogIDPrefix,
     Ids!getTimeBasedLogID, Ids!Absent, Ids!Empty, Ids!Zeros, Ids!Unreadable, Ids!InvalidPosition,
     IdsProved!Next, IdsProved!checkFileForZeroData, IdsProved!extractBMCPositionFromLogID, IdsProved!generatePELID,
     IdsProved!generateUnreadable, IdsProved!generateUnwritten, IdsProved!generateUnflushed, IdsProved!newID,
     IdsProved!Crash, IdsProved!counter, IdsProved!Used, IdsProved!addLogIDPrefix,
     IdsProved!getTimeBasedLogID, IdsProved!Absent, IdsProved!Empty, IdsProved!Zeros, IdsProved!Unreadable, IdsProved!InvalidPosition
<1>3. Init => IdsProved!Init
  BY <1>1 DEF Init
<1>4. [Next]_allVars => [IdsProved!Next]_IdsProved!vars
  BY <1>2, OneAtATime DEF IdsProved!vars, idsVars
<1> QED  BY <1>3, <1>4

\* Wherever the counter wraps and whatever the positions, its numbers are
\* handed out once, across failed writes, crashes and restarts, until it wraps
\* or its file is found full of zeros, and none is 0 or above what the prefix
\* leaves room for (generatePELID, checkFileForZeroData).
THEOREM CounterOnce ==
  ASSUME LastID \in Nat \ {0, 1}
  PROVE  Spec => CounterIDsOnce
<1>1. IdsProved!Spec => []IdsProved!IDsWellFormed
  BY IdsProved!WellFormed
<1>2. IdsProved!Spec => IdsProved!CounterIDsOnce
  BY IdsProved!NumbersOnce
<1>3. Spec => IdsProved!Spec
  BY SameIds, PTL DEF Spec, allVars, IdsProved!Spec
<1>4. IdsProved!IDsWellFormed => Ids!IDsWellFormed
  BY DEF IdsProved!IDsWellFormed, Ids!IDsWellFormed
<1>5. IdsProved!CounterIDsOnce => Ids!CounterIDsOnce
  BY PTL DEF IdsProved!CounterIDsOnce, Ids!CounterIDsOnce, IdsProved!vars, Ids!vars,
     IdsProved!generatePELID, Ids!generatePELID, IdsProved!generateUnwritten, Ids!generateUnwritten,
     IdsProved!generateUnflushed, Ids!generateUnflushed, IdsProved!newID, Ids!newID, IdsProved!Used, Ids!Used, IdsProved!counter, Ids!counter,
     IdsProved!addLogIDPrefix, Ids!addLogIDPrefix, IdsProved!getTimeBasedLogID, Ids!getTimeBasedLogID,
     IdsProved!Absent, IdsProved!Empty, IdsProved!Zeros, IdsProved!Unreadable, IdsProved!InvalidPosition,
     Ids!Absent, Ids!Empty, Ids!Zeros, Ids!Unreadable, Ids!InvalidPosition
<1> QED  BY <1>1, <1>2, <1>3, <1>4, <1>5, PTL DEF CounterIDsOnce

-----------------------------------------------------------------------------
(* LightPath, with the callouts of SRC.                                    *)

\* The order of a PEL's callouts.
ByPriority(s) ==
    \A i, j \in 1..Len(s) : i < j => Light!Rank(s[i]) >= Light!Rank(s[j])

\* The places of the callouts of a priority.
AtRank(s, r) == {i \in 1..Len(s) : Light!Rank(s[i]) = r}

\* Callouts of a priority are those of the list, in its order.
LEMMA OfRankIs ==
  ASSUME NEW s, IsList(s), NEW r
  PROVE  /\ IsList(Light!OfRank(s, r))
         /\ \E at : /\ Ascending(at, AtRank(s, r), Len(s))
                    /\ Len(Light!OfRank(s, r)) = Len(at)
                    /\ \A n \in 1..Len(at) : Light!OfRank(s, r)[n] = s[at[n]]
<1> DEFINE S == {i \in 1..Len(s) : Light!Rank(s[i]) = r}
           at == Light!InOrder(S, Len(s))
<1>1. Len(s) \in Nat /\ DOMAIN s = 1..Len(s)
  BY ListFacts
<1>2. at = InOrder(S, Len(s))
  BY DEF Light!InOrder, InOrder
<1>3. Ascending(at, S, Len(s))
  <2> HIDE DEF S, at
  <2> QED  BY <1>1, <1>2, InOrderAscends
<1>4. at \in Seq(1..Len(s))
  BY <1>3 DEF Ascending
<1>5. Len(at) \in Nat /\ DOMAIN at = 1..Len(at)
  BY <1>4
<1>6. Light!OfRank(s, r) = [n \in 1..Len(at) |-> s[at[n]]]
  BY <1>1, <1>5 DEF Light!OfRank
<1> HIDE DEF at, S
<1> DEFINE q == Light!OfRank(s, r)
<1>7. q = [n \in 1..Len(at) |-> q[n]] /\ \A n \in 1..Len(at) : q[n] = s[at[n]]
  BY <1>6
<1> HIDE DEF q
<1>8. IsList(q) /\ Len(q) = Len(at)
  BY <1>5, <1>7, ListMade
<1>9. /\ IsList(q)
      /\ \E t : Ascending(t, S, Len(s)) /\ Len(q) = Len(t) /\ \A n \in 1..Len(t) : q[n] = s[t[n]]
  BY <1>3, <1>7, <1>8
<1> QED  BY <1>9 DEF q, S, AtRank

\* A list of places in ascending order has each once.
LEMMA AscendingOnce ==
  ASSUME NEW m \in Nat, NEW S, NEW at, Ascending(at, S, m)
  PROVE  /\ Len(at) \in Nat
         /\ \A i \in 1..Len(at) : at[i] \in 1..m /\ at[i] \in S
         /\ \A i, j \in 1..Len(at) : at[i] = at[j] => i = j
         /\ \A k \in 1..m : k \in S => \E i \in 1..Len(at) : at[i] = k
<1>1. /\ at \in Seq(1..m) /\ \A i, j \in 1..Len(at) : i < j => at[i] < at[j]
      /\ \A i \in 1..Len(at) : at[i] \in S
      /\ \A k \in 1..m : k \in S => \E i \in 1..Len(at) : at[i] = k
  BY DEF Ascending
<1>2. Len(at) \in Nat /\ \A i \in 1..Len(at) : at[i] \in 1..m
  BY <1>1
<1>3. ASSUME NEW i \in 1..Len(at), NEW j \in 1..Len(at), at[i] = at[j]
      PROVE  i = j
  <2>1. i < j \/ j < i \/ i = j
    BY <1>2
  <2>2. at[i] \in Int /\ at[j] \in Int
    BY <1>2
  <2>3. ~(at[i] < at[j]) /\ ~(at[j] < at[i])
    BY <1>3, <2>2
  <2> QED  BY <1>1, <2>1, <2>3
<1> QED  BY <1>1, <1>2, <1>3

\* A function from 1..m to 1..n that has each value once.
Matches(p, m, n) ==
    /\ p \in [1..m -> 1..n]
    /\ \A i, j \in 1..m : p[i] = p[j] => i = j
    /\ \A k \in 1..n : \E i \in 1..m : p[i] = k

\* There is one only if m is n.
LEMMA AsLong ==
  ASSUME NEW m \in Nat, NEW n \in Nat, NEW p, Matches(p, m, n)
  PROVE  m = n
<1> USE DEF Matches
<1>1. p \in Injection(1..m, 1..n)
  BY DEF Injection, IsInjective
<1>2. p \in Surjection(1..m, 1..n)
  BY DEF Surjection
<1>3. IsFiniteSet(1..n) /\ Cardinality(1..n) = n /\ Cardinality(1..m) = m
  <2>1. 1 \in Int /\ m \in Int /\ n \in Int
    OBVIOUS
  <2>2. /\ IsFiniteSet(1..n) /\ Cardinality(1..n) = IF 1 > n THEN 0 ELSE n - 1 + 1
        /\ Cardinality(1..m) = IF 1 > m THEN 0 ELSE m - 1 + 1
    BY <2>1, FS_Interval
  <2> QED  BY <2>2
<1>4. Cardinality(1..m) = Cardinality(1..n)
  BY <1>1, <1>2, <1>3, FS_Injection
<1> QED  BY <1>3, <1>4

\* Sorting gives the callouts of the list in the order of their priority.
LEMMA SortIs ==
  ASSUME NEW s, IsList(s)
  PROVE  LET q == Light!SortByPriority(s)
         IN  /\ IsList(q) /\ ByPriority(q) /\ Len(q) = Len(s)
             /\ \E p : Permutes(p, Len(s)) /\ \A n \in 1..Len(s) : q[n] = s[p[n]]
<1> DEFINE a == Light!OfRank(s, 10)
           b == Light!OfRank(s, 9)
           c == Light!OfRank(s, 8)
           q == (a \o b) \o c
           Of(r) == AtRank(s, r)
<1>1. Light!SortByPriority(s) = q
  BY DEF Light!SortByPriority
<1>2. IsList(a) /\ IsList(b) /\ IsList(c)
  BY OfRankIs
<1>3. PICK at10 : /\ Ascending(at10, Of(10), Len(s)) /\ Len(a) = Len(at10)
                  /\ \A n \in 1..Len(at10) : a[n] = s[at10[n]]
  BY OfRankIs
<1>4. PICK at9 : /\ Ascending(at9, Of(9), Len(s)) /\ Len(b) = Len(at9)
                 /\ \A n \in 1..Len(at9) : b[n] = s[at9[n]]
  BY OfRankIs
<1>5. PICK at8 : /\ Ascending(at8, Of(8), Len(s)) /\ Len(c) = Len(at8)
                 /\ \A n \in 1..Len(at8) : c[n] = s[at8[n]]
  BY OfRankIs
<1> HIDE DEF a, b, c
<1> DEFINE A == Len(a)
           B == Len(b)
           C == Len(c)
<1>6. Len(s) \in Nat /\ A \in Nat /\ B \in Nat /\ C \in Nat
  BY <1>2, ListFacts
<1>7. /\ IsList(a \o b) /\ Len(a \o b) = A + B
      /\ \A n \in 1..A : (a \o b)[n] = a[n]
      /\ \A n \in 1..B : (a \o b)[n + A] = b[n]
  BY <1>2, ListsJoin
<1>8. /\ IsList(q) /\ Len(q) = Len(a \o b) + C
      /\ \A n \in 1..Len(a \o b) : q[n] = (a \o b)[n]
      /\ \A n \in 1..C : q[n + Len(a \o b)] = c[n]
  BY <1>2, <1>7, ListsJoin
<1> HIDE DEF q
<1>9. Len(q) = A + B + C /\ Len(q) \in Nat
  BY <1>6, <1>7, <1>8
<1> DEFINE at(n) == IF n <= A THEN at10[n] ELSE IF n <= A + B THEN at9[n - A] ELSE at8[n - (A + B)]
           rank(n) == IF n <= A THEN 10 ELSE IF n <= A + B THEN 9 ELSE 8
           p == [n \in 1..Len(q) |-> at(n)]
<1>10. ASSUME NEW n \in 1..Len(q)
       PROVE  /\ q[n] = s[at(n)] /\ at(n) \in 1..Len(s) /\ at(n) \in Of(rank(n))
  <2>1. CASE n <= A
    <3>1. n \in 1..Len(at10) /\ n \in 1..A /\ n \in 1..Len(a \o b)
      BY <1>3, <1>6, <1>7, <2>1
    <3>2. q[n] = s[at10[n]] /\ at10[n] \in 1..Len(s) /\ at10[n] \in Of(10)
      BY <1>3, <1>7, <1>8, <3>1, <1>6, AscendingOnce
    <3> QED  BY <2>1, <3>2
  <2>2. CASE n > A /\ n <= A + B
    <3> DEFINE k == n - A
    <3>1. k \in 1..Len(at9) /\ k \in 1..B /\ n \in 1..Len(a \o b) /\ n = k + A
      BY <1>4, <1>6, <1>7, <2>2
    <3> HIDE DEF k
    <3>2. q[n] = s[at9[k]] /\ at9[k] \in 1..Len(s) /\ at9[k] \in Of(9)
      BY <1>4, <1>7, <1>8, <3>1, <1>6, AscendingOnce
    <3>3. at(n) = at9[k] /\ rank(n) = 9
      BY <1>6, <2>2 DEF k
    <3> HIDE DEF at, rank
    <3> QED  BY <3>2, <3>3
  <2>3. CASE n > A + B
    <3> DEFINE k == n - (A + B)
    <3>1. k \in 1..Len(at8) /\ k \in 1..C /\ n = k + Len(a \o b)
      BY <1>5, <1>6, <1>7, <1>9, <2>3
    <3> HIDE DEF k
    <3>2. q[n] = s[at8[k]] /\ at8[k] \in 1..Len(s) /\ at8[k] \in Of(8)
      BY <1>5, <1>8, <3>1, <1>6, AscendingOnce
    <3>3. at(n) = at8[k] /\ rank(n) = 8
      BY <1>6, <2>3 DEF k
    <3> HIDE DEF at, rank
    <3> QED  BY <3>2, <3>3
  <2> QED  BY <1>6, <2>1, <2>2, <2>3
<1>11. ASSUME NEW i \in 1..Len(q), NEW j \in 1..Len(q), at(i) = at(j)
       PROVE  i = j
  <2>1. at(i) \in Of(rank(i)) /\ at(i) \in Of(rank(j))
    BY <1>10, <1>11
  <2>2. rank(i) = rank(j)
    BY <2>1 DEF AtRank
  <2>3. CASE rank(i) = 10
    <3>1. i \in 1..Len(at10) /\ j \in 1..Len(at10) /\ at10[i] = at10[j]
      BY <1>3, <1>6, <1>11, <2>2, <2>3
    <3>2. \A k, l \in 1..Len(at10) : at10[k] = at10[l] => k = l
      BY <1>3, <1>6, AscendingOnce
    <3> QED  BY <3>1, <3>2
  <2>4. CASE rank(i) = 9
    <3> DEFINE k == i - A
               l == j - A
    <3>1. k \in 1..Len(at9) /\ l \in 1..Len(at9) /\ at9[k] = at9[l]
      BY <1>4, <1>6, <1>11, <2>2, <2>4
    <3> HIDE DEF k, l
    <3>2. k = l
      BY <1>4, <1>6, <3>1, AscendingOnce
    <3> QED  BY <1>6, <3>2 DEF k, l
  <2>5. CASE rank(i) = 8
    <3> DEFINE k == i - (A + B)
               l == j - (A + B)
    <3>1. k \in 1..Len(at8) /\ l \in 1..Len(at8) /\ at8[k] = at8[l]
      BY <1>5, <1>6, <1>9, <1>11, <2>2, <2>5
    <3> HIDE DEF k, l
    <3>2. \A x, y \in 1..Len(at8) : at8[x] = at8[y] => x = y
      BY <1>5, <1>6, AscendingOnce
    <3>3. k = l
      BY <3>1, <3>2
    <3> QED  BY <1>6, <3>3 DEF k, l
  <2>6. rank(i) \in {8, 9, 10}
    OBVIOUS
  <2> HIDE DEF rank
  <2> QED  BY <2>3, <2>4, <2>5, <2>6
<1>12. ASSUME NEW k \in 1..Len(s)
       PROVE  \E n \in 1..Len(q) : at(n) = k
  <2>1. k \in Of(10) \/ k \in Of(9) \/ k \in Of(8)
    BY DEF AtRank, Light!Rank
  <2>2. CASE k \in Of(10)
    <3>1. PICK n \in 1..Len(at10) : at10[n] = k
      BY <1>3, <2>2, <1>6, AscendingOnce
    <3>2. n \in 1..Len(q) /\ at(n) = k
      BY <1>3, <1>6, <1>9, <3>1
    <3> QED  BY <3>2
  <2>3. CASE k \in Of(9)
    <3>1. PICK n \in 1..Len(at9) : at9[n] = k
      BY <1>4, <2>3, <1>6, AscendingOnce
    <3>2. n + A \in 1..Len(q) /\ at(n + A) = k
      <4>1. n \in Nat /\ n + A > A /\ n + A <= A + B /\ (n + A) - A = n /\ n + A \in 1..Len(q)
        BY <1>4, <1>6, <1>9
      <4> QED  BY <1>6, <3>1, <4>1
    <3> QED  BY <3>2
  <2>4. CASE k \in Of(8)
    <3>1. PICK n \in 1..Len(at8) : at8[n] = k
      BY <1>5, <2>4, <1>6, AscendingOnce
    <3>2. n + (A + B) \in 1..Len(q) /\ at(n + (A + B)) = k
      <4>1. /\ n \in Nat /\ n + (A + B) > A + B /\ n + (A + B) > A
            /\ (n + (A + B)) - (A + B) = n /\ n + (A + B) \in 1..Len(q)
        BY <1>5, <1>6, <1>9
      <4> QED  BY <1>6, <3>1, <4>1
    <3> QED  BY <3>2
  <2> QED  BY <2>1, <2>2, <2>3, <2>4
<1>13. ByPriority(q)
  <2> SUFFICES ASSUME NEW i \in 1..Len(q), NEW j \in 1..Len(q), i < j
               PROVE  Light!Rank(q[i]) >= Light!Rank(q[j])
    BY DEF ByPriority
  <2>1. Light!Rank(q[i]) = rank(i) /\ Light!Rank(q[j]) = rank(j)
    BY <1>10 DEF AtRank
  <2>2. i \in Int /\ j \in Int
    OBVIOUS
  <2>3. rank(i) >= rank(j)
    BY <1>6, <2>2
  <2> QED  BY <2>1, <2>3
<1>14. /\ p \in [1..Len(q) -> 1..Len(s)]
       /\ \A i, j \in 1..Len(q) : p[i] = p[j] => i = j
       /\ \A k \in 1..Len(s) : \E i \in 1..Len(q) : p[i] = k
       /\ \A n \in 1..Len(q) : q[n] = s[p[n]]
  <2>1. \A n \in 1..Len(q) : p[n] = at(n)
    OBVIOUS
  <2>2. p \in [1..Len(q) -> 1..Len(s)]
    BY <1>10
  <2> HIDE DEF p, at, rank
  <2> QED  BY <1>10, <1>11, <1>12, <2>1, <2>2
<1> HIDE DEF p
<1>15. Len(q) = Len(s)
  <2>1. Matches(p, Len(q), Len(s))
    BY <1>14 DEF Matches
  <2> QED  BY <1>6, <1>9, <2>1, AsLong
<1>16. Permutes(p, Len(s)) /\ \A n \in 1..Len(s) : q[n] = s[p[n]]
  BY <1>14, <1>15 DEF Permutes
<1> QED  BY <1>1, <1>8, <1>13, <1>15, <1>16

\* The location codes, expanded or not.
Codes == DOMAIN Expand \cup {Expand[l] : l \in DOMAIN Expand}

\* A callout, which has a location when it is for hardware.
Located(c) ==
    \E k, p, l, i, m :
        /\ c = [kind |-> k, priority |-> p, loc |-> l, id |-> i, mrus |-> m]
        /\ k = "hardware" => l # ""
        /\ l \in Codes \cup {""} /\ m \in Nat

AllLocated(s) == \A n \in 1..Len(s) : Located(s[n])

\* The location of hardware.
LEMMA HardwareIsLocated ==
  ASSUME NEW c, Located(c), c.kind = "hardware"
  PROVE  c.loc # ""
<1>1. PICK k, p, l, i, m :
         /\ c = [kind |-> k, priority |-> p, loc |-> l, id |-> i, mrus |-> m]
         /\ k = "hardware" => l # ""
  BY Zenon DEF Located
<1>2. c = [kind |-> k, priority |-> p, loc |-> l, id |-> i, mrus |-> m]
  BY <1>1
<1>3. c.kind = k /\ c.loc = l
  BY <1>2
<1> QED  BY <1>1, <1>3

\* Another priority, or other MRUs, change no location.
LEMMA RaisedLocated ==
  ASSUME NEW c, Located(c), NEW x
  PROVE  Located([c EXCEPT !.priority = x]) /\ (x \in Nat => Located([c EXCEPT !.mrus = x]))
<1>1. PICK k, p, l, i, m :
         /\ c = [kind |-> k, priority |-> p, loc |-> l, id |-> i, mrus |-> m]
         /\ k = "hardware" => l # ""
         /\ l \in Codes \cup {""} /\ m \in Nat
  BY DEF Located
<1>2. c = [kind |-> k, priority |-> p, loc |-> l, id |-> i, mrus |-> m]
  BY <1>1
<1>3. (k = "hardware" => l # "") /\ l \in Codes \cup {""} /\ m \in Nat
  BY <1>1
<1>4. [c EXCEPT !.priority = x] = [kind |-> k, priority |-> x, loc |-> l, id |-> i, mrus |-> m]
  BY <1>2
<1>5. [c EXCEPT !.mrus = x] = [kind |-> k, priority |-> p, loc |-> l, id |-> i, mrus |-> x]
  BY <1>2
<1>6. Located([c EXCEPT !.priority = x])
  BY <1>3, <1>4, Zenon DEF Located
<1>7. x \in Nat => Located([c EXCEPT !.mrus = x])
  BY <1>3, <1>5, Zenon DEF Located
<1> QED  BY <1>6, <1>7

\* Callouts of the same FRU are so in either order, and with a third.
LEMMA SameFRUIs ==
  ASSUME NEW a, NEW b, NEW c
  PROVE  /\ Light!SameFRU(a, a)
         /\ Light!SameFRU(a, b) => Light!SameFRU(b, a)
         /\ Light!SameFRU(a, b) /\ Light!SameFRU(b, c) => Light!SameFRU(a, c)
<1> DEFINE pa == a.kind = "procedure"
           pb == b.kind = "procedure"
           pc0 == c.kind = "procedure"
<1>1. /\ Light!SameFRU(a, a) <=> IF a.loc # "" \/ a.loc # "" THEN a.loc = a.loc ELSE (pa = pa) /\ a.id = a.id
      /\ Light!SameFRU(a, b) <=> IF a.loc # "" \/ b.loc # "" THEN a.loc = b.loc ELSE (pa = pb) /\ a.id = b.id
      /\ Light!SameFRU(b, a) <=> IF b.loc # "" \/ a.loc # "" THEN b.loc = a.loc ELSE (pb = pa) /\ b.id = a.id
      /\ Light!SameFRU(b, c) <=> IF b.loc # "" \/ c.loc # "" THEN b.loc = c.loc ELSE (pb = pc0) /\ b.id = c.id
      /\ Light!SameFRU(a, c) <=> IF a.loc # "" \/ c.loc # "" THEN a.loc = c.loc ELSE (pa = pc0) /\ a.id = c.id
  BY Zenon DEF Light!SameFRU
<1> HIDE DEF pa, pb, pc0
<1> QED  BY <1>1, Zenon

\* Which FRU a callout is for depends on these fields only.
LEMMA SameFields ==
  ASSUME NEW a, NEW b, a.loc = b.loc, a.kind = b.kind, a.id = b.id
  PROVE  \A c : Light!SameFRU(c, a) <=> Light!SameFRU(c, b)
  BY Zenon DEF Light!SameFRU

\* A callout whose priority is changed.
LEMMA RaisedIs ==
  ASSUME NEW c, Located(c), NEW d, NEW e, e = [c EXCEPT !.priority = d.priority]
  PROVE  /\ e.priority = d.priority /\ Light!Rank(e) = Light!Rank(d)
         /\ \A x : Light!SameFRU(x, e) <=> Light!SameFRU(x, c)
         /\ Light!flattenedSize(e) = Light!flattenedSize(c)
<1>1. PICK k, p, l, i, m : c = [kind |-> k, priority |-> p, loc |-> l, id |-> i, mrus |-> m]
  BY Zenon DEF Located
<1> DEFINE q == d.priority
<1>2. e = [kind |-> k, priority |-> q, loc |-> l, id |-> i, mrus |-> m]
  BY <1>1
<1> HIDE DEF q
<1>3. e.priority = q /\ e.loc = c.loc /\ e.kind = c.kind /\ e.id = c.id /\ e.mrus = c.mrus
  BY <1>1, <1>2
<1>4. e.priority = d.priority
  BY <1>3 DEF q
<1>5. Light!Rank(e) = Light!Rank(d)
  BY <1>4 DEF Light!Rank
<1>6. \A x : Light!SameFRU(x, e) <=> Light!SameFRU(x, c)
  BY <1>3, SameFields
<1>7. Light!flattenedSize(e) = Light!flattenedSize(c)
  BY <1>3 DEF Light!flattenedSize, Light!LocationSize, Light!MRUSize
<1> QED  BY <1>4, <1>5, <1>6, <1>7

\* Location codes that are not cut.
LengthData == \A l \in Codes : Length[l] \in 0..79

\* A callout is of whole words and its length fits its field.
LEMMA SizeIs ==
  ASSUME LengthData, NEW c, Located(c)
  PROVE  \E w \in 1..63 : Light!flattenedSize(c) = 4 * w
<1>1. PICK k, p, l, i, m :
         /\ c = [kind |-> k, priority |-> p, loc |-> l, id |-> i, mrus |-> m]
         /\ l \in Codes \cup {""} /\ m \in Nat
  BY DEF Located
<1>2. c = [kind |-> k, priority |-> p, loc |-> l, id |-> i, mrus |-> m]
  BY <1>1
<1>3. c.loc = l /\ c.mrus = m
  BY <1>2
<1>4. \E w \in 0..20 : Light!LocationSize(c.loc) = 4 * w
  <2>1. CASE l = ""
    <3>1. Light!LocationSize(c.loc) = 0
      BY <1>3, <2>1 DEF Light!LocationSize
    <3>2. 0 \in 0..20 /\ 0 = 4 * 0
      OBVIOUS
    <3> QED  BY <3>1, <3>2
  <2>2. CASE l # ""
    <3>1. Length[l] \in 0..79
      BY <1>1, <2>2 DEF LengthData
    <3> DEFINE n == Length[l]
    <3> HIDE DEF n
    <3>2. n \div 4 \in 0..19
      BY <3>1 DEF n
    <3>3. Light!LocationSize(c.loc) = 4 * ((n \div 4) + 1)
      BY <1>3, <2>2 DEF Light!LocationSize, n
    <3> DEFINE v == n \div 4
    <3> HIDE DEF v
    <3>4. v + 1 \in 0..20 /\ Light!LocationSize(c.loc) = 4 * (v + 1)
      BY <3>2, <3>3 DEF v
    <3> QED  BY <3>4
  <2> QED  BY <2>1, <2>2
<1>5. \E w \in 0..32 : Light!MRUSize(c.mrus) = 4 * w
  <2>1. CASE m = 0
    BY <1>3, <2>1 DEF Light!MRUSize
  <2>2. CASE m # 0
    <3> DEFINE n == IF m > 15 THEN 15 ELSE m
    <3>4. m \in Nat
      BY <1>1
    <3>1. n \in 1..15
      BY <2>2, <3>4
    <3>2. Light!MRUSize(c.mrus) = 8 + 8 * n
      BY <1>3, <2>2 DEF Light!MRUSize, Light!maxMRUs
    <3> HIDE DEF n
    <3>3. 2 + 2 * n \in 0..32 /\ Light!MRUSize(c.mrus) = 4 * (2 + 2 * n)
      BY <3>1, <3>2
    <3> QED  BY <3>3
  <2> QED  BY <2>1, <2>2
<1>6. PICK v \in 0..20 : Light!LocationSize(c.loc) = 4 * v
  BY <1>4
<1>7. PICK u \in 0..32 : Light!MRUSize(c.mrus) = 4 * u
  BY <1>5
<1> DEFINE f == IF c.kind = "hardware" THEN 7 ELSE 3
<1>8. f \in {3, 7} /\ (IF c.kind = "hardware" THEN 28 ELSE 12) = 4 * f
  OBVIOUS
<1>9. Light!flattenedSize(c) = 4 + 4 * v + 4 * f + 4 * u
  BY <1>6, <1>7, <1>8 DEF Light!flattenedSize
<1> HIDE DEF f
<1>10. 1 + v + f + u \in 1..63 /\ 4 + 4 * v + 4 * f + 4 * u = 4 * (1 + v + f + u)
  BY <1>8
<1> QED  BY <1>9, <1>10

\* The callouts of list s answer what is asked for by R: no FRU twice, each with
\* the highest priority it is asked for with, none missing unless the list is full.
Answers(s, R) ==
    /\ Len(s) <= maxNumberOfCallouts
    /\ \A i, j \in 1..Len(s) : Light!SameFRU(s[i], s[j]) => i = j
    /\ \A i \in 1..Len(s) :
          \E r \in R : Light!SameFRU(r.callout, s[i]) /\ r.callout.priority = s[i].priority
    /\ \A i \in 1..Len(s), r \in R :
          Light!SameFRU(r.callout, s[i]) => Light!Rank(r.callout) <= Light!Rank(s[i])
    /\ \A r \in R : \/ \E i \in 1..Len(s) : Light!SameFRU(r.callout, s[i])
                    \/ Len(s) = maxNumberOfCallouts

Sizes(s) == [i \in 1..Len(s) |-> Light!flattenedSize(s[i])]

\* Another order of the callouts is as good, and takes as much room.
LEMMA OrderIsFree ==
  ASSUME NEW s, Len(s) \in Nat, NEW R, Answers(s, R), NEW p, Permutes(p, Len(s)),
         NEW q, Len(q) = Len(s), \A n \in 1..Len(s) : q[n] = s[p[n]]
  PROVE  Answers(q, R)
<1>1. /\ \A n \in 1..Len(s) : p[n] \in 1..Len(s)
      /\ \A i, j \in 1..Len(s) : p[i] = p[j] => i = j
      /\ \A k \in 1..Len(s) : \E i \in 1..Len(s) : p[i] = k
  BY DEF Permutes
<1> DEFINE m == Len(s)
           Same(a, b) == Light!SameFRU(a, b)
           Rk(a) == Light!Rank(a)
<1>2. /\ m <= maxNumberOfCallouts
      /\ \A i, j \in 1..m : Same(s[i], s[j]) => i = j
      /\ \A i \in 1..m : \E r \in R : Same(r.callout, s[i]) /\ r.callout.priority = s[i].priority
      /\ \A i \in 1..m, r \in R : Same(r.callout, s[i]) => Rk(r.callout) <= Rk(s[i])
      /\ \A r \in R : (\E i \in 1..m : Same(r.callout, s[i])) \/ m = maxNumberOfCallouts
  BY Zenon DEF Answers
<1>3. \A i, j \in 1..m : Same(q[i], q[j]) => i = j
  <2> SUFFICES ASSUME NEW i \in 1..m, NEW j \in 1..m, Same(q[i], q[j])
               PROVE  i = j
    OBVIOUS
  <2>1. Same(s[p[i]], s[p[j]])
    OBVIOUS
  <2> HIDE DEF Same
  <2>2. p[i] = p[j]
    BY <1>1, <1>2, <2>1, Zenon
  <2> QED  BY <1>1, <2>2
<1> HIDE DEF Same, Rk
<1>4. ASSUME NEW i \in 1..m
      PROVE  \E r \in R : Same(r.callout, q[i]) /\ r.callout.priority = q[i].priority
  <2>1. p[i] \in 1..m /\ q[i] = s[p[i]]
    BY <1>1
  <2>2. PICK r \in R : Same(r.callout, s[p[i]]) /\ r.callout.priority = s[p[i]].priority
    BY <1>2, <2>1
  <2> QED  BY <2>1, <2>2
<1>5. \A i \in 1..m, r \in R : Same(r.callout, q[i]) => Rk(r.callout) <= Rk(q[i])
  BY <1>1, <1>2
<1>6. ASSUME NEW r \in R, m # maxNumberOfCallouts
      PROVE  \E i \in 1..m : Same(r.callout, q[i])
  <2>1. PICK k \in 1..m : Same(r.callout, s[k])
    BY <1>2, <1>6
  <2>2. PICK i \in 1..m : p[i] = k
    BY <1>1
  <2>3. Same(r.callout, q[i])
    BY <2>1, <2>2
  <2> QED  BY <2>3
<1>7. /\ m <= maxNumberOfCallouts
      /\ \A r \in R : (\E i \in 1..m : Same(r.callout, q[i])) \/ m = maxNumberOfCallouts
  BY <1>2, <1>6, Zenon
<1>8. m = Len(q)
  OBVIOUS
<1> HIDE DEF m
<1> QED  BY <1>3, <1>4, <1>5, <1>7, <1>8, Zenon DEF Answers, Same, Rk

\* The callout at k is of the same FRU as c, and gets its higher priority.
Raises(s, c, t, k) ==
    /\ Light!SameFRU(c, s[k]) /\ Light!Rank(c) > Light!Rank(s[k])
    /\ Len(t) = Len(s) /\ t[k] = [s[k] EXCEPT !.priority = c.priority]
    /\ \A n \in 1..Len(s) : n # k => t[n] = s[n]

\* A callout of an FRU that is there: its priority is the higher one.
LEMMA RaiseAnswers ==
  ASSUME NEW s, Len(s) \in Nat, AllLocated(s), NEW R, Answers(s, R), NEW c, NEW x, x.callout = c,
         NEW k \in 1..Len(s), NEW t, Raises(s, c, t, k)
  PROVE  Answers(t, R \cup {x})
<1>0. /\ Light!SameFRU(c, s[k]) /\ Light!Rank(c) > Light!Rank(s[k])
      /\ Len(t) = Len(s) /\ t[k] = [s[k] EXCEPT !.priority = c.priority]
      /\ \A n \in 1..Len(s) : n # k => t[n] = s[n]
  BY Zenon DEF Raises
<1> DEFINE m == Len(s)
           Same(a, b) == Light!SameFRU(a, b)
           Rk(a) == Light!Rank(a)
<1>1. /\ m <= maxNumberOfCallouts
      /\ \A i, j \in 1..m : Same(s[i], s[j]) => i = j
      /\ \A i \in 1..m : \E r \in R : Same(r.callout, s[i]) /\ r.callout.priority = s[i].priority
      /\ \A i \in 1..m, r \in R : Same(r.callout, s[i]) => Rk(r.callout) <= Rk(s[i])
      /\ \A r \in R : (\E i \in 1..m : Same(r.callout, s[i])) \/ m = maxNumberOfCallouts
  BY Zenon DEF Answers
<1>2. Located(s[k])
  BY DEF AllLocated
<1>3. /\ t[k].priority = c.priority /\ Rk(t[k]) = Rk(c)
      /\ \A y : Same(y, t[k]) <=> Same(y, s[k])
  BY <1>0, <1>2, RaisedIs
<1>4. /\ \A a, b : Same(a, b) => Same(b, a)
      /\ \A a, b, d : Same(a, b) /\ Same(b, d) => Same(a, d)
      /\ Same(c, s[k]) /\ Rk(c) > Rk(s[k])
  BY <1>0, SameFRUIs
<1>5. \A a : Rk(a) \in {8, 9, 10}
  BY DEF Light!Rank
<1> HIDE DEF Same, Rk
<1>7. \A n \in 1..m : \A y : Same(y, t[n]) <=> Same(y, s[n])
  BY <1>0, <1>3, Zenon
<1>8. \A i, j \in 1..m : Same(t[i], t[j]) => i = j
  <2> SUFFICES ASSUME NEW i \in 1..m, NEW j \in 1..m, Same(t[i], t[j])
               PROVE  i = j
    OBVIOUS
  <2>1. Same(s[j], s[i])
    BY <1>4, <1>7
  <2> QED  BY <1>1, <2>1
<1>9. ASSUME NEW i \in 1..m
      PROVE  \E r \in R \cup {x} : Same(r.callout, t[i]) /\ r.callout.priority = t[i].priority
  <2>1. CASE i = k
    BY <1>3, <1>4, <2>1
  <2>2. CASE i # k
    BY <1>0, <1>1, <2>2
  <2> QED  BY <2>1, <2>2
<1>10. ASSUME NEW i \in 1..m, NEW r \in R \cup {x}, Same(r.callout, t[i])
       PROVE  Rk(r.callout) <= Rk(t[i])
  <2>1. Same(r.callout, s[i])
    BY <1>7, <1>10
  <2>2. CASE r \in R /\ i # k
    BY <1>0, <1>1, <2>1, <2>2
  <2>3. CASE r \in R /\ i = k
    <3>1. Rk(r.callout) <= Rk(s[k])
      BY <1>1, <2>1, <2>3
    <3> QED  BY <1>3, <1>4, <1>5, <2>3, <3>1
  <2>4. CASE r = x
    <3>1. i = k
      <4>1. Same(s[k], c) /\ Same(c, s[i])
        BY <1>4, <2>1, <2>4
      <4>2. Same(s[k], s[i])
        BY <1>4, <4>1
      <4> QED  BY <1>1, <4>2
    <3> QED  BY <1>3, <1>5, <2>4, <3>1
  <2> QED  BY <2>2, <2>3, <2>4
<1>11. ASSUME NEW r \in R \cup {x}, m # maxNumberOfCallouts
       PROVE  \E i \in 1..m : Same(r.callout, t[i])
  <2>1. \E i \in 1..m : Same(r.callout, s[i])
    BY <1>1, <1>4, <1>11
  <2> QED  BY <1>7, <2>1
<1>12. m = Len(t)
  BY <1>0
<1> HIDE DEF m
<1>13. /\ m <= maxNumberOfCallouts
       /\ \A r \in R \cup {x} : (\E i \in 1..m : Same(r.callout, t[i])) \/ m = maxNumberOfCallouts
  BY <1>1, <1>11
<1> QED  BY <1>8, <1>9, <1>10, <1>12, <1>13, Zenon DEF Answers, Same, Rk

\* The priority is a character of its own.
LEMMA RaiseSizes ==
  ASSUME NEW s, AllLocated(s), NEW c, NEW k \in 1..Len(s), NEW t, Raises(s, c, t, k)
  PROVE  \A n \in 1..Len(s) : Light!flattenedSize(t[n]) = Light!flattenedSize(s[n])
<1>1. Located(s[k])
  BY DEF AllLocated
<1>2. t[k] = [s[k] EXCEPT !.priority = c.priority] /\ \A n \in 1..Len(s) : n # k => t[n] = s[n]
  BY Zenon DEF Raises
<1>3. Light!flattenedSize(t[k]) = Light!flattenedSize(s[k])
  BY <1>1, <1>2, RaisedIs
<1> QED  BY <1>2, <1>3

\* One that is not more urgent changes nothing.
LEMMA KeepAnswers ==
  ASSUME NEW s, Len(s) \in Nat, NEW R, Answers(s, R), NEW c, NEW x, x.callout = c,
         NEW k \in 1..Len(s), Light!SameFRU(c, s[k]), Light!Rank(c) <= Light!Rank(s[k])
  PROVE  Answers(s, R \cup {x})
<1> DEFINE m == Len(s)
           Same(a, b) == Light!SameFRU(a, b)
           Rk(a) == Light!Rank(a)
<1>1. /\ m <= maxNumberOfCallouts
      /\ \A i, j \in 1..m : Same(s[i], s[j]) => i = j
      /\ \A i \in 1..m : \E r \in R : Same(r.callout, s[i]) /\ r.callout.priority = s[i].priority
      /\ \A i \in 1..m, r \in R : Same(r.callout, s[i]) => Rk(r.callout) <= Rk(s[i])
      /\ \A r \in R : (\E i \in 1..m : Same(r.callout, s[i])) \/ m = maxNumberOfCallouts
  BY Zenon DEF Answers
<1>2. /\ \A a, b : Same(a, b) => Same(b, a)
      /\ \A a, b, d : Same(a, b) /\ Same(b, d) => Same(a, d)
      /\ Same(c, s[k]) /\ Rk(c) <= Rk(s[k])
  BY SameFRUIs
<1> HIDE DEF Same, Rk
<1>3. ASSUME NEW i \in 1..m, NEW r \in R \cup {x}, Same(r.callout, s[i])
      PROVE  Rk(r.callout) <= Rk(s[i])
  <2>1. CASE r \in R
    BY <1>1, <1>3, <2>1
  <2>2. CASE r = x
    <3>1. Same(s[k], c) /\ Same(c, s[i])
      BY <1>2, <1>3, <2>2
    <3>2. Same(s[k], s[i])
      BY <1>2, <3>1
    <3>3. i = k
      BY <1>1, <3>2
    <3> QED  BY <1>2, <2>2, <3>3
  <2> QED  BY <2>1, <2>2
<1>4. \A i \in 1..m : \E r \in R \cup {x} : Same(r.callout, s[i]) /\ r.callout.priority = s[i].priority
  BY <1>1
<1>5. \A r \in R \cup {x} : (\E i \in 1..m : Same(r.callout, s[i])) \/ m = maxNumberOfCallouts
  BY <1>1, <1>2
<1> QED  BY <1>1, <1>3, <1>4, <1>5, Zenon DEF Answers, Same, Rk

\* One that does not fit may be missing.
LEMMA FullAnswers ==
  ASSUME NEW s, Len(s) \in Nat, NEW R, Answers(s, R), NEW c, NEW x, x.callout = c,
         \A i \in 1..Len(s) : ~Light!SameFRU(c, s[i]), Len(s) = maxNumberOfCallouts
  PROVE  Answers(s, R \cup {x})
<1> DEFINE m == Len(s)
           Same(a, b) == Light!SameFRU(a, b)
           Rk(a) == Light!Rank(a)
<1>1. /\ m <= maxNumberOfCallouts /\ m = maxNumberOfCallouts
      /\ \A i, j \in 1..m : Same(s[i], s[j]) => i = j
      /\ \A i \in 1..m : \E r \in R : Same(r.callout, s[i]) /\ r.callout.priority = s[i].priority
      /\ \A i \in 1..m, r \in R : Same(r.callout, s[i]) => Rk(r.callout) <= Rk(s[i])
  BY Zenon DEF Answers
<1>2. \A i \in 1..m : ~Same(c, s[i])
  OBVIOUS
<1> HIDE DEF Same, Rk
<1>3. \A i \in 1..m : \E r \in R \cup {x} : Same(r.callout, s[i]) /\ r.callout.priority = s[i].priority
  BY <1>1
<1>4. \A i \in 1..m, r \in R \cup {x} : Same(r.callout, s[i]) => Rk(r.callout) <= Rk(s[i])
  BY <1>1, <1>2
<1> QED  BY <1>1, <1>3, <1>4, Zenon DEF Answers, Same, Rk

\* One of another FRU is added.
LEMMA AppendAnswers ==
  ASSUME NEW s, Len(s) \in Nat, NEW R, Answers(s, R), NEW c, NEW x, x.callout = c,
         \A i \in 1..Len(s) : ~Light!SameFRU(c, s[i]),
         maxNumberOfCallouts \in Nat, Len(s) < maxNumberOfCallouts,
         NEW t, Len(t) = Len(s) + 1, \A i \in 1..Len(s) : t[i] = s[i], t[Len(s) + 1] = c
  PROVE  Answers(t, R \cup {x})
<1> DEFINE m == Len(s)
           Same(a, b) == Light!SameFRU(a, b)
           Rk(a) == Light!Rank(a)
<1>1. /\ m <= maxNumberOfCallouts
      /\ \A i, j \in 1..m : Same(s[i], s[j]) => i = j
      /\ \A i \in 1..m : \E r \in R : Same(r.callout, s[i]) /\ r.callout.priority = s[i].priority
      /\ \A i \in 1..m, r \in R : Same(r.callout, s[i]) => Rk(r.callout) <= Rk(s[i])
      /\ \A r \in R : (\E i \in 1..m : Same(r.callout, s[i])) \/ m = maxNumberOfCallouts
  BY Zenon DEF Answers
<1>2. /\ \A a, b : Same(a, b) => Same(b, a)
      /\ \A a : Same(a, a)
      /\ \A i \in 1..m : ~Same(c, s[i])
  BY SameFRUIs
<1>3. \A a : Rk(a) \in {8, 9, 10}
  BY DEF Light!Rank
<1>4. /\ m + 1 \in 1..(m + 1) /\ m + 1 \notin 1..m /\ m + 1 <= maxNumberOfCallouts
      /\ \A i \in 1..(m + 1) : i \in 1..m \/ i = m + 1
      /\ \A i \in 1..m : i \in 1..(m + 1)
  OBVIOUS
<1> DEFINE l == m + 1
<1>5. Len(t) = l /\ (\A i \in 1..m : t[i] = s[i]) /\ t[l] = c
  OBVIOUS
<1> HIDE DEF Same, Rk, m, l
<1>6. /\ l \in 1..l /\ l <= maxNumberOfCallouts /\ l \notin 1..m
      /\ \A i \in 1..l : i \in 1..m \/ i = l
      /\ \A i \in 1..m : i \in 1..l
      /\ m # maxNumberOfCallouts
  BY <1>4 DEF l, m
<1>7. ASSUME NEW i \in 1..l, NEW j \in 1..l, Same(t[i], t[j])
      PROVE  i = j
  <2>1. CASE i \in 1..m /\ j \in 1..m
    BY <1>1, <1>5, <1>7, <2>1
  <2>2. CASE i = l /\ j \in 1..m
    BY <1>2, <1>5, <1>7, <2>2
  <2>3. CASE i \in 1..m /\ j = l
    BY <1>2, <1>5, <1>7, <2>3
  <2> QED  BY <1>6, <2>1, <2>2, <2>3
<1>8. ASSUME NEW i \in 1..l
      PROVE  \E r \in R \cup {x} : Same(r.callout, t[i]) /\ r.callout.priority = t[i].priority
  <2>1. CASE i \in 1..m
    BY <1>1, <1>5, <2>1
  <2>2. CASE i = l
    BY <1>2, <1>5, <2>2
  <2> QED  BY <1>6, <2>1, <2>2
<1>9. ASSUME NEW i \in 1..l, NEW r \in R \cup {x}, Same(r.callout, t[i])
      PROVE  Rk(r.callout) <= Rk(t[i])
  <2>1. CASE i \in 1..m
    <3>1. r \in R
      BY <1>2, <1>5, <1>9, <2>1
    <3> QED  BY <1>1, <1>5, <1>9, <2>1, <3>1
  <2>2. CASE i = l /\ r = x
    BY <1>3, <1>5, <2>2
  <2>3. CASE i = l /\ r \in R
    <3>1. PICK k \in 1..m : Same(r.callout, s[k])
      BY <1>1, <1>6, <2>3
    <3>2. Same(r.callout, c)
      BY <1>5, <1>9, <2>3
    <3>3. Same(c, s[k])
      BY <1>2, <3>1, <3>2, SameFRUIs DEF Same
    <3> QED  BY <1>2, <3>3
  <2> QED  BY <1>6, <2>1, <2>2, <2>3
<1>10. ASSUME NEW r \in R \cup {x}
       PROVE  \E i \in 1..l : Same(r.callout, t[i])
  <2>1. CASE r \in R
    BY <1>1, <1>5, <1>6, <2>1
  <2>2. CASE r = x
    BY <1>2, <1>5, <1>6, <2>2
  <2> QED  BY <2>1, <2>2
<1> QED  BY <1>5, <1>6, <1>7, <1>8, <1>9, <1>10, Zenon DEF Answers, Same, Rk

\* addCallout sorts a list that is the old one, or that with a priority raised
\* or a callout more.
AddsTo(s, c, t) ==
    \/ \E k \in 1..Len(s) : Raises(s, c, t, k)
    \/ \E k \in 1..Len(s) :
          Light!SameFRU(c, s[k]) /\ Light!Rank(c) <= Light!Rank(s[k]) /\ t = s
    \/ /\ \A i \in 1..Len(s) : ~Light!SameFRU(c, s[i])
       /\ Len(s) < maxNumberOfCallouts
       /\ Len(t) = Len(s) + 1 /\ (\A i \in 1..Len(s) : t[i] = s[i]) /\ t[Len(s) + 1] = c
    \/ /\ \A i \in 1..Len(s) : ~Light!SameFRU(c, s[i])
       /\ ~(Len(s) < maxNumberOfCallouts) /\ t = s

\* Whichever case addCallout is in.
LEMMA AddIs ==
  ASSUME NEW s, IsList(s), NEW c
  PROVE  \E t : IsList(t) /\ AddsTo(s, c, t) /\ Light!addCallout(s, c) = Light!SortByPriority(t)
<1> DEFINE same == {i \in DOMAIN s : Light!SameFRU(c, s[i])}
           first == CHOOSE k \in same : \A j \in same : k <= j
           raised == [s EXCEPT ![first].priority = c.priority]
           new == CASE same # {} /\ Light!Rank(c) > Light!Rank(s[first]) -> raised
                    [] same # {} /\ Light!Rank(c) <= Light!Rank(s[first]) -> s
                    [] same = {} /\ Len(s) < maxNumberOfCallouts -> Append(s, c)
                    [] OTHER -> s
<1>1. Light!addCallout(s, c) = Light!SortByPriority(new)
  BY DEF Light!addCallout
<1>2. PICK S : s \in Seq(S)
  BY ListOf
<1>3. Len(s) \in Nat /\ DOMAIN s = 1..Len(s)
  BY ListFacts
<1>4. ASSUME same # {}
      PROVE  first \in 1..Len(s) /\ Light!SameFRU(c, s[first])
  <2>1. same \subseteq Nat
    BY <1>3
  <2>2. first \in same
    <3> HIDE DEF same
    <3>2. \E k \in same : \A j \in same : k <= j
      BY <1>4, <2>1, LeastOfNats
    <3> QED  BY <3>2
  <2> HIDE DEF first
  <2> QED  BY <1>3, <2>2
<1>5. same = {} => \A i \in 1..Len(s) : ~Light!SameFRU(c, s[i])
  BY <1>3
<1> HIDE DEF first, same
<1>6. Light!Rank(c) > Light!Rank(s[first]) \/ Light!Rank(c) <= Light!Rank(s[first])
  BY DEF Light!Rank
<1>7. CASE same # {} /\ Light!Rank(c) > Light!Rank(s[first])
  <2> DEFINE r == [s[first] EXCEPT !.priority = c.priority]
  <2>1. s \in [1..Len(s) -> S]
    BY <1>2
  <2>2. raised = [n \in 1..Len(s) |-> IF n = first THEN r ELSE s[n]]
    BY <2>1
  <2>3. raised = [n \in 1..Len(s) |-> raised[n]]
    BY <2>2
  <2>8. first \in 1..Len(s)
    BY <1>4, <1>7
  <2>4. raised[first] = r /\ \A n \in 1..Len(s) : n # first => raised[n] = s[n]
    <3> HIDE DEF raised, r
    <3> QED  BY <2>2, <2>8
  <2>5. new = raised
    <3>1. ~(Light!Rank(c) <= Light!Rank(s[first]))
      BY <1>7 DEF Light!Rank
    <3> HIDE DEF raised
    <3> QED  BY <1>7, <3>1
  <2> HIDE DEF raised, r, new
  <2>6. IsList(raised) /\ Len(raised) = Len(s)
    BY <1>3, <2>3, ListMade
  <2>7. AddsTo(s, c, raised)
    BY <1>4, <1>7, <2>4, <2>6, Zenon DEF AddsTo, Raises, r
  <2> QED  BY <1>1, <2>5, <2>6, <2>7
<1>8. CASE same # {} /\ Light!Rank(c) <= Light!Rank(s[first])
  <2>1. new = s
    <3>1. ~(Light!Rank(c) > Light!Rank(s[first]))
      BY <1>8 DEF Light!Rank
    <3> HIDE DEF raised
    <3> QED  BY <1>8, <3>1
  <2> HIDE DEF new
  <2>2. AddsTo(s, c, s)
    BY <1>4, <1>8, Zenon DEF AddsTo
  <2> QED  BY <1>1, <2>1, <2>2
<1>9. CASE same = {} /\ Len(s) < maxNumberOfCallouts
  <2>1. s \in Seq(S \cup {c})
    <3>1. \A n \in 1..Len(s) : s[n] \in S \cup {c}
      BY <1>2
    <3>2. s \in [1..Len(s) -> S \cup {c}]
      BY <1>2, <3>1
    <3> QED  BY <1>3, <3>2
  <2> DEFINE t == Append(s, c)
  <2>2. /\ t \in Seq(S \cup {c}) /\ Len(t) = Len(s) + 1
        /\ \A n \in 1..Len(s) : t[n] = s[n]
        /\ t[Len(s) + 1] = c
    BY <2>1
  <2>3. new = t
    BY <1>9
  <2> HIDE DEF t, new
  <2>4. IsList(t)
    BY <2>2, ListFrom
  <2>5. AddsTo(s, c, t)
    BY <1>5, <1>9, <2>2, Zenon DEF AddsTo
  <2> QED  BY <1>1, <2>3, <2>4, <2>5
<1>10. CASE same = {} /\ ~(Len(s) < maxNumberOfCallouts)
  <2>1. new = s
    BY <1>10
  <2> HIDE DEF new
  <2>2. AddsTo(s, c, s)
    BY <1>5, <1>10, Zenon DEF AddsTo
  <2> QED  BY <1>1, <2>1, <2>2
<1> QED  BY <1>6, <1>7, <1>8, <1>9, <1>10

\* A callout is added where it has a location.
LEMMA AddsToLocated ==
  ASSUME NEW s, Len(s) \in Nat, AllLocated(s), NEW c, Located(c), NEW t, AddsTo(s, c, t)
  PROVE  AllLocated(t)
<1>1. ASSUME NEW k \in 1..Len(s), Len(t) = Len(s), t[k] = [s[k] EXCEPT !.priority = c.priority],
             \A n \in 1..Len(s) : n # k => t[n] = s[n]
      PROVE  AllLocated(t)
  <2>2. Located(s[k])
    BY <1>1 DEF AllLocated
  <2>3. Located([s[k] EXCEPT !.priority = c.priority])
    BY <2>2, RaisedLocated
  <2>1. Located(t[k])
    BY <1>1, <2>3
  <2> QED  BY <1>1, <2>1 DEF AllLocated
<1>2. ASSUME Len(t) = Len(s) + 1, \A i \in 1..Len(s) : t[i] = s[i], t[Len(s) + 1] = c
      PROVE  AllLocated(t)
  <2>1. ASSUME NEW n \in 1..Len(t)
        PROVE  Located(t[n])
    <3>1. n \in 1..Len(s) \/ n = Len(s) + 1
      BY <1>2
    <3> QED  BY <1>2, <3>1 DEF AllLocated
  <2> QED  BY <2>1 DEF AllLocated
<1>3. t = s => AllLocated(t)
  OBVIOUS
<1> QED  BY <1>1, <1>2, <1>3, Zenon DEF AddsTo, Raises

\* A callout is added where it is asked for.
LEMMA AddsToAnswers ==
  ASSUME NEW s, Len(s) \in Nat, AllLocated(s), NEW R, Answers(s, R), maxNumberOfCallouts \in Nat,
         NEW c, NEW x, x.callout = c, NEW t, AddsTo(s, c, t)
  PROVE  Answers(t, R \cup {x})
<1>1. CASE \E k \in 1..Len(s) : Raises(s, c, t, k)
  BY <1>1, RaiseAnswers
<1>2. CASE \E k \in 1..Len(s) :
             Light!SameFRU(c, s[k]) /\ Light!Rank(c) <= Light!Rank(s[k]) /\ t = s
  BY <1>2, KeepAnswers
<1>3. CASE /\ \A i \in 1..Len(s) : ~Light!SameFRU(c, s[i])
           /\ Len(s) < maxNumberOfCallouts
           /\ Len(t) = Len(s) + 1 /\ (\A i \in 1..Len(s) : t[i] = s[i]) /\ t[Len(s) + 1] = c
  BY <1>3, AppendAnswers
<1>4. CASE /\ \A i \in 1..Len(s) : ~Light!SameFRU(c, s[i])
           /\ ~(Len(s) < maxNumberOfCallouts) /\ t = s
  <2>1. Len(s) = maxNumberOfCallouts
    BY <1>4 DEF Answers
  <2> QED  BY <1>4, <2>1, FullAnswers
<1> QED  BY <1>1, <1>2, <1>3, <1>4, Zenon DEF AddsTo

\* Only a callout more takes more room.
LEMMA AddsToSizes ==
  ASSUME NEW s, AllLocated(s), NEW c, NEW t, AddsTo(s, c, t)
  PROVE  \/ /\ Len(t) = Len(s)
            /\ \A n \in 1..Len(s) : Light!flattenedSize(t[n]) = Light!flattenedSize(s[n])
         \/ Len(t) = Len(s) + 1 /\ (\A i \in 1..Len(s) : t[i] = s[i]) /\ t[Len(s) + 1] = c
<1>1. CASE \E k \in 1..Len(s) : Raises(s, c, t, k)
  <2>1. PICK k \in 1..Len(s) : Raises(s, c, t, k)
    BY <1>1
  <2>2. Len(t) = Len(s)
    BY <2>1 DEF Raises
  <2>3. \A n \in 1..Len(s) : Light!flattenedSize(t[n]) = Light!flattenedSize(s[n])
    BY <2>1, RaiseSizes
  <2> QED  BY <2>2, <2>3
<1>2. CASE ~\E k \in 1..Len(s) : Raises(s, c, t, k)
  BY <1>2, Zenon DEF AddsTo
<1> QED  BY <1>1, <1>2

\* addCallout gives a list in the order of priority, and changes no location.
LEMMA AddKeepsLocated ==
  ASSUME NEW s, IsList(s), AllLocated(s), NEW c, Located(c)
  PROVE  LET q == Light!addCallout(s, c)
         IN  IsList(q) /\ ByPriority(q) /\ AllLocated(q)
<1> DEFINE q == Light!addCallout(s, c)
<1>1. PICK t : IsList(t) /\ AddsTo(s, c, t) /\ q = Light!SortByPriority(t)
  BY AddIs
<1> HIDE DEF q
<1>2. AllLocated(t)
  BY <1>1, AddsToLocated, ListFacts
<1>3. /\ IsList(q) /\ ByPriority(q) /\ Len(q) = Len(t)
      /\ \E p : Permutes(p, Len(t)) /\ \A n \in 1..Len(t) : q[n] = t[p[n]]
  BY <1>1, SortIs
<1>4. PICK p : Permutes(p, Len(t)) /\ \A n \in 1..Len(t) : q[n] = t[p[n]]
  BY <1>3
<1>5. p \in [1..Len(t) -> 1..Len(t)]
  BY <1>4 DEF Permutes
<1>6. AllLocated(q)
  BY <1>2, <1>3, <1>4, <1>5 DEF AllLocated
<1> QED  BY <1>3, <1>6 DEF q

\* The room the callouts take, in words with the header of the subsection.
Takes(s, w) == w \in Nat /\ 4 * w = 4 + SumTo(Sizes(s), Len(s))

\* The lengths of callouts are numbers that fit their fields.
LEMMA SizesAre ==
  ASSUME LengthData, NEW s, Len(s) \in Nat, AllLocated(s)
  PROVE  /\ NumbersTo(Sizes(s), Len(s))
         /\ \A n \in 1..Len(s) : /\ Sizes(s)[n] = Light!flattenedSize(s[n])
                                 /\ Light!flattenedSize(s[n]) \in 4..252
<1>1. ASSUME NEW n \in 1..Len(s)
      PROVE  /\ Sizes(s)[n] = Light!flattenedSize(s[n])
             /\ Light!flattenedSize(s[n]) \in 4..252
  <2>1. Sizes(s)[n] = Light!flattenedSize(s[n])
    BY DEF Sizes
  <2>2. PICK w \in 1..63 : Light!flattenedSize(s[n]) = 4 * w
    BY SizeIs DEF AllLocated
  <2>3. 4 * w \in 4..252
    OBVIOUS
  <2> QED  BY <2>1, <2>2, <2>3
<1>2. \A n \in 1..Len(s) : Sizes(s)[n] \in Nat
  <2> SUFFICES ASSUME NEW n \in 1..Len(s)  PROVE Sizes(s)[n] \in Nat
    OBVIOUS
  <2> DEFINE z == Sizes(s)[n]
  <2>1. z \in 4..252
    BY <1>1
  <2> HIDE DEF z
  <2>2. z \in Nat
    BY <2>1
  <2> QED  BY <2>2 DEF z
<1> QED  BY <1>1, <1>2, Zenon DEF NumbersTo

\* A callout is added with its length.
LEMMA AddKeepsSound ==
  ASSUME LengthData, maxNumberOfCallouts \in Nat,
         NEW s, IsList(s), AllLocated(s), NEW R, Answers(s, R), NEW w, Takes(s, w),
         NEW c, Located(c), NEW x, x.callout = c,
         NEW q, q = Light!addCallout(s, c),
         NEW v, v = w + IF Len(q) > Len(s) THEN Light!flattenedSize(c) \div 4 ELSE 0
  PROVE  /\ IsList(q) /\ ByPriority(q) /\ AllLocated(q)
         /\ Answers(q, R \cup {x}) /\ Takes(q, v)
<1>1. PICK t : IsList(t) /\ AddsTo(s, c, t) /\ q = Light!SortByPriority(t)
  BY AddIs
<1>2. Len(s) \in Nat /\ Len(t) \in Nat
  BY <1>1, ListFacts
<1>3. AllLocated(t)
  BY <1>1, <1>2, AddsToLocated
<1>4. /\ Answers(t, R \cup {x})
      /\ \/ /\ Len(t) = Len(s)
            /\ \A n \in 1..Len(s) : Light!flattenedSize(t[n]) = Light!flattenedSize(s[n])
         \/ Len(t) = Len(s) + 1 /\ (\A i \in 1..Len(s) : t[i] = s[i]) /\ t[Len(s) + 1] = c
  <2>1. Answers(t, R \cup {x})
    BY <1>1, <1>2, AddsToAnswers
  <2>2. \/ /\ Len(t) = Len(s)
           /\ \A n \in 1..Len(s) : Light!flattenedSize(t[n]) = Light!flattenedSize(s[n])
        \/ Len(t) = Len(s) + 1 /\ (\A i \in 1..Len(s) : t[i] = s[i]) /\ t[Len(s) + 1] = c
    BY <1>1, AddsToSizes
  <2> QED  BY <2>1, <2>2, Zenon
<1>5. /\ IsList(q) /\ ByPriority(q) /\ Len(q) = Len(t)
      /\ \E p : Permutes(p, Len(t)) /\ \A n \in 1..Len(t) : q[n] = t[p[n]]
  BY <1>1, SortIs
<1>6. PICK p : Permutes(p, Len(t)) /\ \A n \in 1..Len(t) : q[n] = t[p[n]]
  BY <1>5
<1>7. Answers(q, R \cup {x})
  BY <1>2, <1>4, <1>5, <1>6, OrderIsFree
<1>8. \A n \in 1..Len(t) : p[n] \in 1..Len(t)
  BY <1>6 DEF Permutes
<1>9. AllLocated(q)
  BY <1>3, <1>5, <1>6, <1>8 DEF AllLocated
<1>10. SumTo(Sizes(q), Len(q)) = SumTo(Sizes(t), Len(t))
  <2>1. NumbersTo(Sizes(t), Len(t))
    BY <1>2, <1>3, SizesAre
  <2>2. \A n \in 1..Len(t) : Sizes(q)[n] = Sizes(t)[p[n]]
    <3> SUFFICES ASSUME NEW n \in 1..Len(t)  PROVE Sizes(q)[n] = Sizes(t)[p[n]]
      OBVIOUS
    <3>1. Sizes(q)[n] = Light!flattenedSize(q[n])
      BY <1>5 DEF Sizes
    <3>2. Sizes(t)[p[n]] = Light!flattenedSize(t[p[n]])
      BY <1>8 DEF Sizes
    <3>3. q[n] = t[p[n]]
      BY <1>6
    <3> QED  BY <3>1, <3>2, <3>3
  <2> QED  BY <1>2, <1>5, <1>6, <2>1, <2>2, SumPermuted
<1>11. /\ NumbersTo(Sizes(s), Len(s)) /\ NumbersTo(Sizes(t), Len(t))
       /\ \A n \in 1..Len(s) : Sizes(s)[n] = Light!flattenedSize(s[n])
       /\ \A n \in 1..Len(t) : Sizes(t)[n] = Light!flattenedSize(t[n])
  BY <1>2, <1>3, SizesAre
<1>12. w \in Nat /\ 4 * w = 4 + SumTo(Sizes(s), Len(s))
  BY DEF Takes
<1>13. CASE /\ Len(t) = Len(s)
            /\ \A n \in 1..Len(s) : Light!flattenedSize(t[n]) = Light!flattenedSize(s[n])
  <2>1. \A n \in 1..Len(s) : Sizes(s)[n] = Sizes(t)[n]
    BY <1>11, <1>13
  <2>2. SumTo(Sizes(s), Len(s)) = SumTo(Sizes(t), Len(s))
    BY <1>2, <1>11, <2>1, SameSum
  <2>3. v = w
    BY <1>2, <1>5, <1>12, <1>13
  <2> QED  BY <1>5, <1>7, <1>9, <1>10, <1>12, <1>13, <2>2, <2>3 DEF Takes
<1>14. CASE Len(t) = Len(s) + 1 /\ (\A i \in 1..Len(s) : t[i] = s[i]) /\ t[Len(s) + 1] = c
  <2> DEFINE m == Len(s)
             f == Sizes(t)
             g == Sizes(s)
  <2>1. \A n \in 1..m : g[n] = f[n]
    <3>1. \A n \in 1..m : n \in 1..Len(t)
      BY <1>2, <1>14
    <3> QED  BY <1>11, <1>14, <3>1
  <2>2. SumTo(g, m) = SumTo(f, m) /\ SumTo(g, m) \in Nat
    BY <1>2, <1>11, <2>1, SameSum
  <2>3. f[m + 1] = Light!flattenedSize(c)
    <3>1. m + 1 \in 1..Len(t)
      BY <1>2, <1>14
    <3> QED  BY <1>11, <1>14, <3>1
  <2>4. NumbersTo(f, m + 1)
    BY <1>11, <1>14
  <2> HIDE DEF f, g
  <2>5. SumTo(f, m + 1) = SumTo(f, m) + f[m + 1]
    BY <1>2, <2>4, SumGrows
  <2>6. PICK u \in 1..63 : Light!flattenedSize(c) = 4 * u
    BY SizeIs
  <2>7. v = w + u
    <3>1. Len(q) > Len(s)
      BY <1>2, <1>5, <1>14
    <3>2. (4 * u) \div 4 = u
      OBVIOUS
    <3> QED  BY <2>6, <3>1, <3>2
  <2>8. 4 * w = 4 + SumTo(g, m) /\ SumTo(Sizes(q), Len(q)) = SumTo(f, m + 1)
    BY <1>10, <1>12, <1>14 DEF f, g
  <2>9. v \in Nat /\ 4 * v = 4 + SumTo(Sizes(q), Len(q))
    <3> DEFINE a == SumTo(g, m)
               b == SumTo(Sizes(q), Len(q))
    <3>1. a \in Nat /\ b = a + 4 * u /\ 4 * w = 4 + a
      BY <2>2, <2>3, <2>5, <2>6, <2>8
    <3> HIDE DEF a, b
    <3>2. v \in Nat /\ 4 * v = 4 + b
      BY <1>12, <2>7, <3>1
    <3> QED  BY <3>2 DEF b
  <2> QED  BY <1>5, <1>7, <1>9, <2>9 DEF Takes
<1> QED  BY <1>4, <1>13, <1>14

\* Sums of positive numbers grow.
LEMMA SumsGrow ==
  ASSUME NEW m \in Nat, NEW x, \A n \in 1..m : x[n] \in Nat \ {0}, NEW k \in 1..m
  PROVE  SumTo(x, k - 1) < SumTo(x, m)
<1>1. ASSUME NEW n \in 1..m
      PROVE  SumTo(x, n) = SumTo(x, n - 1) + x[n] /\ SumTo(x, n - 1) \in Nat /\ x[n] \in Nat \ {0}
  <2> DEFINE i == n - 1
  <2>1. i \in Nat /\ n = i + 1
    OBVIOUS
  <2> HIDE DEF i
  <2>2. NumbersTo(x, i + 1)
    BY <2>1 DEF NumbersTo
  <2>3. SumTo(x, i + 1) = SumTo(x, i) + x[i + 1] /\ SumTo(x, i) \in Nat
    BY <2>1, <2>2, SumGrows
  <2>4. n - 1 = i
    BY <2>1
  <2> QED  BY <2>1, <2>3, <2>4
<1> DEFINE T == {n \in Nat : n \in k..m /\ ~(SumTo(x, k - 1) < SumTo(x, n))}
<1>2. T = {}
  <2> SUFFICES ASSUME T # {}  PROVE FALSE
    OBVIOUS
  <2>1. PICK n \in T : \A i \in T : n <= i
    <3>1. T \subseteq Nat
      OBVIOUS
    <3> HIDE DEF T
    <3> QED  BY <3>1, LeastOfNats
  <2>2. n \in k..m /\ n \in 1..m /\ ~(SumTo(x, k - 1) < SumTo(x, n))
    BY <2>1
  <2>3. SumTo(x, n) = SumTo(x, n - 1) + x[n] /\ SumTo(x, n - 1) \in Nat /\ x[n] \in Nat \ {0}
    BY <1>1, <2>2
  <2>4. SumTo(x, k - 1) \in Nat
    BY <1>1
  <2>5. CASE n = k
    BY <2>2, <2>3, <2>5
  <2>6. CASE n # k
    <3>1. n - 1 \in k..m /\ n - 1 \in Nat /\ ~(n <= n - 1)
      BY <2>2, <2>6
    <3>2. n - 1 \notin T
      BY <2>1, <3>1
    <3>3. SumTo(x, k - 1) < SumTo(x, n - 1)
      BY <3>1, <3>2
    <3> QED  BY <2>2, <2>3, <2>4, <3>3
  <2> QED  BY <2>5, <2>6
<1>3. m \in k..m
  OBVIOUS
<1> QED  BY <1>2, <1>3

\* All of the callouts are found again, and no more.
LEMMA AllAreRead ==
  ASSUME LengthData, IsList(callouts), AllLocated(callouts), Takes(callouts, wordLength)
  PROVE  Light!calloutsRead = [n |-> Len(callouts), length |-> 4 * wordLength]
<1> DEFINE m == Len(callouts)
           x == Sizes(callouts)
           W == 4 * wordLength
           Rec(s) == [k \in 0..m |->
                        IF k = 0 THEN [n |-> 0, length |-> 4]
                        ELSE IF W > s[k - 1].length
                        THEN [n |-> s[k - 1].n + 1,
                              length |-> s[k - 1].length + Light!flattenedSize(callouts[k])]
                        ELSE s[k - 1]]
           read == CHOOSE s : s = Rec(s)
           f == [k \in 0..m |-> [n |-> k, length |-> 4 + SumTo(x, k)]]
<1>1. Light!calloutsRead = read[m]
  BY DEF Light!calloutsRead
<1>2. m \in Nat
  BY ListFacts
<1>3. /\ NumbersTo(x, m)
      /\ \A n \in 1..m : x[n] = Light!flattenedSize(callouts[n]) /\ x[n] \in 4..252
  BY <1>2, SizesAre
<1>4. wordLength \in Nat /\ W = 4 + SumTo(x, m)
  BY DEF Takes
<1> HIDE DEF x, W
<1>5. ASSUME NEW k \in 1..m
      PROVE  /\ k - 1 \in 0..m /\ k # 0
             /\ SumTo(x, k - 1) \in Nat /\ SumTo(x, m) \in Nat
             /\ SumTo(x, k) = SumTo(x, k - 1) + x[k] /\ x[k] \in Nat
             /\ W > 4 + SumTo(x, k - 1)
  <2>1. k - 1 \in Nat /\ (k - 1) + 1 = k /\ k - 1 \in 0..m /\ k # 0
    BY <1>2
  <2> DEFINE i == k - 1
  <2> HIDE DEF i
  <2>2. i \in Nat /\ i + 1 = k
    BY <2>1 DEF i
  <2>3. NumbersTo(x, i + 1)
    BY <1>2, <1>3, <2>2 DEF NumbersTo
  <2>4. SumTo(x, i + 1) = SumTo(x, i) + x[i + 1] /\ SumTo(x, i) \in Nat
    BY <2>2, <2>3, SumGrows
  <2>5. \A n \in 1..m : x[n] \in Nat \ {0}
    <3> SUFFICES ASSUME NEW n \in 1..m  PROVE x[n] \in Nat \ {0}
      OBVIOUS
    <3> DEFINE z == x[n]
    <3>1. z \in 4..252
      BY <1>3
    <3> HIDE DEF z
    <3>2. z \in Nat \ {0}
      BY <3>1
    <3> QED  BY <3>2 DEF z
  <2>6. SumTo(x, k - 1) < SumTo(x, m)
    BY <1>2, <2>5, SumsGrow
  <2>7. SumTo(x, m) \in Nat
    BY <1>2, <1>3, SameSum
  <2> QED  BY <1>4, <2>1, <2>2, <2>4, <2>5, <2>6, <2>7 DEF i
<1>6. ASSUME NEW k \in 0..m
      PROVE  f[k] = Rec(f)[k]
  <2>1. CASE k = 0
    <3>1. SumTo(x, 0) = 0
      BY SumOfNone
    <3> QED  BY <2>1, <3>1
  <2>2. CASE k # 0
    <3>1. k \in 1..m
      BY <1>2, <2>2
    <3> DEFINE i == k - 1
               a == SumTo(x, i)
               z == Light!flattenedSize(callouts[k])
    <3>2. /\ i \in 0..m /\ a \in Nat /\ W > 4 + a /\ SumTo(x, k) = a + x[k] /\ x[k] \in Nat
          /\ x[k] = z /\ i + 1 = k
      BY <1>2, <1>3, <1>5, <3>1
    <3>3. f[i] = [n |-> i, length |-> 4 + a] /\ f[k] = [n |-> k, length |-> 4 + SumTo(x, k)]
      BY <3>2
    <3> HIDE DEF a, z, f
    <3>4. Rec(f)[k] = IF W > f[i].length
                      THEN [n |-> f[i].n + 1, length |-> f[i].length + z] ELSE f[i]
      BY <2>2 DEF z
    <3> HIDE DEF i, Rec
    <3>5. f[i].length = 4 + a /\ f[i].n = i
      BY <3>3
    <3>6. Rec(f)[k] = [n |-> i + 1, length |-> (4 + a) + z]
      BY <3>2, <3>4, <3>5
    <3>7. (4 + a) + z = 4 + SumTo(x, k)
      BY <3>2
    <3> QED  BY <3>2, <3>3, <3>6, <3>7
  <2> QED  BY <2>1, <2>2
<1>7. f = Rec(f)
  <2>1. f = [k \in 0..m |-> f[k]] /\ Rec(f) = [k \in 0..m |-> Rec(f)[k]]
    OBVIOUS
  <2> HIDE DEF f, Rec
  <2> QED  BY <1>6, <2>1
<1>8. read = Rec(read)
  <2> HIDE DEF f, Rec
  <2> QED  BY <1>7
<1> HIDE DEF read
<1> DEFINE T == {k \in Nat : k \in 0..m /\ read[k] # f[k]}
<1>9. T = {}
  <2> SUFFICES ASSUME T # {}  PROVE FALSE
    OBVIOUS
  <2>1. PICK k \in T : \A i \in T : k <= i
    <3>1. T \subseteq Nat
      OBVIOUS
    <3> HIDE DEF T
    <3> QED  BY <3>1, LeastOfNats
  <2>2. k \in 0..m /\ read[k] # f[k]
    BY <2>1
  <2>3. read[k] = Rec(read)[k]
    <3> HIDE DEF Rec
    <3> QED  BY <1>8
  <2>4. f[k] = Rec(f)[k]
    BY <1>6, <2>2
  <2>5. CASE k = 0
    <3>1. Rec(read)[k] = [n |-> 0, length |-> 4] /\ Rec(f)[k] = [n |-> 0, length |-> 4]
      BY <2>2, <2>5
    <3> QED  BY <2>2, <2>3, <2>4, <3>1
  <2>6. CASE k # 0
    <3>1. k - 1 \in Nat /\ k - 1 \in 0..m /\ ~(k <= k - 1)
      BY <1>2, <2>2, <2>6
    <3>2. k - 1 \notin T
      BY <2>1, <3>1
    <3>3. read[k - 1] = f[k - 1]
      BY <3>1, <3>2
    <3> HIDE DEF f
    <3>4. Rec(read)[k] = Rec(f)[k]
      BY <2>2, <3>3
    <3> QED  BY <2>2, <2>3, <2>4, <3>4
  <2> QED  BY <2>5, <2>6
<1>10. read[m] = f[m]
  <2> HIDE DEF f
  <2> QED  BY <1>2, <1>9
<1>11. f[m] = [n |-> m, length |-> 4 + SumTo(x, m)]
  BY <1>2
<1> QED  BY <1>1, <1>4, <1>10, <1>11 DEF W

\* What the proof takes from the data: a location code is not empty, before it
\* is expanded and after, and the lookups give lists of callouts whose codes and
\* inventory paths are of this system.
LocationData ==
    /\ "" \notin DOMAIN Expand
    /\ \A l \in DOMAIN Expand : Expand[l] # ""
    /\ \A ad \in ADs : Light!Get(ad, "CALLOUT_INVENTORY_PATH", "") \in DOMAIN Expand \cup {""}
    /\ \A ad \in ADs, names \in SystemNames, known \in BOOLEAN :
          LET list == Light!DevicePathCallouts(ad, names, known).list
          IN  IsList(list) /\ \A n \in 1..Len(list) : list[n].LocationCode \in DOMAIN Expand
    /\ \A files \in RegistryFiles, message \in Messages, ad \in ADs, names \in SystemNames,
          known \in BOOLEAN :
          LET entry == Light!entryFor(files, message)
              list == Light!getRegistryCallouts(entry.list[1],
                          Light!getSystemNames(names, known), ad).list
          IN  entry.ok /\ entry.list # << >> =>
                 /\ IsList(list)
                 /\ \A n \in 1..Len(list) : list[n].locCode \in DOMAIN Expand \cup {""}
    /\ \A json \in JSONCallouts :
          /\ IsList(json)
          /\ \A n \in 1..Len(json) :
                /\ Light!Get(json[n], "LocationCode", "") \in DOMAIN Expand \cup {""}
                /\ "InventoryPath" \in DOMAIN json[n] => json[n].InventoryPath \in DOMAIN Expand
                /\ Light!getMRUsFromJSON(Light!Get(json[n], "MRUs", << >>)) \in Nat

\* What a callout has: those made by Callout, and by addInventoryCallout when
\* the FRU's location code is known.
LEMMA CalloutLocated ==
  ASSUME NEW kind, NEW priority, NEW loc \in Codes \cup {""}, NEW id, kind = "hardware" => loc # ""
  PROVE  Located(Light!Callout(kind, priority, loc, id))
<1>1. Light!Callout(kind, priority, loc, id)
        = [kind |-> kind, priority |-> priority, loc |-> loc, id |-> id, mrus |-> 0]
  BY DEF Light!Callout
<1>2. 0 \in Nat
  OBVIOUS
<1> QED  BY <1>1, <1>2, Zenon DEF Located

\* A callout made by addInventoryCallout has a location.
LEMMA InventoryLocated ==
  ASSUME LocationData,
         NEW path, NEW priority, NEW loc \in Codes \cup {""}, NEW mrus \in Nat,
         NEW codeFound \in BOOLEAN, NEW vpdFound,
         loc = "" /\ codeFound => path \in DOMAIN Expand,
         Light!InventoryCallout(path, priority, loc, mrus, codeFound, vpdFound) # << >>
  PROVE  Located(Light!InventoryCallout(path, priority, loc, mrus, codeFound, vpdFound)[1])
<1> DEFINE p == IF vpdFound THEN priority ELSE "H"
           l == IF loc = "" THEN Light!getLocationCode(path, codeFound) ELSE loc
           d == Light!getHWCalloutFields(path, vpdFound)
           c == Light!Callout("hardware", p, l, d)
<1>1. ~(loc = "" /\ ~codeFound)
  BY DEF Light!InventoryCallout
<1>2. l # "" /\ l \in Codes
  BY <1>1 DEF Light!getLocationCode, LocationData, Codes
<1>3. Light!InventoryCallout(path, priority, loc, mrus, codeFound, vpdFound)
        = <<[c EXCEPT !.mrus = mrus]>>
  BY <1>1 DEF Light!InventoryCallout
<1> HIDE DEF p, l, d
<1>4. Located(c)
  BY <1>2, CalloutLocated
<1> HIDE DEF c
<1> DEFINE e == [c EXCEPT !.mrus = mrus]
<1>5. Located(e) /\ Light!InventoryCallout(path, priority, loc, mrus, codeFound, vpdFound) = <<e>>
  BY <1>3, <1>4, RaisedLocated
<1> HIDE DEF e
<1>6. <<e>>[1] = e
  OBVIOUS
<1> QED  BY <1>5, <1>6, Zenon

\* What is still to be added has its location, or the way to it.
Placed(x) ==
    /\ x.from = "inventory" => x.c.path \in DOMAIN Expand
    /\ x.from = "device" => x.c.LocationCode \in DOMAIN Expand
    /\ x.from = "registry" => /\ x.c.locCode \in DOMAIN Expand \cup {""}
                              /\ x.path \in DOMAIN Expand \cup {""}
    /\ x.from = "json" => /\ Light!Get(x.c, "LocationCode", "") \in DOMAIN Expand \cup {""}
                          /\ "InventoryPath" \in DOMAIN x.c => x.c.InventoryPath \in DOMAIN Expand
                          /\ Light!getMRUsFromJSON(Light!Get(x.c, "MRUs", << >>)) \in Nat

AllPlaced(s) == \A n \in 1..Len(s) : Placed(s[n])

CalloutsOrdered == IsList(callouts) /\ ByPriority(callouts) /\ AllLocated(callouts)

\* None or one callout is added.
LEMMA AddKeepsOrder ==
  ASSUME CalloutsOrdered, NEW from, NEW cs, NEW problem,
         cs # << >> => Located(cs[1]), Light!Add(from, cs, problem)
  PROVE  CalloutsOrdered'
<1>1. CASE cs = << >>
  <2>1. callouts' = callouts
    BY <1>1 DEF Light!Add
  <2> QED  BY <2>1 DEF CalloutsOrdered
<1>2. CASE cs # << >>
  <2>1. callouts' = Light!addCallout(callouts, cs[1])
    BY <1>2 DEF Light!Add
  <2> DEFINE q == Light!addCallout(callouts, cs[1])
  <2>2. IsList(q) /\ ByPriority(q) /\ AllLocated(q)
    BY <1>2, AddKeepsLocated DEF CalloutsOrdered
  <2> HIDE DEF q
  <2>3. callouts' = q
    BY <2>1 DEF q
  <2> QED  BY <2>2, <2>3 DEF CalloutsOrdered
<1> QED  BY <1>1, <1>2

\* One callout after the other is taken from what is to be added.
LEMMA TailPlaced ==
  ASSUME NEW s, IsList(s), AllPlaced(s), s # << >>
  PROVE  Placed(s[1]) /\ IsList(Tail(s)) /\ AllPlaced(Tail(s))
<1>1. /\ Len(s) \in Nat /\ Len(s) > 0 /\ IsList(Tail(s)) /\ Len(Tail(s)) = Len(s) - 1
      /\ \A n \in 1..Len(Tail(s)) : Tail(s)[n] = s[n + 1]
  BY ListFacts
<1>2. Placed(s[1])
  BY <1>1 DEF AllPlaced
<1>3. ASSUME NEW n \in 1..Len(Tail(s))
      PROVE  Placed(Tail(s)[n])
  <2>1. n + 1 \in 1..Len(s)
    BY <1>1
  <2> QED  BY <1>1, <2>1 DEF AllPlaced
<1> QED  BY <1>1, <1>2, <1>3 DEF AllPlaced

\* A list of callouts with their source.
LEMMA FromIs ==
  ASSUME NEW source0, NEW list, IsList(list)
  PROVE  /\ IsList(Light!From(source0, list)) /\ Len(Light!From(source0, list)) = Len(list)
         /\ \A n \in 1..Len(list) : Light!From(source0, list)[n] = [from |-> source0, c |-> list[n]]
<1>1. Len(list) \in Nat /\ DOMAIN list = 1..Len(list)
  BY ListFacts
<1>2. Light!From(source0, list) = [n \in 1..Len(list) |-> [from |-> source0, c |-> list[n]]]
  BY <1>1 DEF Light!From
<1> DEFINE q == Light!From(source0, list)
<1>3. q = [n \in 1..Len(list) |-> q[n]]
  BY <1>2
<1>4. \A n \in 1..Len(list) : q[n] = [from |-> source0, c |-> list[n]]
  BY <1>2
<1> HIDE DEF q
<1>5. IsList(q) /\ Len(q) = Len(list)
  BY <1>1, <1>3, ListMade
<1> QED  BY <1>4, <1>5 DEF q

\* Lists of what is placed, one after the other.
LEMMA PlacedJoin ==
  ASSUME NEW s, IsList(s), AllPlaced(s), NEW t, IsList(t), AllPlaced(t)
  PROVE  IsList(s \o t) /\ AllPlaced(s \o t)
<1>1. /\ IsList(s \o t)
      /\ \A n \in 1..Len(s \o t) : \/ n \in 1..Len(s) /\ (s \o t)[n] = s[n]
                                   \/ n - Len(s) \in 1..Len(t) /\ (s \o t)[n] = t[n - Len(s)]
  BY ListsJoin
<1>2. ASSUME NEW n \in 1..Len(s \o t)
      PROVE  Placed((s \o t)[n])
  <2>1. CASE n \in 1..Len(s) /\ (s \o t)[n] = s[n]
    BY <2>1 DEF AllPlaced
  <2>2. CASE n - Len(s) \in 1..Len(t) /\ (s \o t)[n] = t[n - Len(s)]
    BY <2>2 DEF AllPlaced
  <2> QED  BY <1>1, <2>1, <2>2
<1> QED  BY <1>1, <1>2 DEF AllPlaced

\* One item.
LEMMA OnePlaced ==
  ASSUME NEW x, Placed(x)
  PROVE  IsList(<<x>>) /\ AllPlaced(<<x>>)
<1>1. <<x>> \in Seq({x}) /\ Len(<<x>>) = 1 /\ <<x>>[1] = x
  OBVIOUS
<1>2. IsList(<<x>>)
  BY <1>1, ListFrom
<1>3. \A n \in 1..1 : n = 1
  OBVIOUS
<1> QED  BY <1>1, <1>2, <1>3 DEF AllPlaced

\* Callouts, before the service actions.
Early(s) == \A n \in 1..Len(s) : s[n].from # "service"

\* No service action in two lists, nor in their join.
LEMMA EarlyJoin ==
  ASSUME NEW s, IsList(s), Early(s), NEW t, IsList(t), Early(t)
  PROVE  Early(s \o t)
<1>1. /\ IsList(s \o t)
      /\ \A n \in 1..Len(s \o t) : \/ n \in 1..Len(s) /\ (s \o t)[n] = s[n]
                                   \/ n - Len(s) \in 1..Len(t) /\ (s \o t)[n] = t[n - Len(s)]
  BY ListsJoin
<1> QED  BY <1>1 DEF Early

\* The service actions of JSON callouts come last, after those callouts.
ServiceLast(s, json) ==
    /\ \A n \in 1..Len(s) : s[n].from = "service" => n = Len(s) /\ s[n].c = json
    /\ \A i \in 1..Len(json) :
          \E n \in 1..Len(s) : n < Len(s) /\ s[n].from = "json" /\ s[n].c = json[i]

\* Service actions put after the callouts of their JSON.
LEMMA ServiceJoin ==
  ASSUME NEW s, IsList(s), Early(s), NEW d, IsList(d), Early(d),
         NEW json, Len(d) = Len(json),
         \A n \in 1..Len(json) : d[n].from = "json" /\ d[n].c = json[n],
         NEW e, IsList(e), Len(e) = 1, e[1].c = json
  PROVE  ServiceLast((s \o d) \o e, json)
<1> DEFINE u == s \o d
           t == u \o e
<1>1. IsList(u)
  BY ListsJoin
<1>2. Early(u)
  BY EarlyJoin
<1>3. Len(u) = Len(s) + Len(d)
  BY ListsJoin
<1>8. \A n \in 1..Len(d) : u[n + Len(s)] = d[n]
  BY ListsJoin
<1> HIDE DEF u
<1>9. IsList(t)
  BY <1>1, ListsJoin
<1>10. Len(t) = Len(u) + Len(e)
  BY <1>1, ListsJoin
<1>11. \A n \in 1..Len(u) : t[n] = u[n]
  BY <1>1, ListsJoin
<1>12. \A n \in 1..Len(e) : t[n + Len(u)] = e[n]
  BY <1>1, ListsJoin
<1> HIDE DEF t
<1>4. Len(s) \in Nat /\ Len(d) \in Nat /\ Len(u) \in Nat /\ Len(t) = Len(u) + 1
  BY <1>1, <1>10, ListFacts
<1>5. ASSUME NEW n \in 1..Len(t), t[n].from = "service"
      PROVE  n = Len(t) /\ t[n].c = json
  <2>1. n \notin 1..Len(u)
    BY <1>2, <1>5, <1>11 DEF Early
  <2>2. n = 1 + Len(u) /\ n = Len(t)
    BY <1>4, <2>1
  <2>3. t[n] = e[1]
    BY <1>12, <2>2
  <2> QED  BY <2>2, <2>3
<1>6. ASSUME NEW i \in 1..Len(json)
      PROVE  \E n \in 1..Len(t) : n < Len(t) /\ t[n].from = "json" /\ t[n].c = json[i]
  <2> DEFINE n == i + Len(s)
  <2>1. n \in 1..Len(u) /\ n \in 1..Len(t) /\ n < Len(t)
    BY <1>3, <1>4
  <2>2. u[n] = d[i]
    BY <1>8
  <2> HIDE DEF n
  <2>3. t[n] = d[i]
    BY <1>11, <2>1, <2>2
  <2> QED  BY <2>1, <2>3
<1>7. ServiceLast(t, json)
  BY <1>5, <1>6, Zenon DEF ServiceLast
<1> QED  BY <1>7 DEF t, u

\* The constructor runs.
Constructs == \E ad \in ADs : Light!construct(ad)

\* The constructor finds callouts of this system, and leaves the service actions
\* for the end.
LEMMA ConstructPlaces ==
  ASSUME LocationData, Constructs
  PROVE  /\ IsList(todo') /\ AllPlaced(todo') /\ callouts' = callouts
         /\ \E json \in JSONCallouts : ServiceLast(todo', json)
<1>1. PICK files \in RegistryFiles, message \in Messages, ad \in ADs,
           names \in SystemNames, json \in JSONCallouts, forRegistry \in BOOLEAN,
           forDevice \in BOOLEAN :
         LET entry == Light!entryFor(files, message)
             registry == Light!getRegistryCallouts(entry.list[1],
                             Light!getSystemNames(names, forRegistry), ad)
             device == Light!DevicePathCallouts(ad, names, forDevice)
         IN  /\ entry.ok /\ entry.list # << >>
             /\ todo' = Light!addCallouts(ad, device.list, registry.list, json)
  BY DEF Constructs, Light!construct
<1> DEFINE entry == Light!entryFor(files, message)
           registry == Light!getRegistryCallouts(entry.list[1],
                           Light!getSystemNames(names, forRegistry), ad)
           device == Light!DevicePathCallouts(ad, names, forDevice)
           item == Light!Get(ad, "CALLOUT_INVENTORY_PATH", "")
           use == Light!useInvForSymbolicFRULocCode(registry.list)
           inv == <<[path |-> item, priority |-> Light!calloutPriority(ad)]>>
           a == IF item # "" /\ ~use THEN Light!From("inventory", inv) ELSE << >>
           b == Light!From("device", device.list)
           c == [i \in DOMAIN registry.list |->
                    [from |-> "registry", c |-> registry.list[i],
                     path |-> IF i = 1 /\ use THEN item ELSE ""]]
           d == Light!From("json", json)
           e == <<[from |-> "service", c |-> json]>>
<1>2. entry.ok /\ entry.list # << >> /\ todo' = a \o b \o c \o d \o e
  BY <1>1, Zenon DEF Light!addCallouts, Light!addJSONCallouts
<1>3. IsList(a) /\ AllPlaced(a) /\ Early(a)
  <2>1. CASE item # "" /\ ~use
    <3>1. item \in DOMAIN Expand
      BY <2>1 DEF LocationData
    <3> HIDE DEF item
    <3>2. IsList(inv) /\ Len(inv) = 1 /\ inv[1].path = item
      <4> DEFINE r == [path |-> item, priority |-> Light!calloutPriority(ad)]
      <4>1. r.path = item
        OBVIOUS
      <4> HIDE DEF r
      <4>2. <<r>> \in Seq({r}) /\ Len(<<r>>) = 1 /\ <<r>>[1] = r
        OBVIOUS
      <4>3. IsList(<<r>>)
        BY <4>2, ListFrom
      <4> QED  BY <4>1, <4>2, <4>3 DEF r
    <3> HIDE DEF inv
    <3> DEFINE q == Light!From("inventory", inv)
    <3>3. IsList(q) /\ Len(q) = 1 /\ q[1] = [from |-> "inventory", c |-> inv[1]]
      BY <3>2, FromIs
    <3> HIDE DEF q
    <3>4. Placed(q[1]) /\ q[1].from # "service"
      BY <3>1, <3>2, <3>3 DEF Placed
    <3>5. \A n \in 1..1 : n = 1
      OBVIOUS
    <3>6. a = q
      BY <2>1, Zenon DEF q
    <3> HIDE DEF a
    <3> QED  BY <3>3, <3>4, <3>5, <3>6 DEF AllPlaced, Early
  <2>2. CASE ~(item # "" /\ ~use)
    <3>1. a = << >>
      BY <2>2, Zenon
    <3> HIDE DEF a
    <3>2. << >> \in Seq({}) /\ Len(<< >>) = 0
      OBVIOUS
    <3>3. IsList(<< >>)
      BY <3>2, ListFrom
    <3> QED  BY <3>1, <3>2, <3>3 DEF AllPlaced, Early
  <2> QED  BY <2>1, <2>2
<1>4. IsList(b) /\ AllPlaced(b) /\ Early(b)
  <2> DEFINE list == device.list
  <2>1. IsList(list) /\ \A n \in 1..Len(list) : list[n].LocationCode \in DOMAIN Expand
    BY DEF LocationData
  <2> HIDE DEF list
  <2>2. /\ IsList(Light!From("device", list)) /\ Len(Light!From("device", list)) = Len(list)
        /\ \A n \in 1..Len(list) : Light!From("device", list)[n] = [from |-> "device", c |-> list[n]]
    BY <2>1, FromIs
  <2>3. AllPlaced(Light!From("device", list))
    <3> SUFFICES ASSUME NEW n \in 1..Len(list)
                 PROVE  Placed(Light!From("device", list)[n])
      BY <2>2 DEF AllPlaced
    <3>1. Light!From("device", list)[n] = [from |-> "device", c |-> list[n]]
      BY <2>2
    <3>2. list[n].LocationCode \in DOMAIN Expand
      BY <2>1
    <3> DEFINE x == Light!From("device", list)[n]
    <3>3. x.from = "device" /\ x.c = list[n]
      BY <3>1
    <3> HIDE DEF x
    <3>4. Placed(x)
      BY <3>2, <3>3 DEF Placed
    <3> QED  BY <3>4 DEF x
  <2>4. Early(Light!From("device", list))
    <3> SUFFICES ASSUME NEW n \in 1..Len(list)
                 PROVE  Light!From("device", list)[n].from # "service"
      BY <2>2 DEF Early
    <3> DEFINE x == Light!From("device", list)[n]
    <3>1. x = [from |-> "device", c |-> list[n]]
      BY <2>2
    <3> HIDE DEF x
    <3>2. x.from = "device"
      BY <3>1
    <3>3. x.from # "service"
      BY <3>2
    <3> QED  BY <3>3 DEF x
  <2> QED  BY <2>2, <2>3, <2>4 DEF list
<1>5. IsList(c) /\ AllPlaced(c) /\ Early(c)
  <2> DEFINE list == registry.list
  <2>1. IsList(list) /\ \A n \in 1..Len(list) : list[n].locCode \in DOMAIN Expand \cup {""}
    BY <1>2 DEF LocationData
  <2> HIDE DEF list
  <2>2. Len(list) \in Nat /\ DOMAIN list = 1..Len(list)
    BY <2>1, ListFacts
  <2> DEFINE trusted(i) == IF i = 1 /\ use THEN item ELSE ""
             q == [i \in 1..Len(list) |-> [from |-> "registry", c |-> list[i], path |-> trusted(i)]]
  <2>3. c = q
    BY <2>2, Zenon DEF list
  <2> HIDE DEF c, trusted
  <2>4. /\ q = [i \in 1..Len(list) |-> q[i]]
        /\ \A i \in 1..Len(list) :
              q[i].from = "registry" /\ q[i].c = list[i] /\ q[i].path = trusted(i)
    OBVIOUS
  <2>7. \A i : trusted(i) \in DOMAIN Expand \cup {""}
    BY DEF LocationData, trusted
  <2> HIDE DEF q
  <2>5. IsList(q) /\ Len(q) = Len(list)
    BY <2>2, <2>4, ListMade
  <2>6. ASSUME NEW n \in 1..Len(list)
        PROVE  Placed(q[n])
    <3>1. q[n].from = "registry" /\ q[n].c = list[n] /\ q[n].path = trusted(n)
      BY <2>4
    <3> QED  BY <2>1, <2>7, <3>1 DEF Placed
  <2>8. Early(q)
    BY <2>4, <2>5 DEF Early
  <2> QED  BY <2>3, <2>5, <2>6, <2>8 DEF AllPlaced
<1>6. /\ IsList(d) /\ AllPlaced(d) /\ Early(d) /\ Len(d) = Len(json)
      /\ \A n \in 1..Len(json) : d[n].from = "json" /\ d[n].c = json[n]
  <2>1. /\ IsList(json)
        /\ \A n \in 1..Len(json) :
                /\ Light!Get(json[n], "LocationCode", "") \in DOMAIN Expand \cup {""}
                /\ "InventoryPath" \in DOMAIN json[n] => json[n].InventoryPath \in DOMAIN Expand
                /\ Light!getMRUsFromJSON(Light!Get(json[n], "MRUs", << >>)) \in Nat
    BY DEF LocationData
  <2>2. /\ IsList(d) /\ Len(d) = Len(json)
        /\ \A n \in 1..Len(json) : d[n] = [from |-> "json", c |-> json[n]]
    BY <2>1, FromIs
  <2> HIDE DEF d
  <2>3. ASSUME NEW n \in 1..Len(json)
        PROVE  Placed(d[n]) /\ d[n].from = "json" /\ d[n].c = json[n]
    <3>1. d[n] = [from |-> "json", c |-> json[n]]
      BY <2>2
    <3>2. d[n].from = "json" /\ d[n].c = json[n]
      BY <3>1
    <3> QED  BY <2>1, <3>2 DEF Placed
  <2>4. Early(d)
    BY <2>2, <2>3 DEF Early
  <2> QED  BY <2>2, <2>3, <2>4 DEF AllPlaced
<1>7. IsList(e) /\ AllPlaced(e) /\ Len(e) = 1 /\ e[1].c = json
  <2> DEFINE x == [from |-> "service", c |-> json]
  <2>1. Placed(x) /\ x.c = json
    BY DEF Placed
  <2> HIDE DEF x
  <2>2. IsList(<<x>>) /\ AllPlaced(<<x>>)
    BY <2>1, OnePlaced
  <2>3. Len(<<x>>) = 1 /\ <<x>>[1] = x
    OBVIOUS
  <2>4. e = <<x>>
    BY DEF x
  <2> HIDE DEF e
  <2> QED  BY <2>1, <2>2, <2>3, <2>4, Zenon
<1> HIDE DEF a, b, c, d, e
<1>8. IsList(a \o b) /\ AllPlaced(a \o b) /\ Early(a \o b)
  BY <1>3, <1>4, PlacedJoin, EarlyJoin
<1>9. IsList(a \o b \o c) /\ AllPlaced(a \o b \o c) /\ Early(a \o b \o c)
  BY <1>5, <1>8, PlacedJoin, EarlyJoin
<1>10. IsList(a \o b \o c \o d) /\ AllPlaced(a \o b \o c \o d)
  BY <1>6, <1>9, PlacedJoin
<1>11. IsList(a \o b \o c \o d \o e) /\ AllPlaced(a \o b \o c \o d \o e)
  BY <1>7, <1>10, PlacedJoin
<1>12. callouts' = callouts
  BY DEF Constructs, Light!construct
<1> DEFINE s == a \o b \o c
<1>14. IsList(s) /\ Early(s)
  BY <1>9
<1> HIDE DEF s
<1>15. ServiceLast((s \o d) \o e, json)
  BY <1>6, <1>7, <1>14, ServiceJoin
<1>16. todo' = (s \o d) \o e
  BY <1>2 DEF s
<1>17. ServiceLast(todo', json)
  BY <1>15, <1>16
<1> QED  BY <1>2, <1>11, <1>12, <1>17

\* The fields of a callout, and of the kinds made for hardware.
LEMMA CalloutIs ==
  ASSUME NEW kind, NEW priority, NEW loc, NEW id
  PROVE  /\ Light!Callout(kind, priority, loc, id).kind = kind
         /\ Light!Callout(kind, priority, loc, id).loc = loc
  BY DEF Light!Callout

\* The callout of addInventoryCallout is one for hardware.
LEMMA InventoryIs ==
  ASSUME NEW path, NEW priority, NEW loc, NEW mrus, NEW codeFound \in BOOLEAN, NEW vpdFound,
         Light!InventoryCallout(path, priority, loc, mrus, codeFound, vpdFound) # << >>
  PROVE  Light!InventoryCallout(path, priority, loc, mrus, codeFound, vpdFound)[1].kind = "hardware"
<1> DEFINE p == IF vpdFound THEN priority ELSE "H"
           l == IF loc = "" THEN Light!getLocationCode(path, codeFound) ELSE loc
           d == Light!getHWCalloutFields(path, vpdFound)
           c == Light!Callout("hardware", p, l, d)
<1>1. ~(loc = "" /\ ~codeFound)
  BY DEF Light!InventoryCallout
<1>2. Light!InventoryCallout(path, priority, loc, mrus, codeFound, vpdFound)
        = <<[c EXCEPT !.mrus = mrus]>>
  BY <1>1 DEF Light!InventoryCallout
<1> HIDE DEF p, l, d
<1> DEFINE e == [c EXCEPT !.mrus = mrus]
<1>3. e.kind = "hardware"
  BY DEF Light!Callout
<1> HIDE DEF c
<1>4. Light!InventoryCallout(path, priority, loc, mrus, codeFound, vpdFound) = <<e>>
  BY <1>2
<1> HIDE DEF e
<1>5. <<e>>[1] = e
  OBVIOUS
<1> QED  BY <1>3, <1>4, <1>5, Zenon

\* addLocationCodeOnlyCallout
LEMMA LocationOnlyLocated ==
  ASSUME NEW loc \in Codes, NEW priority, loc # ""
  PROVE  /\ Located(Light!LocationOnly(loc, priority)[1])
         /\ Light!LocationOnly(loc, priority)[1].kind = "hardware"
<1> DEFINE c == Light!Callout("hardware", priority, loc, "")
<1>1. Located(c)
  BY CalloutLocated
<1>4. c.kind = "hardware"
  BY DEF Light!Callout
<1>2. Light!LocationOnly(loc, priority) = <<c>>
  BY Zenon DEF Light!LocationOnly
<1> HIDE DEF c
<1>3. <<c>>[1] = c
  OBVIOUS
<1> QED  BY <1>1, <1>2, <1>3, <1>4, Zenon

\* A list of one.
LEMMA OneOf ==
  ASSUME NEW c, NEW cs, cs = <<c>>
  PROVE  cs[1] = c
  OBVIOUS

\* None or one callout of a source is added, which has a location when it is for
\* hardware; a trusted one of the registry has an expanded location.
Adds ==
    \E from, cs, problem :
        /\ Light!Add(from, cs, problem)
        /\ cs # << >> =>
              /\ Located(cs[1])
              /\ from = "registry" /\ cs[1].kind = "trusted" =>
                    cs[1].loc \in {Expand[l] : l \in DOMAIN Expand}

\* Whatever lookup fails, a callout for hardware has a location.
LEMMA BuildAdds ==
  ASSUME LocationData, IsList(todo), AllPlaced(todo), Constructs \/ Light!Build
  PROVE  /\ IsList(todo') /\ AllPlaced(todo') /\ todo # << >>
         /\ \/ Adds
            \/ /\ Constructs \/ Light!createServiceActions
               /\ UNCHANGED <<callouts, wordLength, requested>>
<1> DEFINE x == todo[1]
<1>1. ASSUME NEW source0, Light!Pending(source0), todo' = Tail(todo)
      PROVE  /\ todo # << >> /\ x.from = source0 /\ Placed(x)
             /\ IsList(todo') /\ AllPlaced(todo')
  BY <1>1, TailPlaced DEF Light!Pending
<1>2. CASE Constructs
  <2>1. IsList(todo') /\ AllPlaced(todo') /\ callouts' = callouts
    BY <1>2, ConstructPlaces
  <2>2. todo # << >>
    BY <1>2 DEF Constructs, Light!construct
  <2>3. UNCHANGED <<callouts, wordLength, requested>>
    BY <1>2 DEF Constructs, Light!construct
  <2> QED  BY <1>2, <2>1, <2>2, <2>3
<1>3. CASE Light!addInventoryCallout
  <2>1. Light!Pending("inventory") /\ todo' = Tail(todo)
    BY <1>3 DEF Light!addInventoryCallout
  <2>2. x.from = "inventory" /\ Placed(x)
    BY <1>1, <2>1
  <2>3. x.c.path \in DOMAIN Expand /\ "" \in Codes \cup {""} /\ 0 \in Nat
    BY <2>2 DEF Placed
  <2>4. PICK codeFound \in BOOLEAN, vpdFound \in BOOLEAN :
           Light!Add("inventory",
                     Light!InventoryCallout(x.c.path, x.c.priority, "", 0, codeFound, vpdFound),
                     ~codeFound \/ ~vpdFound)
    BY <1>3 DEF Light!addInventoryCallout
  <2> DEFINE cs == Light!InventoryCallout(x.c.path, x.c.priority, "", 0, codeFound, vpdFound)
  <2>5. cs # << >> => Located(cs[1])
    BY <2>3, InventoryLocated
  <2> HIDE DEF cs
  <2>6. Light!Add("inventory", cs, ~codeFound \/ ~vpdFound)
    BY <2>4 DEF cs
  <2>7. Adds
    <3>1. "inventory" # "registry"
      OBVIOUS
    <3> QED  BY <2>5, <2>6, <3>1, Zenon DEF Adds
  <2> QED  BY <1>1, <2>1, <2>7
<1>4. CASE Light!addDevicePathCallout
  <2>1. Light!Pending("device") /\ todo' = Tail(todo)
    BY <1>4 DEF Light!addDevicePathCallout
  <2>2. x.from = "device" /\ Placed(x)
    BY <1>1, <2>1
  <2> DEFINE l == x.c.LocationCode
             p == IF x.c.Priority \in Light!Priorities THEN x.c.Priority ELSE "H"
  <2>3. Expand[l] # "" /\ l # "" /\ l \in Codes /\ Expand[l] \in Codes \cup {""} /\ 0 \in Nat
    BY <2>2 DEF Placed, LocationData, Codes
  <2>4. PICK expanded \in BOOLEAN, pathFound \in BOOLEAN, vpdFound \in BOOLEAN :
           Light!Add("device",
                     IF expanded /\ pathFound
                     THEN Light!InventoryCallout(l, p, Expand[l], 0, TRUE, vpdFound)
                     ELSE Light!LocationOnly(l, p), TRUE)
    BY <1>4 DEF Light!addDevicePathCallout
  <2> HIDE DEF l, p
  <2> DEFINE inv == Light!InventoryCallout(l, p, Expand[l], 0, TRUE, vpdFound)
             only == Light!LocationOnly(l, p)
             cs == IF expanded /\ pathFound THEN inv ELSE only
  <2>5. inv # << >> => Located(inv[1])
    BY <2>3, InventoryLocated
  <2>6. Located(only[1])
    BY <2>3, LocationOnlyLocated
  <2> HIDE DEF inv, only
  <2>7. cs # << >> => Located(cs[1])
    BY <2>5, <2>6
  <2> HIDE DEF cs
  <2>8. Light!Add("device", cs, TRUE)
    BY <2>4 DEF cs, inv, only
  <2>9. Adds
    <3>1. "device" # "registry"
      OBVIOUS
    <3> QED  BY <2>7, <2>8, <3>1, Zenon DEF Adds
  <2> QED  BY <1>1, <2>1, <2>9
<1>5. CASE Light!addRegistryCallout
  <2>1. Light!Pending("registry") /\ todo' = Tail(todo)
    BY <1>5 DEF Light!addRegistryCallout
  <2>2. PICK expands \in BOOLEAN, pathFound \in BOOLEAN, codeFound \in BOOLEAN,
             vpdFound \in BOOLEAN :
           LET c == x.c
               path == x.path
               locExpanded == c.locCode = "" \/ expands
               loc == Light!expandLocationCode(c.locCode, expands)
               trustedLoc == IF path = "" THEN loc ELSE Light!getLocationCode(path, codeFound)
               trusted == Light!isTrusted(path # "" /\ codeFound, trustedLoc, locExpanded)
           IN  Light!Add("registry",
                   CASE c.kind = "procedure" -> <<Light!Callout("procedure", c.priority, "", c.id)>>
                     [] c.kind = "symbolic" ->
                           <<Light!Callout("symbolic", c.priority, loc, Light!setSymbolicFRU(c.id))>>
                     [] c.kind = "trusted" ->
                           <<Light!Callout(IF trusted THEN "trusted" ELSE "symbolic", c.priority,
                                           trustedLoc, Light!setSymbolicFRU(c.id))>>
                     [] c.kind = "hardware" /\ loc # "" /\ locExpanded /\ pathFound ->
                           Light!InventoryCallout(c.locCode, c.priority, loc, 0, codeFound, vpdFound)
                     [] OTHER -> IF loc = "" THEN << >> ELSE Light!LocationOnly(loc, c.priority),
                   \/ ~locExpanded
                   \/ c.kind = "trusted" /\ path # "" /\ ~codeFound
                   \/ c.kind = "hardware" /\ (~pathFound \/ ~vpdFound))
    BY <1>5 DEF Light!addRegistryCallout
  <2> DEFINE c == x.c
             locExpanded == c.locCode = "" \/ expands
             loc == Light!expandLocationCode(c.locCode, expands)
             trustedLoc == IF x.path = "" THEN loc ELSE Light!getLocationCode(x.path, codeFound)
             trusted == Light!isTrusted(x.path # "" /\ codeFound, trustedLoc, locExpanded)
             kind == IF trusted THEN "trusted" ELSE "symbolic"
             procedure == Light!Callout("procedure", c.priority, "", c.id)
             symbolic == Light!Callout("symbolic", c.priority, loc, Light!setSymbolicFRU(c.id))
             trustedC == Light!Callout(kind, c.priority, trustedLoc, Light!setSymbolicFRU(c.id))
             inv == Light!InventoryCallout(c.locCode, c.priority, loc, 0, codeFound, vpdFound)
             only == Light!LocationOnly(loc, c.priority)
             cs == CASE c.kind = "procedure" -> <<procedure>>
                     [] c.kind = "symbolic" -> <<symbolic>>
                     [] c.kind = "trusted" -> <<trustedC>>
                     [] c.kind = "hardware" /\ loc # "" /\ locExpanded /\ pathFound -> inv
                     [] OTHER -> IF loc = "" THEN << >> ELSE only
             problem == \/ ~locExpanded
                        \/ c.kind = "trusted" /\ x.path # "" /\ ~codeFound
                        \/ c.kind = "hardware" /\ (~pathFound \/ ~vpdFound)
  <2>3. Light!Add("registry", cs, problem)
    BY <2>2, Zenon
  <2> HIDE DEF problem
  <2>10. x.from = "registry" /\ Placed(x)
    BY <1>1, <2>1
  <2>11. c.locCode \in DOMAIN Expand \cup {""} /\ x.path \in DOMAIN Expand \cup {""}
    BY <2>10 DEF Placed
  <2>12. loc \in Codes \cup {""} /\ trustedLoc \in Codes \cup {""}
    BY <2>11 DEF Light!expandLocationCode, Light!getLocationCode, Codes
  <2>13. trusted => trustedLoc \in {Expand[l] : l \in DOMAIN Expand}
    <3> SUFFICES ASSUME trusted
                 PROVE  \E l \in DOMAIN Expand : trustedLoc = Expand[l]
      OBVIOUS
    <3>1. CASE x.path # "" /\ codeFound
      BY <2>11, <3>1 DEF Light!getLocationCode
    <3>2. CASE ~(x.path # "" /\ codeFound)
      <4>1. trustedLoc # "" /\ locExpanded
        BY <3>2 DEF Light!isTrusted
      <4>2. x.path = "" /\ trustedLoc = loc
        BY <3>2, <4>1 DEF Light!getLocationCode
      <4>3. c.locCode # "" /\ expands
        BY <4>1, <4>2 DEF Light!expandLocationCode
      <4> QED  BY <2>11, <4>2, <4>3 DEF Light!expandLocationCode
    <3> QED  BY <3>1, <3>2
  <2> HIDE DEF trusted, loc, trustedLoc, locExpanded
  <2>4. Located(procedure) /\ Located(symbolic)
    BY <2>12, CalloutLocated
  <2>5. Located(trustedC)
    <3>1. kind # "hardware"
      OBVIOUS
    <3> HIDE DEF kind
    <3> QED  BY <2>12, <3>1, CalloutLocated
  <2>14. trustedC.kind = "trusted" => trustedC.loc \in {Expand[l] : l \in DOMAIN Expand}
    <3>1. trustedC.kind = kind /\ trustedC.loc = trustedLoc
      BY CalloutIs
    <3>2. kind = "trusted" => trusted
      OBVIOUS
    <3> HIDE DEF trustedC, kind
    <3> QED  BY <2>13, <3>1, <3>2
  <2>15. procedure.kind # "trusted" /\ symbolic.kind # "trusted"
    <3>1. procedure.kind = "procedure" /\ symbolic.kind = "symbolic"
      BY DEF procedure, symbolic, Light!Callout
    <3> HIDE DEF procedure, symbolic
    <3> QED  BY <3>1
  <2> HIDE DEF procedure, symbolic, trustedC
  <2>6. loc # "" /\ inv # << >> => Located(inv[1]) /\ inv[1].kind = "hardware"
    <3>1. 0 \in Nat
      OBVIOUS
    <3>2. loc # "" /\ inv # << >> => Located(inv[1])
      BY <2>12, <3>1, InventoryLocated
    <3>3. inv # << >> => inv[1].kind = "hardware"
      BY InventoryIs
    <3> QED  BY <3>2, <3>3
  <2>7. loc # "" => Located(only[1]) /\ only[1].kind = "hardware"
    BY <2>12, LocationOnlyLocated
  <2> HIDE DEF inv, only, c
  <2> DEFINE good(r) == /\ Located(r)
                        /\ r.kind = "trusted" => r.loc \in {Expand[l] : l \in DOMAIN Expand}
  <2>16. good(procedure) /\ good(symbolic) /\ good(trustedC)
    BY <2>4, <2>5, <2>14, <2>15
  <2>17. loc # "" => good(only[1]) /\ (inv # << >> => good(inv[1]))
    BY <2>6, <2>7
  <2> HIDE DEF good
  <2>8. cs # << >> => good(cs[1])
    <3>1. CASE cs = <<procedure>> \/ cs = <<symbolic>> \/ cs = <<trustedC>>
      BY <2>16, <3>1, OneOf, Zenon
    <3>2. CASE loc # "" /\ (cs = inv \/ cs = only)
      BY <2>17, <3>2, Zenon
    <3>3. CASE cs = << >>
      BY <3>3
    <3> QED  BY <3>1, <3>2, <3>3
  <2> HIDE DEF cs
  <2>9. Adds
    BY <2>3, <2>8, Zenon DEF Adds, good
  <2> QED  BY <1>1, <2>1, <2>9
<1>6. CASE Light!addJSONCallout
  <2>1. Light!Pending("json") /\ todo' = Tail(todo)
    BY <1>6 DEF Light!addJSONCallout
  <2>2. x.from = "json" /\ Placed(x)
    BY <1>1, <2>1
  <2> DEFINE c == x.c
             unexpanded == Light!Get(c, "LocationCode", "")
             valid == Light!hasPriority(c)
             path == Light!Get(c, "InventoryPath", unexpanded)
  <2>3. PICK expands \in BOOLEAN, pathFound \in BOOLEAN, codeFound \in BOOLEAN,
             vpdFound \in BOOLEAN :
           LET loc == Light!expandLocationCode(unexpanded, expands)
               known == "InventoryPath" \in DOMAIN c \/ (unexpanded # "" /\ pathFound)
               hardware == valid /\ Light!Kind(c) = "hardware" /\ known
           IN  /\ Light!Add("json",
                  CASE ~valid -> << >>
                    [] valid /\ Light!Kind(c) = "procedure" ->
                          <<Light!Callout("procedure", c.Priority, "", c.Procedure)>>
                    [] valid /\ Light!Kind(c) = "symbolic" ->
                          <<Light!Callout(IF loc # "" /\ Light!Get(c, "TrustedLocationCode", FALSE)
                                          THEN "trusted" ELSE "symbolic",
                                          c.Priority, loc, c.SymbolicFRU)>>
                    [] hardware ->
                          Light!InventoryCallout(path, c.Priority, loc,
                              Light!getMRUsFromJSON(Light!Get(c, "MRUs", << >>)), codeFound, vpdFound)
                    [] OTHER -> IF unexpanded = "" THEN << >> ELSE Light!LocationOnly(loc, c.Priority),
                  \/ ~valid
                  \/ unexpanded # "" /\ ~expands
                  \/ Light!Kind(c) = "hardware"
                     /\ ~(known /\ vpdFound /\ (loc # "" \/ codeFound)))
               /\ flags' = flags \cup
                    {f \in {"deconfigured", "guarded"} :
                        hardware /\ Light!Get(c, IF f = "guarded" THEN "Guarded" ELSE "Deconfigured", FALSE)}
    BY <1>6, Zenon DEF Light!addJSONCallout
  <2> DEFINE loc == Light!expandLocationCode(unexpanded, expands)
             known == "InventoryPath" \in DOMAIN c \/ (unexpanded # "" /\ pathFound)
             hardware == valid /\ Light!Kind(c) = "hardware" /\ known
             kind == IF loc # "" /\ Light!Get(c, "TrustedLocationCode", FALSE)
                     THEN "trusted" ELSE "symbolic"
             procedure == Light!Callout("procedure", c.Priority, "", c.Procedure)
             symbolic == Light!Callout(kind, c.Priority, loc, c.SymbolicFRU)
             mrus == Light!getMRUsFromJSON(Light!Get(c, "MRUs", << >>))
             inv == Light!InventoryCallout(path, c.Priority, loc, mrus, codeFound, vpdFound)
             only == Light!LocationOnly(loc, c.Priority)
             cs == CASE ~valid -> << >>
                     [] valid /\ Light!Kind(c) = "procedure" -> <<procedure>>
                     [] valid /\ Light!Kind(c) = "symbolic" -> <<symbolic>>
                     [] hardware -> inv
                     [] OTHER -> IF unexpanded = "" THEN << >> ELSE only
             problem == \/ ~valid
                        \/ unexpanded # "" /\ ~expands
                        \/ Light!Kind(c) = "hardware"
                           /\ ~(known /\ vpdFound /\ (loc # "" \/ codeFound))
  <2>4. Light!Add("json", cs, problem)
    BY <2>3, Zenon
  <2> HIDE DEF problem
  <2>14. loc \in Codes \cup {""} /\ mrus \in Nat
    BY <2>2 DEF Placed, Light!expandLocationCode, Codes
  <2>5. Located(procedure)
    BY CalloutLocated
  <2>6. Located(symbolic)
    <3>1. kind # "hardware"
      OBVIOUS
    <3> HIDE DEF kind, loc
    <3> QED  BY <2>14, <3>1, CalloutLocated
  <2>7. unexpanded \in DOMAIN Expand \cup {""}
    BY <2>2 DEF Placed
  <2>8. unexpanded # "" => loc # ""
    BY <2>7 DEF Light!expandLocationCode, LocationData
  <2>9. known /\ loc = "" => path \in DOMAIN Expand
    <3> SUFFICES ASSUME known, loc = ""
                 PROVE  path \in DOMAIN Expand
      OBVIOUS
    <3>1. "InventoryPath" \in DOMAIN c
      BY <2>8
    <3>2. path = c.InventoryPath
      BY <3>1 DEF Light!Get
    <3>3. c.InventoryPath \in DOMAIN Expand
      BY <2>2, <3>1 DEF Placed
    <3> HIDE DEF path
    <3> QED  BY <3>2, <3>3
  <2> HIDE DEF procedure, symbolic, kind, loc, path, mrus
  <2>10. known /\ inv # << >> => Located(inv[1])
    <3> SUFFICES ASSUME known, inv # << >>
                 PROVE  Located(inv[1])
      OBVIOUS
    <3>1. loc = "" => path \in DOMAIN Expand
      BY <2>9
    <3> QED  BY <2>14, <3>1, InventoryLocated
  <2>11. unexpanded # "" => Located(only[1])
    BY <2>8, <2>14, LocationOnlyLocated
  <2> HIDE DEF inv, only, known, unexpanded, valid
  <2>12. cs # << >> => Located(cs[1])
    <3>1. CASE cs = <<procedure>> \/ cs = <<symbolic>>
      BY <2>5, <2>6, <3>1, OneOf
    <3>2. CASE known /\ cs = inv
      BY <2>10, <3>2, Zenon
    <3>3. CASE unexpanded # "" /\ cs = only
      BY <2>11, <3>3, Zenon
    <3>4. CASE cs = << >>
      BY <3>4
    <3> QED  BY <3>1, <3>2, <3>3, <3>4
  <2> HIDE DEF cs
  <2>13. Adds
    <3>1. "json" # "registry"
      OBVIOUS
    <3> QED  BY <2>4, <2>12, <3>1, Zenon DEF Adds
  <2> QED  BY <1>1, <2>1, <2>13
<1>7. CASE Light!createServiceActions
  <2>1. /\ Light!Pending("service") /\ todo' = Tail(todo)
        /\ UNCHANGED <<callouts, wordLength, requested>>
    BY <1>7 DEF Light!createServiceActions
  <2> QED  BY <1>1, <1>7, <2>1
<1> QED  BY <1>2, <1>3, <1>4, <1>5, <1>6, <1>7 DEF Light!Build

\* The list of callouts stays in order.
LEMMA BuildKeepsOrder ==
  ASSUME CalloutsOrdered, Adds \/ callouts' = callouts
  PROVE  CalloutsOrdered'
<1>1. CASE callouts' = callouts
  BY <1>1 DEF CalloutsOrdered
<1>2. CASE Adds
  <2>1. PICK from, cs, problem : Light!Add(from, cs, problem) /\ (cs # << >> => Located(cs[1]))
    BY <1>2, Zenon DEF Adds
  <2> QED  BY <2>1, AddKeepsOrder
<1> QED  BY <1>1, <1>2

\* At first there is no callout.
LEMMA NoneOrdered ==
  ASSUME NEW s, s = << >>
  PROVE  IsList(s) /\ ByPriority(s) /\ AllLocated(s)
<1>1. s \in Seq({}) /\ Len(s) = 0
  OBVIOUS
<1>2. IsList(s)
  BY <1>1, ListFrom
<1> QED  BY <1>1, <1>2 DEF ByPriority, AllLocated

\* The constructor comes first.
LEMMA StartPlaced ==
  ASSUME NEW s, s = <<[from |-> "start"]>>
  PROVE  IsList(s) /\ AllPlaced(s)
<1> DEFINE x == [from |-> "start"]
<1>1. Placed(x)
  BY DEF Placed
<1> HIDE DEF x
<1>2. IsList(<<x>>) /\ AllPlaced(<<x>>)
  BY <1>1, OnePlaced
<1> QED  BY <1>2 DEF x

\* The lamps show the callouts that were there when they were lit, which do not
\* change any more.
LightInv ==
    /\ CalloutsOrdered
    /\ IsList(todo) /\ AllPlaced(todo)
    /\ active => todo = << >>
    /\ Light!LampsShowGroup
    /\ Light!DeconfigIsShown
    /\ Light!BlockNamesPart

\* Lamps are lit for a whole group.
LEMMA LampsLit ==
  ASSUME CalloutsOrdered, Light!activate, lamps' \cup critical' # {}
  PROVE  /\ serviceable' /\ sai' = FALSE
         /\ \A i \in Light!FirstGroup :
               /\ Light!isHardwareCallout(callouts[i])
               /\ \E l \in (lamps' \cap critical') \cup unwritten' : Expand[l] = callouts[i].loc
         /\ \A l \in lamps' \cup critical' \cup unwritten' :
               \E i \in Light!FirstGroup : callouts[i].loc = Expand[l]
         /\ \A i \in DOMAIN callouts : Light!Rank(callouts[i]) <= Light!Rank(callouts[1])
<1> DEFINE codes == Light!getLocationCodes
<1>1. PICK canService \in BOOLEAN, thermal \in BOOLEAN,
           found \in SUBSET {l \in DOMAIN Expand : Expand[l] \in codes} :
         LET places == Light!getInventoryPaths(codes, found)
         IN  /\ serviceable' = canService
             /\ powerThermal' = thermal
             /\ IF canService
                THEN Light!setNotFunctional(places) /\ Light!createCriticalAssociation(places)
                ELSE lamps' = {} /\ critical' = {}
             /\ unwritten' = IF canService THEN places \ (lamps' \cap critical') ELSE {}
             /\ IF canService /\ places = {} THEN Light!assertLEDGroup ELSE sai' = FALSE
  BY Zenon DEF Light!activate
<1> DEFINE places == Light!getInventoryPaths(codes, found)
<1> HIDE DEF codes
<1>2. /\ serviceable' /\ lamps' \subseteq places /\ critical' \subseteq places
      /\ unwritten' = places \ (lamps' \cap critical')
  BY <1>1 DEF Light!setNotFunctional, Light!createCriticalAssociation
<1>3. places # {}
  BY <1>2
<1>4. sai' = FALSE
  BY <1>1, <1>3
<1>5. ASSUME NEW l \in places
      PROVE  \E code \in codes : Expand[l] = code
  BY <1>5 DEF Light!getInventoryPaths, Light!getInventoryFromLocCode
<1>6. codes # {}
  BY <1>3, <1>5
<1>7. /\ callouts # << >>
      /\ \A i \in Light!FirstGroup : Light!isHardwareCallout(callouts[i])
      /\ codes = {callouts[i].loc : i \in Light!FirstGroup}
  BY <1>6 DEF codes, Light!getLocationCodes
<1>8. \A l \in lamps' \cup critical' \cup unwritten' :
         \E i \in Light!FirstGroup : callouts[i].loc = Expand[l]
  BY <1>2, <1>5, <1>7
<1>10. ASSUME NEW i \in Light!FirstGroup
       PROVE  \E l \in (lamps' \cap critical') \cup unwritten' : Expand[l] = callouts[i].loc
  <2>1. callouts[i].loc \in codes
    BY <1>7
  <2>2. /\ Light!getInventoryFromLocCode(callouts[i].loc, found) # {}
        /\ Light!getInventoryFromLocCode(callouts[i].loc, found) \subseteq places
    BY <1>3, <2>1 DEF Light!getInventoryPaths
  <2>3. PICK l \in places : Expand[l] = callouts[i].loc
    BY <2>2 DEF Light!getInventoryFromLocCode
  <2> QED  BY <1>2, <2>3
<1>9. ASSUME NEW i \in DOMAIN callouts
      PROVE  Light!Rank(callouts[i]) <= Light!Rank(callouts[1])
  <2>1. Len(callouts) \in Nat /\ DOMAIN callouts = 1..Len(callouts) /\ Len(callouts) > 0
    BY <1>7, ListFacts DEF CalloutsOrdered
  <2>2. Light!Rank(callouts[1]) \in {8, 9, 10}
    BY DEF Light!Rank
  <2>3. CASE i = 1
    BY <2>2, <2>3
  <2>4. CASE i # 1
    <3>1. 1 \in 1..Len(callouts) /\ i \in 1..Len(callouts) /\ 1 < i
      BY <2>1, <2>4
    <3>2. Light!Rank(callouts[1]) >= Light!Rank(callouts[i])
      BY <3>1 DEF CalloutsOrdered, ByPriority
    <3>3. Light!Rank(callouts[i]) \in {8, 9, 10}
      BY DEF Light!Rank
    <3> QED  BY <2>2, <3>2, <3>3
  <2> QED  BY <2>3, <2>4
<1> QED  BY <1>2, <1>4, <1>7, <1>8, <1>9, <1>10

\* The PEL's block is set for hardware, whose location is in the resolution.
LEMMA BlockNames ==
  ASSUME CalloutsOrdered, Light!activate, quiesced # "pel", quiesced' = "pel"
  PROVE  \E i \in DOMAIN eventLog'.resolution : eventLog'.resolution[i][1] # ""
<1>1. Light!isHwCalloutPresent
  BY Zenon DEF Light!activate, Light!checkPelAndQuiesce
<1>2. PICK i \in DOMAIN callouts : callouts[i].kind = "hardware"
  BY <1>1 DEF Light!isHwCalloutPresent
<1>3. Located(callouts[i])
  <2>1. DOMAIN callouts = 1..Len(callouts)
    BY ListFacts DEF CalloutsOrdered
  <2> QED  BY <2>1 DEF CalloutsOrdered, AllLocated
<1>4. callouts[i].loc # ""
  BY <1>2, <1>3, HardwareIsLocated
<1>5. eventLog' = [eventId |-> Light!getEventId, resolution |-> Light!getResolution]
  BY DEF Light!activate
<1>6. eventLog'.resolution = Light!getResolution
  BY <1>5
<1>7. DOMAIN Light!getResolution = DOMAIN callouts /\ Light!getResolution[i][1] = callouts[i].loc
  BY DEF Light!getResolution
<1> QED  BY <1>2, <1>4, <1>6, <1>7

\* Each step of the callouts and of what is made of them keeps the invariant.
LEMMA LightStep ==
  ASSUME LocationData, LightInv, Light!LightNext
  PROVE  LightInv'
<1>1. CASE (Light!Build /\ UNCHANGED Light!lightVars) \/ \E ad \in ADs : Light!createEntry(ad)
  <2>5. Constructs \/ Light!Build
    BY <1>1 DEF Constructs, Light!createEntry
  <2>1. CalloutsOrdered' /\ IsList(todo') /\ AllPlaced(todo') /\ todo # << >>
    BY <2>5, BuildAdds, BuildKeepsOrder DEF LightInv
  <2>2. active' = active /\ (quiesced' = quiesced \/ quiesced' \in {"", "log"})
    BY <1>1 DEF Light!lightVars, Light!createEntry
  <2>3. ~active'
    BY <2>1, <2>2, Zenon DEF LightInv
  <2>4. Light!BlockNamesPart'
    <3>1. quiesced # "pel"
      BY <2>2, <2>3, Zenon DEF LightInv, Light!BlockNamesPart
    <3>2. quiesced' # "pel"
      BY <2>2, <3>1
    <3> QED  BY <3>2 DEF Light!BlockNamesPart
  <2> QED  BY <2>1, <2>3, <2>4, Zenon DEF LightInv, Light!LampsShowGroup, Light!DeconfigIsShown
<1>2. CASE Light!activate
  <2>1. UNCHANGED <<todo, callouts, flags>> /\ todo = << >>
    BY <1>2 DEF Light!activate, Light!vars
  <2>2. CalloutsOrdered' /\ IsList(todo') /\ AllPlaced(todo') /\ todo' = << >>
    BY <2>1 DEF LightInv, CalloutsOrdered
  <2>3. Light!LampsShowGroup'
    <3> SUFFICES ASSUME lamps' \cup critical' # {}
                 PROVE  Light!LampsShowGroup'
      BY Zenon DEF Light!LampsShowGroup
    <3>1. /\ serviceable' /\ sai' = FALSE
          /\ \A i \in Light!FirstGroup :
                /\ Light!isHardwareCallout(callouts[i])
                /\ \E l \in (lamps' \cap critical') \cup unwritten' : Expand[l] = callouts[i].loc
          /\ \A l \in lamps' \cup critical' \cup unwritten' :
                \E i \in Light!FirstGroup : callouts[i].loc = Expand[l]
          /\ \A i \in DOMAIN callouts : Light!Rank(callouts[i]) <= Light!Rank(callouts[1])
      BY <1>2, LampsLit DEF LightInv
    <3>2. callouts' = callouts
      BY <2>1
    <3>3. Light!FirstGroup' = Light!FirstGroup
      BY <3>2 DEF Light!FirstGroup
    <3> QED  BY <3>1, <3>2, <3>3, Zenon DEF Light!LampsShowGroup
  <2>4. Light!DeconfigIsShown'
    <3>1. /\ dbusDeconfig' = ("deconfigured" \in flags)
          /\ eventLog' = [eventId |-> flags, resolution |-> Light!getResolution]
      BY <1>2 DEF Light!activate, Light!getDeconfigFlag, Light!getEventId
    <3>2. eventLog'.eventId = flags' /\ eventLog'.resolution = Light!getResolution
      BY <2>1, <3>1
    <3>3. Light!getResolution' = Light!getResolution
      BY <2>1 DEF Light!getResolution
    <3>4. dbusDeconfig' <=> "deconfigured" \in flags'
      BY <2>1, <3>1, Zenon
    <3> QED  BY <3>2, <3>3, <3>4, Zenon DEF Light!DeconfigIsShown
  <2>5. Light!BlockNamesPart'
    <3>1. ~active /\ active'
      BY <1>2 DEF Light!activate
    <3>2. quiesced # "pel"
      BY <3>1, Zenon DEF LightInv, Light!BlockNamesPart
    <3> QED  BY <1>2, <3>1, <3>2, BlockNames, Zenon DEF LightInv, Light!BlockNamesPart
  <2> QED  BY <2>2, <2>3, <2>4, <2>5, Zenon DEF LightInv
<1>3. ASSUME NEW l \in DOMAIN Expand, Light!hardwarePresent(l)
      PROVE  LightInv'
  <2>1. /\ active /\ "deconfigured" \in flags /\ powerThermal
        /\ flags' = flags \ {"deconfigured"} /\ dbusDeconfig' = FALSE
        /\ UNCHANGED <<todo, callouts, active, serviceable, powerThermal, lamps, critical,
                       unwritten, sai, eventLog, quiesced>>
    BY <1>3, Zenon DEF Light!hardwarePresent, Light!getDeconfigFlag
  <2>2. CalloutsOrdered' /\ IsList(todo') /\ AllPlaced(todo') /\ (active' => todo' = << >>)
    BY <2>1, Zenon DEF LightInv, CalloutsOrdered
  <2>3. Light!LampsShowGroup'
    <3>1. Light!FirstGroup' = Light!FirstGroup
      BY <2>1 DEF Light!FirstGroup
    <3> QED  BY <2>1, <3>1, Zenon DEF LightInv, Light!LampsShowGroup
  <2>4. Light!DeconfigIsShown'
    <3>1. eventLog.eventId = flags
      <4>1. flags \cup {"deconfigured"} = flags
        BY <2>1
      <4> QED  BY <2>1, <4>1, Zenon DEF LightInv, Light!DeconfigIsShown
    <3>2. flags = flags' \cup {"deconfigured"} /\ "deconfigured" \notin flags'
      BY <2>1
    <3>3. eventLog.resolution = Light!getResolution
      BY <2>1, Zenon DEF LightInv, Light!DeconfigIsShown
    <3>4. Light!getResolution' = Light!getResolution
      BY <2>1 DEF Light!getResolution
    <3>5. eventLog' = eventLog /\ powerThermal' /\ ~dbusDeconfig'
      BY <2>1, Zenon
    <3> QED  BY <3>1, <3>2, <3>3, <3>4, <3>5, Zenon DEF Light!DeconfigIsShown
  <2>5. Light!BlockNamesPart'
    BY <2>1, Zenon DEF LightInv, Light!BlockNamesPart
  <2> QED  BY <2>2, <2>3, <2>4, <2>5, Zenon DEF LightInv
<1>4. CASE Light!nextPEL
  <2>1. /\ todo' = <<[from |-> "start"]>> /\ callouts' = << >>
        /\ active' = FALSE /\ quiesced' = ""
    BY <1>4 DEF Light!nextPEL, Light!NextPEL
  <2>2. CalloutsOrdered'
    BY <2>1, NoneOrdered DEF CalloutsOrdered
  <2>3. IsList(todo') /\ AllPlaced(todo')
    BY <2>1, StartPlaced
  <2> QED  BY <2>1, <2>2, <2>3, Zenon
           DEF LightInv, Light!LampsShowGroup, Light!DeconfigIsShown, Light!BlockNamesPart
<1> QED  BY <1>1, <1>2, <1>3, <1>4 DEF Light!LightNext

\* A JSON callout that asks for a record, of one of the kinds that are shown in
\* the PEL, and can have it.
Shown == {"deconfigured", "guarded"}

Asks(c, f) ==
    /\ Light!Get(c, IF f = "guarded" THEN "Guarded" ELSE "Deconfigured", FALSE)
    /\ "EntityPath" \in DOMAIN c

\* Records are asked for with hardware only.
RecordData ==
    \A json \in JSONCallouts : \A i \in 1..Len(json), f \in Shown :
        Asks(json[i], f) => Light!Kind(json[i]) = "hardware"

\* While the service actions wait, what will be asked of them is shown already,
\* or the callout that asks comes before.
DueIn(s, set, data) ==
    \A n \in 1..Len(s) : s[n].from = "service" =>
        /\ n = Len(s) /\ s[n].c \in JSONCallouts
        /\ \A i \in 1..Len(s[n].c), f \in Shown :
              Asks(s[n].c[i], f) =>
                  \/ data \/ f \in set
                  \/ \E m \in 1..Len(s) : m < n /\ s[m].from = "json" /\ s[m].c = s[n].c[i]

Due == DueIn(todo, flags, debug)

\* addJSONCallout may set flags.
LEMMA JSONFlags ==
  ASSUME Light!addJSONCallout
  PROVE  \E known :
            LET c == todo[1].c
                ok == Light!hasPriority(c)
            IN  /\ \E cs, problem :
                      /\ Light!Add("json", cs, problem)
                      /\ Light!Kind(c) = "hardware" /\ (~ok \/ ~known) => problem
                /\ flags' = flags \cup
                      {f \in Shown :
                         (ok /\ Light!Kind(c) = "hardware" /\ known)
                         /\ Light!Get(c, IF f = "guarded" THEN "Guarded" ELSE "Deconfigured", FALSE)}
<1> DEFINE c == todo[1].c
           unexpanded == Light!Get(c, "LocationCode", "")
           valid == Light!hasPriority(c)
           path == Light!Get(c, "InventoryPath", unexpanded)
           loc(expands) == Light!expandLocationCode(unexpanded, expands)
           known(pathFound) == "InventoryPath" \in DOMAIN c \/ (unexpanded # "" /\ pathFound)
           hardware(pathFound) == valid /\ Light!Kind(c) = "hardware" /\ known(pathFound)
           problem(expands, pathFound, codeFound, vpdFound) ==
              \/ ~valid
              \/ unexpanded # "" /\ ~expands
              \/ Light!Kind(c) = "hardware"
                 /\ ~(known(pathFound) /\ vpdFound /\ (loc(expands) # "" \/ codeFound))
           set(pathFound) ==
              {f \in {"deconfigured", "guarded"} :
                  hardware(pathFound)
                  /\ Light!Get(c, IF f = "guarded" THEN "Guarded"
                                                  ELSE "Deconfigured", FALSE)}
<1>1. PICK cs, expands, pathFound, codeFound, vpdFound :
         /\ Light!Add("json", cs, problem(expands, pathFound, codeFound, vpdFound))
         /\ flags' = flags \cup set(pathFound)
  BY Zenon DEF Light!addJSONCallout
<1>2. Light!Kind(c) = "hardware" /\ (~valid \/ ~known(pathFound))
         => problem(expands, pathFound, codeFound, vpdFound)
  BY Zenon
<1> HIDE DEF problem
<1> QED  BY <1>1, <1>2, Zenon DEF Shown

\* Flags and debug data stay when a callout is added.
LEMMA FlagsStay ==
  ASSUME Light!Build, Adds \/ Light!createServiceActions
  PROVE  /\ flags \subseteq flags' /\ (debug => debug')
         /\ todo # << >> /\ todo' = Tail(todo)
         /\ ~Light!createServiceActions => records' = records
<1>1. debug => debug'
  BY Zenon DEF Adds, Light!Add, Light!createServiceActions
<1>2. CASE ~Light!addJSONCallout
  BY <1>1, <1>2, Zenon
     DEF Light!Build, Light!Pending, Light!createServiceActions, Light!addInventoryCallout,
         Light!addDevicePathCallout, Light!addRegistryCallout
<1>3. CASE Light!addJSONCallout
  <2>1. \E F : flags' = flags \cup F
    BY <1>3, JSONFlags, Zenon
  <2>2. flags \subseteq flags'
    BY <2>1
  <2>3. todo # << >> /\ todo' = Tail(todo) /\ records' = records
    BY <1>3, Zenon DEF Light!addJSONCallout, Light!Pending
  <2> QED  BY <1>1, <2>2, <2>3
<1> QED  BY <1>2, <1>3

\* A callout for hardware that asks for a record sets the flag, or leaves debug
\* data.
LEMMA AskingIsShown ==
  ASSUME Light!addJSONCallout, Light!Kind(todo[1].c) = "hardware",
         NEW f \in Shown, Asks(todo[1].c, f)
  PROVE  debug' \/ f \in flags'
<1> DEFINE c == todo[1].c
           asked(g) == Light!Get(c, IF g = "guarded" THEN "Guarded" ELSE "Deconfigured", FALSE)
           ok == Light!hasPriority(c)
<1>1. PICK known :
         /\ \E cs, problem : /\ Light!Add("json", cs, problem)
                             /\ Light!Kind(c) = "hardware" /\ (~ok \/ ~known) => problem
         /\ flags' = flags \cup {g \in Shown : (ok /\ Light!Kind(c) = "hardware" /\ known) /\ asked(g)}
  BY JSONFlags, Zenon
<1>2. asked(f)
  BY Zenon DEF Asks
<1> HIDE DEF asked
<1>3. CASE ok /\ known
  <2>1. f \in {g \in Shown : (ok /\ Light!Kind(c) = "hardware" /\ known) /\ asked(g)}
    BY <1>2, <1>3, Zenon
  <2> QED  BY <1>1, <2>1, Zenon
<1>4. CASE ~ok \/ ~known
  <2>1. PICK cs, problem : Light!Add("json", cs, problem) /\ problem
    BY <1>1, <1>4, Zenon
  <2> QED  BY <2>1, Zenon DEF Light!Add
<1> QED  BY <1>3, <1>4, Zenon

\* One callout after the other is handled before the service actions.
LEMMA DueTail ==
  ASSUME RecordData, IsList(todo), todo # << >>, Due, todo' = Tail(todo),
         flags \subseteq flags', debug => debug',
         \A f \in Shown : todo[1].from = "json" /\ Light!Kind(todo[1].c) = "hardware"
                            /\ Asks(todo[1].c, f) => debug' \/ f \in flags'
  PROVE  Due'
<1> DEFINE s == todo
           t == Tail(todo)
<1>1. /\ Len(s) \in Nat /\ Len(s) > 0 /\ Len(t) = Len(s) - 1
      /\ \A n \in 1..Len(t) : t[n] = s[n + 1]
  BY ListFacts
<1> SUFFICES ASSUME NEW n \in 1..Len(t), t[n].from = "service"
             PROVE  /\ n = Len(t) /\ t[n].c \in JSONCallouts
                    /\ \A i \in 1..Len(t[n].c), f \in Shown :
                          Asks(t[n].c[i], f) =>
                              \/ debug' \/ f \in flags'
                              \/ \E m \in 1..Len(t) :
                                    m < n /\ t[m].from = "json" /\ t[m].c = t[n].c[i]
  <2>1. DueIn(t, flags', debug') => Due'
    BY DEF Due
  <2> HIDE DEF t
  <2> QED  BY <2>1, Zenon DEF DueIn
<1> HIDE DEF t
<1>2. n + 1 \in 1..Len(s) /\ t[n] = s[n + 1]
  BY <1>1
<1> DEFINE json == s[n + 1].c
<1>3. /\ n + 1 = Len(s) /\ json \in JSONCallouts
      /\ \A i \in 1..Len(json), f \in Shown :
            Asks(json[i], f) =>
                \/ debug \/ f \in flags
                \/ \E m \in 1..Len(s) : m < n + 1 /\ s[m].from = "json" /\ s[m].c = json[i]
  BY <1>2, Zenon DEF Due, DueIn
<1>4. n = Len(t)
  BY <1>1, <1>3
<1>5. t[n].c = json
  BY <1>2
<1> HIDE DEF json
<1>6. ASSUME NEW i \in 1..Len(json), NEW f \in Shown, Asks(json[i], f)
      PROVE  \/ debug' \/ f \in flags'
             \/ \E m \in 1..Len(t) : m < n /\ t[m].from = "json" /\ t[m].c = json[i]
  <2>1. CASE debug \/ f \in flags
    BY <2>1
  <2>2. ASSUME NEW m \in 1..Len(s), m < n + 1, s[m].from = "json", s[m].c = json[i]
        PROVE  \/ debug' \/ f \in flags'
               \/ \E k \in 1..Len(t) : k < n /\ t[k].from = "json" /\ t[k].c = json[i]
    <3>1. CASE m = 1
      <4>1. Light!Kind(s[1].c) = "hardware" /\ Asks(s[1].c, f)
        BY <1>3, <1>6, <2>2, <3>1 DEF RecordData
      <4> QED  BY <2>2, <3>1, <4>1
    <3>2. CASE m # 1
      <4> DEFINE k == m - 1
      <4>1. k \in 1..Len(t) /\ k < n /\ k + 1 = m
        BY <1>1, <2>2, <3>2
      <4> HIDE DEF k
      <4>2. t[k] = s[m]
        BY <1>1, <4>1
      <4> QED  BY <2>2, <4>1, <4>2
    <3> QED  BY <3>1, <3>2
  <2> QED  BY <1>3, <1>6, <2>1, <2>2
<1> QED  BY <1>3, <1>4, <1>5, <1>6

\* The constructor leaves the service actions for the end.
LEMMA ConstructDue ==
  ASSUME NEW json \in JSONCallouts, ServiceLast(todo', json)
  PROVE  Due'
<1> DEFINE s == todo'
<1> SUFFICES ASSUME NEW n \in 1..Len(s), s[n].from = "service"
             PROVE  /\ n = Len(s) /\ s[n].c \in JSONCallouts
                    /\ \A i \in 1..Len(s[n].c), f \in Shown :
                          \E m \in 1..Len(s) : m < n /\ s[m].from = "json" /\ s[m].c = s[n].c[i]
  BY Zenon DEF Due, DueIn
<1> HIDE DEF s
<1>1. ServiceLast(s, json)
  BY DEF s
<1>2. n = Len(s) /\ s[n].c = json
  BY <1>1 DEF ServiceLast
<1>3. \A i \in 1..Len(json) :
          \E m \in 1..Len(s) : m < Len(s) /\ s[m].from = "json" /\ s[m].c = json[i]
  BY <1>1 DEF ServiceLast
<1> QED  BY <1>2, <1>3

\* Records are created for what is shown.
LEMMA ServiceShown ==
  ASSUME IsList(todo), Due, Light!createServiceActions, records = {}, \A json \in JSONCallouts : IsList(json)
  PROVE  /\ todo' = << >>
         /\ \A r \in records' : debug' \/ r[1] \in flags'
<1>1. /\ todo # << >> /\ todo[1].from = "service" /\ todo' = Tail(todo)
      /\ UNCHANGED <<flags, debug>>
  BY DEF Light!createServiceActions, Light!Pending
<1>2. /\ Len(todo) \in Nat /\ Len(todo) > 0 /\ IsList(Tail(todo)) /\ Len(Tail(todo)) = Len(todo) - 1
  BY <1>1, ListFacts
<1> DEFINE json == todo[1].c
<1>3. /\ 1 = Len(todo) /\ json \in JSONCallouts
      /\ \A i \in 1..Len(json), f \in Shown :
            Asks(json[i], f) =>
                \/ debug \/ f \in flags
                \/ \E m \in 1..Len(todo) : m < 1 /\ todo[m].from = "json" /\ todo[m].c = json[i]
  <2>1. 1 \in 1..Len(todo)
    BY <1>2
  <2> QED  BY <1>1, <2>1, Zenon DEF Due, DueIn
<1>4. \A i \in 1..Len(json), f \in Shown : Asks(json[i], f) => debug \/ f \in flags
  <2>1. ~ \E m \in 1..Len(todo) : m < 1
    BY <1>2
  <2> QED  BY <1>3, <2>1, Zenon
<1>5. todo' = << >>
  BY <1>1, <1>2, <1>3, ListFacts
<1>6. PICK guards \in Light!createGuardRecords(json), deconfigs \in Light!createDeconfigRecords(json) :
         records' = guards \cup deconfigs
  BY DEF Light!createServiceActions
<1>7. DOMAIN json = 1..Len(json)
  BY <1>3, ListFacts
<1> HIDE DEF json
<1>8. ASSUME NEW r \in records'
      PROVE  \E i \in 1..Len(json), f \in Shown : r[1] = f /\ Asks(json[i], f)
  <2>1. CASE r \in guards
    <3>1. PICK i \in Light!asksFor("Guarded", json) : r = <<"guarded", json[i].EntityPath>>
      BY <2>1 DEF Light!createGuardRecords
    <3>2. r[1] = "guarded"
      BY <3>1
    <3>3. i \in 1..Len(json) /\ Asks(json[i], "guarded")
      BY <1>7, <3>1, Zenon DEF Light!asksFor, Asks
    <3> QED  BY <3>2, <3>3 DEF Shown
  <2>2. CASE r \in deconfigs
    <3>1. PICK i \in Light!asksFor("Deconfigured", json) : r = <<"deconfigured", json[i].EntityPath>>
      BY <2>2 DEF Light!createDeconfigRecords
    <3>2. r[1] = "deconfigured" /\ "deconfigured" # "guarded"
      BY <3>1
    <3>3. i \in 1..Len(json) /\ Asks(json[i], "deconfigured")
      BY <1>7, <3>1, <3>2, Zenon DEF Light!asksFor, Asks
    <3> QED  BY <3>2, <3>3 DEF Shown
  <2> QED  BY <1>6, <2>1, <2>2
<1> QED  BY <1>1, <1>4, <1>5, <1>8, Zenon

\* What the proof takes from the data: the codes and paths are of this system,
\* location codes have at most 79 characters, and records are asked for with
\* hardware.
CalloutData == LocationData /\ LengthData /\ RecordData /\ maxNumberOfCallouts \in Nat

\* The list answers the requests and takes the room that is written with it; no
\* record is made before the last callout.
SoundInv ==
    /\ Answers(callouts, requested)
    /\ Takes(callouts, wordLength)
    /\ Light!TrustedCodesAreExpanded
    /\ Due
    /\ records # {} => todo = << >>
    /\ Light!RecordsAreShown

\* One callout more.
LEMMA AddsSound ==
  ASSUME LengthData, maxNumberOfCallouts \in Nat, CalloutsOrdered,
         Answers(callouts, requested), Takes(callouts, wordLength),
         Light!TrustedCodesAreExpanded, Adds
  PROVE  /\ Answers(callouts', requested') /\ Takes(callouts', wordLength')
         /\ Light!TrustedCodesAreExpanded'
<1>1. PICK from, cs, problem :
         /\ Light!Add(from, cs, problem)
         /\ cs # << >> =>
               /\ Located(cs[1])
               /\ from = "registry" /\ cs[1].kind = "trusted" =>
                     cs[1].loc \in {Expand[l] : l \in DOMAIN Expand}
  BY Zenon DEF Adds
<1>2. CASE cs = << >>
  <2>1. UNCHANGED <<callouts, wordLength, requested>>
    BY <1>1, <1>2 DEF Light!Add
  <2> QED  BY <2>1 DEF Light!TrustedCodesAreExpanded
<1>3. CASE cs # << >>
  <2> DEFINE x == [from |-> from, callout |-> cs[1]]
  <2>1. /\ callouts' = Light!addCallout(callouts, cs[1])
        /\ wordLength' = wordLength + IF Len(callouts') > Len(callouts)
                                      THEN Light!flattenedSize(cs[1]) \div 4 ELSE 0
        /\ requested' = requested \cup {x}
    BY <1>1, <1>3, Zenon DEF Light!Add
  <2>2. x.from = from /\ x.callout = cs[1]
    OBVIOUS
  <2> HIDE DEF x
  <2>3. Answers(callouts', requested \cup {x}) /\ Takes(callouts', wordLength')
    <3> DEFINE q == callouts'
               w == wordLength'
    <3>1. /\ q = Light!addCallout(callouts, cs[1])
          /\ w = wordLength + IF Len(q) > Len(callouts)
                              THEN Light!flattenedSize(cs[1]) \div 4 ELSE 0
      BY <2>1
    <3>2. IsList(callouts) /\ AllLocated(callouts) /\ Located(cs[1])
      BY <1>1, <1>3 DEF CalloutsOrdered
    <3> HIDE DEF q, w
    <3>3. Answers(q, requested \cup {x}) /\ Takes(q, w)
      BY <2>2, <3>1, <3>2, AddKeepsSound
    <3> QED  BY <3>3 DEF q, w
  <2>4. ASSUME NEW r \in requested', r.from = "registry", r.callout.kind = "trusted"
        PROVE  r.callout.loc \in {Expand[l] : l \in DOMAIN Expand}
    <3>1. CASE r \in requested
      BY <2>4, <3>1, Zenon DEF Light!TrustedCodesAreExpanded
    <3>2. CASE r = x
      BY <1>1, <1>3, <2>2, <2>4, <3>2
    <3> QED  BY <2>1, <3>1, <3>2
  <2>5. Light!TrustedCodesAreExpanded'
    BY <2>4, Zenon DEF Light!TrustedCodesAreExpanded
  <2> QED  BY <2>1, <2>3, <2>5
<1> QED  BY <1>2, <1>3

\* At first there is none.
LEMMA NoneSound ==
  ASSUME maxNumberOfCallouts \in Nat, NEW s, s = << >>, NEW w, w = 1
  PROVE  Answers(s, {}) /\ Takes(s, w)
<1>1. Len(s) = 0
  OBVIOUS
<1>2. SumTo(Sizes(s), 0) = 0
  BY SumOfNone
<1>3. Answers(s, {})
  BY <1>1 DEF Answers
<1> QED  BY <1>1, <1>2, <1>3 DEF Takes

\* The constructor is no service action.
LEMMA StartDue ==
  ASSUME NEW s, s = <<[from |-> "start"]>>, NEW set, NEW data
  PROVE  DueIn(s, set, data)
<1>1. Len(s) = 1 /\ s[1].from = "start"
  OBVIOUS
<1> QED  BY <1>1 DEF DueIn

\* Every step of a build keeps it.
LEMMA BuildSound ==
  ASSUME CalloutData, LightInv, SoundInv, Constructs \/ Light!Build, active' = active
  PROVE  SoundInv'
<1>1. /\ todo # << >>
      /\ \/ Adds
         \/ /\ Constructs \/ Light!createServiceActions
            /\ UNCHANGED <<callouts, wordLength, requested>>
  BY BuildAdds, Zenon DEF CalloutData, LightInv
<1>2. Answers(callouts', requested') /\ Takes(callouts', wordLength') /\ Light!TrustedCodesAreExpanded'
  <2>1. CASE Adds
    BY <2>1, AddsSound, Zenon DEF CalloutData, LightInv, SoundInv
  <2>2. CASE UNCHANGED <<callouts, wordLength, requested>>
    BY <2>2, Zenon DEF SoundInv, Light!TrustedCodesAreExpanded
  <2> QED  BY <1>1, <2>1, <2>2
<1>3. ~active' /\ records = {}
  <2>1. ~active /\ records = {}
    BY <1>1, Zenon DEF LightInv, SoundInv
  <2> QED  BY <2>1
<1>4. Due'
  <2>1. CASE Constructs
    <3>1. \E json \in JSONCallouts : ServiceLast(todo', json)
      BY <2>1, ConstructPlaces, Zenon DEF CalloutData
    <3> QED  BY <3>1, ConstructDue
  <2>2. CASE ~Constructs
    <3>1. /\ flags \subseteq flags' /\ (debug => debug') /\ todo' = Tail(todo)
      BY <1>1, <2>2, FlagsStay, Zenon
    <3>2. \A f \in Shown : todo[1].from = "json" /\ Light!Kind(todo[1].c) = "hardware"
                              /\ Asks(todo[1].c, f) => debug' \/ f \in flags'
      <4> SUFFICES ASSUME todo[1].from = "json", NEW f \in Shown,
                          Light!Kind(todo[1].c) = "hardware", Asks(todo[1].c, f)
                   PROVE  debug' \/ f \in flags'
        BY Zenon
      <4>1. /\ ~Light!Pending("inventory") /\ ~Light!Pending("device")
            /\ ~Light!Pending("registry") /\ ~Light!Pending("service")
        BY DEF Light!Pending
      <4>2. Light!addJSONCallout
        BY <2>2, <4>1, Zenon
           DEF Light!Build, Light!addInventoryCallout, Light!addDevicePathCallout,
               Light!addRegistryCallout, Light!createServiceActions
      <4> QED  BY <4>2, AskingIsShown
    <3>3. RecordData /\ IsList(todo) /\ Due
      BY DEF CalloutData, LightInv, SoundInv
    <3> QED  BY <1>1, <3>1, <3>2, <3>3, DueTail
  <2> QED  BY <2>1, <2>2
<1>5. (records' # {} => todo' = << >>) /\ \A r \in records' : debug' \/ r[1] \in flags'
  <2>1. CASE Constructs
    BY <1>3, <2>1 DEF Constructs, Light!construct
  <2>2. CASE Light!createServiceActions
    <3>1. IsList(todo) /\ Due /\ \A json \in JSONCallouts : IsList(json)
      BY DEF CalloutData, LightInv, SoundInv, LocationData
    <3> QED  BY <1>3, <2>2, <3>1, ServiceShown
  <2>3. CASE ~Constructs /\ ~Light!createServiceActions
    <3>1. records' = records
      BY <1>1, <2>3, FlagsStay, Zenon
    <3> QED  BY <1>3, <3>1
  <2> QED  BY <2>1, <2>2, <2>3
<1>6. Light!RecordsAreShown'
  BY <1>3, <1>5, Zenon DEF Light!RecordsAreShown
<1> QED  BY <1>2, <1>4, <1>5, <1>6, Zenon DEF SoundInv

\* Every step keeps it.
LEMMA SoundStep ==
  ASSUME CalloutData, LightInv, SoundInv, Light!LightNext
  PROVE  SoundInv'
<1>1. CASE (Light!Build /\ UNCHANGED Light!lightVars) \/ \E ad \in ADs : Light!createEntry(ad)
  <2>1. (Constructs \/ Light!Build) /\ active' = active
    BY <1>1 DEF Constructs, Light!createEntry, Light!lightVars
  <2> QED  BY <2>1, BuildSound
<1>2. CASE Light!activate
  <2>1. UNCHANGED <<todo, callouts, wordLength, flags, debug, requested, records>> /\ ~active
    BY <1>2 DEF Light!activate, Light!vars
  <2>2. eventLog'.eventId = flags /\ active'
    BY <1>2 DEF Light!activate, Light!getEventId
  <2>3. Light!RecordsAreShown'
    BY <2>1, <2>2, Zenon DEF SoundInv, Light!RecordsAreShown
  <2> QED  BY <2>1, <2>3, Zenon DEF SoundInv, Due, Light!TrustedCodesAreExpanded
<1>3. ASSUME NEW l \in DOMAIN Expand, Light!hardwarePresent(l)
      PROVE  SoundInv'
  <2>1. /\ active /\ UNCHANGED <<todo, callouts, wordLength, debug, requested, records, active, eventLog>>
    BY <1>3, Zenon DEF Light!hardwarePresent
  <2>2. Light!RecordsAreShown'
    BY <2>1, Zenon DEF SoundInv, Light!RecordsAreShown
  <2>3. Due'
    <3>1. todo' = << >>
      BY <2>1, Zenon DEF LightInv
    <3> QED  BY <3>1 DEF Due, DueIn
  <2> QED  BY <2>1, <2>2, <2>3, Zenon DEF SoundInv, Light!TrustedCodesAreExpanded
<1>4. CASE Light!nextPEL
  <2>1. /\ todo' = <<[from |-> "start"]>> /\ callouts' = << >> /\ wordLength' = 1
        /\ requested' = {} /\ records' = {}
    BY <1>4 DEF Light!nextPEL, Light!NextPEL
  <2>2. Answers(callouts', requested') /\ Takes(callouts', wordLength')
    BY <2>1, NoneSound DEF CalloutData
  <2>3. Due'
    BY <2>1, StartDue DEF Due
  <2> QED  BY <2>1, <2>2, <2>3, Zenon
           DEF SoundInv, Light!TrustedCodesAreExpanded, Light!RecordsAreShown
<1> QED  BY <1>1, <1>2, <1>3, <1>4 DEF Light!LightNext

\* The invariant says what CalloutsSound does.
LEMMA SoundIsRight ==
  ASSUME CalloutData, LightInv, SoundInv
  PROVE  Light!CalloutsSound
<1>1. /\ IsList(callouts) /\ ByPriority(callouts) /\ AllLocated(callouts)
      /\ Answers(callouts, requested) /\ Takes(callouts, wordLength) /\ LengthData
  BY DEF CalloutData, LightInv, SoundInv, CalloutsOrdered
<1>2. Len(callouts) \in Nat /\ DOMAIN callouts = 1..Len(callouts)
  BY <1>1, ListFacts
<1>3. Light!calloutsRead = [n |-> Len(callouts), length |-> 4 * wordLength]
  BY <1>1, AllAreRead
<1>4. \A i \in 1..Len(callouts) : Light!flattenedSize(callouts[i]) \in Light!uint8
  <2> SUFFICES ASSUME NEW i \in 1..Len(callouts)
               PROVE  Light!flattenedSize(callouts[i]) \in Light!uint8
    OBVIOUS
  <2> DEFINE z == Light!flattenedSize(callouts[i])
  <2>1. z \in 4..252
    BY <1>1, <1>2, SizesAre
  <2> HIDE DEF z
  <2>2. z \in 0..255
    BY <2>1
  <2> QED  BY <2>2 DEF z, Light!uint8
<1>5. ASSUME NEW i \in 1..Len(callouts), NEW j \in 1..Len(callouts), i < j
      PROVE  /\ ~Light!SameFRU(callouts[i], callouts[j])
             /\ Light!Rank(callouts[i]) >= Light!Rank(callouts[j])
  <2>1. i # j
    BY <1>5
  <2>2. ~Light!SameFRU(callouts[i], callouts[j])
    BY <1>1, <2>1, Zenon DEF Answers
  <2> QED  BY <1>1, <1>5, <2>2 DEF ByPriority
<1>6. ASSUME NEW i \in 1..Len(callouts)
      PROVE  LET asked == {r \in requested : Light!SameFRU(r.callout, callouts[i])}
             IN  /\ \E r \in asked : r.callout.priority = callouts[i].priority
                 /\ \A r \in asked : Light!Rank(r.callout) <= Light!Rank(callouts[i])
  BY <1>1, Zenon DEF Answers
<1>7. \A r \in requested :
          \/ \E i \in 1..Len(callouts) : Light!SameFRU(r.callout, callouts[i])
          \/ Len(callouts) = maxNumberOfCallouts
  BY <1>1, Zenon DEF Answers
<1>8. Len(callouts) <= maxNumberOfCallouts
  BY <1>1 DEF Answers
<1> QED  BY <1>2, <1>3, <1>4, <1>5, <1>6, <1>7, <1>8, Zenon DEF Light!CalloutsSound

\* LightInv holds in every behaviour.
LEMMA LightHolds ==
  ASSUME LocationData
  PROVE  Spec => []LightInv
<1>1. Init => LightInv
  <2> SUFFICES ASSUME Init  PROVE LightInv
    OBVIOUS
  <2>1. /\ todo = <<[from |-> "start"]>> /\ callouts = << >>
        /\ active = FALSE /\ quiesced = ""
    BY DEF Init, Light!LightInit, Light!Init
  <2>2. CalloutsOrdered
    BY <2>1, NoneOrdered DEF CalloutsOrdered
  <2>3. IsList(todo) /\ AllPlaced(todo)
    BY <2>1, StartPlaced
  <2> QED  BY <2>1, <2>2, <2>3, Zenon
           DEF LightInv, Light!LampsShowGroup, Light!DeconfigIsShown, Light!BlockNamesPart
<1>2. LightInv /\ [Next]_allVars => LightInv'
  <2> SUFFICES ASSUME LightInv, [Next]_allVars  PROVE LightInv'
    OBVIOUS
  <2>1. CASE Light!LightNext
    BY <2>1, LightStep
  <2>2. CASE UNCHANGED calloutsVars
    <3>1. UNCHANGED <<todo, callouts, flags, active, serviceable, powerThermal, lamps,
                      critical, unwritten, sai, dbusDeconfig, eventLog, quiesced>>
      BY <2>2 DEF calloutsVars
    <3>2. Light!FirstGroup' = Light!FirstGroup /\ Light!getResolution' = Light!getResolution
      BY <3>1 DEF Light!FirstGroup, Light!getResolution
    <3> QED  BY <3>1, <3>2, Zenon
             DEF LightInv, CalloutsOrdered, Light!LampsShowGroup, Light!DeconfigIsShown,
                 Light!BlockNamesPart
  <2> QED  BY <2>1, <2>2, OneAtATime
<1> QED  BY <1>1, <1>2, PTL DEF Spec, allVars

\* For any data files, location codes, lookups that fail and limit of the list:
\* lamps show a whole group but for failed writes, the event log and the D-Bus
\* object show the PEL, and a block for a callout names a part (LightPath::activate, Manager::updateEventId,
\* hardwarePresent, checkPelAndQuiesce).
THEOREM IndicatorsRight ==
  ASSUME LocationData
  PROVE  Spec => []IndicatorsAreRight
<1>1. Spec => []LightInv
  BY LightHolds
<1>2. LightInv => IndicatorsAreRight
  BY DEF LightInv, IndicatorsAreRight
<1> QED  BY <1>1, <1>2, PTL

\* For any data files, location codes of at most 79 characters, lookups that
\* fail and limit of the list: no FRU is called out twice, each has the highest
\* priority it was asked for with, one is missing only from a full list, and all
\* of them are read again by the lengths that are written; a code the registry
\* trusts has been expanded; and hardware is taken out of service only as the
\* PEL says (Callouts::addCallout, SRC::addRegistryCallout, addJSONCallout,
\* createServiceActions).
THEOREM CalloutsRight ==
  ASSUME CalloutData
  PROVE  Spec => []CalloutsAreRight
<1>1. Spec => []LightInv
  BY LightHolds DEF CalloutData
<1>2. Init => SoundInv
  <2> SUFFICES ASSUME Init  PROVE SoundInv
    OBVIOUS
  <2>1. /\ todo = <<[from |-> "start"]>> /\ callouts = << >> /\ wordLength = 1
        /\ requested = {} /\ records = {}
    BY DEF Init, Light!LightInit, Light!Init
  <2>2. Answers(callouts, requested) /\ Takes(callouts, wordLength)
    BY <2>1, NoneSound DEF CalloutData
  <2>3. Due
    BY <2>1, StartDue DEF Due
  <2> QED  BY <2>1, <2>2, <2>3, Zenon
           DEF SoundInv, Light!TrustedCodesAreExpanded, Light!RecordsAreShown
<1>3. LightInv /\ SoundInv /\ [Next]_allVars => SoundInv'
  <2> SUFFICES ASSUME LightInv, SoundInv, [Next]_allVars  PROVE SoundInv'
    OBVIOUS
  <2>1. CASE Light!LightNext
    BY <2>1, SoundStep
  <2>2. CASE UNCHANGED calloutsVars
    <3>1. UNCHANGED <<todo, callouts, wordLength, flags, debug, requested, records, active, eventLog>>
      BY <2>2 DEF calloutsVars
    <3> QED  BY <3>1, Zenon
             DEF SoundInv, Due, Light!TrustedCodesAreExpanded, Light!RecordsAreShown
  <2> QED  BY <2>1, <2>2, OneAtATime
<1>4. LightInv /\ SoundInv => CalloutsAreRight
  BY SoundIsRight DEF SoundInv, CalloutsAreRight
<1> QED  BY <1>1, <1>2, <1>3, <1>4, PTL DEF Spec, allVars
=============================================================================
