-------------------------------- MODULE SRC --------------------------------
(***************************************************************************)
(* The SRC section of a PEL the BMC creates, and the callouts in it.       *)
(* Callouts come from an inventory path and a device path in the           *)
(* AdditionalData, from the message registry and from JSON in an FFDC      *)
(* file, in this order; each needs lookups on D-Bus, any of which may      *)
(* fail.  An inventory path is written as the unexpanded location code of  *)
(* the FRU there, which is also its part number.                           *)
(***************************************************************************)
EXTENDS Integers, Registry, Loops

CONSTANTS
    maxNumberOfCallouts,
    Expand,         \* location codes, and what they expand to on this system
    Length,         \* the characters of a location code, fewer than 80
    RegistryFiles,  \* the message registry files, as they may be found
    Messages,       \* the messages of the errors
    ADs, SystemNames, DeviceFiles, DeviceJSON, JSONCallouts

VARIABLES
    todo,       \* callouts that are still to be added, with their source
    callouts,   \* Callouts::_callouts
    wordLength, \* Callouts::_subsectionWordLength
    flags,      \* the error status flags in hex word 5
    hexData,    \* the user defined hex words that were filled in
    debug,      \* debug data has been added
    requested,  \* every callout handed to addCallout, with its origin
    records     \* the guard and deconfiguration records that were created

vars == <<todo, callouts, wordLength, flags, hexData, debug, requested, records>>

maxMRUs == 15
uint8 == 0..255

Init ==
    /\ todo = <<[from |-> "start"]>>
    /\ callouts = <<>>
    /\ wordLength = 1
    /\ flags = {}
    /\ hexData = {}
    /\ debug = FALSE
    /\ requested = {}
    /\ records = {}

-----------------------------------------------------------------------------
(* Lookups on D-Bus, each of which finds what it asks for or fails.        *)

getLocationCode(path, found) == IF found THEN Expand[path] ELSE ""

\* The code stays as it is when it cannot be expanded.
expandLocationCode(loc, found) == IF loc # "" /\ found THEN Expand[loc] ELSE loc

\* The part number, with serial number and CCIN.
getHWCalloutFields(path, found) == IF found THEN path ELSE ""

getSystemNames(names, found) == IF found THEN names ELSE <<>>

-----------------------------------------------------------------------------
(* Callout, FRUIdentity and MRU.                                           *)

\* The priorities in their order: all of the mediums are the same.
Rank(c) == CASE c.priority = "H" -> 10 [] c.priority = "L" -> 8 [] OTHER -> 9

Priorities == {"H", "M", "A", "B", "C", "L"}

\* operator==: location codes decide if there are any, then the procedure,
\* then the part number (a symbolic FRU's name is one).
SameFRU(a, b) ==
    IF a.loc # "" \/ b.loc # "" THEN a.loc = b.loc
    ELSE (a.kind = "procedure") = (b.kind = "procedure") /\ a.id = b.id

\* A location code ends in a NULL and is padded to 4 bytes.  (One of 80 or more
\* characters would be cut; the model has none.)
LocationSize(loc) == IF loc = "" THEN 0 ELSE 4 * ((Length[loc] \div 4) + 1)

MRUSize(n) == IF n = 0 THEN 0 ELSE 8 + 8 * (IF n > maxMRUs THEN maxMRUs ELSE n)

flattenedSize(c) ==
    4 + LocationSize(c.loc) + (IF c.kind = "hardware" THEN 28 ELSE 12) + MRUSize(c.mrus)

\* Registry names of symbolic FRUs are converted; one that is not in the table
\* becomes the FRU "INVALID".
setSymbolicFRU(fru) == IF fru = "notInTable" THEN "INVALID" ELSE fru

-----------------------------------------------------------------------------
(* Callouts::addCallout.                                                   *)

\* The callouts of a priority, in their order.
OfRank(list, r) ==
    LET at == InOrder({i \in DOMAIN list : Rank(list[i]) = r}, Len(list))
    IN  [n \in DOMAIN at |-> list[at[n]]]

\* The list is sorted by priority each time; for so few callouts std::sort is an
\* insertion sort, which keeps equals in their order.
SortByPriority(list) == OfRank(list, 10) \o OfRank(list, 9) \o OfRank(list, 8)

\* Seeded fault: the first priority stays.
addCalloutFirstPriority(list, c) ==
    SortByPriority(IF \/ \E i \in DOMAIN list : SameFRU(c, list[i])
                      \/ Len(list) = maxNumberOfCallouts
                   THEN list ELSE Append(list, c))

\* The new list.  A callout of the same FRU is kept and may get the priority of
\* the new one.
addCallout(list, c) ==
    LET same == {i \in DOMAIN list : SameFRU(c, list[i])}
        i == CHOOSE k \in same : \A j \in same : k <= j
    IN  SortByPriority(
            CASE same # {} /\ Rank(c) > Rank(list[i]) ->
                    [list EXCEPT ![i].priority = c.priority]
              [] same # {} /\ Rank(c) <= Rank(list[i]) -> list
              [] same = {} /\ Len(list) < maxNumberOfCallouts -> Append(list, c)
              [] OTHER -> list)

\* Hand the callouts in cs, none or one, to addCallout.
Add(from, cs, problem) ==
    /\ debug' = (debug \/ problem)
    /\ IF cs = <<>> THEN UNCHANGED <<callouts, wordLength, requested>>
       ELSE /\ callouts' = addCallout(callouts, cs[1])
            /\ wordLength' = wordLength + IF Len(callouts') > Len(callouts)
                                          THEN flattenedSize(cs[1]) \div 4 ELSE 0
            /\ requested' = requested \cup {[from |-> from, callout |-> cs[1]]}

Callout(kind, priority, loc, id) ==
    [kind |-> kind, priority |-> priority, loc |-> loc, id |-> id, mrus |-> 0]

\* addLocationCodeOnlyCallout
LocationOnly(loc, priority) == <<Callout("hardware", priority, loc, "")>>

\* addInventoryCallout: without a location code there is no callout, without
\* VPD there is one of high priority with empty fields.
InventoryCallout(path, priority, loc, mrus, codeFound, vpdFound) ==
    IF loc = "" /\ ~codeFound THEN <<>>
    ELSE <<[Callout("hardware", IF vpdFound THEN priority ELSE "H",
                    IF loc = "" THEN getLocationCode(path, codeFound) ELSE loc,
                    getHWCalloutFields(path, vpdFound)) EXCEPT !.mrus = mrus]>>

-----------------------------------------------------------------------------
(* The constructor, up to the first callout.                               *)

\* Only words 6 to 9 can be set, and only from data that is there.
setUserDefinedHexWords(reg, ad) ==
    {w \in DOMAIN reg.hexwords : w \in 6..9 /\ reg.hexwords[w] \in DOMAIN ad}

\* An I2C bus (with its address) that is no number, or a lookup that throws,
\* leaves debug data and no callouts.
DevicePathCallouts(ad, names, namesKnown) ==
    LET file == getJSONFilename(names, DeviceFiles)
    IN  CASE "CALLOUT_DEVICE_PATH" \in DOMAIN ad ->
                IF namesKnown /\ file.ok
                THEN findCallouts(ad.CALLOUT_DEVICE_PATH, DeviceJSON[file.list[1]])
                ELSE Thrown
          [] "CALLOUT_IIC_BUS" \in DOMAIN ad /\ "CALLOUT_DEVICE_PATH" \notin DOMAIN ad ->
                IF namesKnown /\ file.ok /\ ad.CALLOUT_IIC_BUS \in Nat
                THEN LET at == SelectSeq(DeviceJSON[file.list[1]], LAMBDA e :
                                   e.type = "I2C" /\ e.keys = [bus |-> ad.CALLOUT_IIC_BUS])
                     IN  IF at = <<>> THEN Thrown ELSE extractCallouts(at[1].callouts)
                ELSE Thrown
          [] OTHER -> Found(<<>>)

\* Without the names of the system the registry is searched all the same.
getRegistryCallouts(reg, names, ad) ==
    IF "callouts" \in DOMAIN reg THEN getCallouts(reg.callouts, ToSet(names), ad)
    ELSE Found(<<>>)

\* Only H, M or L can be asked for; otherwise the priority is high.
calloutPriority(ad) ==
    IF "CALLOUT_PRIORITY" \in DOMAIN ad /\ ad.CALLOUT_PRIORITY \in {"H", "M", "L"}
    THEN ad.CALLOUT_PRIORITY ELSE "H"

From(source, list) == [i \in DOMAIN list |-> [from |-> source, c |-> list[i]]]

\* Each callout fails for itself.  (JSON that is no array is not modelled.)
addJSONCallouts(json) == From("json", json)

\* The first registry callout may take the location code of the inventory path,
\* which is then no callout of its own.
useInvForSymbolicFRULocCode(list) ==
    /\ list # <<>>
    /\ list[1].useInventoryLocCode
    /\ list[1].kind = "trusted"

\* The callouts in the order in which they are added.
addCallouts(ad, device, registry, json) ==
    LET item == Get(ad, "CALLOUT_INVENTORY_PATH", "")
        use == useInvForSymbolicFRULocCode(registry)
    IN  (IF item # "" /\ ~use
         THEN From("inventory", <<[path |-> item, priority |-> calloutPriority(ad)]>>)
         ELSE <<>>)
        \o From("device", device)
        \o [i \in DOMAIN registry |->
               [from |-> "registry", c |-> registry[i],
                path |-> IF i = 1 /\ use THEN item ELSE ""]]
        \o addJSONCallouts(json)
        \o <<[from |-> "service", c |-> json]>>

construct(ad) ==
    /\ todo = <<[from |-> "start"]>>
    /\ \E files \in RegistryFiles, message \in Messages, names \in SystemNames,
          json \in JSONCallouts, forRegistry, forDevice \in BOOLEAN :
          LET entry == entryFor(files, message)
              reg == entry.list[1]
              registry == getRegistryCallouts(reg, getSystemNames(names, forRegistry), ad)
              device == DevicePathCallouts(ad, names, forDevice)
          IN  /\ entry.ok /\ entry.list # <<>>
              /\ todo' = addCallouts(ad, device.list, registry.list, json)
              /\ flags' = reg.flags
              /\ hexData' = setUserDefinedHexWords(reg, ad)
              /\ debug' = (\/ ~registry.ok \/ ~device.ok
                           \/ hexData' # DOMAIN reg.hexwords)
    /\ UNCHANGED <<callouts, wordLength, requested, records>>

-----------------------------------------------------------------------------
(* One action for each source of callouts.                                 *)

Pending(source) == todo # <<>> /\ todo[1].from = source

addInventoryCallout ==
    /\ Pending("inventory")
    /\ \E codeFound, vpdFound \in BOOLEAN :
          LET c == todo[1].c
          IN  Add("inventory",
                  InventoryCallout(c.path, c.priority, "", 0, codeFound, vpdFound),
                  ~codeFound \/ ~vpdFound)
    /\ todo' = Tail(todo)
    /\ UNCHANGED <<flags, hexData, records>>

\* The first callout of a path always leaves debug data.
addDevicePathCallout ==
    /\ Pending("device")
    /\ \E expanded, pathFound, vpdFound \in BOOLEAN :
          LET c == todo[1].c
              priority == IF c.Priority \in Priorities THEN c.Priority ELSE "H"
          IN  Add("device",
                  IF expanded /\ pathFound
                  THEN InventoryCallout(c.LocationCode, priority, Expand[c.LocationCode],
                                        0, TRUE, vpdFound)
                  ELSE LocationOnly(c.LocationCode, priority),
                  TRUE)
    /\ todo' = Tail(todo)
    /\ UNCHANGED <<flags, hexData, records>>

\* A location code is trusted when it comes from the inventory, or is there and
\* expanded.
isTrusted(fromInventory, loc, locExpanded) ==
    fromInventory \/ (loc # "" /\ locExpanded)

\* No FRU has the empty location code.
addRegistryCallout ==
    /\ Pending("registry")
    /\ \E expands, pathFound, codeFound, vpdFound \in BOOLEAN :
          LET c == todo[1].c
              path == todo[1].path
              locExpanded == c.locCode = "" \/ expands
              loc == expandLocationCode(c.locCode, expands)
              trustedLoc == IF path = "" THEN loc ELSE getLocationCode(path, codeFound)
              trusted == isTrusted(path # "" /\ codeFound, trustedLoc, locExpanded)
          IN  Add("registry",
                  CASE c.kind = "procedure" -> <<Callout("procedure", c.priority, "", c.id)>>
                    [] c.kind = "symbolic" ->
                          <<Callout("symbolic", c.priority, loc, setSymbolicFRU(c.id))>>
                    [] c.kind = "trusted" ->
                          <<Callout(IF trusted THEN "trusted" ELSE "symbolic", c.priority,
                                    trustedLoc, setSymbolicFRU(c.id))>>
                    [] c.kind = "hardware" /\ loc # "" /\ locExpanded /\ pathFound ->
                          InventoryCallout(c.locCode, c.priority, loc, 0, codeFound, vpdFound)
                    [] OTHER -> IF loc = "" THEN <<>> ELSE LocationOnly(loc, c.priority),
                  \/ ~locExpanded
                  \/ c.kind = "trusted" /\ path # "" /\ ~codeFound
                  \/ c.kind = "hardware" /\ (~pathFound \/ ~vpdFound))
    /\ todo' = Tail(todo)
    /\ UNCHANGED <<flags, hexData, records>>

hasPriority(json) == Get(json, "Priority", "") \in Priorities

\* The number of MRUs; one without an id or a priority is none.
getMRUsFromJSON(json) == Len(SelectSeq(json, LAMBDA mru : hasPriority(mru) /\ "ID" \in DOMAIN mru))

\* A JSON callout is left out when it has no valid priority, or is for hardware
\* and has neither an inventory path nor a location code.  The flags are set
\* for hardware whose inventory path is known only.
addJSONCallout ==
    /\ Pending("json")
    /\ \E expands, pathFound, codeFound, vpdFound \in BOOLEAN :
          LET c == todo[1].c
              unexpanded == Get(c, "LocationCode", "")
              loc == expandLocationCode(unexpanded, expands)
              valid == hasPriority(c)
              known == "InventoryPath" \in DOMAIN c \/ (unexpanded # "" /\ pathFound)
              path == Get(c, "InventoryPath", unexpanded)
              hardware == valid /\ Kind(c) = "hardware" /\ known
          IN  /\ Add("json",
                     CASE ~valid -> <<>>
                       [] valid /\ Kind(c) = "procedure" ->
                             <<Callout("procedure", c.Priority, "", c.Procedure)>>
                       [] valid /\ Kind(c) = "symbolic" ->
                             <<Callout(IF loc # "" /\ Get(c, "TrustedLocationCode", FALSE)
                                       THEN "trusted" ELSE "symbolic",
                                       c.Priority, loc, c.SymbolicFRU)>>
                       [] hardware -> InventoryCallout(path, c.Priority, loc, getMRUsFromJSON(Get(c, "MRUs", <<>>)),
                                                       codeFound, vpdFound)
                       [] OTHER -> IF unexpanded = "" THEN <<>> ELSE LocationOnly(loc, c.Priority),
                     \/ ~valid
                     \/ unexpanded # "" /\ ~expands
                     \/ Kind(c) = "hardware"
                        /\ ~(known /\ vpdFound /\ (loc # "" \/ codeFound)))
              /\ flags' = flags \cup
                    {f \in {"deconfigured", "guarded"} :
                        hardware /\ Get(c, IF f = "guarded" THEN "Guarded" ELSE "Deconfigured", FALSE)}
    /\ todo' = Tail(todo)
    /\ UNCHANGED <<hexData, records>>

\* The JSON callouts that ask for a record of a kind and can have one.
asksFor(key, json) == {i \in DOMAIN json : Get(json[i], key, FALSE) /\ "EntityPath" \in DOMAIN json[i]}

\* Each call of createGuardRecord and deconfigureTgt may fail.
createGuardRecords(json) ==
    SUBSET {<<"guarded", json[i].EntityPath>> : i \in asksFor("Guarded", json)}

createDeconfigRecords(json) ==
    SUBSET {<<"deconfigured", json[i].EntityPath>> : i \in asksFor("Deconfigured", json)}

createServiceActions ==
    /\ Pending("service")
    /\ \E guards \in createGuardRecords(todo[1].c),
          deconfigs \in createDeconfigRecords(todo[1].c) :
          records' = records \cup guards \cup deconfigs
    /\ todo' = Tail(todo)
    /\ UNCHANGED <<callouts, wordLength, flags, hexData, debug, requested>>

\* The next PEL has an SRC of its own.
NextPEL ==
    /\ todo = <<>>
    /\ todo' = <<[from |-> "start"]>>
    /\ callouts' = <<>> /\ wordLength' = 1
    /\ flags' = {} /\ hexData' = {} /\ debug' = FALSE
    /\ requested' = {} /\ records' = {}

Next ==
    \/ \E ad \in ADs : construct(ad)
    \/ addInventoryCallout \/ addDevicePathCallout
    \/ addRegistryCallout \/ addJSONCallout \/ createServiceActions \/ NextPEL

Spec == Init /\ [][Next]_vars

\* Callouts::Callouts(Stream&): how many are read, by the length in words.
calloutsRead ==
    LET read[k \in 0..Len(callouts)] ==
            IF k = 0 THEN [n |-> 0, length |-> 4]
            ELSE IF 4 * wordLength > read[k - 1].length
            THEN [n |-> read[k - 1].n + 1,
                  length |-> read[k - 1].length + flattenedSize(callouts[k])]
            ELSE read[k - 1]
    IN  read[Len(callouts)]

-----------------------------------------------------------------------------
(* Properties.                                                             *)

\* Whatever the sources ask for and whichever lookups fail (Callouts::addCallout):
\* no FRU is called out twice, the callouts are in the order of their priority
\* and each has the highest priority it was requested with; one is left out
\* only when the list is full; and by the lengths written with them, which
\* fit their fields, all of them are read again.
CalloutsSound ==
    /\ Len(callouts) <= maxNumberOfCallouts
    /\ \A i, j \in DOMAIN callouts :
          i < j => /\ ~SameFRU(callouts[i], callouts[j])
                   /\ Rank(callouts[i]) >= Rank(callouts[j])
    /\ \A i \in DOMAIN callouts :
          LET asked == {r \in requested : SameFRU(r.callout, callouts[i])}
          IN  /\ \E r \in asked : r.callout.priority = callouts[i].priority
              /\ \A r \in asked : Rank(r.callout) <= Rank(callouts[i])
    /\ \A r \in requested :
          \/ \E i \in DOMAIN callouts : SameFRU(r.callout, callouts[i])
          \/ Len(callouts) = maxNumberOfCallouts
    /\ calloutsRead = [n |-> Len(callouts), length |-> 4 * wordLength]
    /\ \A i \in DOMAIN callouts : flattenedSize(callouts[i]) \in uint8

\* A location code the registry calls trusted has been expanded: it is one of
\* this system's, so hardware found there later is the hardware that failed
\* (Manager::clearPowerThermalDeconfigFlag relies on it).
TrustedCodesAreExpanded ==
    \A r \in requested :
        r.from = "registry" /\ r.callout.kind = "trusted" =>
            r.callout.loc \in {Expand[l] : l \in DOMAIN Expand}
=============================================================================
