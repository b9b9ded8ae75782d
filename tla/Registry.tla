------------------------------ MODULE Registry ------------------------------
(***************************************************************************)
(* What the data files say about an error: the message registry, and the   *)
(* device callout files of the system.  A JSON object is a record of the   *)
(* keys it has.  A lookup that throws returns Thrown.                      *)
(***************************************************************************)
EXTENDS Naturals, Sequences, FiniteSets, SequencesExt

Thrown == [ok |-> FALSE, list |-> <<>>]

Found(list) == [ok |-> TRUE, list |-> list]

\* The value of key k in a JSON object, or a default.
Get(json, k, default) == IF k \in DOMAIN json THEN json[k] ELSE default

\* The registry file that is read: the debug copy in /etc if there is one, even
\* when it turns out to be no JSON.
readRegistry(files) == IF "debug" \in DOMAIN files THEN files.debug ELSE files.installed

\* A component id can be derived from the reason code of a BMC error only.
getComponentID(e) == "componentID" \in DOMAIN e \/ Get(e, "type", "BD") = "BD"

\* getSRCReasonCode, getComponentID and the tables of the other fields.
ValidEntry(e) ==
    /\ e.invalid = {}
    /\ e.reasonCode # 0
    /\ getComponentID(e)

\* The first entry of that name.  There is none in a file that is no JSON, and
\* an entry with a field that is not valid is none.  The search throws when it
\* comes across an entry without an SRC.
lookup(files, name) ==
    LET registry == readRegistry(files).entries
        stop == {i \in DOMAIN registry :
                    registry[i].name = name \/ "reasonCode" \notin DOMAIN registry[i]}
        e == registry[CHOOSE i \in stop : \A j \in stop : i <= j]
    IN  IF ~readRegistry(files).isJSON \/ stop = {} THEN Found(<<>>)
        ELSE IF e.name # name THEN Thrown
        ELSE Found(IF "reasonCode" \in DOMAIN e /\ ValidEntry(e) THEN <<e>> ELSE <<>>)

\* The entry Manager::createPEL takes for a message.
entryFor(files, message) ==
    LET found == lookup(files, message)
    IN  IF found = Found(<<>>) THEN lookup(files, "Default") ELSE found

-----------------------------------------------------------------------------
(* Callouts of a registry entry.                                           *)

\* An element of the callouts array names systems it is for with the key
\* System or Systems, or has neither key (systems = {}).
Matches(element, names) == element.systems \cap names # {}

UsesElement(json, names, i) ==
    IF json[i].systems # {} THEN Matches(json[i], names)
    ELSE \A j \in 1..(i - 1) : ~Matches(json[j], names)

findCalloutList(json, names) ==
    LET list == FlattenSeq([i \in DOMAIN json |->
                    IF UsesElement(json, names, i) THEN json[i].list ELSE <<>>])
    IN  IF list = <<>> THEN Thrown ELSE Found(list)

\* A callout is a procedure, a symbolic FRU, one with a trusted location code,
\* or hardware, by the first of these keys it has.
Kind(json) ==
    CASE "Procedure" \in DOMAIN json -> "procedure"
      [] "SymbolicFRU" \in DOMAIN json -> "symbolic"
      [] "SymbolicFRUTrusted" \in DOMAIN json -> "trusted"
      [] OTHER -> "hardware"

makeRegistryCallout(json) ==
    [kind |-> Kind(json),
     priority |-> Get(json, "Priority", "H"),
     locCode |-> Get(json, "LocCode", ""),
     id |-> CASE Kind(json) = "procedure" -> json.Procedure
              [] Kind(json) = "symbolic" -> json.SymbolicFRU
              [] Kind(json) = "trusted" -> json.SymbolicFRUTrusted
              [] OTHER -> "",
     useInventoryLocCode |-> Get(json, "UseInventoryLocCode", FALSE)]

getCalloutsWithoutAD(json, names) ==
    LET found == findCalloutList(json, names)
    IN  [found EXCEPT !.list = [i \in DOMAIN @ |-> makeRegistryCallout(@[i])]]

getCalloutsUsingAD(json, names, ad) ==
    IF json.ADName \notin DOMAIN ad THEN Thrown
    ELSE LET matches == SelectSeq(json.byValue, LAMBDA e : e.value = ad[json.ADName])
         IN  CASE matches # <<>> -> getCalloutsWithoutAD(matches[1].callouts, names)
               [] matches = <<>> /\ "whenNoMatch" \in DOMAIN json ->
                      getCalloutsWithoutAD(json.whenNoMatch, names)
               [] OTHER -> Found(<<>>)

calloutUsesAdditionalData(json) == {"ADName", "byValue"} \subseteq DOMAIN json

getCallouts(json, names, ad) ==
    IF calloutUsesAdditionalData(json) THEN getCalloutsUsingAD(json, names, ad)
    ELSE getCalloutsWithoutAD(json.callouts, names)

-----------------------------------------------------------------------------
(* Callouts of a device path.                                              *)

\* The file of the first compatible name that has one, in either directory;
\* the name "" comes last.  files[n] is a set of the directories it is in.
getJSONFilename(names, files) ==
    LET there == SelectSeq(names \o <<"">>, LAMBDA n : files[n] # {})
    IN  IF there = <<>> THEN Thrown
        ELSE Found(<<IF "etc" \in files[there[1]] THEN <<"etc", there[1]>>
                     ELSE <<"usr", there[1]>> >>)

\* The kind of device a path leads to, by the words that occur in it.
getCalloutType(words) ==
    CASE {"fsi-master", "i2c-"} \subseteq words -> "FSI-I2C"
      [] {"fsi-master", "spi"} \subseteq words -> "FSI-SPI"
      [] "fsi-master" \in words -> "FSI"
      [] "i2c-" \in words -> "I2C"
      [] OTHER -> "unknown"

\* The search keys a type needs and a path may lack.
SearchKeys(type) ==
    CASE type = "I2C" -> {"bus"} [] type = "FSI" -> {"links"}
      [] type = "FSI-I2C" -> {"links", "bus"} [] OTHER -> {"links", "port"}

\* A bus behind a CFAM has the CFAM's number in front of its last two digits.
getI2CSearchKeys(bus) == bus % 100

\* An element without a location code, a name or a priority spoils the list.
extractCallouts(list) ==
    IF \A i \in DOMAIN list : {"LocationCode", "Name", "Priority"} \subseteq DOMAIN list[i]
    THEN Found(list) ELSE Thrown

\* path: words found in it, the keys that could be parsed with their values.
findCallouts(path, json) ==
    LET type == getCalloutType(path.words)
        keys == [k \in SearchKeys(type) |->
                    IF k = "bus" THEN getI2CSearchKeys(path.keys[k]) ELSE path.keys[k]]
    IN  IF type = "unknown" THEN Thrown
        ELSE IF ~(SearchKeys(type) \subseteq DOMAIN path.keys) THEN Thrown
        ELSE LET at == SelectSeq(json, LAMBDA e : e.type = type /\ e.keys = keys)
             IN  IF at = <<>> THEN Thrown ELSE extractCallouts(at[1].callouts)
=============================================================================
