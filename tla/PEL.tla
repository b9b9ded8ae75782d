-------------------------------- MODULE PEL --------------------------------
(***************************************************************************)
(* The contents of a PEL: how its headers are chosen, how the sections are *)
(* fitted into the space there is, and what the event log shows of it on   *)
(* D-Bus.  A section has the length in its header and the bytes of its     *)
(* data; the header's length is a 16 bit field.                            *)
(***************************************************************************)
EXTENDS Integers, Sequences, FiniteSets, Loops

CONSTANTS
    maxPELSize,
    FixedSize,      \* the bytes of the headers, PS, EH and MT sections
    DataSizes,      \* the bytes of user data
    MaxUserData,    \* a bound on the user data sections of one PEL
    RegHeaders,     \* what registry entries say of the headers
    LogSeverities,  \* the severities of event logs
    RawPELs         \* PELs from outside: a section count and sections

VARIABLES
    stage,          \* "idle", "fill", "built" or "done"
    sections,       \* PEL::_optionalSections, after those of FixedSize if the BMC made them
    sectionCount,   \* PrivateHeader::_sectionCount
    severity, eventType, actionFlags,   \* UserHeader
    given,          \* the action flags were not left to pel_rules
    external,       \* the PEL came from outside, with headers of its own
    terminateBit,   \* the SRC says the system terminates
    pelLog          \* the event log: its severity, and Hidden and Notify

vars == <<stage, sections, sectionCount, severity, eventType, actionFlags,
          given, external, terminateBit, pelLog>>

Unset == "unset"
NonErrorLog == {"Debug", "Informational", "Notice"}
PELSeverities == {"nonError", "recovered", "predictive", "unrecoverable",
                  "critical", "critSysTerm", "diagnostic", "symptom"}

\* The type of a severity is in its upper four bits.
SeverityType(sev) == IF sev = "critSysTerm" THEN "critical" ELSE sev

Init ==
    /\ stage = "idle"
    /\ sections = <<>>
    /\ sectionCount = 0
    /\ severity = "nonError" /\ eventType = "notApplicable" /\ actionFlags = {}
    /\ given = FALSE /\ external = FALSE /\ terminateBit = FALSE
    /\ pelLog = [severity |-> "Error", hidden |-> Unset, notify |-> Unset]

-----------------------------------------------------------------------------
(* The user header.                                                        *)

convertOBMCSeverityToPEL(sev) ==
    CASE sev \in NonErrorLog -> "nonError"
      [] sev = "Warning" -> "predictive"
      [] sev = "Critical" -> "critical"
      [] OTHER -> "unrecoverable"

\* UserHeader::getSeverity: the first entry for this system, else the last one
\* that is for any.  The names of the system are asked for only if needed.
getSeverity(list, names, namesKnown) ==
    LET own == {i \in DOMAIN list : list[i].system \in names}
        any == {i \in DOMAIN list : list[i].system = ""}
    IN  IF any # DOMAIN list /\ ~namesKnown THEN Unset
        ELSE IF own # {} THEN list[CHOOSE i \in own : \A j \in own : i <= j].sev
        ELSE IF any # {} THEN list[CHOOSE i \in any : \A j \in any : i >= j].sev
        ELSE Unset

\* A manufacturing value is used when QuiesceOnHwError is set.
headerSeverity(reg, logSev, ad, mfg, names, namesKnown) ==
    LET mfgSev == getSeverity(reg.mfgSeverity, names, namesKnown)
        regSev == getSeverity(reg.severity, names, namesKnown)
        sev == CASE mfg /\ mfgSev # Unset -> mfgSev
                 [] ~(mfg /\ mfgSev # Unset) /\ reg.severity = <<>> ->
                        convertOBMCSeverityToPEL(logSev)
                 [] OTHER -> IF regSev = Unset THEN "nonError" ELSE regSev
    IN  IF SeverityType(sev) = "critical" /\ "SYSTEM_TERM" \in ad THEN "critSysTerm" ELSE sev

\* pel_rules::check, from no flags.
rulesEventType(type, sev) ==
    IF SeverityType(sev) = "nonError" /\ type = "notApplicable"
    THEN "miscInformational" ELSE type

rulesActionFlags(type, sev) ==
    {"report"} \cup
    CASE SeverityType(sev) = "nonError" ->
            IF rulesEventType(type, sev) \in {"miscInformational", "tracing"}
            THEN {"hidden"} ELSE {}
      [] SeverityType(sev) = "recovered" -> {"hidden"}
      [] OTHER -> {"serviceAction", "callHome"}

-----------------------------------------------------------------------------
(* User data sections.                                                     *)

Pad4(n) == 4 * ((n + 3) \div 4)

UserData(bytes) == [size |-> (8 + Pad4(bytes)) % 65536, data |-> Pad4(bytes)]

\* A file with FFDC; CBOR has its padding noted in four more bytes.
makeFFDCuserDataSection(bytes, cbor) ==
    UserData(IF cbor THEN Pad4(bytes) + 4 ELSE Pad4(bytes))

\* PEL::populateFromRawData looks for section i after the lengths of those
\* before it, and PEL::size adds up the lengths in all headers.
populateAt(list, i) == FixedSize + SumTo([k \in DOMAIN list |-> list[k].size], i - 1)

pelSize(list) == populateAt(list, Len(list) + 1)

\* Seeded fault: the section's header is forgotten.
shrinkData(ud, newSize) ==
    LET data == 4 * (newSize \div 4)
    IN  [size |-> 8 + data, data |-> data]

\* UserData::shrink, to whole words and no less than one.
shrink(ud, newSize) ==
    LET data == 4 * ((newSize - 8) \div 4)
    IN  [size |-> 8 + data, data |-> data]

canShrink(ud, newSize) == newSize < 8 + ud.data /\ newSize >= 12

addUserDataSection(list, ud) ==
    LET room == maxPELSize - pelSize(list)
    IN  IF ud.size <= room THEN Append(list, ud)
        ELSE IF canShrink(ud, room) THEN Append(list, shrink(ud, room))
        ELSE list

\* PEL::addJournalSections: what does not fit whole is left out, and more than
\* a PEL can hold before its length is computed.
addJournalSection(list, bytes) ==
    IF bytes <= maxPELSize /\ pelSize(list) + UserData(bytes).size <= maxPELSize
    THEN Append(list, UserData(bytes)) ELSE list

\* PEL::flatten writes each section after the bytes of those before it.
flattenAt(list, i) == FixedSize + SumTo([k \in DOMAIN list |-> 8 + list[k].data], i - 1)

\* UserData::unflatten takes a section that has data.
unflattens(ud) == ud.size > 8

-----------------------------------------------------------------------------
(* Reading a PEL from outside.  The bytes of a section are as many as its  *)
(* header says; there may be fewer sections than the count says.           *)

PrivateHeaderValid(raw) ==
    raw.sections # <<>> /\ raw.sections[1].id = "PH" /\ raw.sections[1].version = 1
    /\ raw.count >= 2

UserHeaderValid(s) == s.id = "UH" /\ s.version = 1

ExtendedUserHeaderValid(s) == s.version = 1

FailingMTMSValid(s) == s.version = 1

\* The version in the SRC, not that in the section's header.
SRCValid(s) == s.version = 2

ExtendedUserDataValid(s) == s.size > 12

GenericValid(s) == s.size > 8

\* section_factory::create.  A second private header has a count of its own.
create(s) ==
    CASE s.id = "UD" -> unflattens(s)
      [] s.id = "PH" -> s.version = 1 /\ s.count >= 2
      [] s.id = "UH" -> UserHeaderValid(s)
      [] s.id = "ED" -> ExtendedUserDataValid(s)
      [] s.id \in {"PS", "SS"} -> SRCValid(s)
      [] s.id = "MT" -> FailingMTMSValid(s)
      [] s.id = "EH" -> ExtendedUserHeaderValid(s)
      [] OTHER -> GenericValid(s)

\* What comes after the sections that are counted is not looked at.
valid(raw) ==
    /\ PrivateHeaderValid(raw)
    /\ Len(raw.sections) >= raw.count
    /\ UserHeaderValid(raw.sections[2])
    /\ \A i \in 3..raw.count : create(raw.sections[i])

-----------------------------------------------------------------------------
(* Creating a PEL.                                                         *)

\* PrivateHeader::PrivateHeader: the final count is set later.
newPrivateHeader == sectionCount' = 1

updateTerminateBitInSRCSection(sev) == terminateBit' = (sev = "critSysTerm")

\* PEL::PEL up to the sections whose size depends on the error.
construct ==
    /\ stage = "idle"
    /\ newPrivateHeader
    /\ \E reg \in RegHeaders, logSev \in LogSeverities, mfg, namesKnown \in BOOLEAN,
          ad \in {{}, {"SYSTEM_TERM"}}, names \in {{}, {"s1"}} :
          LET mfgFlags == mfg /\ reg.mfgActionFlags # {}
          IN  /\ severity' = headerSeverity(reg, logSev, ad, mfg, names, namesKnown)
              /\ eventType' = CASE reg.eventType # Unset -> reg.eventType
                                [] reg.eventType = Unset
                                   /\ SeverityType(severity') = "nonError" ->
                                       "miscInformational"
                                [] OTHER -> "notApplicable"
              /\ actionFlags' = IF mfgFlags THEN reg.mfgActionFlags ELSE reg.actionFlags
              /\ given' = (actionFlags' # {Unset})
              /\ updateTerminateBitInSRCSection(severity')
              /\ pelLog' = [severity |-> logSev, hidden |-> Unset, notify |-> Unset]
    /\ stage' = "fill"
    /\ UNCHANGED <<sections, external>>

\* System information, AdditionalData, FFDC files and debug data.
addUserData ==
    /\ stage = "fill"
    /\ Len(sections) < MaxUserData
    /\ \E bytes \in DataSizes, cbor \in BOOLEAN :
          sections' = addUserDataSection(sections, makeFFDCuserDataSection(bytes, cbor))
    /\ UNCHANGED <<stage, sectionCount, severity, eventType, actionFlags, given,
                   external, terminateBit, pelLog>>

addJournalSections ==
    /\ stage = "fill"
    /\ Len(sections) < MaxUserData
    /\ \E bytes \in DataSizes : sections' = addJournalSection(sections, bytes)
    /\ UNCHANGED <<stage, sectionCount, severity, eventType, actionFlags, given,
                   external, terminateBit, pelLog>>

\* The count is set, and flags nobody gave are left to the rules.
checkRulesAndFix ==
    /\ stage = "fill"
    /\ stage' = "built"
    /\ sectionCount' = (5 + Len(sections)) % 256
    /\ IF given THEN UNCHANGED <<actionFlags, eventType>>
       ELSE /\ actionFlags' = rulesActionFlags(eventType, severity)
            /\ eventType' = rulesEventType(eventType, severity)
    /\ UNCHANGED <<sections, severity, given, external, terminateBit, pelLog>>

\* ExtendedUserData::updateDataSection, with its shrink: the section does not get
\* bigger.  Four bytes of its data are fields.
updateDataSection(ed, bytes) ==
    LET data == 4 + 4 * (bytes \div 4)
    IN  IF bytes >= 4 /\ 4 + bytes < ed.data
        THEN [id |-> "ED", version |-> ed.version, size |-> 8 + data, data |-> data]
        ELSE ed

\* What becomes of the sections: in a PEL of Hostboot the first section of extended
\* user data may be one the BMC is to fill in.
updateSysInfoInExtendedUserDataSection(list) ==
    LET eds == {i \in DOMAIN list : list[i].id = "ED"}
        first == {i \in eds : \A j \in eds : i <= j}
    IN  {list} \cup {[list EXCEPT ![i] = updateDataSection(list[i], Pad4(bytes))] :
                        i \in first, bytes \in DataSizes}

\* A PEL from the host: everything else in it is as it came.
addPEL(raw) ==
    /\ stage = "idle"
    /\ valid(raw)
    /\ \E sev \in PELSeverities, flags \in {{"report"}, {"report", "hidden"},
                                            {"report", "serviceAction", "callHome"}},
          logSev \in LogSeverities :
          /\ severity' = sev /\ actionFlags' = flags
          /\ pelLog' = [severity |-> logSev, hidden |-> Unset, notify |-> Unset]
    /\ given' = TRUE /\ external' = TRUE
    /\ sections' \in updateSysInfoInExtendedUserDataSection(SubSeq(raw.sections, 3, raw.count))
    /\ sectionCount' = raw.count
    /\ stage' = "built"
    /\ UNCHANGED <<eventType, terminateBit>>

\* BadHostPEL is logged, and the event log is deleted.
addInvalidPEL(raw) ==
    /\ stage = "idle"
    /\ ~valid(raw)
    /\ stage' = "done" /\ external' = TRUE
    /\ pelLog' = [severity |-> Unset, hidden |-> Unset, notify |-> Unset]
    /\ UNCHANGED <<sections, sectionCount, severity, eventType, actionFlags, given, terminateBit>>

-----------------------------------------------------------------------------
(* What the event log shows.                                               *)

convertPELSeverityToOBMC(sev) ==
    CASE sev \in {"nonError", "recovered"} -> "Informational"
      [] sev \in {"predictive", "symptom"} -> "Warning"
      [] sev = "critical" -> "Critical"
      [] OTHER -> "Error"

\* Seeded fault: only critical PELs are looked at.
fixupCriticalOnly(logSev, sev) == IF sev = "critical" THEN "Critical" ELSE logSev

fixupLogSeverity(logSev, sev) ==
    LET nonErrorPEL == sev \in {"nonError", "recovered"}
    IN  CASE nonErrorPEL /\ logSev \notin NonErrorLog -> "Informational"
          [] ~nonErrorPEL /\ logSev \in NonErrorLog -> convertPELSeverityToOBMC(sev)
          [] ~nonErrorPEL /\ logSev \notin NonErrorLog /\ sev = "critical" -> "Critical"
          [] OTHER -> logSev

isHidden(sev, flags) ==
    ~ \/ SeverityType(sev) # "nonError" /\ "report" \in flags /\ "hidden" \notin flags
      \/ SeverityType(sev) = "nonError" /\ "serviceAction" \in flags

\* updateDBusSeverity (not for a PEL from outside), createPELEntry and
\* setServiceProviderNotifyFlag.
publish ==
    /\ stage = "built"
    /\ stage' = "done"
    /\ pelLog' = [severity |-> IF external THEN pelLog.severity
                               ELSE fixupLogSeverity(pelLog.severity, SeverityType(severity)),
                  hidden |-> isHidden(severity, actionFlags),
                  notify |-> "callHome" \in actionFlags]
    /\ UNCHANGED <<sections, sectionCount, severity, eventType, actionFlags, given,
                   external, terminateBit>>

NextPEL ==
    /\ stage = "done"
    /\ stage' = "idle" /\ sections' = <<>> /\ sectionCount' = 0
    /\ severity' = "nonError" /\ eventType' = "notApplicable" /\ actionFlags' = {}
    /\ given' = FALSE /\ external' = FALSE /\ terminateBit' = FALSE
    /\ pelLog' = [severity |-> "Error", hidden |-> Unset, notify |-> Unset]

Next ==
    \/ construct \/ addUserData \/ addJournalSections \/ checkRulesAndFix
    \/ \E raw \in RawPELs : addPEL(raw) \/ addInvalidPEL(raw)
    \/ publish \/ NextPEL

Spec == Init /\ [][Next]_vars

-----------------------------------------------------------------------------
(* Properties.                                                             *)

\* A section is found again by the lengths of those before it: the PEL is in
\* its limit, each header has the length of its data and each section starts
\* on a word (PEL::addUserDataSection, addJournalSections), unless the length of
\* a section overflowed its 16 bits.  A PEL that was accepted from outside can
\* be read back as well, with the system information the BMC filled in
\* (PEL::valid, updateSysInfoInExtendedUserDataSection), whatever its size.
SectionsReadBack ==
    \/ \E i \in DOMAIN sections : 8 + sections[i].data > 65535
    \/ external /\ \A i \in DOMAIN sections :
                       create(sections[i]) /\ sections[i].size = 8 + sections[i].data
    \/ /\ ~external
       /\ flattenAt(sections, Len(sections) + 1) <= maxPELSize
       /\ \A i \in DOMAIN sections :
              /\ populateAt(sections, i) = flattenAt(sections, i)
              /\ unflattens(sections[i])
              /\ sections[i].size = 8 + sections[i].data /\ sections[i].size % 4 = 0
       /\ stage \in {"built", "done"} => sectionCount = 5 + Len(sections)

\* The event log of a PEL the BMC made agrees with it: an informational or
\* recovered PEL has no Warning or Critical event log, and none else an
\* informational one; one whose flags were left to the rules is hidden and does
\* not call home exactly when it is such a PEL
\* (updateDBusSeverity, checkRulesAndFix, createPELEntry).
LogAgreesWithPEL ==
    stage = "done" /\ ~external =>
        LET nonError == SeverityType(severity) \in {"nonError", "recovered"}
        IN  /\ nonError <=> pelLog.severity \in NonErrorLog
            /\ SeverityType(severity) = "critical" => pelLog.severity = "Critical"
            /\ ~given => /\ pelLog.hidden = nonError
                         /\ pelLog.notify = ~nonError
            /\ terminateBit => pelLog.severity = "Critical"
=============================================================================
