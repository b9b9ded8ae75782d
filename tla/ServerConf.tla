----------------------------- MODULE ServerConf -----------------------------
(***************************************************************************)
(* The daemon that configures remote logging (phosphor-rsyslog-config):    *)
(* three D-Bus properties, the rsyslog configuration file they are written *)
(* to, and the restart of rsyslog that makes it read the file.  Nothing    *)
(* checks that the file was written; the restart is a call to systemd that *)
(* may fail; the daemon may die on the way and reads the file when it is   *)
(* started again.                                                          *)
(***************************************************************************)
EXTENDS Integers

CONSTANTS
    Names,   \* addresses without a colon: host names and IPv4 addresses
    IPv6,    \* addresses inet_pton takes for IPv6
    Scoped,  \* IPv6 addresses with a zone, which only getaddrinfo takes
    Invalid, \* what neither takes
    Ports    \* port numbers other than 0

NoAddress == ""
Addresses == Names \cup IPv6 \cup Scoped \cup Invalid \cup {NoAddress}
Transports == {"TCP", "UDP"}
Settings == [addr : Addresses, port : Ports \cup {0}, proto : Transports]

\* What can be in the file: a forwarding rule, or one line without.
NoRule(text) == [rule |-> text]
Null == NoRule("/dev/null")
Empty == NoRule("")
Comment == NoRule("#")
HasRule(c) == c \notin {Null, Empty, Comment}

VARIABLES
    settings,      \* the properties: address, port and transport protocol
    confFile,      \* the file
    rsyslogConf,   \* the file as rsyslog last read it
    restartQueued, \* has systemd a restart of rsyslog to do?
    unread,        \* history: was the file written without a restart being asked for?
    diverged       \* history: was the file, or the property, last not updated?

vars == <<settings, confFile, rsyslogConf, restartQueued, unread, diverged>>

Defaults == [addr |-> NoAddress, port |-> 0, proto |-> "TCP"]

isIPv6Address(a) == a \in IPv6

\* The rule writeConfig writes for settings s.
Config(s) ==
    IF s.port # 0 /\ s.addr # NoAddress
    THEN [rule |-> s, brackets |-> isIPv6Address(s.addr)]
    ELSE Null

\* Can the rule be taken apart again?  Without brackets the first colon has to
\* be the one before the port.
Parses(c) == HasRule(c) /\ (c.brackets \/ c.rule.addr \in Names)

\* Seeded fault: everything is TCP.
parseAsTCP(c) == IF Parses(c) THEN [c.rule EXCEPT !.proto = "TCP"] ELSE Defaults

\* restore(): the properties keep their defaults when nothing is parsed.
parseConfig(c) == IF Parses(c) THEN c.rule ELSE Defaults

Init ==
    /\ confFile \in {Comment, Null}
    /\ rsyslogConf = confFile
    /\ settings = parseConfig(confFile)
    /\ restartQueued = FALSE
    /\ unread = FALSE
    /\ diverged = FALSE

-----------------------------------------------------------------------------
(* writeConfig(), with what can become of it, and the property it is for.  *)

\* The call to systemd throws: the file is new, the property is not.
RestartFails(s) ==
    /\ confFile' = Config(s)
    /\ unread' = TRUE
    /\ diverged' = TRUE
    /\ UNCHANGED <<settings, rsyslogConf, restartQueued>>

Written(s) ==
    /\ confFile' = Config(s)
    /\ restartQueued' = TRUE
    /\ settings' = s
    /\ unread' = FALSE
    /\ diverged' = FALSE
    /\ UNCHANGED rsyslogConf

\* The file does not open, or the disk is full; the stream's state is not looked at.
WriteFails(s) ==
    /\ confFile' \in {confFile, Empty}
    /\ restartQueued' = TRUE
    /\ settings' = s
    /\ unread' = FALSE
    /\ diverged' = TRUE
    /\ UNCHANGED rsyslogConf

\* The daemon dies after it has truncated or written the file, and restarts.
Dies(s) ==
    /\ confFile' \in {Empty, Config(s)}
    /\ settings' = parseConfig(confFile')
    /\ unread' = TRUE
    /\ diverged' = FALSE
    /\ UNCHANGED <<rsyslogConf, restartQueued>>

writeConfig(s) == Written(s) \/ WriteFails(s) \/ RestartFails(s) \/ Dies(s)

-----------------------------------------------------------------------------
addressValid(a) == a \notin Invalid

address(v) ==
    /\ v # settings.addr
    /\ v = NoAddress \/ addressValid(v)
    /\ writeConfig([settings EXCEPT !.addr = v])

port(v) ==
    /\ v # settings.port
    /\ writeConfig([settings EXCEPT !.port = v])

transportProtocol(v) ==
    /\ v # settings.proto
    /\ writeConfig([settings EXCEPT !.proto = v])

hostnameChanged ==
    /\ restartQueued' = TRUE
    /\ unread' = FALSE
    /\ UNCHANGED <<settings, confFile, rsyslogConf, diverged>>

\* The constructor: restore().
Restart ==
    /\ settings' = parseConfig(confFile)
    /\ diverged' = FALSE
    /\ UNCHANGED <<confFile, rsyslogConf, restartQueued, unread>>

\* systemd restarts rsyslog, which reads its file.
RestartUnit ==
    /\ restartQueued
    /\ rsyslogConf' = confFile
    /\ restartQueued' = FALSE
    /\ unread' = FALSE
    /\ UNCHANGED <<settings, confFile, diverged>>

Next ==
    \/ \E a \in Addresses : address(a)
    \/ \E p \in Ports \cup {0} : port(p)
    \/ \E t \in Transports : transportProtocol(t)
    \/ hostnameChanged
    \/ Restart
    \/ RestartUnit

Spec == Init /\ [][Next]_vars

-----------------------------------------------------------------------------
(* Properties.                                                             *)

\* Where a file sends the logs.
Target(c) == IF HasRule(c) THEN {c.rule} ELSE {}

\* Where the settings say the logs go.
Wanted(s) == IF s.addr # NoAddress /\ s.port # 0 THEN {s} ELSE {}

\* Remote logging is what the properties say it is: after any mix of changes,
\* failures and restarts, the file sends the logs where the properties say,
\* unless the last write or restart failed; a restart of the daemon, which reads
\* the file, changes no enabled configuration.  (An address with a zone is
\* written without brackets and is not found again after a restart.)
PropertiesTellTarget ==
    ~diverged /\ (\A s \in Target(confFile) : s.addr \notin Scoped) =>
        Target(confFile) = Wanted(settings)

\* rsyslog works with the file, or a restart is queued that makes it: no
\* change of the file goes unnoticed, unless a restart was never asked for
\* because the call failed or the daemon died before it.
RsyslogFollowsFile == rsyslogConf = confFile \/ restartQueued \/ unread
=============================================================================
