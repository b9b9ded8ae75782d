--------------------------- MODULE MCPELRepository --------------------------
(***************************************************************************)
(* Small instances of PELRepository for TLC: the PELs that arrive.         *)
(***************************************************************************)
EXTENDS PELRepository

Kind(creator, severity, hidden, guard, size) ==
    [creator |-> creator, severity |-> severity, hidden |-> hidden, guard |-> guard,
     sizeOnDisk |-> size]

\* Hidden recovered PELs of the BMC, which count as informational and one of which
\* fits the share of its class, and
\* hostboot PELs that guard hardware, none of which does.
InfoAndGuard == {Kind("bmc", "recovered", TRUE, FALSE, 1),
                 Kind("hostboot", "unrecoverable", FALSE, TRUE, 4)}
=============================================================================
