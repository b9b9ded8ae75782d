---------------------------- MODULE MCLogManager ----------------------------
(***************************************************************************)
(* Small instances of LogManager for TLC: the kinds of event clients log.  *)
(***************************************************************************)
EXTENDS LogManager

Kind(info, callout, assoc) == [info |-> info, callout |-> callout, assoc |-> assoc]

\* A hardware error with a callout and an informational entry that has a
\* callout too, which must never block a boot.
ErrorAndInfo == {Kind(FALSE, TRUE, TRUE), Kind(TRUE, TRUE, FALSE)}

ErrorOnly == {Kind(FALSE, TRUE, TRUE)}

\* Without associations, where ids and isolation are the question.
PlainError == {Kind(FALSE, TRUE, FALSE)}
=============================================================================
