------------------------ MODULE MCOutputRegistration ------------------------
(* Small instances of OutputRegistration for TLC. *)
EXTENDS RegistrationProperties

CONSTANTS a, b   \* two artifact sets

\* No output yet, an adopted empty directory, an earlier complete output.
CleanRoots == {Absent, Empty, Complete(a)}
\* ... and outputs edited since: another spelling of the manifest, a lost payload.
EditedRoots == {Managed(b, "noncanonical"), Managed(b, "damaged"), Unreadable}
OneRoot == {Empty}
AllRoots == CleanRoots \cup EditedRoots
\* An empty directory moves and returns as a complete tree does.
CrashRoots == AllRoots \ {Empty}
=============================================================================
