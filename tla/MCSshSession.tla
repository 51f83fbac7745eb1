--------------------------- MODULE MCSshSession ---------------------------
(***************************************************************************)
(* Instances of SshSession for TLC.  h1 is also a name that a client may   *)
(* log in with; alice is a user.                                           *)
(***************************************************************************)
EXTENDS SshSession

CONSTANTS h1, h2

\* One entry at the top, one in a directory under the inventory.
MCEntryPaths == {[nested |-> FALSE, stem |-> h1], [nested |-> TRUE, stem |-> h2]}
=============================================================================
