------------------------------ MODULE MCSshCa ------------------------------
(***************************************************************************)
(* Instances of SshCa for TLC.  h1 has an entry at the top of the          *)
(* inventory, h2 one in a directory under it.                              *)
(***************************************************************************)
EXTENDS SshCa, TLC

CONSTANTS h1, h2

MCGlobOrder == <<[nested |-> FALSE, stem |-> h1], [nested |-> TRUE, stem |-> h2]>>

MCEntryPaths == {MCGlobOrder[i] : i \in DOMAIN MCGlobOrder}

\* Nothing tells one key from another.
MCKeySymmetry == Permutations(Keys)

\* The entry at the top alone.
MCTopOrder == <<TopPath(h1)>>
MCTopPaths == {TopPath(h1)}
=============================================================================
