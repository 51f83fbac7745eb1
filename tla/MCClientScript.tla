--------------------------- MODULE MCClientScript ---------------------------
(***************************************************************************)
(* The instance of ClientScript for TLC: a timer and an administrator.     *)
(***************************************************************************)
EXTENDS ClientScript

CONSTANTS timer, admin
=============================================================================
