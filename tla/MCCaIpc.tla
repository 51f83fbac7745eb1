------------------------------ MODULE MCCaIpc ------------------------------
(***************************************************************************)
(* Instances of CaIpc for TLC.  In the configurations, t1 and t2 are calls  *)
(* of the SSH server, s1 a process of the same user, x1 a process of       *)
(* another user.                                                           *)
(***************************************************************************)
EXTENDS CaIpc

\* Frames without the token: what any process of the user can send.
MCNoToken == {[kind |-> "envelope", token |-> FALSE, counter |-> MaxCounter],
              [kind |-> "malformed", token |-> FALSE, counter |-> 0],
              [kind |-> "unreadable", token |-> FALSE, counter |-> 0]}

\* Envelopes under the token with a counter of the sender's choice, as the
\* tests of ca_server.rs send them: repeated and stale values are among them.
MCReplays == [kind : {"envelope"}, token : {TRUE}, counter : 1 .. MaxCounter]

MCAnyFrame == MCNoToken \cup MCReplays
=============================================================================
