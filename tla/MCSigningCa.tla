---------------------------- MODULE MCSigningCa ----------------------------
(***************************************************************************)
(* The instance of SigningCa for TLC.  Requests for a user read other      *)
(* files than requests about hosts, so the instance takes the files of one *)
(* kind at a time and leaves those of the other kind alone.                *)
(***************************************************************************)
EXTENDS SigningCa

CONSTANTS alice, bob, h1, h2, k1, k2

\* Three templates, one of them of no use (no principals).
MCTexts == {[days |-> 0, names |-> {Self}],
            [days |-> 1, names |-> {Self, bob}],
            [days |-> 1, names |-> {}]}

MCEntries == {[key |-> k1, days |-> 0, names |-> {h1}],
              [key |-> k2, days |-> 1, names |-> {h1, h2}]}

\* Two entries at the top and one in a directory that sorts between them.
MCGlobOrder == <<[nested |-> FALSE, stem |-> h1],
                 [nested |-> TRUE,  stem |-> h2],
                 [nested |-> FALSE, stem |-> h2]>>

AboutUsers == req \in [op : {"sign_user"}, name : Users, key : Keys]
NoUsers    == userList = [u \in Users |-> Unlisted]
              /\ text = [t \in Templates |-> [days |-> 0, names |-> {Self}]]
NoHosts    == entry = [p \in Paths |-> Broken] /\ out = {}

MCInit == Init /\ (NoUsers \/ NoHosts)

\* An edit touches files of the kind the instance has taken; the clock moves
\* while a certificate for a user is made.
MCNext ==
    /\ Next
    /\ NoUsers' \/ NoHosts'
    /\ clock' # clock => pc \in {"after", "before"} /\ NoHosts

MCSpec == MCInit /\ [][MCNext]_vars
=============================================================================
