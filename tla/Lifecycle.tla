----------------------------- MODULE Lifecycle -----------------------------
(***************************************************************************)
(* run_server: how an SSH server and its CA come up and go down.           *)
(*                                                                         *)
(* The two processes meet through two files.  The socket file names the    *)
(* last CA that bound it and outlives that process; the token file carries *)
(* the shared token and is deleted by the CA that reads it.  An embedded   *)
(* server makes a token, writes it beside the socket and spawns a CA; with *)
(* --disable-ca the operator provides the token file and starts both       *)
(* processes.  The paths are fresh for every server, or fixed with         *)
(* --socket-path.  Each process reads the configuration file for itself,   *)
(* and the operator may edit it at any time.  Processes may be killed at   *)
(* any step.                                                               *)
(***************************************************************************)
EXTENDS Configuration, Integers

CONSTANTS
    Modes,            \* command lines that the operator may use, see ModeRecords
    MaxPolls,         \* 10 looks at the socket file, 100 ms apart
    MaxEdits,         \* bound: edits of the configuration file
    Histories,        \* what the configuration file may contain, by edition
    MaxServers,       \* bound: starts of the SSH server
    MaxCas,           \* bound: starts of a CA
    MaxKills          \* bound: processes killed or crashed

\* embedded: the server spawns its CA, else --disable-ca;  fixed: --socket-path
\* is given;  given: --token-file is given to the server.
ModeRecords == [embedded : BOOLEAN, fixed : BOOLEAN, given : BOOLEAN]

ASSUME ModeAssumption ==
    /\ Modes \subseteq ModeRecords
    /\ \A m \in Modes : ~m.embedded => m.fixed /\ m.given
    /\ Histories \subseteq [0 .. MaxEdits -> Texts]
    /\ {MaxPolls, MaxEdits, MaxCas, MaxKills} \subseteq Nat /\ MaxServers \in Nat \ {0}

Servers  == 1 .. MaxServers
Cas      == 1 .. MaxCas
NoCa     == 0
NoToken  == 0
OpFile   == 0                   \* the file of --token-file
Editions == 0 .. MaxEdits

\* A server makes a token of its own number; the operator's come after these.
Tokens     == 1 .. 2 * MaxServers
OpToken(s) == MaxServers + s

VARIABLES
    mode,         \* the command line, the same for every start
    text,         \* the contents of the configuration file, by edition
    edition,      \* the current edition
    server,       \* number of the current (or last) SSH server, 0 at first
    spc,          \* its state
    stoken,       \* its auth_token
    polls,        \* looks at the socket file that found nothing
    child,        \* the CA it spawned
    sread,        \* the edition it has read
    cpc, ctoken,  \* state and auth_token of every CA started
    cread,        \* the edition each has read
    cserver,      \* the server whose path a CA was started with
    tokenFile,    \* contents of OpFile and of {socket}.token of every path
    socketFile,   \* the CA that bound the path last
    kills,
    clean         \* history: the current server found no trace of a CA on its path

serverVars == <<server, spc, stoken, polls, child, sread, clean>>
caVars     == <<cpc, ctoken, cread, cserver>>
world      == <<mode, text, edition>>
vars == <<mode, text, edition, server, spc, stoken, polls, child, sread, cpc, ctoken,
          cread, cserver, tokenFile, socketFile, kills, clean>>

PathOf(s) == IF mode.fixed THEN 1 ELSE s

Init ==
    /\ mode \in Modes
    /\ text \in Histories /\ edition = 0
    /\ server = 0 /\ spc = "down" /\ stoken = NoToken /\ polls = 0 /\ child = NoCa
    /\ sread = 0 /\ clean = FALSE
    /\ cpc     = [n \in Cas |-> "unborn"]
    /\ ctoken  = [n \in Cas |-> NoToken]
    /\ cread   = [n \in Cas |-> 0]
    /\ cserver = [n \in Cas |-> 1]
    /\ tokenFile  = [f \in 0 .. MaxServers |-> NoToken]
    /\ socketFile = [p \in Servers |-> NoCa]
    /\ kills = 0

Path == PathOf(server)

\* The next CA starts on the paths of the current server.
Spawn(n) ==
    /\ cpc[n] = "unborn" /\ \A m \in Cas : m < n => cpc[m] # "unborn"
    /\ cpc'     = [cpc EXCEPT ![n] = "start"]
    /\ cserver' = [cserver EXCEPT ![n] = server]

-----------------------------------------------------------------------------
(* The operator. *)

Stopped == spc \in {"down", "died"}

EditConfig ==
    /\ edition < MaxEdits /\ edition' = edition + 1
    /\ UNCHANGED <<mode, text, serverVars, caVars, tokenFile, socketFile, kills>>

\* A fresh token for the next start.
ProvideToken ==
    /\ mode.given /\ Stopped
    /\ tokenFile' = [tokenFile EXCEPT ![OpFile] = OpToken(server + 1)]
    /\ server < MaxServers
    /\ UNCHANGED <<world, serverVars, caVars, socketFile, kills>>

\* The CA of a split pair, started after the server.
StartCa ==
    /\ ~mode.embedded /\ server > 0
    /\ \E n \in Cas : Spawn(n)
    /\ UNCHANGED <<world, serverVars, ctoken, cread, tokenFile, socketFile, kills>>

-----------------------------------------------------------------------------
(* The SSH server. *)

Alive(n) == cpc[n] \notin {"unborn", "dead"}

StartServer ==
    /\ Stopped /\ server < MaxServers
    /\ server' = server + 1
    /\ spc' = "start" /\ stoken' = NoToken /\ polls' = 0 /\ child' = NoCa
    /\ clean' = (/\ socketFile[PathOf(server + 1)] = NoCa
                 /\ \A n \in Cas : Alive(n) => PathOf(cserver[n]) # PathOf(server + 1))
    /\ UNCHANGED <<world, sread, caVars, tokenFile, socketFile, kills>>

\* config::read_config
ServerReadConfig ==
    /\ spc = "start"
    /\ spc' = IF Readable(text[edition]) THEN "token" ELSE "down"
    /\ sread' = edition
    /\ UNCHANGED <<world, server, stoken, polls, child, clean, caVars, tokenFile,
                   socketFile, kills>>

\* The token is read from --token-file if that is given, else made afresh.
ObtainToken ==
    /\ spc = "token"
    /\ stoken' = IF mode.given THEN tokenFile[OpFile] ELSE server
    /\ spc' = IF stoken' = NoToken THEN "down"
              ELSE IF mode.embedded THEN "write" ELSE "wait"
    /\ UNCHANGED <<world, server, polls, child, sread, clean, caVars, tokenFile,
                   socketFile, kills>>

\* fs::write or set_permissions may fail; then the file is gone or was never
\* written.
WriteToken ==
    /\ spc = "write"
    /\ \/ /\ tokenFile' = [tokenFile EXCEPT ![Path] = stoken]
          /\ spc' = "spawn"
       \/ spc' = "down" /\ UNCHANGED tokenFile
    /\ UNCHANGED <<world, server, stoken, polls, child, sread, clean, caVars, socketFile,
                   kills>>

SpawnCa ==
    /\ spc = "spawn"
    /\ \/ \E n \in Cas : Spawn(n) /\ child' = n /\ spc' = "wait" /\ UNCHANGED tokenFile
       \/ /\ spc' = "down"                                       \* spawn fails
          /\ tokenFile' = [tokenFile EXCEPT ![Path] = NoToken]
          /\ UNCHANGED <<child, cpc, cserver>>
    /\ UNCHANGED <<world, server, stoken, polls, sread, clean, ctoken, cread, socketFile,
                   kills>>

\* Seeded fault: the server does not wait for the socket file.
SocketAssumed == TRUE

SocketExists == socketFile[Path] # NoCa

KillChild == cpc' = IF child = NoCa THEN cpc ELSE [cpc EXCEPT ![child] = "dead"]

\* Seeded fault: one look too many.
OutOfPollsLate == polls > MaxPolls

OutOfPolls == polls >= MaxPolls

\* Seeded faults: the server goes on after it killed the CA, or returns before.
KillOnly   == KillChild /\ UNCHANGED spc
ReturnOnly == spc' = "down" /\ UNCHANGED cpc

GiveUp == KillChild /\ spc' = "down"

\* One look at the socket file; after the last one the server gives up and
\* kills the CA it spawned.
Poll ==
    /\ spc = "wait"
    /\ \/ SocketExists /\ spc' = "setup" /\ UNCHANGED <<polls, cpc>>
       \/ ~SocketExists /\ ~OutOfPolls /\ polls' = polls + 1 /\ UNCHANGED <<spc, cpc>>
       \/ ~SocketExists /\ OutOfPolls /\ GiveUp /\ UNCHANGED polls
    /\ UNCHANGED <<world, server, stoken, child, sread, clean, ctoken, cread, cserver,
                   tokenFile, socketFile, kills>>

\* Seeded fault: the file is read again for the part of the SSH server.
ConfigReread == edition

ConfigUsed == sread

\* setup_user_authenticators and the first part of SshCaServer::run: what they
\* do not find ends the process in a panic, as does a port in use.
Setup ==
    /\ spc = "setup"
    /\ sread' = ConfigUsed
    /\ \/ /\ KnownAuthenticators(Read(text[sread'])) /\ KeysLoad(Read(text[sread']))
          /\ spc' = "running"
       \/ spc' = "died"
    /\ UNCHANGED <<world, server, stoken, polls, child, clean, caVars, tokenFile,
                   socketFile, kills>>

\* SshCaServer::run returns: the CA is killed and the socket file removed, even
\* when the CA is not this server's.
StopServer ==
    /\ spc = "running"
    /\ spc' = "down" /\ KillChild
    /\ socketFile' = [socketFile EXCEPT ![Path] = NoCa]
    /\ UNCHANGED <<world, server, stoken, polls, child, sread, clean, ctoken, cread,
                   cserver, tokenFile, kills>>

\* A signal: nothing is cleaned up, and the CA goes on unless the service
\* manager stops it too.
KillServer ==
    /\ ~Stopped /\ kills < MaxKills /\ kills' = kills + 1
    /\ spc' = "died"
    /\ KillChild \/ UNCHANGED cpc
    /\ UNCHANGED <<world, server, stoken, polls, child, sread, clean, ctoken, cread,
                   cserver, tokenFile, socketFile>>

-----------------------------------------------------------------------------
(* The CA. *)

Go(n, step) == cpc' = [cpc EXCEPT ![n] = step]

CaReadConfig(n) ==
    /\ cpc[n] = "start"
    /\ Go(n, IF Readable(text[edition]) THEN "token" ELSE "dead")
    /\ cread' = [cread EXCEPT ![n] = edition]
    /\ UNCHANGED <<world, serverVars, ctoken, cserver, tokenFile, socketFile, kills>>

TokenFileOf(n) == IF mode.embedded THEN PathOf(cserver[n]) ELSE OpFile

CaReadToken(n) ==
    /\ cpc[n] = "token"
    /\ LET t == tokenFile[TokenFileOf(n)] IN
       /\ Go(n, IF t = NoToken THEN "dead" ELSE "delete")
       /\ ctoken' = [ctoken EXCEPT ![n] = t]
    /\ UNCHANGED <<world, serverVars, cread, cserver, tokenFile, socketFile, kills>>

\* Seeded fault: the token file stays.
KeepFile(f) == UNCHANGED tokenFile

RemoveFile(f) == tokenFile' = [tokenFile EXCEPT ![f] = NoToken]

\* fs::remove_file fails if another CA was faster.
CaDeleteToken(n) ==
    /\ cpc[n] = "delete"
    /\ Go(n, IF tokenFile[TokenFileOf(n)] = NoToken THEN "dead" ELSE "load")
    /\ RemoveFile(TokenFileOf(n))
    /\ UNCHANGED <<world, serverVars, ctoken, cread, cserver, socketFile, kills>>

\* CertificateAuthority::new; CaServer::run looks for an old socket.
CaLoad(n) ==
    /\ cpc[n] = "load"
    /\ \/ Go(n, IF socketFile[PathOf(cserver[n])] = NoCa THEN "bind" ELSE "unlink")
       \/ Go(n, "dead")
    /\ UNCHANGED <<world, serverVars, ctoken, cread, cserver, tokenFile, socketFile, kills>>

\* Removal fails if the file has gone meanwhile.
CaUnlink(n) ==
    /\ cpc[n] = "unlink"
    /\ LET p == PathOf(cserver[n]) IN
       /\ Go(n, IF socketFile[p] = NoCa THEN "dead" ELSE "bind")
       /\ socketFile' = [socketFile EXCEPT ![p] = NoCa]
    /\ UNCHANGED <<world, serverVars, ctoken, cread, cserver, tokenFile, kills>>

\* bind fails if the file is there again.
CaBind(n) ==
    /\ cpc[n] = "bind"
    /\ LET p == PathOf(cserver[n]) IN
       \/ /\ socketFile[p] = NoCa
          /\ socketFile' = [socketFile EXCEPT ![p] = n]
          /\ Go(n, "chmod")
       \/ /\ socketFile[p] # NoCa
          /\ Go(n, "dead")
          /\ UNCHANGED socketFile
    /\ UNCHANGED <<world, serverVars, ctoken, cread, cserver, tokenFile, kills>>

\* So does the change of its permissions if it has gone.
CaRestrict(n) ==
    /\ cpc[n] = "chmod"
    /\ Go(n, IF socketFile[PathOf(cserver[n])] = NoCa THEN "dead" ELSE "listening")
    /\ UNCHANGED <<world, serverVars, ctoken, cread, cserver, tokenFile, socketFile, kills>>

KillCa(n) ==
    /\ Alive(n) /\ kills < MaxKills /\ kills' = kills + 1
    /\ Go(n, "dead")
    /\ UNCHANGED <<world, serverVars, ctoken, cread, cserver, tokenFile, socketFile>>

-----------------------------------------------------------------------------
ServerStep ==
    ServerReadConfig \/ ObtainToken \/ WriteToken \/ SpawnCa \/ Poll \/ Setup

CaStep(n) ==
    \/ CaReadConfig(n) \/ CaReadToken(n) \/ CaDeleteToken(n) \/ CaLoad(n)
    \/ CaUnlink(n) \/ CaBind(n) \/ CaRestrict(n)

Next ==
    \/ EditConfig \/ ProvideToken \/ StartCa
    \/ StartServer \/ ServerStep \/ StopServer \/ KillServer
    \/ \E n \in Cas : CaStep(n) \/ KillCa(n)

Spec == Init /\ [][Next]_vars

\* Both processes run; nobody has to start, stop or kill one.
FairSpec == Spec /\ WF_vars(ServerStep) /\ \A n \in Cas : WF_vars(CaStep(n))

-----------------------------------------------------------------------------
TypeOK ==
    /\ mode \in Modes /\ text \in Histories /\ edition \in Editions
    /\ server \in 0 .. MaxServers /\ polls \in 0 .. MaxPolls
    /\ spc \in {"down", "start", "token", "write", "spawn", "wait", "setup", "running",
                "died"}
    /\ stoken \in Tokens \cup {NoToken} /\ child \in Cas \cup {NoCa}
    /\ sread \in Editions /\ clean \in BOOLEAN
    /\ cpc \in [Cas -> {"unborn", "start", "token", "delete", "load", "unlink", "bind",
                        "chmod", "listening", "dead"}]
    /\ ctoken \in [Cas -> Tokens \cup {NoToken}] /\ cread \in [Cas -> Editions]
    /\ cserver \in [Cas -> Servers]
    /\ tokenFile \in [0 .. MaxServers -> Tokens \cup {NoToken}]
    /\ socketFile \in [Servers -> Cas \cup {NoCa}]
    /\ kills \in 0 .. MaxKills

\* lib.rs:139-208.  A server that started on a path without a trace of an
\* earlier CA and accepts clients found the socket of a CA that holds its token,
\* its own child if it has one.  That CA may have died since, but no other has
\* taken its place.  (Where an earlier CA has left its socket file, or lives,
\* that file ends the wait, and this fails.)
ServedWhenRunning ==
    spc = "running" /\ clean =>
        LET n == socketFile[Path] IN
        /\ n # NoCa
        /\ cpc[n] \in {"chmod", "listening", "dead"} /\ ctoken[n] = stoken
        /\ mode.embedded => n = child

\* maintenance.md:252-259, lib.rs:68 in both processes.  A restart makes a change
\* of the configuration file effective: the CA behind such a server has read no
\* older edition than the server, if it is the server's own.  (One that the
\* operator starts may overtake a slow server.)
ConfigTakesEffect ==
    spc = "running" /\ clean /\ mode.embedded =>
        \A n \in Cas : socketFile[Path] = n => cread[n] >= sread

\* lib.rs:87-99, how-it-works.md:31-32.  By the time such a server accepts clients
\* its token is gone from the file it was passed on in: the CA that made the
\* socket appear has read and deleted it.
TokenConsumed ==
    spc = "running" /\ clean =>
        tokenFile[IF mode.embedded THEN Path ELSE OpFile] # stoken

\* lib.rs:136-217.  When run_server returns, for whatever reason, the CA it has
\* spawned is dead; only a panic or a signal can leave one behind.
ReturnEndsChild == spc = "down" /\ child # NoCa => cpc[child] = "dead"

\* configuration-reference.md:25: "Relative paths inside the file resolve against
\* the directory of the file itself."  So does that of the host key with which
\* the server runs.
HostKeyFromConfigDir ==
    spc = "running" =>
        Under(WorkDir, Read(text[sread]).private_key) =
        Under(ConfigDir, text[sread].private_key)

\* lib.rs:104-208.  A start comes to an end: the server runs, returns or panics,
\* even when its CA dies on the way.
StartEnds == spc = "start" ~> spc \in {"running", "down", "died"}
=============================================================================
