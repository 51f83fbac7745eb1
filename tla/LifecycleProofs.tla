--------------------------- MODULE LifecycleProofs ---------------------------
(***************************************************************************)
(* Proofs about Lifecycle, for any number of servers, CAs, polls, edits    *)
(* and kills, every set of command lines and every configuration.          *)
(***************************************************************************)
EXTENDS Lifecycle, TLAPS

Before == spc \in {"start", "token", "write", "spawn"}
After  == spc \in {"wait", "setup", "running"}
Active == Before \/ After

\* The CA n has consumed its token file.
Past(n) == cpc[n] \in {"load", "unlink", "bind", "chmod", "listening"}

\* What is true of every start.
ServerInv ==
    /\ Active => server >= 1
    /\ Before => child = NoCa
    /\ server = 0 => child = NoCa /\ spc = "down"
    /\ spc \in {"write", "spawn"} => mode.embedded
    /\ ~mode.embedded => child = NoCa
    /\ After /\ mode.embedded => child # NoCa
    /\ After \/ spc \in {"write", "spawn"} => stoken # NoToken
    /\ sread <= edition
    /\ spc = "down" /\ child # NoCa => cpc[child] = "dead"

\* A server with a CA of its own on a clean path: nobody else is on that path,
\* and the child's progress tells what is in the two files.
Alone == \A n \in Cas : Alive(n) /\ PathOf(cserver[n]) = Path => n = child

ChildProgress ==
    /\ PathOf(cserver[child]) = Path
    /\ cpc[child] \notin {"unborn", "unlink"}
    /\ cpc[child] \in {"start", "token", "delete", "load", "bind"} =>
          socketFile[Path] = NoCa
    /\ cpc[child] \in {"start", "token", "delete"} => tokenFile[Path] = stoken
    /\ cpc[child] = "delete" \/ Past(child) => ctoken[child] = stoken
    /\ Past(child) => tokenFile[Path] = NoToken
    /\ Alive(child) /\ cpc[child] # "start" => cread[child] >= sread

ChildSocket ==
    socketFile[Path] # NoCa =>
        /\ socketFile[Path] = child
        /\ cpc[child] \in {"chmod", "listening", "dead"}
        /\ ctoken[child] = stoken /\ tokenFile[Path] = NoToken
        /\ cread[child] >= sread

OwnInv ==
    mode.embedded /\ clean /\ Active =>
    /\ Alone
    /\ Before => socketFile[Path] = NoCa
    /\ spc = "spawn" => tokenFile[Path] = stoken
    /\ After => ChildProgress /\ ChildSocket
    /\ spc \in {"setup", "running"} => socketFile[Path] # NoCa

\* A split pair on a clean path: the operator's token lets one CA pass.
SplitInv ==
    ~mode.embedded /\ clean /\ Active =>
    /\ tokenFile[OpFile] # NoToken =>
          /\ socketFile[Path] = NoCa
          /\ \A n \in Cas : ~Past(n)
          /\ \A n \in Cas : cpc[n] = "delete" => ctoken[n] = tokenFile[OpFile]
          /\ stoken \in {NoToken, tokenFile[OpFile]}
    /\ \A m, n \in Cas : Past(m) /\ Past(n) => m = n
    /\ \A n \in Cas : cpc[n] \in {"load", "bind"} => socketFile[Path] = NoCa
    /\ \A n \in Cas : cpc[n] # "unlink"
    /\ socketFile[Path] # NoCa =>
          /\ cpc[socketFile[Path]] \in {"chmod", "listening", "dead"}
          /\ \A m \in Cas : Past(m) => m = socketFile[Path]
    /\ After => /\ \A n \in Cas : Past(n) => ctoken[n] = stoken
                /\ socketFile[Path] # NoCa => ctoken[socketFile[Path]] = stoken
    /\ spc \in {"setup", "running"} => socketFile[Path] # NoCa

IInv == TypeOK /\ ServerInv /\ OwnInv /\ SplitInv

-----------------------------------------------------------------------------
(* Types. *)

LEMMA Bounds ==
    /\ MaxPolls \in Nat /\ MaxEdits \in Nat /\ MaxCas \in Nat /\ MaxKills \in Nat
    /\ MaxServers \in Nat /\ MaxServers >= 1
BY ModeAssumption

LEMMA ModeFacts ==
    ASSUME TypeOK
    PROVE  /\ mode.embedded \in BOOLEAN /\ mode.fixed \in BOOLEAN
           /\ mode.given \in BOOLEAN
           /\ ~mode.embedded => mode.fixed /\ mode.given
BY ModeAssumption DEF TypeOK, ModeRecords

LEMMA PathTypes ==
    ASSUME TypeOK, NEW s \in Servers
    PROVE  PathOf(s) \in Servers /\ PathOf(s) # OpFile
BY Bounds DEF PathOf, Servers, OpFile

LEMMA InitTypes == Init => TypeOK
<1> SUFFICES ASSUME Init PROVE TypeOK
  OBVIOUS
<1>1. 0 \in Editions /\ 0 \in 0 .. MaxServers /\ 0 \in 0 .. MaxPolls /\ 0 \in 0 .. MaxKills
      /\ 1 \in Servers
  BY Bounds DEF Editions, Servers
<1>2. /\ cpc = [n \in Cas |-> "unborn"] /\ ctoken = [n \in Cas |-> NoToken]
      /\ cread = [n \in Cas |-> 0] /\ cserver = [n \in Cas |-> 1]
      /\ tokenFile = [f \in 0 .. MaxServers |-> NoToken]
      /\ socketFile = [p \in Servers |-> NoCa]
  BY DEF Init
<1> QED BY <1>1, <1>2 DEF Init, TypeOK

LEMMA StepTypes == TypeOK /\ (server >= 1 \/ spc = "down") /\ [Next]_vars => TypeOK'
<1> SUFFICES ASSUME TypeOK, server >= 1 \/ spc = "down", [Next]_vars PROVE TypeOK'
  OBVIOUS
<1> USE DEF world, serverVars, caVars
<1>b. /\ MaxPolls \in Nat /\ MaxEdits \in Nat /\ MaxCas \in Nat /\ MaxKills \in Nat
      /\ MaxServers \in Nat /\ MaxServers >= 1
  BY Bounds
<1>s. server # 0 => server \in Servers /\ Path \in Servers
  <2>1. server # 0 => server \in Servers
    BY <1>b DEF TypeOK, Servers
  <2> QED BY <2>1, PathTypes DEF Path
<1>f. ASSUME NEW n \in Cas
      PROVE  /\ PathOf(cserver[n]) \in Servers
             /\ TokenFileOf(n) \in 0 .. MaxServers
  <2>1. PathOf(cserver[n]) \in Servers
    BY PathTypes DEF TypeOK
  <2> QED BY <2>1, <1>b DEF TokenFileOf, OpFile, Servers
<1>k. ASSUME KillChild PROVE cpc' \in [Cas -> {"unborn", "start", "token", "delete", "load",
                               "unlink", "bind", "chmod", "listening", "dead"}]
  BY <1>k DEF KillChild, TypeOK
<1>1. CASE EditConfig
  BY <1>1, <1>b DEF EditConfig, TypeOK, Editions
<1>2. CASE ProvideToken
  BY <1>2, <1>b DEF ProvideToken, TypeOK, OpToken, OpFile, Tokens
<1>3. CASE StartCa
  BY <1>3, <1>s DEF StartCa, Spawn, TypeOK
<1>4. CASE StartServer
  BY <1>4, <1>b DEF StartServer, TypeOK, NoToken, NoCa
<1>5. CASE ServerReadConfig
  BY <1>5 DEF ServerReadConfig, TypeOK
<1>6. CASE ObtainToken
  <2>1. stoken' \in Tokens \cup {NoToken}
    BY <1>6, <1>b, <1>s DEF ObtainToken, TypeOK, OpFile, Tokens, NoToken, Servers
  <2> QED BY <1>6, <2>1 DEF ObtainToken, TypeOK
<1>7. CASE WriteToken
  BY <1>7, <1>b DEF WriteToken, TypeOK
<1>8. CASE SpawnCa
  <2>1. CASE \E n \in Cas : Spawn(n) /\ child' = n /\ spc' = "wait" /\ UNCHANGED tokenFile
    BY <1>8, <2>1, <1>s DEF SpawnCa, Spawn, TypeOK
  <2>2. CASE /\ spc' = "down" /\ tokenFile' = [tokenFile EXCEPT ![Path] = NoToken]
             /\ UNCHANGED <<child, cpc, cserver>>
    BY <1>8, <2>2 DEF SpawnCa, TypeOK
  <2> QED BY <1>8, <2>1, <2>2 DEF SpawnCa
<1>9. CASE Poll
  BY <1>9, <1>b, <1>k DEF Poll, GiveUp, OutOfPolls, TypeOK
<1>10. CASE Setup
  BY <1>10 DEF Setup, ConfigUsed, TypeOK
<1>11. CASE StopServer
  BY <1>11, <1>k DEF StopServer, TypeOK, NoCa
<1>12. CASE KillServer
  BY <1>12, <1>b, <1>k DEF KillServer, TypeOK
<1>13. ASSUME NEW n \in Cas, CaStep(n) PROVE TypeOK'
  <2>1. CASE CaReadConfig(n)
    BY <2>1 DEF CaReadConfig, Go, TypeOK
  <2>2. CASE CaReadToken(n)
    BY <2>2, <1>f DEF CaReadToken, Go, TypeOK
  <2>3. CASE CaDeleteToken(n)
    BY <2>3, <1>f DEF CaDeleteToken, Go, RemoveFile, TypeOK
  <2>4. CASE CaLoad(n)
    BY <2>4 DEF CaLoad, Go, TypeOK
  <2>5. CASE CaUnlink(n)
    BY <2>5 DEF CaUnlink, Go, TypeOK
  <2>6. CASE CaBind(n)
    BY <2>6 DEF CaBind, Go, TypeOK
  <2>7. CASE CaRestrict(n)
    BY <2>7 DEF CaRestrict, Go, TypeOK
  <2> QED BY <1>13, <2>1, <2>2, <2>3, <2>4, <2>5, <2>6, <2>7 DEF CaStep
<1>14. ASSUME NEW n \in Cas, KillCa(n) PROVE TypeOK'
  BY <1>14, <1>b DEF KillCa, Go, TypeOK
<1>15. CASE UNCHANGED vars
  BY <1>15 DEF vars, TypeOK
<1> QED BY <1>1, <1>2, <1>3, <1>4, <1>5, <1>6, <1>7, <1>8, <1>9, <1>10, <1>11, <1>12,
           <1>13, <1>14, <1>15 DEF Next, ServerStep

-----------------------------------------------------------------------------
(* Every start. *)

LEMMA ServerKeeps == TypeOK /\ ServerInv /\ [Next]_vars => ServerInv'
<1> SUFFICES ASSUME TypeOK, ServerInv, [Next]_vars PROVE ServerInv'
  OBVIOUS
<1> USE DEF world, serverVars, caVars, Before, After, Active, ServerInv
<1>e. mode.embedded \in BOOLEAN /\ mode.given \in BOOLEAN /\ (~mode.embedded => mode.given)
  BY ModeFacts
<1>t. server \in Nat /\ sread \in Nat /\ edition \in Nat /\ NoToken = 0 /\ NoCa = 0
  BY Bounds DEF TypeOK, Editions, NoToken, NoCa
<1>c. child # NoCa => child \in Cas
  BY DEF TypeOK
<1>1. CASE EditConfig
  BY <1>1, <1>t DEF EditConfig
<1>2. CASE ProvideToken
  BY <1>2 DEF ProvideToken
<1>3. CASE StartCa
  BY <1>3, <1>c DEF StartCa, Spawn, TypeOK
<1>4. CASE StartServer
  BY <1>4, <1>t DEF StartServer
<1>5. CASE ServerReadConfig
  BY <1>5, <1>t DEF ServerReadConfig
<1>6. CASE ObtainToken
  BY <1>6, <1>e, <1>t DEF ObtainToken
<1>7. CASE WriteToken
  BY <1>7 DEF WriteToken
<1>8. CASE SpawnCa
  BY <1>8, <1>t DEF SpawnCa, Spawn, Cas
<1>9. CASE Poll
  BY <1>9, <1>c DEF Poll, GiveUp, KillChild, TypeOK
<1>10. CASE Setup
  BY <1>10 DEF Setup, ConfigUsed
<1>11. CASE StopServer
  BY <1>11, <1>c DEF StopServer, KillChild, TypeOK
<1>12. CASE KillServer
  BY <1>12 DEF KillServer, Stopped
<1>13. ASSUME NEW n \in Cas, CaStep(n) \/ KillCa(n) PROVE ServerInv'
  <2>1. /\ UNCHANGED <<serverVars, mode, edition>>
        /\ cpc[n] # "dead" /\ \A m \in Cas \ {n} : cpc'[m] = cpc[m]
    BY <1>13 DEF CaStep, KillCa, Alive, CaReadConfig, CaReadToken, CaDeleteToken, CaLoad,
       CaUnlink, CaBind, CaRestrict, Go, TypeOK
  <2> QED BY <2>1, <1>c
<1>15. CASE UNCHANGED vars
  BY <1>15 DEF vars
<1> QED BY <1>1, <1>2, <1>3, <1>4, <1>5, <1>6, <1>7, <1>8, <1>9, <1>10, <1>11, <1>12,
           <1>13, <1>15 DEF Next, ServerStep

-----------------------------------------------------------------------------
(* A server with its own CA. *)

LEMMA OwnKeeps ==
    ASSUME TypeOK, ServerInv, OwnInv, TypeOK', [Next]_vars
    PROVE  OwnInv'
<1> SUFFICES ASSUME mode'.embedded, clean', Active' PROVE OwnInv'
  BY DEF OwnInv
<1> USE DEF world, serverVars, caVars
<1>t. NoToken = 0 /\ NoCa = 0 /\ OpFile = 0
  BY DEF NoToken, NoCa, OpFile
<1>m. mode' = mode /\ \A s : PathOf(s)' = PathOf(s)
  BY DEF Next, vars, EditConfig, ProvideToken, StartCa, StartServer, ServerStep,
     ServerReadConfig, ObtainToken, WriteToken, SpawnCa, Poll, Setup, StopServer,
     KillServer, CaStep, CaReadConfig, CaReadToken, CaDeleteToken, CaLoad, CaUnlink,
     CaBind, CaRestrict, KillCa, PathOf
<1>4. CASE StartServer
  <2>1. /\ server' = server + 1 /\ spc' = "start" /\ UNCHANGED caVars
        /\ socketFile' = socketFile /\ socketFile[PathOf(server + 1)] = NoCa
        /\ \A n \in Cas : Alive(n) => PathOf(cserver[n]) # PathOf(server + 1)
    BY <1>4 DEF StartServer
  <2>2. Path' = PathOf(server + 1)
    BY <1>m, <2>1 DEF Path
  <2>3. Alone' /\ socketFile'[Path'] = NoCa
    BY <1>m, <2>1, <2>2 DEF Alone, Alive
  <2> QED BY <2>1, <2>3 DEF OwnInv, After
<1>n. ASSUME ~StartServer
      PROVE  /\ server' = server /\ clean' = clean /\ Path' = Path
             /\ mode.embedded /\ clean /\ Active /\ OwnInv!2
  <2>1. server' = server /\ clean' = clean
    BY <1>n DEF Next, vars, EditConfig, ProvideToken, StartCa, ServerStep,
     ServerReadConfig, ObtainToken, WriteToken, SpawnCa, Poll, Setup, StopServer,
     KillServer, CaStep, CaReadConfig, CaReadToken, CaDeleteToken, CaLoad, CaUnlink,
     CaBind, CaRestrict, KillCa
  <2>2. Active
    BY <1>n DEF Next, vars, EditConfig, ProvideToken, StartCa, ServerStep,
     ServerReadConfig, ObtainToken, WriteToken, SpawnCa, Poll, Setup, StopServer,
     KillServer, CaStep, CaReadConfig, CaReadToken, CaDeleteToken, CaLoad, CaUnlink,
     CaBind, CaRestrict, KillCa, Active, Before, After, Stopped
  <2> QED BY <1>m, <2>1, <2>2 DEF OwnInv, Path
<1>s. ~StartServer => server \in Servers /\ Path \in Servers /\ Path # OpFile
  BY <1>n, PathTypes DEF ServerInv, TypeOK, Servers, Path
<1>c. ASSUME ~StartServer, After PROVE child \in Cas
  BY <1>c, <1>n DEF ServerInv, TypeOK
<1>1. CASE EditConfig
  <2>1. UNCHANGED <<server, spc, stoken, child, sread, caVars, tokenFile, socketFile>>
    BY <1>1 DEF EditConfig
  <2> QED BY <1>1, <1>m, <1>n, <2>1 DEF EditConfig, StartServer, OwnInv, Alone, Alive,
             ChildProgress, ChildSocket, Past, Active, Before, After, Path
<1>3. CASE ProvideToken \/ StopServer \/ KillServer
  BY <1>3, <1>n DEF ProvideToken, StopServer, KillServer, Stopped, Active, Before, After
<1>5. CASE StartCa
  BY <1>5, <1>n DEF StartCa
<1>6. CASE ServerReadConfig
  <2>1. /\ spc = "start" /\ UNCHANGED <<stoken, child, caVars, tokenFile, socketFile>>
        /\ spc' = "token"
    BY <1>6 DEF ServerReadConfig, Active, Before, After
  <2>2. Alone' /\ socketFile'[Path'] = NoCa
    BY <1>m, <1>n, <1>6, <2>1 DEF StartServer, ServerReadConfig, Stopped, Alone, Alive, Before
  <2> QED BY <2>1, <2>2 DEF OwnInv, After
<1>7. CASE ObtainToken
  <2>1. /\ spc = "token" /\ UNCHANGED <<child, caVars, tokenFile, socketFile>>
        /\ spc' = "write"
    BY <1>7, <1>n DEF ObtainToken, StartServer, Stopped, Active, Before, After
  <2>2. Alone' /\ socketFile'[Path'] = NoCa
    BY <1>m, <1>n, <1>7, <2>1 DEF StartServer, Stopped, Alone, Alive, Before
  <2> QED BY <2>1, <2>2 DEF OwnInv, After
<1>8. CASE WriteToken
  <2>1. /\ spc = "write" /\ UNCHANGED <<stoken, child, caVars, socketFile>>
        /\ spc' = "spawn" /\ tokenFile' = [tokenFile EXCEPT ![Path] = stoken]
    BY <1>8 DEF WriteToken, Active, Before, After
  <2>2. Alone' /\ socketFile'[Path'] = NoCa /\ Path' = Path
    BY <1>m, <1>n, <1>8, <2>1 DEF StartServer, Stopped, Alone, Alive, Before
  <2>3. tokenFile'[Path'] = stoken'
    BY <1>s, <1>8, <2>1, <2>2 DEF StartServer, WriteToken, Stopped, TypeOK, Servers
  <2> QED BY <2>1, <2>2, <2>3 DEF OwnInv, After
<1>9. CASE SpawnCa
  <2> PICK k \in Cas : Spawn(k) /\ child' = k /\ spc' = "wait"
    BY <1>9 DEF SpawnCa, Active, Before, After
  <2>1. /\ spc = "spawn" /\ UNCHANGED <<stoken, sread, ctoken, cread, socketFile>>
        /\ tokenFile' = tokenFile /\ child' = k /\ spc' = "wait" /\ ~StartServer
        /\ cpc' = [cpc EXCEPT ![k] = "start"] /\ cserver' = [cserver EXCEPT ![k] = server]
    BY <1>9 DEF SpawnCa, Spawn, StartServer, Stopped
  <2>2. Path' = Path /\ Alone /\ socketFile[Path] = NoCa /\ tokenFile[Path] = stoken
    BY <1>n, <2>1 DEF Before
  <2>3. cpc'[k] = "start" /\ cserver'[k] = server
    BY <2>1 DEF TypeOK
  <2>4. \A m \in Cas \ {k} : cpc'[m] = cpc[m] /\ cserver'[m] = cserver[m]
    BY <2>1 DEF TypeOK
  <2>5. PathOf(cserver[k])' = Path'
    BY <1>m, <2>1, <2>2, <2>3 DEF Path, PathOf
  <2>6. Alone'
    <3>1. \A m \in Cas \ {k} : ~(Alive(m) /\ PathOf(cserver[m]) = Path)
      BY <2>1, <2>2, <1>t DEF Alone, ServerInv, Before, Cas
    <3>2. \A m \in Cas \ {k} : PathOf(cserver[m])' = PathOf(cserver[m])
      BY <1>m, <2>4 DEF PathOf
    <3> QED BY <2>1, <2>2, <2>4, <3>1, <3>2 DEF Alone, Alive
  <2>7. ChildProgress' /\ ChildSocket'
    BY <2>1, <2>2, <2>3, <2>5 DEF ChildProgress, ChildSocket, Past, Alive
  <2> QED BY <2>1, <2>6, <2>7 DEF OwnInv, Before
<1>10. CASE Poll
  <2>1. /\ spc = "wait" /\ spc' # "down" /\ ~StartServer
        /\ UNCHANGED <<server, child, stoken, sread, caVars, tokenFile, socketFile>>
        /\ spc' \in {"wait", "setup"} /\ (spc' = "setup" => socketFile[Path] # NoCa)
    BY <1>10 DEF Poll, GiveUp, SocketExists, StartServer, Stopped, Active, Before, After
  <2>2. Alone' /\ ChildProgress' /\ ChildSocket'
    BY <1>m, <1>n, <2>1 DEF Alone, ChildProgress, ChildSocket, Alive, Past, After, PathOf,
       Path
  <2> QED BY <1>n, <2>1, <2>2 DEF OwnInv, Before
<1>11. CASE Setup
  <2>1. /\ spc = "setup" /\ spc' = "running" /\ ~StartServer
        /\ UNCHANGED <<server, child, stoken, sread, caVars, tokenFile, socketFile>>
    BY <1>11 DEF Setup, ConfigUsed, StartServer, Stopped, Active, Before, After
  <2>2. Alone' /\ ChildProgress' /\ ChildSocket'
    BY <1>m, <1>n, <2>1 DEF Alone, ChildProgress, ChildSocket, Alive, Past, After, PathOf,
       Path
  <2> QED BY <1>n, <2>1, <2>2 DEF OwnInv, Before
<1>12. ASSUME NEW n \in Cas, CaStep(n) \/ KillCa(n) PROVE OwnInv'
  <2>1. /\ UNCHANGED <<serverVars, cserver>> /\ Alive(n)
        /\ \A m \in Cas \ {n} : /\ cpc'[m] = cpc[m] /\ ctoken'[m] = ctoken[m]
                                /\ cread'[m] = cread[m]
    BY <1>12 DEF CaStep, KillCa, Alive, CaReadConfig, CaReadToken, CaDeleteToken, CaLoad,
       CaUnlink, CaBind, CaRestrict, Go, TypeOK
  <2>2. ~StartServer /\ spc' = spc
    BY <2>1, <1>t DEF StartServer, TypeOK
  <2>3. /\ Path' = Path /\ mode.embedded /\ clean /\ Active /\ Alone
        /\ Before => socketFile[Path] = NoCa
        /\ spc = "spawn" => tokenFile[Path] = stoken
        /\ After => ChildProgress /\ ChildSocket /\ child \in Cas
        /\ spc \in {"setup", "running"} => socketFile[Path] # NoCa
        /\ Path \in Servers
    BY <1>n, <1>s, <1>c, <2>2
  <2>4. \A m \in Cas : PathOf(cserver[m])' = PathOf(cserver[m])
    BY <1>m, <2>1 DEF PathOf
  <2>5. Alone'
    BY <2>1, <2>3, <2>4 DEF Alone, Alive
  <2>6. TokenFileOf(n) = PathOf(cserver[n])
    BY <2>3 DEF TokenFileOf
  <2>7. CASE n # child
    <3>1. PathOf(cserver[n]) # Path
      BY <2>1, <2>3, <2>7 DEF Alone
    <3>2. tokenFile'[Path] = tokenFile[Path]
      BY <1>12, <2>6, <3>1, <2>3 DEF CaStep, KillCa, CaReadConfig, CaReadToken,
         CaDeleteToken, CaLoad, CaUnlink, CaBind, CaRestrict, RemoveFile, TypeOK, Servers
    <3>3. socketFile'[Path] = socketFile[Path]
      BY <1>12, <3>1, <2>3 DEF CaStep, KillCa, CaReadConfig, CaReadToken,
         CaDeleteToken, CaLoad, CaUnlink, CaBind, CaRestrict, TypeOK
    <3>4. After => UNCHANGED <<cpc[child], ctoken[child], cread[child]>>
      BY <2>1, <2>3, <2>7
    <3>5. After => ChildProgress' /\ ChildSocket'
      BY <2>1, <2>2, <2>3, <2>4, <3>2, <3>3, <3>4 DEF ChildProgress, ChildSocket, Past, Alive
    <3> QED BY <2>1, <2>2, <2>3, <2>5, <3>2, <3>3, <3>5 DEF OwnInv, Before, After
  <2>8. CASE n = child
    <3>1. After /\ child \in Cas /\ ChildProgress /\ ChildSocket
      BY <2>3, <2>8 DEF ServerInv, Active, Cas, NoCa
    <3>2. /\ PathOf(cserver[child]) = Path /\ PathOf(cserver[child])' = Path
          /\ TokenFileOf(child) = Path
      BY <3>1, <2>1, <2>4, <2>6, <2>8 DEF ChildProgress
    <3>3. sread <= edition /\ stoken # NoToken /\ child' = child /\ stoken' = stoken
          /\ sread' = sread
      BY <3>1, <2>1 DEF ServerInv
    <3>4. (ChildProgress /\ ChildSocket)' /\ (socketFile[Path] # NoCa => socketFile'[Path] # NoCa)
      <4> USE <2>3, <3>1, <3>2, <3>3, <1>t DEF ChildProgress, ChildSocket, Past, Alive, Go
      <4>1. CASE CaReadConfig(child)
        BY <4>1 DEF CaReadConfig, TypeOK
      <4>2. CASE CaReadToken(child)
        BY <4>2 DEF CaReadToken, TypeOK
      <4>3. CASE CaDeleteToken(child)
        BY <4>3 DEF CaDeleteToken, RemoveFile, TypeOK, Servers
      <4>4. CASE CaLoad(child)
        BY <4>4 DEF CaLoad, TypeOK
      <4>5. CASE CaUnlink(child)
        BY <4>5 DEF CaUnlink
      <4>6. CASE CaBind(child)
        BY <4>6 DEF CaBind, TypeOK, Cas
      <4>7. CASE CaRestrict(child)
        BY <4>7 DEF CaRestrict, TypeOK
      <4>8. CASE KillCa(child)
        BY <4>8 DEF KillCa, TypeOK
      <4> QED BY <1>12, <2>8, <4>1, <4>2, <4>3, <4>4, <4>5, <4>6, <4>7, <4>8 DEF CaStep
    <3> QED BY <2>2, <2>3, <2>5, <3>1, <3>4 DEF OwnInv, Before, After
  <2> QED BY <2>7, <2>8
<1>13. CASE UNCHANGED vars
  <2>1. ~StartServer
    BY <1>13, <1>t DEF vars, StartServer, TypeOK
  <2> QED BY <1>13, <1>n, <1>m, <2>1 DEF vars, OwnInv, Alone, Alive, ChildProgress,
             ChildSocket, Past, Before, After, PathOf, Path
<1> QED BY <1>1, <1>3, <1>4, <1>5, <1>6, <1>7, <1>8, <1>9, <1>10, <1>11, <1>12, <1>13
        DEF Next, ServerStep

-----------------------------------------------------------------------------
(* A split pair. *)

LEMMA SplitKeeps ==
    ASSUME TypeOK, ServerInv, SplitInv, TypeOK', [Next]_vars
    PROVE  SplitInv'
<1> SUFFICES ASSUME ~mode'.embedded, clean', Active' PROVE SplitInv'
  BY DEF SplitInv
<1> USE DEF world, serverVars, caVars
<1>t. NoToken = 0 /\ NoCa = 0 /\ OpFile = 0 /\ 1 \in Servers /\ OpFile \in 0 .. MaxServers
  BY Bounds DEF NoToken, NoCa, OpFile, Servers
<1>m. mode' = mode
  BY DEF Next, vars, EditConfig, ProvideToken, StartCa, StartServer, ServerStep,
     ServerReadConfig, ObtainToken, WriteToken, SpawnCa, Poll, Setup, StopServer,
     KillServer, CaStep, CaReadConfig, CaReadToken, CaDeleteToken, CaLoad, CaUnlink,
     CaBind, CaRestrict, KillCa
<1>f. /\ ~mode.embedded /\ mode.fixed /\ mode.given /\ child = NoCa
      /\ \A s : PathOf(s) = 1
  BY <1>m, ModeFacts DEF ServerInv, PathOf
<1>p. Path = 1 /\ Path' = 1 /\ \A n \in Cas : TokenFileOf(n) = OpFile
  BY <1>f, <1>m DEF Path, PathOf, TokenFileOf
<1>4. CASE StartServer
  <2>1. /\ spc' = "start" /\ stoken' = NoToken /\ UNCHANGED caVars /\ socketFile' = socketFile
        /\ socketFile[1] = NoCa /\ \A n \in Cas : ~Alive(n)
    BY <1>4, <1>f DEF StartServer
  <2>2. \A n \in Cas : cpc'[n] \in {"unborn", "dead"}
    BY <2>1 DEF Alive
  <2> QED BY <1>p, <2>1, <2>2 DEF SplitInv, Past, After
<1>n. ASSUME ~StartServer
      PROVE  /\ server' = server /\ clean' = clean /\ Active /\ SplitInv!2
             /\ ~mode.embedded /\ clean
  <2>1. server' = server /\ clean' = clean
    BY <1>n DEF Next, vars, EditConfig, ProvideToken, StartCa, ServerStep,
     ServerReadConfig, ObtainToken, WriteToken, SpawnCa, Poll, Setup, StopServer,
     KillServer, CaStep, CaReadConfig, CaReadToken, CaDeleteToken, CaLoad, CaUnlink,
     CaBind, CaRestrict, KillCa
  <2>2. Active
    BY <1>n DEF Next, vars, EditConfig, ProvideToken, StartCa, ServerStep,
     ServerReadConfig, ObtainToken, WriteToken, SpawnCa, Poll, Setup, StopServer,
     KillServer, CaStep, CaReadConfig, CaReadToken, CaDeleteToken, CaLoad, CaUnlink,
     CaBind, CaRestrict, KillCa, Active, Before, After, Stopped
  <2> QED BY <1>f, <2>1, <2>2 DEF SplitInv
<1>1. CASE EditConfig \/ ServerReadConfig \/ Setup \/ UNCHANGED vars
  <2>1. /\ UNCHANGED <<stoken, caVars, tokenFile, socketFile>> /\ ~StartServer
        /\ After' => After /\ (spc' \in {"setup", "running"} => spc \in {"setup", "running"})
    BY <1>1, <1>t DEF EditConfig, ServerReadConfig, Setup, vars, StartServer, Stopped, TypeOK,
       After
  <2> QED BY <1>n, <1>p, <2>1 DEF SplitInv, Past, After
<1>3. CASE ProvideToken \/ StopServer \/ KillServer
  BY <1>3, <1>n DEF ProvideToken, StopServer, KillServer, Stopped, Active, Before, After,
     StartServer
<1>5. CASE WriteToken \/ SpawnCa
  BY <1>5, <1>f DEF WriteToken, SpawnCa, ServerInv
<1>6. CASE StartCa
  <2> PICK k \in Cas : Spawn(k)
    BY <1>6 DEF StartCa
  <2>1. /\ UNCHANGED <<server, spc, stoken, ctoken, tokenFile, socketFile>> /\ ~StartServer
        /\ cpc[k] = "unborn" /\ cpc'[k] = "start" /\ \A m \in Cas \ {k} : cpc'[m] = cpc[m]
    BY <1>6, <1>t DEF StartCa, Spawn, StartServer, TypeOK
  <2>2. socketFile[Path] \in Cas \cup {NoCa}
    BY <1>p, <1>t DEF TypeOK
  <2> QED BY <1>n, <1>p, <1>t, <2>1, <2>2 DEF SplitInv, Past, After
<1>7. CASE ObtainToken
  <2>1. /\ spc = "token" /\ spc' = "wait" /\ ~StartServer /\ stoken' = tokenFile[OpFile]
        /\ stoken' # NoToken /\ UNCHANGED <<caVars, tokenFile, socketFile>>
    BY <1>7, <1>f DEF ObtainToken, StartServer, Stopped, Active, Before, After
  <2> QED BY <1>n, <1>p, <2>1 DEF SplitInv, Past, After
<1>8. CASE Poll
  <2>1. /\ spc = "wait" /\ spc' \in {"wait", "setup"} /\ ~StartServer
        /\ UNCHANGED <<stoken, caVars, tokenFile, socketFile>>
        /\ spc' = "setup" => socketFile[Path] # NoCa
    BY <1>8, <1>f DEF Poll, GiveUp, SocketExists, StartServer, Stopped, Active, Before, After,
       KillChild
  <2> QED BY <1>n, <1>p, <2>1 DEF SplitInv, Past, After
<1>9. ASSUME NEW n \in Cas, CaStep(n) \/ KillCa(n) PROVE SplitInv'
  <2>1. /\ UNCHANGED <<serverVars, cserver>> /\ Alive(n)
        /\ \A m \in Cas \ {n} : cpc'[m] = cpc[m] /\ ctoken'[m] = ctoken[m]
    BY <1>9 DEF CaStep, KillCa, Alive, CaReadConfig, CaReadToken, CaDeleteToken, CaLoad,
       CaUnlink, CaBind, CaRestrict, Go, TypeOK
  <2>2. ~StartServer
    BY <2>1, <1>t DEF StartServer, TypeOK
  <2>3. SplitInv!2 /\ Path = 1 /\ PathOf(cserver[n]) = 1 /\ TokenFileOf(n) = OpFile
    BY <1>n, <1>f, <1>p, <2>2
  <2>4. After => stoken # NoToken
    BY DEF ServerInv
  <2> USE <1>p, <1>t, <2>1, <2>3, <2>4 DEF Past, After, Go
  <2>5. CASE CaReadConfig(n)
    BY <2>5 DEF CaReadConfig, TypeOK, SplitInv
  <2>6. CASE CaReadToken(n)
    BY <2>6 DEF CaReadToken, TypeOK, SplitInv
  <2>7. CASE CaDeleteToken(n)
    BY <2>7 DEF CaDeleteToken, RemoveFile, TypeOK, SplitInv
  <2>8. CASE CaLoad(n)
    BY <2>8 DEF CaLoad, TypeOK, SplitInv
  <2>9. CASE CaUnlink(n)
    BY <2>9 DEF CaUnlink, SplitInv
  <2>10. CASE CaBind(n)
    BY <2>10 DEF CaBind, TypeOK, Cas, SplitInv
  <2>11. CASE CaRestrict(n)
    BY <2>11 DEF CaRestrict, TypeOK, SplitInv
  <2>12. CASE KillCa(n)
    BY <2>12 DEF KillCa, TypeOK, SplitInv
  <2> QED BY <1>9, <2>5, <2>6, <2>7, <2>8, <2>9, <2>10, <2>11, <2>12 DEF CaStep
<1> QED BY <1>1, <1>3, <1>4, <1>5, <1>6, <1>7, <1>8, <1>9 DEF Next, ServerStep

-----------------------------------------------------------------------------
LEMMA InvInductive == Spec => []IInv
<1>1. Init => IInv
  <2> SUFFICES ASSUME Init PROVE IInv
    OBVIOUS
  <2>1. TypeOK
    BY InitTypes
  <2>2. spc = "down" /\ child = NoCa /\ server = 0 /\ sread = edition /\ clean = FALSE
        /\ edition = 0
    BY DEF Init
  <2>3. ServerInv /\ ~Active
    BY <2>2 DEF ServerInv, Active, Before, After
  <2> QED BY <2>1, <2>3 DEF IInv, OwnInv, SplitInv
<1>2. IInv /\ [Next]_vars => IInv'
  <2> SUFFICES ASSUME IInv, [Next]_vars PROVE IInv'
    OBVIOUS
  <2>1. TypeOK /\ ServerInv /\ OwnInv /\ SplitInv
    BY DEF IInv
  <2>2. server >= 1 \/ spc = "down"
    BY <2>1, Bounds DEF ServerInv, TypeOK
  <2>3. TypeOK'
    BY <2>1, <2>2, StepTypes
  <2>4. ServerInv'
    BY <2>1, ServerKeeps
  <2>5. OwnInv' /\ SplitInv'
    BY <2>1, <2>3, OwnKeeps, SplitKeeps
  <2> QED BY <2>3, <2>4, <2>5 DEF IInv
<1> QED BY <1>1, <1>2, PTL DEF Spec

(* Every reachable state is well typed. *)
THEOREM TypesHold == Spec => []TypeOK
<1>1. IInv => TypeOK
  BY DEF IInv
<1> QED BY <1>1, InvInductive, PTL

(* lib.rs:139-208: a server that started on a clean path and runs has found the *)
(* socket of the CA that holds its token.                                      *)
THEOREM CaServed == Spec => []ServedWhenRunning
<1>1. IInv => ServedWhenRunning
  <2> SUFFICES ASSUME IInv, spc = "running", clean
               PROVE  LET n == socketFile[Path] IN
                      /\ n # NoCa
                      /\ cpc[n] \in {"chmod", "listening", "dead"} /\ ctoken[n] = stoken
                      /\ mode.embedded => n = child
    BY DEF ServedWhenRunning
  <2>1. mode.embedded \in BOOLEAN /\ After /\ Active
    BY ModeFacts DEF IInv, After, Active
  <2>2. CASE mode.embedded
    BY <2>1, <2>2 DEF IInv, OwnInv, ChildSocket
  <2>3. CASE ~mode.embedded
    BY <2>1, <2>3 DEF IInv, SplitInv
  <2> QED BY <2>2, <2>3
<1> QED BY <1>1, InvInductive, PTL

(* maintenance.md:252-259: the CA of such a server has read a configuration that *)
(* is no older than the server's.                                               *)
THEOREM ConfigEffective == Spec => []ConfigTakesEffect
<1>1. IInv => ConfigTakesEffect
  <2> SUFFICES ASSUME IInv, spc = "running", clean, mode.embedded, NEW n \in Cas,
                      socketFile[Path] = n
               PROVE  cread[n] >= sread
    BY DEF ConfigTakesEffect
  <2>1. After /\ Active /\ socketFile[Path] # NoCa
    BY DEF After, Active, Cas, NoCa
  <2> QED BY <2>1 DEF IInv, OwnInv, ChildSocket
<1> QED BY <1>1, InvInductive, PTL

(* how-it-works.md:28: the token of such a server has left its file. *)
THEOREM TokenIsConsumed == Spec => []TokenConsumed
<1>1. IInv => TokenConsumed
  <2> SUFFICES ASSUME IInv, spc = "running", clean
               PROVE  tokenFile[IF mode.embedded THEN Path ELSE OpFile] # stoken
    BY DEF TokenConsumed
  <2>1. mode.embedded \in BOOLEAN /\ After /\ Active /\ stoken # NoToken
    BY ModeFacts DEF IInv, ServerInv, After, Active
  <2>2. CASE mode.embedded
    BY <2>1, <2>2 DEF IInv, OwnInv, ChildSocket
  <2>3. CASE ~mode.embedded
    BY <2>1, <2>3 DEF IInv, SplitInv
  <2> QED BY <2>2, <2>3
<1> QED BY <1>1, InvInductive, PTL

(* lib.rs:136-217: run_server returns only after the CA it spawned is dead. *)
THEOREM ChildEnds == Spec => []ReturnEndsChild
<1>1. IInv => ReturnEndsChild
  BY DEF IInv, ServerInv, ReturnEndsChild
<1> QED BY <1>1, InvInductive, PTL

-----------------------------------------------------------------------------
(* Every start comes to an end. *)

\* The steps the SSH server still has to take before it runs, returns or panics.
StartLeft ==
    CASE spc = "start" -> MaxPolls + 6
      [] spc = "token" -> MaxPolls + 5
      [] spc = "write" -> MaxPolls + 4
      [] spc = "spawn" -> MaxPolls + 3
      [] spc = "wait"  -> MaxPolls - polls + 2
      [] spc = "setup" -> 1
      [] spc \in {"running", "down", "died"} -> 0

\* The steps a CA still has to take before it listens or ends.
CaStartLeft(n) ==
    CASE cpc[n] = "start"  -> 7
      [] cpc[n] = "token"  -> 6
      [] cpc[n] = "delete" -> 5
      [] cpc[n] = "load"   -> 4
      [] cpc[n] = "unlink" -> 3
      [] cpc[n] = "bind"   -> 2
      [] cpc[n] = "chmod"  -> 1
      [] cpc[n] \in {"unborn", "listening", "dead"} -> 0

\* Only a new start begins anew; nothing the other process or the operator does
\* sets a start back.
StartAdvances ==
    /\ ServerStep => StartLeft' < StartLeft
    /\ StartLeft' <= StartLeft \/ StartServer
    /\ \A n \in Cas : CaStep(n) => CaStartLeft(n)' < CaStartLeft(n)

LEMMA StartLeftNat == TypeOK => StartLeft \in Nat
<1> SUFFICES ASSUME TypeOK PROVE StartLeft \in Nat
  OBVIOUS
<1>1. MaxPolls \in Nat /\ MaxPolls - polls \in Nat
  BY Bounds DEF TypeOK
<1>2. spc \in {"down", "start", "token", "write", "spawn", "wait", "setup", "running",
               "died"}
  BY DEF TypeOK
<1> QED BY <1>1, <1>2 DEF StartLeft

LEMMA ServerAdvances ==
    ASSUME TypeOK, ServerInv, ServerStep
    PROVE  StartLeft' \in Nat /\ StartLeft' < StartLeft
<1>t. MaxPolls \in Nat /\ polls \in Nat /\ polls <= MaxPolls
  BY Bounds DEF TypeOK
<1>p. spc \in {"start", "token", "write", "spawn", "wait", "setup"} => StartLeft > 0
  BY <1>t DEF StartLeft
<1>e. ASSUME spc \in {"start", "token", "write", "spawn", "wait", "setup"},
             spc' \in {"running", "down", "died"}
      PROVE  StartLeft' \in Nat /\ StartLeft' < StartLeft
  <2>1. StartLeft' = 0
    BY <1>e DEF StartLeft
  <2> QED BY <1>e, <1>p, <2>1
<1>1. CASE ServerReadConfig
  <2>1. CASE spc' = "token"
    <3>1. StartLeft = MaxPolls + 6 /\ StartLeft' = MaxPolls + 5
      BY <1>1, <2>1 DEF ServerReadConfig, StartLeft
    <3> QED BY <1>t, <3>1
  <2> QED BY <1>1, <1>e, <2>1 DEF ServerReadConfig
<1>2. CASE ObtainToken
  <2>1. StartLeft = MaxPolls + 5
    BY <1>2 DEF ObtainToken, StartLeft
  <2>2. CASE spc' = "write"
    <3>1. StartLeft' = MaxPolls + 4
      BY <2>2 DEF StartLeft
    <3> QED BY <1>t, <2>1, <3>1
  <2>3. CASE spc' = "wait"
    <3>1. StartLeft' = MaxPolls - polls + 2
      BY <1>2, <2>3 DEF ObtainToken, StartLeft
    <3> QED BY <1>t, <2>1, <3>1
  <2> QED BY <1>2, <1>e, <2>2, <2>3 DEF ObtainToken
<1>3. CASE WriteToken
  <2>1. CASE spc' = "spawn"
    <3>1. StartLeft = MaxPolls + 4 /\ StartLeft' = MaxPolls + 3
      BY <1>3, <2>1 DEF WriteToken, StartLeft
    <3> QED BY <1>t, <3>1
  <2> QED BY <1>3, <1>e, <2>1 DEF WriteToken
<1>4. CASE SpawnCa
  <2>1. CASE spc' = "wait"
    <3>1. StartLeft = MaxPolls + 3 /\ StartLeft' = MaxPolls - polls + 2
      BY <1>4, <2>1 DEF SpawnCa, StartLeft
    <3> QED BY <1>t, <3>1
  <2> QED BY <1>4, <1>e, <2>1 DEF SpawnCa
<1>5. CASE Poll
  <2>1. StartLeft = MaxPolls - polls + 2
    BY <1>5 DEF Poll, StartLeft
  <2>2. CASE spc' = "setup"
    <3>1. StartLeft' = 1
      BY <2>2 DEF StartLeft
    <3> QED BY <1>t, <2>1, <3>1
  <2>3. CASE polls' = polls + 1 /\ UNCHANGED spc
    <3>1. StartLeft' = MaxPolls - polls' + 2
      BY <1>5, <2>3 DEF Poll, StartLeft
    <3>2. polls < MaxPolls
      BY <1>5, <1>t, <2>3 DEF Poll, OutOfPolls, GiveUp
    <3> QED BY <1>t, <2>1, <2>3, <3>1, <3>2
  <2> QED BY <1>5, <1>e, <2>2, <2>3 DEF Poll, GiveUp
<1>6. CASE Setup
  BY <1>6, <1>e DEF Setup
<1> QED BY <1>1, <1>2, <1>3, <1>4, <1>5, <1>6 DEF ServerStep

LEMMA CaAdvances ==
    ASSUME TypeOK, NEW n \in Cas, CaStep(n)
    PROVE  CaStartLeft(n)' < CaStartLeft(n)
<1> USE DEF TypeOK, Go
<1>0. ASSUME NEW i, NEW j,
             <<i, j>> \in {<<"start", "token">>, <<"token", "delete">>, <<"delete", "load">>,
                           <<"load", "bind">>, <<"load", "unlink">>, <<"unlink", "bind">>,
                           <<"bind", "chmod">>, <<"chmod", "listening">>}
                          \cup {"start", "token", "delete", "load", "unlink", "bind", "chmod"}
                               \X {"dead"},
             cpc[n] = i, cpc'[n] = j
      PROVE  CaStartLeft(n)' < CaStartLeft(n)
  BY <1>0 DEF CaStartLeft
<1>1. CASE CaReadConfig(n)
  BY <1>0, <1>1 DEF CaReadConfig
<1>2. CASE CaReadToken(n)
  BY <1>0, <1>2 DEF CaReadToken
<1>3. CASE CaDeleteToken(n)
  BY <1>0, <1>3 DEF CaDeleteToken
<1>4. CASE CaLoad(n)
  BY <1>0, <1>4 DEF CaLoad
<1>5. CASE CaUnlink(n)
  BY <1>0, <1>5 DEF CaUnlink
<1>6. CASE CaBind(n)
  BY <1>0, <1>6 DEF CaBind
<1>7. CASE CaRestrict(n)
  BY <1>0, <1>7 DEF CaRestrict
<1> QED BY <1>1, <1>2, <1>3, <1>4, <1>5, <1>6, <1>7 DEF CaStep

\* lib.rs:104-208: a start takes at most MaxPolls + 6 steps of the SSH server and
\* seven of a CA, whatever the two meet and whoever is killed.  What is left of
\* StartEnds is that the processes do run.
THEOREM StartsAreFinite == Spec => [](StartLeft \in Nat) /\ [][StartAdvances]_vars
<1>1. IInv => StartLeft \in Nat
  BY StartLeftNat DEF IInv
<1>2. IInv /\ [Next]_vars => [StartAdvances]_vars
  <2> SUFFICES ASSUME IInv, [Next]_vars, ~UNCHANGED vars PROVE StartAdvances
    OBVIOUS
  <2>t. TypeOK /\ ServerInv /\ StartLeft \in Nat
    BY <1>1 DEF IInv
  <2>1. ServerStep => StartLeft' < StartLeft
    BY <2>t, ServerAdvances
  <2>2. StartLeft' <= StartLeft \/ StartServer
    <3>1. CASE ServerStep
      BY <2>t, <3>1, ServerAdvances
    <3>2. CASE StopServer \/ KillServer
      <4>1. StartLeft' = 0
        BY <3>2 DEF StopServer, KillServer, StartLeft
      <4> QED BY <2>t, <4>1
    <3>3. CASE UNCHANGED <<spc, polls>>
      <4>1. StartLeft' = StartLeft
        BY <3>3 DEF StartLeft
      <4> QED BY <2>t, <4>1
    <3>4. UNCHANGED <<spc, polls>> \/ ServerStep \/ StartServer \/ StopServer \/ KillServer
      BY DEF Next, vars, serverVars, caVars, world, EditConfig, ProvideToken, StartCa, CaStep,
             KillCa, CaReadConfig, CaReadToken, CaDeleteToken, CaLoad, CaUnlink, CaBind,
             CaRestrict
    <3> QED BY <3>1, <3>2, <3>3, <3>4
  <2>3. \A n \in Cas : CaStep(n) => CaStartLeft(n)' < CaStartLeft(n)
    BY <2>t, CaAdvances
  <2> QED BY <2>1, <2>2, <2>3 DEF StartAdvances
<1> QED BY <1>1, <1>2, InvInductive, PTL DEF Spec
=============================================================================
