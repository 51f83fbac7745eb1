------------------------------- MODULE SshCa -------------------------------
(***************************************************************************)
(* The SSH server and the CA together: the connections of SshSession, and  *)
(* behind their calls a CA process that accepts one stream after another,  *)
(* checks the counter of its request, and runs the requests of SigningCa,  *)
(* reading the inventory file by file while the operator edits it and the  *)
(* clock is set.  The CA may die at any step and be started again.         *)
(*                                                                         *)
(* Of the IPC (CaIpc) this module keeps the order of the streams and that  *)
(* of the numbers; a number is compared with others and never added to.    *)
(*                                                                         *)
(* Every behaviour is one of SshSession (SessionSpec): what a connection   *)
(* is told was true of the files at some moment of its request.            *)
(***************************************************************************)
EXTENDS SshSession, Sequences

CONSTANTS
    GlobOrder,     \* the paths of the inventory in the order of glob()
    Nameless,      \* bound: the entries that may list no hostnames
    MaxUsed,       \* bound: numbers the CA has seen of an earlier SSH server
    MaxClock,      \* bound: last second of the model
    MaxCrashes     \* bound: times the CA dies

\* The default template names the user; an entry has one key and names its host,
\* or nobody.  The files for users stay as they are, no user is listed, and
\* certificates have the shortest validity, valid_days = 0.
Default      == [days |-> 0, names |-> {Nobody}]
Entry(k, ns) == [key |-> k, days |-> 0, names |-> ns]

ASSUME OrderAssumption ==
    /\ GlobOrder \in Seq(EntryPaths)
    /\ EntryPaths = {GlobOrder[i] : i \in DOMAIN GlobOrder}
    /\ Nobody \notin Conns /\ Nameless \subseteq EntryPaths
    /\ {MaxUsed, MaxClock, MaxCrashes} \subseteq Nat

\* NoKey also stands for a broken file, which no contents are taken for.
ASSUME BrokenAssumption ==
    /\ NoKey # Default /\ NoKey # [u \in Logins \cup Hosts |-> NoKey]
    /\ \A k \in Keys, ns \in SUBSET Hosts : NoKey # Entry(k, ns)

VARIABLES
    bare,          \* those entries of the inventory that list no hostnames
    clock,         \* SystemTime::now() of the CA in seconds
    turns,         \* times the clock was set
    caUp,          \* the CA process is alive
    crashes,
    serving,       \* the connection whose request the CA has accepted, or Nobody
    (* The streams of the calls. *)
    queue,         \* connections not yet accepted, oldest first
    wire,          \* how far each call is with its stream, see Wires
    older,         \* older[c]: streams with a smaller number than that of c
    used,          \* numbers to be drawn that are not above CaServer.last_counter
    (* The locals of that request, see SigningCa. *)
    caPc, req, template, defaults, after, before, pos, resp,
    (* History of the calls that have not returned. *)
    overlapped,    \* another call was with the CA at the same time
    upset          \* its entry listed no names, or the clock was set back

\* "away": not connected, or its request has been read; "queued": connected;
\* "numbered": the counter is drawn and above last_counter; "late": no more above
\* it, "spent": never was; "cut": the CA died before it read the request.
Wires == {"away", "queued", "numbered", "late", "spent", "cut"}

worldVars == <<bare, clock, turns>>
ipcVars   == <<queue, wire, older, used>>
local     == <<caPc, req, template, defaults, after, before, pos, resp>>
caVars    == <<worldVars, caUp, crashes, serving, ipcVars, local>>
history   == <<overlapped, upset>>
all       == <<vars, caVars, history>>

\* The inventory as the CA finds it.
Entries == [p \in EntryPaths |-> IF inventory[p] = NoKey THEN NoKey
                                 ELSE Entry(inventory[p], IF p \in bare THEN {} ELSE {p.stem})]

\* The history of SigningCa is of no use here: it is taken for the present state.
Present == [userList |-> [u \in Logins \cup Hosts |-> NoKey],
            text |-> [t \in {Nobody} |-> Default],
            entry |-> Entries, out |-> outside, clock |-> clock]

Files == INSTANCE SigningCa WITH
             Users <- Logins \cup Hosts, Templates <- {Nobody}, DefaultTemplate <- Nobody,
             Unlisted <- NoKey, Self <- Nobody, Broken <- NoKey,
             TemplateTexts <- {Default}, HostEntries <- {},
             DaySeconds <- 1, MaxEdits <- 0,
             userList <- [u \in Logins \cup Hosts |-> NoKey],
             text <- [t \in {Nobody} |-> Default], entry <- Entries, out <- outside,
             edits <- 0, pc <- caPc, seen <- {Present}

CaInit ==
    /\ Init
    /\ bare \in SUBSET (Nameless \cap Keyed(inventory))
    /\ clock = MaxClock /\ turns = 0
    /\ caUp = TRUE /\ crashes = 0 /\ serving = Nobody
    /\ queue = <<>> /\ wire = [c \in Conns |-> "away"] /\ older = [c \in Conns |-> {}]
    /\ used \in 0 .. MaxUsed
    /\ overlapped = {} /\ upset = {}
    /\ caPc = "idle" /\ req = Files!NoRequest /\ resp = Files!NoResponse
    /\ template = Nobody /\ defaults = Files!NoDefaults
    /\ after = 0 /\ before = 0 /\ pos = 0

-----------------------------------------------------------------------------
(* CaClient::send_request, up to the reply. *)

\* UnixStream::connect succeeds as soon as the stream is queued.
Connect(c) ==
    /\ Pending(c) /\ serving # c /\ wire[c] = "away"
    /\ caUp
    /\ queue' = Append(queue, c)
    /\ wire'  = [wire EXCEPT ![c] = "queued"]
    /\ UNCHANGED <<vars, worldVars, caUp, crashes, serving, older, used, local>>

\* Nobody listens, or the queue is full.
Unreached(c) ==
    /\ Pending(c) /\ serving # c /\ wire[c] = "away"
    /\ AnswerIs(c, "lost")
    /\ UNCHANGED <<issued, caVars>>

\* fetch_add, and the request is written.
DrawNumber(c) ==
    /\ Pending(c) /\ wire[c] = "queued"
    /\ wire'  = [wire EXCEPT ![c] = IF used > 0 THEN "spent" ELSE "numbered"]
    /\ older' = [older EXCEPT ![c] = {d \in Conns : wire[d] = "numbered"}]
    /\ used'  = IF used > 0 THEN used - 1 ELSE 0
    /\ UNCHANGED <<vars, worldVars, caUp, crashes, serving, queue, local>>

\* The stream was closed by the death of the CA.
ReadEof(c) ==
    /\ Pending(c) /\ wire[c] = "cut"
    /\ AnswerIs(c, "lost")
    /\ wire' = [wire EXCEPT ![c] = "away"]
    /\ UNCHANGED <<issued, worldVars, caUp, crashes, serving, queue, older, used, local>>

-----------------------------------------------------------------------------
(* CaServer::run, one stream after another. *)

\* What goes over the socket for the call of connection c.
Request(c) ==
    IF call[c].op = "check" THEN [op |-> "check", name |-> "", key |-> call[c].key]
    ELSE call[c]

\* The number of d is not above that of c, which is the last_counter now.
Overtakes(c, d) == d \in older[c]

\* The oldest stream is accepted, and its request read when it is there.  From now
\* on the number of c matters to nobody but through last_counter.
Accept(c) ==
    /\ caUp /\ serving = Nobody /\ queue # <<>> /\ Head(queue) = c /\ Pending(c)
    /\ queue' = Tail(queue)
    /\ older' = [d \in Conns |-> IF d = c THEN {} ELSE older[d] \ {c}]
    /\ UNCHANGED <<worldVars, caUp, crashes, used>>

\* The number is above last_counter: it is stored, and the request dispatched.
Take(c) ==
    /\ Accept(c) /\ wire[c] = "numbered"
    /\ UNCHANGED vars
    /\ wire' = [d \in Conns |-> IF d = c THEN "away"
                                ELSE IF Overtakes(c, d) THEN "late" ELSE wire[d]]
    /\ Files!Receive(Request(c))
    /\ serving' = c

\* Or else the answer is CaResponse::Error("authentication failed").
Refuse(c) ==
    /\ Accept(c) /\ wire[c] \in {"late", "spent"}
    /\ wire' = [wire EXCEPT ![c] = "away"]
    /\ AnswerIs(c, "error") \/ AnswerIs(c, "lost")
    /\ UNCHANGED <<issued, serving, local>>

\* One read of the request under way, or the signature that ends it.
Work ==
    /\ serving # Nobody
    /\ UNCHANGED <<nextId, pc, who, rejects, channel, request, clients, removing,
                   files, logins, ended, worldVars, caUp, crashes, serving, ipcVars>>
    /\ Files!Handle
    /\ issued' = IF resp'.kind = "cert" THEN issued \cup {Certificate(serving)}
                 ELSE issued

\* Seeded faults: the session is given another file's name; a key that no file
\* holds is an error.
AnswerAny(r) == IF r.kind = "found" THEN GlobOrder[1].stem ELSE r.kind
AnswerMissing(r) == CASE r.kind = "found"     -> r.path.stem
                      [] r.kind = "not_found" -> "error"
                      [] OTHER                -> r.kind

\* CaResponse as the session reads it.
AnswerOf(r) == IF r.kind = "found" THEN r.path.stem ELSE r.kind

\* Nothing of a request is left in the CA.
Release ==
    /\ serving' = Nobody
    /\ caPc' = "idle" /\ req' = Files!NoRequest /\ resp' = Files!NoResponse
    /\ template' = Nobody /\ defaults' = Files!NoDefaults
    /\ after' = 0 /\ before' = 0 /\ pos' = 0

\* The response is written back; that may fail too.
Reply(c) ==
    /\ serving = c /\ caPc = "idle"
    /\ AnswerIs(c, AnswerOf(resp)) \/ AnswerIs(c, "lost")
    /\ Release
    /\ UNCHANGED <<issued, worldVars, caUp, crashes, ipcVars>>

\* The CA dies: the call it was serving ends with an error, and the kernel closes
\* the streams that are queued.  A new CA starts with last_counter = 0.
CaCrash ==
    /\ caUp /\ crashes < MaxCrashes
    /\ caUp' = FALSE /\ crashes' = crashes + 1
    /\ queue' = <<>> /\ older' = [c \in Conns |-> {}] /\ used' = 0
    /\ wire' = [c \in Conns |-> IF wire[c] = "away" THEN "away" ELSE "cut"]
    /\ Release
    /\ IF serving = Nobody THEN UNCHANGED vars
       ELSE AnswerIs(serving, "lost") /\ UNCHANGED issued
    /\ UNCHANGED worldVars

CaStart ==
    /\ ~caUp /\ caUp' = TRUE
    /\ UNCHANGED <<vars, worldVars, crashes, serving, ipcVars, local>>

-----------------------------------------------------------------------------
(* The operator and the clock, at any moment.  MaxEdits bounds both together, and
   what changes nothing is left out. *)

Edit ==
    /\ edits + turns < MaxEdits
    /\ \E p \in EntryPaths :
           /\ EditFile(p)
           /\ \E nobody \in SUBSET ({p} \cap Nameless \cap Keyed(inventory')) :
                  bare' = (bare \ {p}) \cup nobody
    /\ <<inventory, outside, bare>>' # <<inventory, outside, bare>>
    /\ UNCHANGED <<clock, turns, caUp, crashes, serving, ipcVars, local>>

SetClock ==
    /\ edits + turns < MaxEdits /\ turns' = turns + 1
    /\ clock' \in 0 .. MaxClock \ {clock}
    /\ UNCHANGED <<vars, bare, caUp, crashes, serving, ipcVars, local>>

-----------------------------------------------------------------------------
Server == ServerNext /\ UNCHANGED caVars

Call(c) == Connect(c) \/ Unreached(c) \/ (ThreadFree /\ DrawNumber(c)) \/ ReadEof(c)

CaStep ==
    \/ Server \/ Edit \/ SetClock \/ Work \/ CaCrash \/ CaStart
    \/ \E c \in Conns : Call(c) \/ Take(c) \/ Refuse(c) \/ Reply(c)

\* What the history says of a call that has not returned.
History ==
    /\ overlapped' = {c \in Conns : Pending(c)' /\
          (c \in overlapped \/ \E d \in Conns \ {c} : Pending(d)')}
    /\ upset' = {c \in Conns : Pending(c)' /\
          (c \in upset \/ TopPath(call[c].name)' \in bare' \/ clock' < clock)}

CaNext == CaStep /\ History

CaSpec == CaInit /\ [][CaNext]_all

\* tokio runs spawned tasks, and resumes handlers whose call has returned, on
\* any free thread; PAM decides; a live CA goes on with the request it has
\* accepted and with the next stream.  Clients and operators owe nothing.
Advance(c) ==
    \/ Call(c) \/ Take(c) \/ Refuse(c) \/ Reply(c)
    \/ UNCHANGED caVars /\ (PamDone(c) \/ (ThreadFree /\ (Answered(c) \/ Remove(c))))

CaFairSpec ==
    /\ CaSpec
    /\ WF_all(Work /\ History)
    /\ \A c \in Conns : WF_all(Advance(c) /\ History)

-----------------------------------------------------------------------------
\* What a session could know of its call: a certificate signed for it and not
\* yet sent back.
SessionAnswer ==
    [c \in Conns |-> IF serving = c /\ resp.kind = "cert" THEN "signed" ELSE answer[c]]

Session == INSTANCE SshSession WITH answer <- SessionAnswer

\* ca_server.rs:88-200 with host_config_reader.rs:82-163 behind ssh_server/mod.rs:
\* although the CA reads file by file, dies and loses answers, each connection
\* sees a CA that answers every call from what the files said during the call,
\* signs at most once for it, and never answers anybody else's call.
SessionSpec == Session!Spec

\* ca_server.rs:120-143, mod.rs:84-208, host_config_reader.rs:68-163.  The CA turns
\* a call down, which rejects a login or ends a session, only for cause: while it
\* was with the CA another call was, too; or its number had been used by an earlier
\* life of the SSH server; or it asked for a certificate, and the clock was set
\* back, or the host's own entry did not, all the while, hold the key, lie in the
\* inventory and list hostnames.  So a client that is alone is not turned down for
\* what happens to other files, and a key check not for the state of any file.
\* (The CA holds the server's token here, the counter does not wrap, and the files
\* for users stay readable.)
TurnedDownForCause ==
    [][\A c \in Conns : answer[c] # "error" /\ answer'[c] = "error" =>
          \/ c \in overlapped \/ wire[c] = "spent"
          \/ call[c].op # "check" /\ c \in upset
          \/ call[c].op = "sign_host" /\ TopPath(call[c].name) \notin held[c].always]_all

\* signing_common.rs:28-51, ca_server.rs:88-143, pam_auth.rs:44-47.  A handler
\* that asked the CA goes on, whether the CA lives, dies or turns the call away,
\* and also when the threads that could resume it are in PAM for somebody else.
CallsEnd ==
    \A c \in Conns : pc[c] \in {"checking", "signing"} ~>
                         pc[c] \in {"auth", "ready", "dropped"}
=============================================================================
