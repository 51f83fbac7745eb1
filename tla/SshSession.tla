----------------------------- MODULE SshSession -----------------------------
(***************************************************************************)
(* The connections of the SSH server: ConnectionHandler and the handlers   *)
(* it calls, beside the CA, PAM and an operator who edits the inventory.   *)
(*                                                                         *)
(* russh runs one task per connection and awaits each handler before it    *)
(* looks at the connection again, so a connection that waits for the CA    *)
(* notices neither its client nor its timers; the handlers of different    *)
(* connections interleave at every await.  PAM is not awaited: it is       *)
(* called on a thread of the runtime, which runs nothing else meanwhile.   *)
(*                                                                         *)
(* The CA appears by what it promises about one request: which answers the *)
(* files allow, given what they said while the request was under way.      *)
(* SshCa puts the requests of SigningCa in its place.                      *)
(***************************************************************************)
EXTENDS Integers, FiniteSets

CONSTANTS
    MaxConns,       \* bound: connections in a run, numbered as client_ids does
    Logins,         \* names that clients log in with
    BadLogins,      \* those validate_username rejects
    Root,           \* the login "root"
    SystemLogins,   \* accounts with a uid below 1000
    Hosts,          \* names of inventory files
    BadHosts,       \* those validate_hostname rejects
    Keys,           \* public keys
    NotAKey,        \* channel data that does not parse as one key
    EntryPaths,     \* files of the inventory: [nested, stem]
    Links,          \* bound: the files that may become links out of it
    NoKey,          \* no such file, or no usable key in it
    Nobody,         \* None
    MaxAttempts,    \* max_auth_attempts: 3
    Workers,        \* threads of the tokio runtime
    MaxEdits        \* bound: edits of the inventory

Conns      == 1 .. MaxConns
TopPath(h) == [nested |-> FALSE, stem |-> h]

ASSUME NamesAssumption ==
    /\ BadLogins \subseteq Logins /\ SystemLogins \subseteq Logins
    /\ BadHosts \subseteq Hosts /\ EntryPaths \subseteq [nested : BOOLEAN, stem : Hosts]
    /\ Links \subseteq EntryPaths
    /\ NoKey \notin Keys /\ NotAKey \notin Keys
    /\ Nobody \notin Logins \cup Hosts
    /\ Hosts \cap {"none", "signed", "cert", "not_found", "error", "lost"} = {}
    /\ MaxConns \in Nat /\ MaxAttempts \in Nat \ {0} /\ MaxEdits \in Nat

VARIABLES
    nextId,        \* SshCaServer.client_ids
    pc,            \* what the connection is doing
    user,          \* ConnectionHandler.username
    method,        \* ConnectionHandler.auth_method, or "none"
    key,           \* ConnectionHandler.public_key, or NoKey
    rejects,       \* authentication requests rejected so far
    channel,       \* a session channel is open
    call,          \* the request it sent to the CA, or NoCall
    answer,        \* the CA's answer to it, "none", or "signed": not yet back
    clients,       \* SshCaServer.clients
    removing,      \* tasks spawned by Drop that have not run yet
    inventory,     \* the key in each inventory file
    outside,       \* those of them that are links out of the inventory
    edits,
    (* History. *)
    held,          \* files with the key of its request: ever, always usable since it
    verified,      \* <<connection, login>>: PAM accepted a password
    unresolved,    \* <<connection, login>>: the account could not be looked up
    ended,         \* why the connection ended, or "no"
    issued         \* certificates the CA has signed

who     == <<user, method, key>>
request == <<call, answer, held>>
files   == <<inventory, outside, edits>>
logins  == <<verified, unresolved>>
vars    == <<nextId, pc, who, rejects, channel, request, clients, removing, files,
             logins, ended, issued>>

NoCall  == [op |-> "none", name |-> Nobody, key |-> NoKey]
NotHeld == [ever |-> {}, always |-> {}]

\* The files with a key.  Whether one without is a link makes no difference.
Keyed(inv) == {p \in EntryPaths : inv[p] # NoKey}

\* The files that hold the key k, and those of them that the CA may use.
Holders(inv, k)     == {p \in EntryPaths : k \in Keys /\ inv[p] = k}
Usable(inv, out, k) == Holders(inv, k) \ out

Init ==
    /\ nextId = 1
    /\ pc       = [c \in Conns |-> "unborn"]
    /\ user     = [c \in Conns |-> Nobody]
    /\ method   = [c \in Conns |-> "none"]
    /\ key      = [c \in Conns |-> NoKey]
    /\ rejects  = [c \in Conns |-> 0]
    /\ channel  = [c \in Conns |-> FALSE]
    /\ call     = [c \in Conns |-> NoCall]
    /\ answer   = [c \in Conns |-> "none"]
    /\ clients = {} /\ removing = {}
    /\ inventory \in [EntryPaths -> Keys \cup {NoKey}]
    /\ outside \in SUBSET (Links \cap Keyed(inventory))
    /\ edits = 0
    /\ held     = [c \in Conns |-> NotHeld]
    /\ verified = {} /\ unresolved = {}
    /\ ended    = [c \in Conns |-> "no"]
    /\ issued   = {}

-----------------------------------------------------------------------------
(* Connections come and go. *)

NewClient ==
    /\ nextId \in Conns
    /\ pc'     = [pc EXCEPT ![nextId] = "auth"]
    /\ nextId' = nextId + 1
    /\ UNCHANGED <<who, rejects, channel, request, clients, removing, files, logins,
                   ended, issued>>

\* The call has returned and its answer has been looked at.
Forget(c) ==
    /\ call'   = [call EXCEPT ![c] = NoCall]
    /\ answer' = [answer EXCEPT ![c] = "none"]
    /\ held'   = [held EXCEPT ![c] = NotHeld]

\* The session task ends; Drop spawns the removal from the clients map.
End(c, why) ==
    /\ pc'       = [pc EXCEPT ![c] = "dropped"]
    /\ ended'    = [ended EXCEPT ![c] = why]
    /\ channel'  = [channel EXCEPT ![c] = FALSE]
    /\ removing' = removing \cup {c}
    /\ Forget(c)

\* The client leaves or the inactivity timeout strikes.  Neither is noticed
\* while a handler waits for the CA or for PAM.
Leave(c) ==
    /\ pc[c] \in {"auth", "ready"}
    /\ End(c, "left")
    /\ UNCHANGED <<nextId, who, rejects, clients, files, logins, issued>>

\* Seeded fault: the entry of the oldest client is removed instead.
RemoveOldest(c) == clients' = clients \ {CHOOSE d \in clients \cup {c} :
                                            \A e \in clients \cup {c} : d <= e}

RemoveEntry(c) == clients' = clients \ {c}

\* The task spawned by ConnectionHandler::drop.
Remove(c) ==
    /\ c \in removing
    /\ RemoveEntry(c)
    /\ removing' = removing \ {c}
    /\ UNCHANGED <<nextId, pc, who, rejects, channel, request, files, logins, ended,
                   issued>>

\* A file of the inventory is written, removed or replaced by a link; requests
\* under way see it.
EditFile(p) ==
    /\ edits < MaxEdits /\ edits' = edits + 1
    /\ \E k \in Keys \cup {NoKey} : inventory' = [inventory EXCEPT ![p] = k]
    /\ \E link \in SUBSET ({p} \cap Links \cap Keyed(inventory')) :
           outside' = (outside \ {p}) \cup link
    /\ held' = [c \in Conns |->
                  [ever   |-> held[c].ever \cup Holders(inventory', call[c].key),
                   always |-> held[c].always
                                 \cap Usable(inventory', outside', call[c].key)]]
    /\ UNCHANGED <<nextId, pc, who, rejects, channel, call, answer, clients, removing,
                   logins, ended, issued>>

EditInventory == \E p \in EntryPaths : EditFile(p)

-----------------------------------------------------------------------------
(* Authentication. *)

\* Seeded fault: one attempt too many.
LockedLate(c) == rejects[c] + 1 > MaxAttempts

Locked(c) == rejects[c] + 1 >= MaxAttempts

\* Auth::Reject: russh counts it and ends the session at max_auth_attempts.
Reject(c) ==
    /\ rejects' = [rejects EXCEPT ![c] = @ + 1]
    /\ \/ Locked(c) /\ End(c, "rejected")
       \/ /\ ~Locked(c) /\ Forget(c)
          /\ pc' = [pc EXCEPT ![c] = "auth"]
          /\ UNCHANGED <<ended, channel, removing>>

\* The "none" method that OpenSSH always probes first.
AuthNone(c) ==
    /\ pc[c] = "auth"
    /\ Reject(c)
    /\ UNCHANGED <<nextId, who, clients, files, logins, issued>>

\* Seeded fault: the system accounts are left to PAM.
ForbiddenRoot(u, resolved) == u = Root

\* root is refused by name, a system account only if its uid can be looked up.
Forbidden(u, resolved) == u = Root \/ (u \in SystemLogins /\ resolved)

\* auth_password up to the call of PAM.  A password that no authenticator
\* accepts is RequestDenied, an error of the session, not a rejection.
AuthPassword(c, u, resolved) ==
    /\ pc[c] = "auth"
    /\ \/ u \in BadLogins /\ Reject(c) /\ UNCHANGED unresolved
       \/ /\ u \notin BadLogins /\ Forbidden(u, resolved)
          /\ End(c, "denied")
          /\ UNCHANGED <<rejects, unresolved>>
       \/ /\ u \notin BadLogins /\ ~Forbidden(u, resolved)
          /\ pc'   = [pc EXCEPT ![c] = "pam"]
          /\ call' = [call EXCEPT ![c] = [op |-> "pam", name |-> u, key |-> NoKey]]
          /\ unresolved' = IF resolved \/ u \notin SystemLogins THEN unresolved
                         ELSE unresolved \cup {<<c, u>>}
          /\ UNCHANGED <<rejects, channel, answer, held, ended, removing>>
    /\ UNCHANGED <<nextId, who, clients, files, verified, issued>>

\* PAM has decided about the password; its thread runs the handler on.
PamReturns(c, right) ==
    /\ pc[c] = "pam"
    /\ \/ /\ right
          /\ user'     = [user EXCEPT ![c] = call[c].name]
          /\ method'   = [method EXCEPT ![c] = "password"]
          /\ verified' = verified \cup {<<c, call[c].name>>}
          /\ pc'       = [pc EXCEPT ![c] = "ready"]
          /\ Forget(c)
          /\ UNCHANGED <<channel, ended, removing>>
       \/ /\ ~right
          /\ End(c, "denied")
          /\ UNCHANGED <<user, method, verified>>
    /\ UNCHANGED <<nextId, key, rejects, clients, files, unresolved, issued>>

\* A handler sends the request r to the CA and waits.
Ask(c, step, r) ==
    /\ pc'   = [pc EXCEPT ![c] = step]
    /\ call' = [call EXCEPT ![c] = r]
    /\ held' = [held EXCEPT ![c] = [ever   |-> Holders(inventory, r.key),
                                    always |-> Usable(inventory, outside, r.key)]]
    /\ UNCHANGED <<nextId, who, rejects, channel, answer, clients, removing, files,
                   logins, ended, issued>>

\* russh has verified that the client holds k; the login name is only logged.
AuthPublicKey(c, k) ==
    /\ pc[c] = "auth"
    /\ Ask(c, "checking", [op |-> "check", name |-> Nobody, key |-> k])

\* Seeded fault: an error of the CA is not passed on.
SettledByCert(c) == answer[c] \in Hosts \cup {"cert"}

\* send_request has returned.
Settled(c) == answer[c] \notin {"none", "signed"}

\* KeyFound(None), an error of the CA and an error of the call all reject.
CheckAnswered(c) ==
    /\ pc[c] = "checking" /\ Settled(c)
    /\ \/ /\ answer[c] \in Hosts
          /\ user'   = [user EXCEPT ![c] = answer[c]]
          /\ method' = [method EXCEPT ![c] = "public_key"]
          /\ key'    = [key EXCEPT ![c] = call[c].key]
          /\ pc'     = [pc EXCEPT ![c] = "ready"]
          /\ Forget(c)
          /\ UNCHANGED <<rejects, channel, ended, removing>>
       \/ answer[c] \notin Hosts /\ Reject(c) /\ UNCHANGED who
    /\ UNCHANGED <<nextId, clients, files, logins, issued>>

-----------------------------------------------------------------------------
(* Channels and commands. *)

\* channel_open_session registers the client under its id.
OpenChannel(c) ==
    /\ pc[c] = "ready" /\ ~channel[c]
    /\ channel' = [channel EXCEPT ![c] = TRUE]
    /\ clients' = clients \cup {c}
    /\ UNCHANGED <<nextId, pc, who, rejects, request, removing, files, logins, ended,
                   issued>>

\* session.disconnect, or an error of a handler: the session is over.
Abort(c) ==
    /\ End(c, "disconnected")
    /\ UNCHANGED <<nextId, who, rejects, clients, files, logins, issued>>

\* exec_request with the command sign_host_key.
ExecSignHost(c) ==
    /\ pc[c] = "ready" /\ channel[c]
    /\ IF key[c] = NoKey \/ user[c] = Nobody \/ user[c] \in BadHosts
       THEN Abort(c)
       ELSE Ask(c, "signing", [op |-> "sign_host", name |-> user[c], key |-> key[c]])

\* exec_request with any other command.
ExecOther(c) ==
    /\ pc[c] = "ready" /\ channel[c]
    /\ Abort(c)

\* Seeded fault: hosts may ask for user certificates.
HostsMaySend(c) == TRUE

\* Clients that logged in with a key can only ask for host certificates.
MaySend(c) == method[c] # "public_key"

\* data: one message of the channel is taken for one whole key.
Data(c, d) ==
    /\ pc[c] = "ready" /\ channel[c]
    /\ IF MaySend(c) /\ d \in Keys
       THEN Ask(c, "signing", [op |-> "sign_user", name |-> user[c], key |-> d])
       ELSE Abort(c)

\* send_sign_request and send_cert_and_close.
SignAnswered(c) ==
    /\ pc[c] = "signing" /\ Settled(c)
    /\ \/ /\ answer[c] = "cert"
          /\ pc'      = [pc EXCEPT ![c] = "ready"]
          /\ channel' = [channel EXCEPT ![c] = FALSE]
          /\ Forget(c)
          /\ UNCHANGED <<nextId, who, rejects, clients, removing, files, logins,
                         ended, issued>>
       \/ answer[c] # "cert" /\ Abort(c)

-----------------------------------------------------------------------------
(* The CA, as a session sees it. *)

Certificate(c) ==
    [type |-> IF call[c].op = "sign_user" THEN "user" ELSE "host",
     name |-> call[c].name, key |-> call[c].key, conn |-> c]

\* The call has not returned, and nothing is signed for it.
Pending(c) == pc[c] \in {"checking", "signing"} /\ answer[c] = "none"

AnswerIs(c, a) ==
    /\ answer' = [answer EXCEPT ![c] = a]
    /\ UNCHANGED <<nextId, pc, who, rejects, channel, call, held, clients, removing,
                   files, logins, ended>>

\* find_config_by_public_key: the name of a file that held the key when it was
\* read, or nothing, unless some file of the inventory held the key all the while.
CaFinds(c) ==
    /\ Pending(c) /\ call[c].op = "check"
    /\ \/ \E p \in held[c].ever : AnswerIs(c, p.stem)
       \/ held[c].always = {} /\ AnswerIs(c, "not_found")
    /\ UNCHANGED issued

\* Seeded fault: the key is not compared again at signing.
EntryExists(c) == TopPath(call[c].name) \in EntryPaths

\* sign_host_certificate reads {host}.toml at the top and compares the key.
EntryHolds(c) == TopPath(call[c].name) \in held[c].ever

\* The certificate is signed; it is still to be sent back.
CaSigns(c) ==
    /\ Pending(c)
    /\ call[c].op = "sign_user" \/ (call[c].op = "sign_host" /\ EntryHolds(c))
    /\ AnswerIs(c, "signed")
    /\ issued' = issued \cup {Certificate(c)}

CaReplies(c) ==
    /\ answer[c] = "signed"
    /\ AnswerIs(c, "cert")
    /\ UNCHANGED issued

\* The CA answers with an error, or the call fails, before the request is run
\* or after.
CaFails(c) ==
    /\ pc[c] \in {"checking", "signing"} /\ ~Settled(c)
    /\ (Pending(c) /\ AnswerIs(c, "error")) \/ AnswerIs(c, "lost")
    /\ UNCHANGED issued

-----------------------------------------------------------------------------
Client(c) ==
    \/ Leave(c) \/ AuthNone(c) \/ OpenChannel(c) \/ ExecSignHost(c) \/ ExecOther(c)
    \/ \E u \in Logins, resolved \in BOOLEAN : AuthPassword(c, u, resolved)
    \/ \E k \in Keys : AuthPublicKey(c, k)
    \/ \E d \in Keys \cup {NotAKey} : Data(c, d)

Answered(c) == CheckAnswered(c) \/ SignAnswered(c)
PamDone(c)  == \E right \in BOOLEAN : PamReturns(c, right)
Ca(c)       == CaFinds(c) \/ CaSigns(c) \/ CaReplies(c) \/ CaFails(c)

\* Some thread of the runtime is not in PAM.
ThreadFree == Cardinality({c \in Conns : pc[c] = "pam"}) < Workers

\* What the server and its clients do.
ServerNext ==
    \/ \E c \in Conns : PamDone(c)
    \/ ThreadFree /\ NewClient
    \/ ThreadFree /\ \E c \in Conns : Client(c) \/ Answered(c) \/ Remove(c)

Next == ServerNext \/ EditInventory \/ \E c \in Conns : Ca(c)

Spec == Init /\ [][Next]_vars

-----------------------------------------------------------------------------
Steps == {"unborn", "auth", "pam", "checking", "ready", "signing", "dropped"}
Calls == [op : {"none", "pam", "check", "sign_user", "sign_host"},
          name : Logins \cup Hosts \cup {Nobody}, key : Keys \cup {NoKey}]

TypeOK ==
    /\ nextId \in 1 .. MaxConns + 1
    /\ pc \in [Conns -> Steps]
    /\ user \in [Conns -> Logins \cup Hosts \cup {Nobody}]
    /\ method \in [Conns -> {"none", "password", "public_key"}]
    /\ key \in [Conns -> Keys \cup {NoKey}]
    /\ rejects \in [Conns -> 0 .. MaxAttempts]
    /\ channel \in [Conns -> BOOLEAN]
    /\ call \in [Conns -> Calls]
    /\ answer \in [Conns -> {"none", "signed", "cert", "not_found", "error", "lost"}
                                \cup Hosts]
    /\ clients \subseteq Conns /\ removing \subseteq Conns
    /\ inventory \in [EntryPaths -> Keys \cup {NoKey}] /\ outside \subseteq Links
    /\ edits \in 0 .. MaxEdits
    /\ held \in [Conns -> [ever : SUBSET EntryPaths, always : SUBSET EntryPaths]]
    /\ verified \subseteq Conns \X Logins /\ unresolved \subseteq Conns \X Logins
    /\ ended \in [Conns -> {"no", "left", "rejected", "denied", "disconnected"}]
    /\ issued \subseteq [type : {"user", "host"}, name : Logins \cup Hosts,
                         key : Keys, conn : Conns]

\* ssh_server/mod.rs:223-265, pam_auth.rs:32-49, user_key_signer.rs:14-49.
\* A user certificate is signed only on a connection on which PAM accepted the
\* password of the very user it names; never for root, and for a system account
\* only if the lookup of its uid failed at the login.
UserCertsEarned ==
    \A cert \in issued : cert.type = "user" =>
        /\ <<cert.conn, cert.name>> \in verified
        /\ cert.name \notin BadLogins \cup {Root}
        /\ cert.name \in SystemLogins => <<cert.conn, cert.name>> \in unresolved

\* ssh_server/mod.rs:279-386, certificat_authority/mod.rs:150-174.  When a host
\* certificate is signed, the connection has proved possession of the signed
\* key, and the host's own entry held that key at a moment since the request,
\* however the inventory was edited after the login.
HostCertsEarned ==
    [][\A cert \in issued' \ issued : cert.type = "host" =>
          /\ key[cert.conn] = cert.key /\ method[cert.conn] = "public_key"
          /\ TopPath(cert.name) \in held[cert.conn].ever
          /\ cert.name \notin BadHosts]_vars

\* ssh_server/mod.rs:279-323, host_config_reader.rs:82-163.  A client that logs in
\* with a key becomes a host whose file held that key while it was looked up.
LoginsFollowFiles ==
    [][\A c \in Conns : method[c] = "none" /\ method'[c] = "public_key" =>
          \E p \in held[c].ever : p.stem = user'[c]]_vars

\* ssh_server/mod.rs:223-386, user_key_signer.rs:20-26.  Whatever a client asks
\* for and in which order, one connection gets certificates for one name only,
\* and never certificates of both types.
OneIdentity ==
    \A a, b \in issued : a.conn = b.conn => a.type = b.type /\ a.name = b.name

\* ssh_server/mod.rs:326-339 and 389-399.  The clients map holds live
\* connections and those whose removal is under way, nothing else.
ClientsTracked ==
    \A c \in clients : pc[c] \in {"ready", "signing"} \/ c \in removing

\* ssh_server/mod.rs:389-399.  An ended connection leaves the clients map, also
\* while other connections keep threads in PAM.
ClientsForgotten ==
    \A c \in Conns : pc[c] = "dropped" ~> c \notin clients

\* ssh_server/mod.rs:135-137: "Counts rejected auth requests. [...] 3 leaves one
\* genuine retry."
WrongPasswordLeavesRetry ==
    \A c \in Conns : ended[c] = "denied" => rejects[c] >= MaxAttempts - 1
=============================================================================
