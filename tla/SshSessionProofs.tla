-------------------------- MODULE SshSessionProofs --------------------------
(***************************************************************************)
(* Theorems about SshSession for every number of connections, threads and  *)
(* edits, every set of names and keys and every inventory: who can obtain  *)
(* which certificate, and which clients the server remembers.              *)
(***************************************************************************)
EXTENDS SshSession, TLAPS

-----------------------------------------------------------------------------
(* The inductive invariant: what a connection is and has obtained is tied  *)
(* to the way it logged in.                                                *)

\* A name under which PAM may be asked for the connection c.
PamName(c, u) ==
    /\ u \in Logins \ (BadLogins \cup {Root})
    /\ u \in SystemLogins => <<c, u>> \in unresolved

\* What a connection may hold after a login with a password.
PasswordLogin(c) ==
    /\ PamName(c, user[c])
    /\ <<c, user[c]>> \in verified
    /\ key[c] = NoKey

\* What it holds after a login with a key.
KeyLogin(c) == user[c] \in Hosts /\ key[c] \in Keys

\* The signing request a connection has under way.
RequestOwn(c) ==
    /\ call[c].name = user[c] /\ call[c].key \in Keys
    /\ \/ call[c].op = "sign_user" /\ method[c] = "password"
       \/ /\ call[c].op = "sign_host" /\ method[c] = "public_key"
          /\ call[c].key = key[c] /\ user[c] \notin BadHosts

\* A certificate issued to the connection c.
CertOwn(c, cert) ==
    /\ cert.name = user[c]
    /\ \/ cert.type = "user" /\ method[c] = "password"
       \/ cert.type = "host" /\ method[c] = "public_key"

\* A name the CA has found for the connection is that of a file seen to hold
\* its key.
FoundOwn(c) ==
    answer[c] \in Hosts => \E p \in held[c].ever : p.stem = answer[c]

Identity(c) ==
    /\ pc[c] \in {"unborn", "auth", "pam", "checking"} => method[c] = "none"
    /\ pc[c] \in {"ready", "signing"} => method[c] # "none"
    /\ pc[c] # "dropped" => rejects[c] < MaxAttempts
    /\ method[c] = "none" => key[c] = NoKey
    /\ method[c] = "password" => PasswordLogin(c)
    /\ method[c] = "public_key" => KeyLogin(c)
    /\ pc[c] = "pam" => call[c].op = "pam" /\ PamName(c, call[c].name)
    /\ pc[c] = "checking" =>
          call[c].op = "check" /\ call[c].key \in Keys /\ FoundOwn(c)
    /\ pc[c] = "signing" => RequestOwn(c)
    /\ pc[c] \notin {"checking", "signing"} => answer[c] = "none"
    /\ \A cert \in issued : cert.conn = c => CertOwn(c, cert)

IdentityInv == TypeOK /\ \A c \in Conns : Identity(c)

\* An id that new_client has not given out belongs to no connection.
FreshIds == \A c \in Conns : c >= nextId => pc[c] = "unborn"

USE DEF who, request, files, logins

-----------------------------------------------------------------------------
(* Steps that give a connection no identity. *)

\* Handlers run for live connections only.
LEMMA FreshIdsInductive ==
    ASSUME TypeOK, FreshIds, [Next]_vars
    PROVE  FreshIds'
<1>1. ASSUME nextId' = nextId,
             \E c \in Conns : /\ pc[c] # "unborn"
                             /\ \A d \in Conns \ {c} : pc'[d] = pc[d]
      PROVE  FreshIds'
  BY <1>1 DEF FreshIds
<1>2. ASSUME nextId' = nextId, pc' = pc PROVE FreshIds'
  BY <1>2 DEF FreshIds
<1>3. CASE NewClient
  <2>1. nextId \in Conns /\ nextId' = nextId + 1 /\ pc' = [pc EXCEPT ![nextId] = "auth"]
    BY <1>3 DEF NewClient
  <2> QED
    BY <2>1 DEF FreshIds, Conns, TypeOK
<1>4. CASE EditInventory
  BY <1>2, <1>4 DEF EditInventory, EditFile
<1>5. ASSUME NEW c \in Conns, Client(c) \/ Answered(c) \/ PamDone(c) PROVE FreshIds'
  <2>1. /\ nextId' = nextId /\ pc[c] # "unborn"
        /\ \A d \in Conns \ {c} : pc'[d] = pc[d]
    BY <1>5 DEF Client, Leave, AuthNone, OpenChannel, ExecSignHost, ExecOther,
                AuthPassword, AuthPublicKey, Data, Reject, End, Abort, Ask, TypeOK,
                Answered, CheckAnswered, SignAnswered, PamDone, PamReturns
  <2> QED
    BY <1>1, <2>1
<1>6. ASSUME NEW c \in Conns, Remove(c) PROVE FreshIds'
  BY <1>2, <1>6 DEF Remove
<1>7. ASSUME NEW c \in Conns, Ca(c) PROVE FreshIds'
  BY <1>2, <1>7 DEF Ca, CaFinds, CaSigns, CaReplies, CaFails, AnswerIs
<1>8. CASE UNCHANGED vars
  BY <1>2, <1>8 DEF vars
<1> QED
  BY <1>3, <1>4, <1>5, <1>6, <1>7, <1>8 DEF Next, ServerNext

\* A step that leaves a connection alone, but for histories that grow, keeps its
\* identity.
LEMMA Untouched ==
    ASSUME NEW d \in Conns, Identity(d),
           user'[d] = user[d], method'[d] = method[d], key'[d] = key[d],
           verified \subseteq verified', unresolved \subseteq unresolved',
           \A cert \in issued' : cert.conn = d => cert \in issued,
           \/ pc'[d] = "dropped" /\ answer'[d] = "none"
           \/ /\ pc'[d] = pc[d] /\ rejects'[d] = rejects[d] /\ call'[d] = call[d]
              /\ answer'[d] = answer[d] /\ held[d].ever \subseteq held'[d].ever
    PROVE  Identity(d)'
<1>1. CASE pc'[d] = "dropped" /\ answer'[d] = "none"
  BY <1>1 DEF Identity, PasswordLogin, PamName, KeyLogin, CertOwn
<1>2. CASE /\ pc'[d] = pc[d] /\ rejects'[d] = rejects[d] /\ call'[d] = call[d]
           /\ answer'[d] = answer[d] /\ held[d].ever \subseteq held'[d].ever
  <2>1. FoundOwn(d) => FoundOwn(d)'
    BY <1>2 DEF FoundOwn
  <2>2. RequestOwn(d) => RequestOwn(d)'
    BY <1>2 DEF RequestOwn
  <2> QED
    BY <1>2, <2>1, <2>2 DEF Identity, PasswordLogin, PamName, KeyLogin, CertOwn
<1> QED
  BY <1>1, <1>2

-----------------------------------------------------------------------------
(* Types. *)

\* Nothing but the parts it names is left to check when a handler ends a
\* session or rejects a login.
LEMMA EndTypes ==
    ASSUME TypeOK, NEW c \in Conns,
           NEW why \in {"left", "rejected", "denied", "disconnected"}, End(c, why)
    PROVE  /\ pc' \in [Conns -> Steps] /\ channel' \in [Conns -> BOOLEAN]
           /\ ended' \in [Conns -> {"no", "left", "rejected", "denied", "disconnected"}]
           /\ removing' \subseteq Conns
           /\ call' \in [Conns -> Calls]
           /\ answer' \in [Conns -> {"none", "signed", "cert", "not_found", "error",
                                     "lost"} \cup Hosts]
           /\ held' \in [Conns -> [ever : SUBSET EntryPaths, always : SUBSET EntryPaths]]
<1>1. NoCall \in Calls /\ NotHeld \in [ever : SUBSET EntryPaths, always : SUBSET EntryPaths]
  BY DEF NoCall, NotHeld, Calls
<1> QED
  BY <1>1 DEF End, Forget, TypeOK, Steps

LEMMA ForgetTypes ==
    ASSUME TypeOK, NEW c \in Conns, Forget(c)
    PROVE  /\ call' \in [Conns -> Calls]
           /\ answer' \in [Conns -> {"none", "signed", "cert", "not_found", "error",
                                     "lost"} \cup Hosts]
           /\ held' \in [Conns -> [ever : SUBSET EntryPaths, always : SUBSET EntryPaths]]
<1>1. NoCall \in Calls /\ NotHeld \in [ever : SUBSET EntryPaths, always : SUBSET EntryPaths]
  BY DEF NoCall, NotHeld, Calls
<1> QED
  BY <1>1 DEF Forget, TypeOK

LEMMA RejectTypes ==
    ASSUME TypeOK, NEW c \in Conns, Identity(c), pc[c] # "dropped", Reject(c),
           UNCHANGED <<nextId, who, clients, files, logins, issued>>
    PROVE  TypeOK'
<1>1. rejects' \in [Conns -> 0 .. MaxAttempts]
  BY NamesAssumption DEF Reject, TypeOK, Identity
<1>2. CASE End(c, "rejected")
  BY <1>1, <1>2, EndTypes DEF TypeOK
<1>3. CASE Forget(c) /\ pc' = [pc EXCEPT ![c] = "auth"]
           /\ UNCHANGED <<ended, channel, removing>>
  <2>1. pc' \in [Conns -> Steps]
    BY <1>3 DEF TypeOK, Steps
  <2> QED
    BY <1>1, <1>3, <2>1, ForgetTypes DEF TypeOK
<1> QED
  BY <1>2, <1>3 DEF Reject

LEMMA AbortTypes ==
    ASSUME TypeOK, NEW c \in Conns, Abort(c)
    PROVE  TypeOK'
BY EndTypes DEF Abort, TypeOK

LEMMA AskTypes ==
    ASSUME TypeOK, NEW c \in Conns, NEW step \in Steps, NEW r \in Calls, Ask(c, step, r)
    PROVE  TypeOK'
<1>1. held' \in [Conns -> [ever : SUBSET EntryPaths, always : SUBSET EntryPaths]]
  BY DEF Ask, TypeOK, Holders, Usable
<1>2. pc' \in [Conns -> Steps] /\ call' \in [Conns -> Calls]
  BY DEF Ask, TypeOK
<1> QED
  BY <1>1, <1>2 DEF Ask, TypeOK

LEMMA AnswerTypes ==
    ASSUME TypeOK, NEW c \in Conns,
           NEW a \in {"none", "signed", "cert", "not_found", "error", "lost"} \cup Hosts,
           AnswerIs(c, a), UNCHANGED issued
    PROVE  TypeOK'
BY DEF AnswerIs, TypeOK

\* Every handler leaves every variable in its range.
LEMMA TypesInductive ==
    ASSUME IdentityInv, FreshIds, [Next]_vars
    PROVE  TypeOK'
<1>. USE DEF IdentityInv
<1>1. CASE NewClient
  <2>1. pc' \in [Conns -> Steps]
    BY <1>1 DEF NewClient, TypeOK, Steps
  <2>2. nextId' \in 1 .. MaxConns + 1
    BY <1>1, NamesAssumption DEF NewClient, TypeOK, Conns
  <2> QED
    BY <1>1, <2>1, <2>2 DEF NewClient, TypeOK
<1>2. CASE EditInventory
  <2>1. /\ inventory' \in [EntryPaths -> Keys \cup {NoKey}] /\ outside' \subseteq Links
        /\ edits' \in 0 .. MaxEdits
    BY <1>2, NamesAssumption DEF EditInventory, EditFile, TypeOK
  <2>2. held' \in [Conns -> [ever : SUBSET EntryPaths, always : SUBSET EntryPaths]]
    BY <1>2 DEF EditInventory, EditFile, TypeOK, Holders, Usable
  <2>3. UNCHANGED <<nextId, pc, user, method, key, rejects, channel, call, answer, clients,
                    removing, logins, ended, issued>>
    BY <1>2 DEF EditInventory, EditFile
  <2> QED
    BY <2>1, <2>2, <2>3 DEF TypeOK
<1>3. ASSUME NEW c \in Conns, Leave(c) PROVE TypeOK'
  BY <1>3, EndTypes DEF Leave, TypeOK
<1>4. ASSUME NEW c \in Conns, AuthNone(c) PROVE TypeOK'
  BY <1>4, RejectTypes DEF AuthNone
<1>5. ASSUME NEW c \in Conns, OpenChannel(c) PROVE TypeOK'
  BY <1>5 DEF OpenChannel, TypeOK
<1>6. ASSUME NEW c \in Conns, ExecSignHost(c) PROVE TypeOK'
  <2>1. ASSUME Ask(c, "signing", [op |-> "sign_host", name |-> user[c], key |-> key[c]])
        PROVE TypeOK'
    <3>1. [op |-> "sign_host", name |-> user[c], key |-> key[c]] \in Calls
      BY DEF TypeOK, Calls
    <3> QED
      BY <2>1, <3>1, AskTypes DEF Steps
  <2> QED
    BY <1>6, <2>1, AbortTypes DEF ExecSignHost
<1>7. ASSUME NEW c \in Conns, ExecOther(c) PROVE TypeOK'
  BY <1>7, AbortTypes DEF ExecOther
<1>8. ASSUME NEW c \in Conns, NEW d \in Keys \cup {NotAKey}, Data(c, d) PROVE TypeOK'
  <2>1. ASSUME Ask(c, "signing", [op |-> "sign_user", name |-> user[c], key |-> d]),
               d \in Keys
        PROVE TypeOK'
    <3>1. [op |-> "sign_user", name |-> user[c], key |-> d] \in Calls
      BY <2>1 DEF TypeOK, Calls
    <3> QED
      BY <2>1, <3>1, AskTypes DEF Steps
  <2> QED
    BY <1>8, <2>1, AbortTypes DEF Data
<1>9. ASSUME NEW c \in Conns, NEW k \in Keys, AuthPublicKey(c, k) PROVE TypeOK'
  <2>1. [op |-> "check", name |-> Nobody, key |-> k] \in Calls
    BY DEF Calls
  <2> QED
    BY <1>9, <2>1, AskTypes DEF AuthPublicKey, Steps
<1>10. ASSUME NEW c \in Conns, NEW u \in Logins, NEW resolved \in BOOLEAN,
              AuthPassword(c, u, resolved)
       PROVE TypeOK'
  <2>1. CASE u \in BadLogins
    BY <1>10, <2>1, RejectTypes DEF AuthPassword
  <2>2. CASE u \notin BadLogins /\ Forbidden(u, resolved)
    BY <1>10, <2>2, EndTypes DEF AuthPassword, TypeOK
  <2>3. CASE u \notin BadLogins /\ ~Forbidden(u, resolved)
    <3>1. pc' \in [Conns -> Steps]
      <4>1. pc' = [pc EXCEPT ![c] = "pam"]
        BY <1>10, <2>3 DEF AuthPassword
      <4> QED
        BY <4>1 DEF TypeOK, Steps
    <3>2. unresolved' \subseteq Conns \X Logins
      BY <1>10, <2>3 DEF AuthPassword, TypeOK
    <3>3. [op |-> "pam", name |-> u, key |-> NoKey] \in Calls
      BY DEF Calls
    <3>4. call' \in [Conns -> Calls]
      <4>1. call' = [call EXCEPT ![c] = [op |-> "pam", name |-> u, key |-> NoKey]]
        BY <1>10, <2>3 DEF AuthPassword
      <4> QED
        BY <3>3, <4>1 DEF TypeOK
    <3> QED
      BY <1>10, <2>3, <3>1, <3>2, <3>4 DEF AuthPassword, TypeOK
  <2> QED
    BY <2>1, <2>2, <2>3
<1>11. ASSUME NEW c \in Conns, NEW right \in BOOLEAN, PamReturns(c, right) PROVE TypeOK'
  <2>1. call[c].name \in Logins
    BY <1>11 DEF PamReturns, Identity, PamName
  <2>2. CASE right
    <3>1. /\ pc' = [pc EXCEPT ![c] = "ready"] /\ method' = [method EXCEPT ![c] = "password"]
          /\ user' = [user EXCEPT ![c] = call[c].name]
          /\ verified' = verified \cup {<<c, call[c].name>>}
          /\ Forget(c) /\ pc[c] = "pam"
          /\ UNCHANGED <<nextId, key, rejects, channel, clients, removing, files,
                         unresolved, ended, issued>>
      BY <1>11, <2>2 DEF PamReturns, End
    <3>2. pc' \in [Conns -> Steps]
      BY <3>1 DEF TypeOK, Steps
    <3>3. user' \in [Conns -> Logins \cup Hosts \cup {Nobody}]
      BY <2>1, <3>1 DEF TypeOK
    <3>4. verified' \subseteq Conns \X Logins
      BY <2>1, <3>1 DEF TypeOK
    <3> QED
      BY <3>1, <3>2, <3>3, <3>4, ForgetTypes DEF TypeOK
  <2>3. CASE ~right
    BY <1>11, <2>3, EndTypes DEF PamReturns, TypeOK
  <2> QED
    BY <2>2, <2>3
<1>12. ASSUME NEW c \in Conns, CheckAnswered(c) PROVE TypeOK'
  <2>1. CASE answer[c] \in Hosts
    <3>1. pc' \in [Conns -> Steps]
      BY <1>12, <2>1 DEF CheckAnswered, TypeOK, Steps
    <3>2. user' \in [Conns -> Logins \cup Hosts \cup {Nobody}]
      BY <1>12, <2>1 DEF CheckAnswered, TypeOK
    <3>3. method' \in [Conns -> {"none", "password", "public_key"}]
      BY <1>12, <2>1 DEF CheckAnswered, TypeOK
    <3>4. call[c].key \in Keys
      BY <1>12 DEF CheckAnswered, Identity
    <3>5. key' \in [Conns -> Keys \cup {NoKey}]
      BY <1>12, <2>1, <3>4 DEF CheckAnswered, TypeOK
    <3> QED
      BY <1>12, <2>1, <3>1, <3>2, <3>3, <3>5, ForgetTypes DEF CheckAnswered, TypeOK
  <2>2. CASE answer[c] \notin Hosts
    BY <1>12, <2>2, RejectTypes DEF CheckAnswered
  <2> QED
    BY <2>1, <2>2
<1>13. ASSUME NEW c \in Conns, SignAnswered(c) PROVE TypeOK'
  <2>1. CASE answer[c] = "cert"
    <3>1. pc' \in [Conns -> Steps] /\ channel' \in [Conns -> BOOLEAN]
      BY <1>13, <2>1 DEF SignAnswered, TypeOK, Steps
    <3> QED
      BY <1>13, <2>1, <3>1, ForgetTypes DEF SignAnswered, TypeOK
  <2>2. CASE answer[c] # "cert"
    BY <1>13, <2>2, AbortTypes DEF SignAnswered
  <2> QED
    BY <2>1, <2>2
<1>14. ASSUME NEW c \in Conns, Remove(c) PROVE TypeOK'
  BY <1>14 DEF Remove, RemoveEntry, TypeOK
<1>15. ASSUME NEW c \in Conns, CaFinds(c) PROVE TypeOK'
  <2>1. ASSUME NEW p \in held[c].ever PROVE p.stem \in Hosts
    BY NamesAssumption DEF TypeOK
  <2> QED
    BY <1>15, <2>1, AnswerTypes DEF CaFinds
<1>16. ASSUME NEW c \in Conns, CaSigns(c) PROVE TypeOK'
  <2>1. RequestOwn(c) /\ (KeyLogin(c) \/ PasswordLogin(c))
    BY <1>16 DEF CaSigns, Pending, Identity, RequestOwn
  <2>2. Certificate(c) \in [type : {"user", "host"}, name : Logins \cup Hosts,
                            key : Keys, conn : Conns]
    BY <1>16, <2>1 DEF CaSigns, Pending, Identity, RequestOwn, KeyLogin, PasswordLogin,
                       PamName, Certificate
  <2> QED
    BY <1>16, <2>2 DEF CaSigns, AnswerIs, TypeOK
<1>17. ASSUME NEW c \in Conns, CaReplies(c) \/ CaFails(c) PROVE TypeOK'
  BY <1>17, AnswerTypes DEF CaReplies, CaFails
<1>18. CASE UNCHANGED vars
  BY <1>18 DEF vars, TypeOK
<1> QED
  BY <1>1, <1>2, <1>3, <1>4, <1>5, <1>6, <1>7, <1>8, <1>9, <1>10, <1>11, <1>12, <1>13,
     <1>14, <1>15, <1>16, <1>17, <1>18
     DEF Next, ServerNext, Client, Answered, PamDone, Ca

-----------------------------------------------------------------------------
(* Identities. *)

\* Connections whose session ends, or whose login is rejected, have no new
\* identity, and the others keep theirs.
LEMMA EndKeeps ==
    ASSUME IdentityInv, NEW c \in Conns, NEW why, End(c, why),
           UNCHANGED <<user, method, key, logins, issued>>,
           \A d \in Conns \ {c} : rejects'[d] = rejects[d]
    PROVE  \A d \in Conns : Identity(d)'
<1>1. /\ pc' = [pc EXCEPT ![c] = "dropped"]
      /\ call' = [call EXCEPT ![c] = NoCall]
      /\ answer' = [answer EXCEPT ![c] = "none"]
      /\ held' = [held EXCEPT ![c] = NotHeld]
  BY DEF End, Forget
<1> QED
  BY <1>1, Untouched DEF IdentityInv, TypeOK

LEMMA RejectKeeps ==
    ASSUME IdentityInv, NEW c \in Conns, Reject(c), pc[c] \in {"auth", "checking"},
           UNCHANGED <<user, method, key, logins, issued>>
    PROVE  \A d \in Conns : Identity(d)'
<1>1. \A d \in Conns \ {c} : rejects'[d] = rejects[d]
  BY DEF Reject
<1>2. CASE End(c, "rejected")
  BY <1>1, <1>2, EndKeeps
<1>3. CASE ~Locked(c) /\ Forget(c) /\ pc' = [pc EXCEPT ![c] = "auth"]
  <2>1. /\ pc' = [pc EXCEPT ![c] = "auth"]
        /\ call' = [call EXCEPT ![c] = NoCall]
        /\ answer' = [answer EXCEPT ![c] = "none"]
        /\ held' = [held EXCEPT ![c] = NotHeld]
    BY <1>3 DEF Forget
  <2>2. rejects'[c] < MaxAttempts
    BY <1>3, NamesAssumption DEF Reject, Locked, IdentityInv, TypeOK
  <2>3. Identity(c)'
    BY <2>1, <2>2 DEF IdentityInv, TypeOK, Identity, CertOwn
  <2>4. ASSUME NEW d \in Conns, d # c PROVE Identity(d)'
    BY <1>1, <2>1, <2>4, Untouched DEF IdentityInv, TypeOK
  <2> QED
    BY <2>3, <2>4
<1> QED
  BY <1>2, <1>3 DEF Reject

\* A handler asks the CA only for what its connection may have.
LEMMA AskKeeps ==
    ASSUME IdentityInv, NEW c \in Conns, NEW r, Ask(c, "signing", r), pc[c] = "ready",
           r.name = user[c], r.key \in Keys,
           \/ r.op = "sign_user" /\ method[c] = "password"
           \/ /\ r.op = "sign_host" /\ method[c] = "public_key"
              /\ r.key = key[c] /\ user[c] \notin BadHosts
    PROVE  \A d \in Conns : Identity(d)'
<1>1. /\ pc' = [pc EXCEPT ![c] = "signing"] /\ call' = [call EXCEPT ![c] = r]
      /\ \A d \in Conns \ {c} : held'[d] = held[d]
      /\ UNCHANGED <<user, method, key, rejects, answer, logins, issued>>
  BY DEF Ask
<1>2. Identity(c)'
  <2>1. RequestOwn(c)'
    <3>1. call'[c] = r
      BY <1>1 DEF IdentityInv, TypeOK
    <3> QED
      BY <1>1, <3>1 DEF RequestOwn
  <2>2. pc'[c] = "signing" /\ method'[c] # "none"
    BY <1>1 DEF IdentityInv, TypeOK
  <2>3. Identity(c)
    BY DEF IdentityInv
  <2>4. /\ PasswordLogin(c)' <=> PasswordLogin(c)
        /\ KeyLogin(c)' <=> KeyLogin(c)
        /\ \A cert : CertOwn(c, cert)' <=> CertOwn(c, cert)
    BY <1>1 DEF PasswordLogin, PamName, KeyLogin, CertOwn
  <2> QED
    BY <1>1, <2>1, <2>2, <2>3, <2>4 DEF Identity
<1>3. ASSUME NEW d \in Conns, d # c PROVE Identity(d)'
  BY <1>1, <1>3, Untouched DEF IdentityInv, TypeOK
<1> QED
  BY <1>2, <1>3

\* A login starts from a connection without identity and without certificates.
LEMMA NoIdentityYet ==
    ASSUME IdentityInv, NEW c \in Conns, pc[c] \in {"unborn", "auth", "pam", "checking"}
    PROVE  /\ method[c] = "none" /\ key[c] = NoKey /\ rejects[c] < MaxAttempts
           /\ \A cert \in issued : cert.conn # c
BY DEF IdentityInv, Identity, CertOwn

LEMMA PasswordKeeps ==
    ASSUME IdentityInv, NEW c \in Conns, NEW u \in Logins, NEW resolved \in BOOLEAN,
           AuthPassword(c, u, resolved)
    PROVE  \A d \in Conns : Identity(d)'
<1>1. CASE u \in BadLogins
  BY <1>1, RejectKeeps DEF AuthPassword
<1>2. CASE u \notin BadLogins /\ Forbidden(u, resolved)
  <2>1. End(c, "denied") /\ UNCHANGED <<user, method, key, rejects, logins, issued>>
    BY <1>2 DEF AuthPassword
  <2> QED
    BY <2>1, EndKeeps
<1>3. CASE u \notin BadLogins /\ ~Forbidden(u, resolved)
  <2>1. /\ pc[c] = "auth" /\ pc' = [pc EXCEPT ![c] = "pam"]
        /\ call' = [call EXCEPT ![c] = [op |-> "pam", name |-> u, key |-> NoKey]]
        /\ unresolved \subseteq unresolved'
        /\ u \in SystemLogins => <<c, u>> \in unresolved'
        /\ UNCHANGED <<user, method, key, rejects, answer, held, verified, issued>>
    BY <1>3 DEF AuthPassword, Forbidden
  <2>2. PamName(c, u)'
    BY <1>3, <2>1 DEF PamName, Forbidden
  <2>3. Identity(c)'
    BY <2>1, <2>2, NoIdentityYet DEF IdentityInv, TypeOK, Identity
  <2>4. ASSUME NEW d \in Conns, d # c PROVE Identity(d)'
    BY <2>1, <2>4, Untouched DEF IdentityInv, TypeOK
  <2> QED
    BY <2>3, <2>4
<1> QED
  BY <1>1, <1>2, <1>3

LEMMA PamKeeps ==
    ASSUME IdentityInv, NEW c \in Conns, NEW right \in BOOLEAN, PamReturns(c, right)
    PROVE  \A d \in Conns : Identity(d)'
<1>1. CASE right
  <2>1. /\ pc[c] = "pam" /\ pc' = [pc EXCEPT ![c] = "ready"]
        /\ method' = [method EXCEPT ![c] = "password"]
        /\ user' = [user EXCEPT ![c] = call[c].name]
        /\ verified' = verified \cup {<<c, call[c].name>>}
        /\ call' = [call EXCEPT ![c] = NoCall]
        /\ answer' = [answer EXCEPT ![c] = "none"]
        /\ held' = [held EXCEPT ![c] = NotHeld]
        /\ UNCHANGED <<key, rejects, unresolved, issued>>
    BY <1>1 DEF PamReturns, Forget
  <2>2. PamName(c, call[c].name)
    BY <2>1 DEF IdentityInv, Identity
  <2>3. PasswordLogin(c)'
    BY <2>1, <2>2, NoIdentityYet DEF IdentityInv, TypeOK, PasswordLogin, PamName
  <2>4. Identity(c)'
    BY <2>1, <2>3, NoIdentityYet DEF IdentityInv, TypeOK, Identity
  <2>5. ASSUME NEW d \in Conns, d # c PROVE Identity(d)'
    BY <2>1, <2>5, Untouched DEF IdentityInv, TypeOK
  <2> QED
    BY <2>4, <2>5
<1>2. CASE ~right
  <2>1. End(c, "denied") /\ UNCHANGED <<user, method, key, rejects, logins, issued>>
    BY <1>2 DEF PamReturns
  <2> QED
    BY <2>1, EndKeeps
<1> QED
  BY <1>1, <1>2

LEMMA CheckKeeps ==
    ASSUME IdentityInv, NEW c \in Conns, CheckAnswered(c)
    PROVE  \A d \in Conns : Identity(d)'
<1>1. CASE answer[c] \in Hosts
  <2>1. /\ pc[c] = "checking" /\ pc' = [pc EXCEPT ![c] = "ready"]
        /\ user' = [user EXCEPT ![c] = answer[c]]
        /\ method' = [method EXCEPT ![c] = "public_key"]
        /\ key' = [key EXCEPT ![c] = call[c].key]
        /\ call' = [call EXCEPT ![c] = NoCall]
        /\ answer' = [answer EXCEPT ![c] = "none"]
        /\ held' = [held EXCEPT ![c] = NotHeld]
        /\ UNCHANGED <<rejects, logins, issued>>
    BY <1>1 DEF CheckAnswered, Forget
  <2>2. call[c].key \in Keys
    BY <2>1 DEF IdentityInv, Identity
  <2>3. KeyLogin(c)'
    BY <1>1, <2>1, <2>2 DEF IdentityInv, TypeOK, KeyLogin
  <2>4. Identity(c)'
    BY <2>1, <2>3, NoIdentityYet DEF IdentityInv, TypeOK, Identity
  <2>5. ASSUME NEW d \in Conns, d # c PROVE Identity(d)'
    BY <2>1, <2>5, Untouched DEF IdentityInv, TypeOK
  <2> QED
    BY <2>4, <2>5
<1>2. CASE answer[c] \notin Hosts
  BY <1>2, RejectKeeps DEF CheckAnswered
<1> QED
  BY <1>1, <1>2

\* What the CA signs for a connection is what its request asked for, and what it
\* finds is what a file said.
LEMMA CaKeeps ==
    ASSUME IdentityInv, NEW c \in Conns, Ca(c)
    PROVE  \A d \in Conns : Identity(d)'
<1>1. PICK a : answer' = [answer EXCEPT ![c] = a]
  BY DEF Ca, CaFinds, CaSigns, CaReplies, CaFails, AnswerIs
<1>2. UNCHANGED <<pc, user, method, key, rejects, call, held, logins>>
  BY DEF Ca, CaFinds, CaSigns, CaReplies, CaFails, AnswerIs
<1>3. pc[c] \in {"checking", "signing"}
  BY DEF Ca, CaFinds, CaSigns, CaReplies, CaFails, Pending, Settled, IdentityInv, Identity
<1>4. pc[c] = "checking" => FoundOwn(c)'
  <2>1. CASE CaFinds(c)
    BY <1>2, <2>1, NamesAssumption
       DEF CaFinds, AnswerIs, FoundOwn, IdentityInv, TypeOK
  <2>2. CASE ~CaFinds(c)
    <3>1. answer'[c] \notin Hosts
      BY <2>2, NamesAssumption
         DEF Ca, CaSigns, CaReplies, CaFails, AnswerIs, IdentityInv, TypeOK
    <3> QED
      BY <3>1 DEF FoundOwn
  <2> QED
    BY <2>1, <2>2
<1>5. ASSUME NEW cert \in issued', cert \notin issued
      PROVE  cert.conn = c /\ CertOwn(c, cert)
  <2>1. CaSigns(c) /\ cert = Certificate(c)
    BY <1>5 DEF Ca, CaFinds, CaSigns, CaReplies, CaFails
  <2>2. RequestOwn(c)
    BY <2>1 DEF CaSigns, Pending, IdentityInv, Identity
  <2> QED
    BY <2>1, <2>2 DEF Certificate, CertOwn, RequestOwn
<1>6. Identity(c)'
  <2>1. RequestOwn(c) => RequestOwn(c)'
    BY <1>2 DEF RequestOwn
  <2>2. \A cert \in issued' : cert.conn = c => CertOwn(c, cert)'
    BY <1>2, <1>5 DEF CertOwn, IdentityInv, Identity
  <2> QED
    BY <1>2, <1>3, <1>4, <2>1, <2>2
       DEF IdentityInv, Identity, PasswordLogin, PamName, KeyLogin
<1>7. ASSUME NEW d \in Conns, d # c PROVE Identity(d)'
  BY <1>1, <1>2, <1>5, <1>7, Untouched DEF IdentityInv, TypeOK
<1> QED
  BY <1>6, <1>7

-----------------------------------------------------------------------------
(* The invariant is inductive. *)

\* No handler changes what a connection is once it has logged in, and none
\* obtains for it what its login does not allow.
LEMMA IdentityInductive ==
    ASSUME IdentityInv, FreshIds, [Next]_vars
    PROVE  \A d \in Conns : Identity(d)'
<1>1. ASSUME UNCHANGED <<pc, user, method, key, rejects, call, answer, logins, issued>>,
             \A d \in Conns : held[d].ever \subseteq held'[d].ever
      PROVE  \A d \in Conns : Identity(d)'
  BY <1>1, Untouched DEF IdentityInv
<1>2. CASE NewClient
  <2>1. PICK n \in Conns : n = nextId
    BY <1>2 DEF NewClient
  <2>2. /\ pc' = [pc EXCEPT ![n] = "auth"]
        /\ UNCHANGED <<user, method, key, rejects, call, answer, held, logins, issued>>
    BY <1>2, <2>1 DEF NewClient
  <2>3. pc[n] = "unborn"
    BY <2>1 DEF FreshIds, Conns
  <2>4. Identity(n)'
    BY <2>2, <2>3 DEF IdentityInv, TypeOK, Identity, CertOwn
  <2>5. ASSUME NEW d \in Conns, d # n PROVE Identity(d)'
    BY <2>2, <2>5, Untouched DEF IdentityInv, TypeOK
  <2> QED
    BY <2>4, <2>5
<1>3. CASE EditInventory
  BY <1>1, <1>3 DEF EditInventory, EditFile
<1>4. ASSUME NEW c \in Conns, Leave(c) PROVE \A d \in Conns : Identity(d)'
  BY <1>4, EndKeeps DEF Leave
<1>5. ASSUME NEW c \in Conns, AuthNone(c) PROVE \A d \in Conns : Identity(d)'
  BY <1>5, RejectKeeps DEF AuthNone
<1>6. ASSUME NEW c \in Conns, OpenChannel(c) PROVE \A d \in Conns : Identity(d)'
  BY <1>1, <1>6 DEF OpenChannel
<1>7. ASSUME NEW c \in Conns, Abort(c) PROVE \A d \in Conns : Identity(d)'
  BY <1>7, EndKeeps DEF Abort
<1>8. ASSUME NEW c \in Conns, ExecSignHost(c) PROVE \A d \in Conns : Identity(d)'
  <2>1. CASE Abort(c)
    BY <2>1, <1>7
  <2>2. CASE /\ Ask(c, "signing",
                    [op |-> "sign_host", name |-> user[c], key |-> key[c]])
             /\ key[c] # NoKey /\ user[c] \notin BadHosts
    <3>1. pc[c] = "ready" /\ method[c] = "public_key" /\ key[c] \in Keys
      BY <1>8, <2>2 DEF ExecSignHost, IdentityInv, TypeOK, Identity, PasswordLogin
    <3> QED
      BY <2>2, <3>1, AskKeeps
  <2> QED
    BY <1>8, <2>1, <2>2 DEF ExecSignHost
<1>9. ASSUME NEW c \in Conns, ExecOther(c) PROVE \A d \in Conns : Identity(d)'
  BY <1>9, <1>7 DEF ExecOther
<1>10. ASSUME NEW c \in Conns, NEW k \in Keys \cup {NotAKey}, Data(c, k)
       PROVE \A d \in Conns : Identity(d)'
  <2>1. CASE Abort(c)
    BY <2>1, <1>7
  <2>2. CASE /\ Ask(c, "signing", [op |-> "sign_user", name |-> user[c], key |-> k])
             /\ MaySend(c) /\ k \in Keys
    <3>1. pc[c] = "ready" /\ method[c] = "password"
      BY <1>10, <2>2 DEF Data, MaySend, IdentityInv, TypeOK, Identity
    <3> QED
      BY <2>2, <3>1, AskKeeps
  <2> QED
    BY <1>10, <2>1, <2>2 DEF Data
<1>11. ASSUME NEW c \in Conns, NEW k \in Keys, AuthPublicKey(c, k)
       PROVE \A d \in Conns : Identity(d)'
  <2>1. /\ pc[c] = "auth" /\ pc' = [pc EXCEPT ![c] = "checking"]
        /\ call' = [call EXCEPT ![c] = [op |-> "check", name |-> Nobody, key |-> k]]
        /\ \A d \in Conns \ {c} : held'[d] = held[d]
        /\ UNCHANGED <<user, method, key, rejects, answer, logins, issued>>
    BY <1>11 DEF AuthPublicKey, Ask
  <2>2. answer[c] = "none" /\ FoundOwn(c)'
    BY <2>1, NamesAssumption DEF IdentityInv, Identity, FoundOwn
  <2>3. Identity(c)'
    BY <2>1, <2>2, NoIdentityYet DEF IdentityInv, TypeOK, Identity
  <2>4. ASSUME NEW d \in Conns, d # c PROVE Identity(d)'
    BY <2>1, <2>4, Untouched DEF IdentityInv, TypeOK
  <2> QED
    BY <2>3, <2>4
<1>12. ASSUME NEW c \in Conns, SignAnswered(c) PROVE \A d \in Conns : Identity(d)'
  <2>1. CASE Abort(c)
    BY <2>1, <1>7
  <2>2. CASE /\ pc' = [pc EXCEPT ![c] = "ready"] /\ Forget(c)
             /\ UNCHANGED <<user, method, key, rejects, logins, issued>>
    <3>1. /\ pc[c] = "signing"
          /\ call' = [call EXCEPT ![c] = NoCall]
          /\ answer' = [answer EXCEPT ![c] = "none"]
          /\ held' = [held EXCEPT ![c] = NotHeld]
      BY <1>12, <2>2 DEF SignAnswered, Forget
    <3>2. pc'[c] = "ready" /\ answer'[c] = "none" /\ Identity(c)
      BY <2>2, <3>1 DEF IdentityInv, TypeOK
    <3>3. Identity(c)'
      BY <2>2, <3>1, <3>2 DEF Identity, PasswordLogin, PamName, KeyLogin, CertOwn
    <3>4. ASSUME NEW d \in Conns, d # c PROVE Identity(d)'
      BY <2>2, <3>1, <3>4, Untouched DEF IdentityInv, TypeOK
    <3> QED
      BY <3>3, <3>4
  <2> QED
    BY <1>12, <2>1, <2>2 DEF SignAnswered
<1>13. ASSUME NEW c \in Conns, Remove(c) PROVE \A d \in Conns : Identity(d)'
  BY <1>1, <1>13 DEF Remove
<1>14. CASE UNCHANGED vars
  BY <1>1, <1>14 DEF vars
<1> QED
  BY <1>2, <1>3, <1>4, <1>5, <1>6, <1>8, <1>9, <1>10, <1>11, <1>12, <1>13, <1>14,
     PasswordKeeps, PamKeeps, CheckKeeps, CaKeeps
     DEF Next, ServerNext, Client, Answered, PamDone

\* A server without clients (Init: ssh_server/mod.rs).
LEMMA IdentityStart ==
    ASSUME Init
    PROVE  IdentityInv /\ FreshIds
<1>1. NoCall \in Calls /\ NotHeld \in [ever : SUBSET EntryPaths, always : SUBSET EntryPaths]
  BY DEF NoCall, NotHeld, Calls
<1>2. TypeOK
  BY <1>1, NamesAssumption DEF Init, TypeOK, Steps
<1>3. ASSUME NEW c \in Conns PROVE Identity(c)
  BY NamesAssumption DEF Init, Identity, CertOwn
<1> QED
  BY <1>2, <1>3 DEF Init, IdentityInv, FreshIds

\* The invariant holds in every reachable state.
LEMMA IdentityHolds == Spec => [](IdentityInv /\ FreshIds)
<1>1. IdentityInv /\ FreshIds /\ [Next]_vars => (IdentityInv /\ FreshIds)'
  BY TypesInductive, IdentityInductive, FreshIdsInductive DEF IdentityInv
<1> QED
  BY <1>1, IdentityStart, PTL DEF Spec

-----------------------------------------------------------------------------
(* What the invariant says of certificates, and of a step. *)

\* The identity of a connection is the one its certificates speak of.
LEMMA IdentityMeans == IdentityInv => UserCertsEarned /\ OneIdentity
<1>1. IdentityInv => UserCertsEarned
  BY DEF IdentityInv, TypeOK, Identity, CertOwn, PasswordLogin, PamName, UserCertsEarned
<1>2. IdentityInv => OneIdentity
  BY DEF IdentityInv, TypeOK, Identity, CertOwn, OneIdentity
<1> QED
  BY <1>1, <1>2

\* A step signs host certificates only as HostCertsEarned says.
EarnedStep ==
    \A cert \in issued' \ issued : cert.type = "host" =>
        /\ key[cert.conn] = cert.key /\ method[cert.conn] = "public_key"
        /\ TopPath(cert.name) \in held[cert.conn].ever
        /\ cert.name \notin BadHosts

\* A signing request of the connection's own, for which the CA has found the
\* entry, is a request for a certificate that is earned.
LEMMA SignedEarned ==
    ASSUME IdentityInv, NEW c \in Conns, Pending(c),
           call[c].op = "sign_user" \/ (call[c].op = "sign_host" /\ EntryHolds(c)),
           issued' = issued \cup {Certificate(c)}
    PROVE  EarnedStep
<1>1. ASSUME NEW cert \in issued' \ issued, cert.type = "host"
      PROVE  /\ cert = Certificate(c) /\ call[c].op = "sign_host" /\ EntryHolds(c)
             /\ RequestOwn(c)
  BY <1>1 DEF Certificate, Pending, IdentityInv, Identity
<1> QED
  BY <1>1 DEF EarnedStep, RequestOwn, Certificate, EntryHolds

\* A step makes a connection a host only as LoginsFollowFiles says.
FollowsStep ==
    \A c \in Conns : method[c] = "none" /\ method'[c] = "public_key" =>
        \E p \in held[c].ever : p.stem = user'[c]

LEMMA LoginSteps ==
    ASSUME IdentityInv, [Next]_vars
    PROVE  FollowsStep
<1>1. ASSUME NEW c \in Conns, method[c] = "none", method'[c] = "public_key"
      PROVE  CheckAnswered(c) /\ answer[c] \in Hosts /\ user'[c] = answer[c]
  <2>1. ASSUME NEW d \in Conns, CheckAnswered(d)
        PROVE  CheckAnswered(c) /\ answer[c] \in Hosts /\ user'[c] = answer[c]
    BY <1>1, <2>1 DEF CheckAnswered, IdentityInv, TypeOK
  <2>2. ASSUME NEW d \in Conns, NEW right \in BOOLEAN, PamReturns(d, right) PROVE FALSE
    BY <1>1, <2>2 DEF PamReturns, IdentityInv, TypeOK
  <2>3. ASSUME method' = method PROVE FALSE
    BY <1>1, <2>3
  <2> QED
    BY <1>1, <2>1, <2>2, <2>3
       DEF Next, ServerNext, NewClient, EditInventory, EditFile, Client, Answered, PamDone, Ca,
           Leave, AuthNone, OpenChannel, ExecSignHost, ExecOther, AuthPassword,
           AuthPublicKey, Data, Ask, Abort, SignAnswered, Remove, CaFinds, CaSigns,
           CaReplies, CaFails, AnswerIs, vars
<1> QED
  BY <1>1 DEF FollowsStep, CheckAnswered, IdentityInv, Identity, FoundOwn

\* A step forgets no client that it should remember, and the other way round.
LEMMA TrackedSteps ==
    ASSUME IdentityInv, FreshIds, ClientsTracked, [Next]_vars
    PROVE  ClientsTracked'
<1> SUFFICES ASSUME NEW c \in clients'
             PROVE  pc'[c] \in {"ready", "signing"} \/ c \in removing'
  BY DEF ClientsTracked
<1>. c \in Conns /\ (c \in clients => pc[c] \in {"ready", "signing"} \/ c \in removing)
  <2>1. clients' \subseteq Conns
    BY TypesInductive DEF TypeOK
  <2> QED
    BY <2>1 DEF ClientsTracked
<1>1. CASE NewClient
  <2>1. nextId \in Conns /\ pc[nextId] = "unborn"
    BY <1>1 DEF NewClient, FreshIds, Conns
  <2> QED
    BY <1>1, <2>1 DEF NewClient, IdentityInv, TypeOK
<1>2. CASE EditInventory \/ UNCHANGED vars
  BY <1>2 DEF EditInventory, EditFile, vars
<1>3. ASSUME NEW d \in Conns, OpenChannel(d)
      PROVE pc'[c] \in {"ready", "signing"} \/ c \in removing'
  BY <1>3 DEF OpenChannel
<1>4. ASSUME NEW d \in Conns, Remove(d)
      PROVE pc'[c] \in {"ready", "signing"} \/ c \in removing'
  BY <1>4 DEF Remove, RemoveEntry
<1>5. ASSUME NEW d \in Conns, Ca(d)
      PROVE pc'[c] \in {"ready", "signing"} \/ c \in removing'
  BY <1>5 DEF Ca, CaFinds, CaSigns, CaReplies, CaFails, AnswerIs
<1>6. ASSUME NEW d \in Conns, pc' = [pc EXCEPT ![d] = pc'[d]], clients' = clients,
             removing \subseteq removing',
             \/ pc'[d] \in {"ready", "signing"} \/ d \in removing'
             \/ pc[d] \notin {"ready", "signing"}
      PROVE  pc'[c] \in {"ready", "signing"} \/ c \in removing'
  BY <1>6 DEF IdentityInv, TypeOK
<1>7. ASSUME NEW d \in Conns, Client(d) \/ Answered(d) \/ PamDone(d), ~OpenChannel(d)
      PROVE  pc'[c] \in {"ready", "signing"} \/ c \in removing'
  <2>1. /\ pc' = [pc EXCEPT ![d] = pc'[d]] /\ clients' = clients
        /\ removing \subseteq removing'
        /\ \/ pc'[d] \in {"ready", "signing"} \/ d \in removing'
           \/ pc[d] \notin {"ready", "signing"}
    BY <1>7 DEF IdentityInv, TypeOK, Client, Answered, PamDone, Leave, AuthNone,
                ExecSignHost, ExecOther, AuthPassword, PamReturns, AuthPublicKey,
                Data, Ask, Abort, CheckAnswered, SignAnswered, Reject, End, Forget
  <2> QED
    BY <1>6, <2>1
<1> QED
  BY <1>1, <1>2, <1>3, <1>4, <1>5, <1>7 DEF Next, ServerNext

-----------------------------------------------------------------------------
(* The theorems. *)

\* ssh_server/mod.rs, all handlers: every variable keeps its type, in particular
\* no connection outlives max_auth_attempts rejections and no certificate is
\* issued without a name.
THEOREM TypesHold == Spec => []TypeOK
BY IdentityHolds, PTL DEF IdentityInv

\* ssh_server/mod.rs:223-265, user_key_signer.rs:14-49: a user certificate needs
\* a password that PAM accepted, for the name in the certificate, on the same
\* connection; it never names root, and a system account only after a lookup
\* of its uid that failed.
THEOREM UserCertsNeedPassword == Spec => []UserCertsEarned
BY IdentityMeans, IdentityHolds, PTL

\* user_key_signer.rs:20-26, ssh_server/mod.rs:356-386: a connection obtains
\* certificates of one type and for one name.
THEOREM OneIdentityPerConnection == Spec => []OneIdentity
BY IdentityMeans, IdentityHolds, PTL

\* ssh_server/mod.rs:279-386, certificat_authority/mod.rs:163-174: a host
\* certificate is signed only for the key the connection logged in with, which
\* the host's own entry held since the request.
THEOREM HostCertsNeedKey == Spec => HostCertsEarned
<1>1. ASSUME IdentityInv, NEW c \in Conns, CaSigns(c) PROVE EarnedStep
  BY <1>1, SignedEarned DEF CaSigns
<1>2. IdentityInv /\ [Next]_vars => [EarnedStep]_vars
  <2> SUFFICES ASSUME IdentityInv, Next, \A c \in Conns : ~CaSigns(c) PROVE EarnedStep
    BY <1>1
  <2>1. issued' = issued
    BY DEF Next, ServerNext, NewClient, EditInventory, EditFile, Client, Answered, PamDone, Ca,
           Leave, AuthNone, OpenChannel, ExecSignHost, ExecOther, AuthPassword,
           PamReturns, AuthPublicKey, Data, Ask, Abort, CheckAnswered, SignAnswered,
           Remove, CaFinds, CaReplies, CaFails
  <2> QED
    BY <2>1 DEF EarnedStep
<1> QED
  BY <1>2, IdentityHolds, PTL DEF Spec, HostCertsEarned, EarnedStep

\* ssh_server/mod.rs:279-323, host_config_reader.rs:82-163: nobody becomes a host
\* none of whose files held the key while it was looked up.
THEOREM LoginsNeedFile == Spec => LoginsFollowFiles
BY LoginSteps, IdentityHolds, PTL DEF Spec, LoginsFollowFiles, FollowsStep

\* ssh_server/mod.rs:326-399: the server remembers no client whose connection has
\* ended and whose removal is not under way.
THEOREM ClientsAreTracked == Spec => []ClientsTracked
<1>1. Init => ClientsTracked
  BY DEF Init, ClientsTracked
<1> QED
  BY <1>1, TrackedSteps, IdentityHolds, PTL DEF Spec
=============================================================================
