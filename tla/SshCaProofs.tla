---------------------------- MODULE SshCaProofs ----------------------------
(***************************************************************************)
(* Theorems about SshCa for every number of connections, every inventory,  *)
(* and any number of edits, settings of the clock and deaths of the CA:    *)
(* the server with the CA process behind it implements the server with the *)
(* CA of SshSession, and the CA turns calls down only for cause.           *)
(***************************************************************************)
EXTENDS SshCa, SshSessionProofs

-----------------------------------------------------------------------------
(* The inductive invariant: how far the CA is with a request tells what the *)
(* files have said about it.                                                *)

\* The call of c is with the CA.
Asked(c) == pc[c] \in {"checking", "signing"}

\* The history of each call is that of its key.
HeldInv ==
    \A c \in Conns : Asked(c) =>
        /\ Holders(inventory, call[c].key) \subseteq held[c].ever
        /\ held[c].always \subseteq Usable(inventory, outside, call[c].key)

MaySign(c) == call[c].op = "sign_user" \/ (call[c].op = "sign_host" /\ EntryHolds(c))

\* The files walked through have not held the key all along.
Walked(c) ==
    /\ pos \in 0 .. Len(GlobOrder)
    /\ \A i \in 1 .. pos : GlobOrder[i] \notin held[c].always

Reading(c) ==
    /\ caPc \in {"user_list", "template", "host_entry", "host_read", "after", "before",
                "sign", "scan", "scan_read"}
    /\ resp.kind = "none"
    /\ caPc \in {"user_list", "template"} => call[c].op = "sign_user" /\ template = Nobody
    /\ caPc \in {"host_entry", "host_read"} => call[c].op = "sign_host"
    /\ caPc = "host_read" => TopPath(call[c].name) \in EntryPaths
    /\ caPc \in {"after", "before", "sign"} => MaySign(c)
    /\ caPc \in {"scan", "scan_read"} => call[c].op = "check" /\ Walked(c)
    /\ caPc = "scan_read" => pos < Len(GlobOrder)

Done(c) ==
    /\ caPc = "idle"
    /\ \/ resp.kind \in {"cert", "error"}
       \/ resp.kind = "found" /\ call[c].op = "check" /\ resp.path \in held[c].ever
       \/ resp.kind = "not_found" /\ call[c].op = "check" /\ held[c].always = {}

Serves(c) == Pending(c) /\ req = Request(c) /\ (Reading(c) \/ Done(c))

CaInv ==
    \/ serving = Nobody /\ caPc = "idle" /\ resp.kind = "none"
    \/ serving \in Conns /\ Serves(serving)

\* A stream belongs to a call that waits for the CA, and not to the one it serves.
\* Those with smaller numbers have been numbered, too.
StreamInv ==
    /\ wire \in [Conns -> Wires] /\ older \in [Conns -> SUBSET Conns]
    /\ serving \in Conns => wire[serving] = "away"
    /\ \A c \in Conns : wire[c] # "away" => Pending(c)
    /\ \A c \in Conns : \A d \in older[c] : d # c /\ wire[d] \in {"numbered", "late"}

CoreInv == IdentityInv /\ FreshIds /\ HeldInv /\ CaInv
PairInv == CoreInv /\ StreamInv

-----------------------------------------------------------------------------
(* The steps of the server. *)

\* What a step leaves of the call of d.
CallSame(d) ==
    pc'[d] = pc[d] /\ call'[d] = call[d] /\ answer'[d] = answer[d] /\ held'[d] = held[d]

\* A call that begins or has been looked at.
CallFresh(d) ==
    /\ ~Pending(d) /\ answer'[d] = "none"
    /\ Asked(d)' => held'[d] = [ever   |-> Holders(inventory, call'[d].key),
                                always |-> Usable(inventory, outside, call'[d].key)]

\* Handlers touch no call that is with the CA.
LEMMA ServerCalls ==
    ASSUME IdentityInv, FreshIds, ServerNext
    PROVE  /\ UNCHANGED <<inventory, outside, edits, issued>>
           /\ \A d \in Conns : CallSame(d) \/ CallFresh(d)
<1>. USE DEF CallSame, CallFresh, Asked, Pending, IdentityInv, TypeOK, request, files
<1>1. CASE NewClient
  <2>1. nextId \in Conns /\ answer[nextId] = "none"
    BY <1>1 DEF NewClient, FreshIds, Conns, Identity
  <2> QED
    BY <1>1, <2>1 DEF NewClient, FreshIds, Conns
<1>2. ASSUME NEW c \in Conns, End(c, "left") \/ End(c, "rejected") \/ End(c, "denied")
                             \/ End(c, "disconnected"), ~Pending(c)
      PROVE  \A d \in Conns : CallSame(d) \/ CallFresh(d)
  BY <1>2 DEF End, Forget
<1>3. ASSUME NEW c \in Conns, Reject(c), ~Pending(c)
      PROVE  \A d \in Conns : CallSame(d) \/ CallFresh(d)
  BY <1>2, <1>3 DEF Reject, Forget
<1>4. ASSUME NEW c \in Conns, NEW step \in {"checking", "signing"}, NEW r, Ask(c, step, r),
             pc[c] \in {"auth", "ready"}
      PROVE  \A d \in Conns : CallSame(d) \/ CallFresh(d)
  BY <1>4 DEF Ask, Identity
<1>5. ASSUME NEW c \in Conns, Client(c) PROVE \A d \in Conns : CallSame(d) \/ CallFresh(d)
  <2>1. CASE Leave(c)
    BY <1>2, <2>1 DEF Leave
  <2>2. CASE AuthNone(c)
    BY <1>3, <2>2 DEF AuthNone
  <2>3. CASE OpenChannel(c)
    BY <2>3 DEF OpenChannel
  <2>4. CASE ExecSignHost(c)
    BY <1>2, <1>4, <2>4 DEF ExecSignHost, Abort
  <2>5. CASE ExecOther(c)
    BY <1>2, <2>5 DEF ExecOther, Abort
  <2>6. ASSUME NEW u \in Logins, NEW resolved \in BOOLEAN, AuthPassword(c, u, resolved)
        PROVE  \A d \in Conns : CallSame(d) \/ CallFresh(d)
    <3>1. CASE u \in BadLogins \/ Forbidden(u, resolved)
      BY <1>2, <1>3, <2>6, <3>1 DEF AuthPassword
    <3>2. CASE u \notin BadLogins /\ ~Forbidden(u, resolved)
      BY <2>6, <3>2 DEF AuthPassword, Identity
    <3> QED
      BY <3>1, <3>2
  <2>7. ASSUME NEW k \in Keys, AuthPublicKey(c, k)
        PROVE  \A d \in Conns : CallSame(d) \/ CallFresh(d)
    BY <1>4, <2>7 DEF AuthPublicKey
  <2>8. ASSUME NEW k \in Keys \cup {NotAKey}, Data(c, k)
        PROVE  \A d \in Conns : CallSame(d) \/ CallFresh(d)
    BY <1>2, <1>4, <2>8 DEF Data, Abort
  <2> QED
    BY <1>5, <2>1, <2>2, <2>3, <2>4, <2>5, <2>6, <2>7, <2>8 DEF Client
<1>6. ASSUME NEW c \in Conns, Answered(c) PROVE \A d \in Conns : CallSame(d) \/ CallFresh(d)
  <2>1. ~Pending(c)
    BY <1>6 DEF Answered, CheckAnswered, SignAnswered, Settled
  <2>2. CASE CheckAnswered(c)
    BY <1>3, <2>1, <2>2 DEF CheckAnswered, Forget
  <2>3. CASE SignAnswered(c)
    BY <1>2, <2>1, <2>3 DEF SignAnswered, Forget, Abort
  <2> QED
    BY <1>6, <2>2, <2>3 DEF Answered
<1>7. ASSUME NEW c \in Conns, PamDone(c) PROVE \A d \in Conns : CallSame(d) \/ CallFresh(d)
  <2>1. PICK right \in BOOLEAN : PamReturns(c, right)
    BY <1>7 DEF PamDone
  <2>2. CASE right
    <3>1. pc[c] = "pam" /\ pc' = [pc EXCEPT ![c] = "ready"] /\ Forget(c)
      BY <2>1, <2>2 DEF PamReturns
    <3> QED
      BY <3>1 DEF Forget
  <2>3. CASE ~right
    <3>1. pc[c] = "pam" /\ End(c, "denied")
      BY <2>1, <2>3 DEF PamReturns
    <3> QED
      BY <1>2, <3>1
  <2> QED
    BY <2>2, <2>3
<1>8. ASSUME NEW c \in Conns, Remove(c) PROVE \A d \in Conns : CallSame(d) \/ CallFresh(d)
  BY <1>8 DEF Remove
<1>9. UNCHANGED <<inventory, outside, edits, issued>>
  BY DEF ServerNext, NewClient, Client, Answered, PamDone, Leave, AuthNone, OpenChannel,
         ExecSignHost, ExecOther, AuthPassword, PamReturns, AuthPublicKey, Data, Ask,
         Abort, CheckAnswered, SignAnswered, Remove
<1> QED
  BY <1>1, <1>5, <1>6, <1>7, <1>8, <1>9 DEF ServerNext

\* A session's handlers leave every call as the CA sees it.
LEMMA ServerKeeps ==
    ASSUME PairInv, Server
    PROVE  PairInv'
<1>1. /\ ServerNext
      /\ UNCHANGED <<serving, caPc, req, template, defaults, after, before, pos, resp>>
      /\ UNCHANGED <<wire, older>>
  BY DEF Server, caVars, local, ipcVars
<1>2. IdentityInv' /\ FreshIds'
  BY <1>1, TypesInductive, IdentityInductive, FreshIdsInductive
     DEF PairInv, CoreInv, IdentityInv, Next
<1>3. /\ UNCHANGED <<inventory, outside>>
      /\ \A d \in Conns : CallSame(d) \/ CallFresh(d)
  BY <1>1, ServerCalls DEF PairInv, CoreInv
<1>4. HeldInv'
  <2> SUFFICES ASSUME NEW c \in Conns, Asked(c)'
               PROVE  /\ Holders(inventory, call'[c].key) \subseteq held'[c].ever
                      /\ held'[c].always \subseteq Usable(inventory, outside, call'[c].key)
    BY <1>3 DEF HeldInv, Holders, Usable
  <2>1. CASE CallSame(c)
    BY <2>1 DEF PairInv, CoreInv, HeldInv, CallSame, Asked
  <2>2. CASE CallFresh(c)
    BY <2>2 DEF CallFresh
  <2> QED
    BY <1>3, <2>1, <2>2
<1>5. StreamInv'
  <2>1. \A d \in Conns : Pending(d) => Pending(d)'
    BY <1>3 DEF CallSame, CallFresh, Pending
  <2> QED
    BY <1>1, <2>1 DEF PairInv, CoreInv, StreamInv
<1>6. CaInv'
  <2>1. CASE serving = Nobody
    BY <1>1, <2>1, OrderAssumption DEF PairInv, CoreInv, CaInv
  <2>2. CASE serving \in Conns /\ Serves(serving)
    <3>1. PICK c \in Conns : c = serving /\ Serves(c)
      BY <2>2
    <3>2. CallSame(c) /\ Pending(c)
      BY <1>3, <3>1 DEF CallFresh, Serves
    <3>3. Pending(c)' /\ req' = Request(c)'
      BY <1>1, <3>1, <3>2 DEF CallSame, Pending, Request, Serves
    <3>4. Reading(c) => Reading(c)'
      BY <1>1, <3>2 DEF CallSame, Reading, MaySign, EntryHolds, Walked
    <3>5. Done(c) => Done(c)'
      BY <1>1, <3>2 DEF CallSame, Done
    <3> QED
      BY <1>1, <3>1, <3>3, <3>4, <3>5 DEF Serves, CaInv
  <2> QED
    BY <2>1, <2>2 DEF PairInv, CoreInv, CaInv
<1> QED
  BY <1>2, <1>4, <1>5, <1>6 DEF PairInv, CoreInv

\* The operator's edit changes nothing that the CA has already seen.
LEMMA EditKeeps ==
    ASSUME PairInv, Edit
    PROVE  PairInv'
<1>1. /\ EditInventory
      /\ UNCHANGED <<serving, caPc, req, template, defaults, after, before, pos, resp>>
      /\ UNCHANGED <<wire, older>>
  BY DEF Edit, EditInventory, local, ipcVars
<1>2. IdentityInv' /\ FreshIds'
  BY <1>1, TypesInductive, IdentityInductive, FreshIdsInductive
     DEF PairInv, CoreInv, IdentityInv, Next
<1>3. /\ UNCHANGED <<pc, call, answer>>
      /\ held' = [c \in Conns |->
                   [ever   |-> held[c].ever   \cup Holders(inventory', call[c].key),
                    always |-> held[c].always
                                  \cap Usable(inventory', outside', call[c].key)]]
  BY <1>1 DEF EditInventory, EditFile
<1>4. HeldInv'
  BY <1>3 DEF HeldInv, Asked, Holders, Usable
<1>5. \A c \in Conns : /\ held[c].ever \subseteq held'[c].ever
                       /\ held'[c].always \subseteq held[c].always
  BY <1>3
<1>6. StreamInv'
  BY <1>1, <1>3 DEF PairInv, CoreInv, StreamInv, Pending
<1>7. ASSUME NEW c \in Conns, Serves(c) PROVE Serves(c)'
  <2>1. Pending(c)' /\ req' = Request(c)'
    BY <1>1, <1>3, <1>7 DEF Pending, Request, Serves
  <2>2. Reading(c) => Reading(c)'
    BY <1>1, <1>3, <1>5 DEF Reading, MaySign, EntryHolds, Walked
  <2>3. Done(c) => Done(c)'
    BY <1>1, <1>3, <1>5 DEF Done
  <2> QED
    BY <1>7, <2>1, <2>2, <2>3 DEF Serves
<1>8. CaInv'
  BY <1>1, <1>7 DEF PairInv, CoreInv, CaInv
<1> QED
  BY <1>2, <1>4, <1>6, <1>8 DEF PairInv, CoreInv

-----------------------------------------------------------------------------
(* The same steps, as SshSession sees them. *)

USE DEF who, request, files, logins, NoCall, NotHeld, Conns,
        Session!who, Session!request, Session!files, Session!logins, Session!NoCall,
        Session!NotHeld, Session!Conns

LEMMA AnswerSame ==
    ASSUME UNCHANGED <<answer, serving, resp>>
    PROVE  SessionAnswer' = SessionAnswer
BY DEF SessionAnswer

LEMMA MappedForget ==
    ASSUME TypeOK, NEW c \in Conns, serving # c, UNCHANGED <<serving, resp>>, Forget(c)
    PROVE  Session!Forget(c)
BY DEF TypeOK, Forget, Session!Forget, SessionAnswer

LEMMA MappedEnd ==
    ASSUME TypeOK, NEW c \in Conns, serving # c, UNCHANGED <<serving, resp>>,
           NEW why, End(c, why)
    PROVE  Session!End(c, why)
BY MappedForget DEF End, Session!End

LEMMA MappedReject ==
    ASSUME TypeOK, NEW c \in Conns, serving # c, UNCHANGED <<serving, resp>>, Reject(c)
    PROVE  Session!Reject(c)
BY MappedForget, MappedEnd DEF Reject, Session!Reject, Locked, Session!Locked

LEMMA MappedAsk ==
    ASSUME NEW c \in Conns, UNCHANGED <<serving, resp>>, NEW step, NEW r, Ask(c, step, r)
    PROVE  Session!Ask(c, step, r)
BY AnswerSame DEF Ask, Session!Ask, Holders, Session!Holders, Usable, Session!Usable

LEMMA MappedAbort ==
    ASSUME TypeOK, NEW c \in Conns, serving # c, UNCHANGED <<serving, resp>>, Abort(c)
    PROVE  Session!Abort(c)
BY MappedEnd DEF Abort, Session!Abort

\* What a client or a handler does to a connection whose call is not being
\* served is what SshSession says.
LEMMA MappedClient ==
    ASSUME TypeOK, NEW c \in Conns, serving # c, UNCHANGED <<serving, resp>>, Client(c)
    PROVE  Session!Client(c)
<1>1. CASE Leave(c)
  BY <1>1, MappedEnd DEF Leave, Session!Leave, Session!Client
<1>2. CASE AuthNone(c)
  BY <1>2, MappedReject DEF AuthNone, Session!AuthNone, Session!Client
<1>3. CASE OpenChannel(c)
  BY <1>3, AnswerSame DEF OpenChannel, Session!OpenChannel, Session!Client
<1>4. CASE ExecSignHost(c)
  BY <1>4, MappedAbort, MappedAsk DEF ExecSignHost, Session!ExecSignHost, Session!Client
<1>5. CASE ExecOther(c)
  BY <1>5, MappedAbort DEF ExecOther, Session!ExecOther, Session!Client
<1>6. ASSUME NEW u \in Logins, NEW resolved \in BOOLEAN, AuthPassword(c, u, resolved)
      PROVE  Session!AuthPassword(c, u, resolved)
  <2>1. Forbidden(u, resolved) = Session!Forbidden(u, resolved)
    BY DEF Forbidden, Session!Forbidden
  <2>2. CASE u \in BadLogins
    BY <1>6, <2>2, MappedReject DEF AuthPassword, Session!AuthPassword
  <2>3. CASE u \notin BadLogins /\ Forbidden(u, resolved)
    BY <1>6, <2>1, <2>3, MappedEnd DEF AuthPassword, Session!AuthPassword
  <2>4. CASE u \notin BadLogins /\ ~Forbidden(u, resolved)
    BY <1>6, <2>1, <2>4, AnswerSame DEF AuthPassword, Session!AuthPassword
  <2> QED
    BY <2>2, <2>3, <2>4
<1>7. ASSUME NEW k \in Keys, AuthPublicKey(c, k) PROVE Session!AuthPublicKey(c, k)
  BY <1>7, MappedAsk DEF AuthPublicKey, Session!AuthPublicKey
<1>8. ASSUME NEW d \in Keys \cup {NotAKey}, Data(c, d) PROVE Session!Data(c, d)
  BY <1>8, MappedAbort, MappedAsk DEF Data, Session!Data, MaySend, Session!MaySend
<1> QED
  BY <1>1, <1>2, <1>3, <1>4, <1>5, <1>6, <1>7, <1>8 DEF Client, Session!Client

LEMMA MappedAnswered ==
    ASSUME TypeOK, NEW c \in Conns, serving # c, UNCHANGED <<serving, resp>>, Answered(c)
    PROVE  Session!Answered(c)
<1>1. SessionAnswer[c] = answer[c]
  BY DEF SessionAnswer
<1>2. CASE CheckAnswered(c)
  BY <1>1, <1>2, MappedForget, MappedReject
     DEF CheckAnswered, Session!CheckAnswered, Settled, Session!Settled, Session!Answered
<1>3. CASE SignAnswered(c)
  BY <1>1, <1>3, MappedForget, MappedAbort
     DEF SignAnswered, Session!SignAnswered, Settled, Session!Settled, Session!Answered
<1> QED
  BY <1>2, <1>3 DEF Answered

LEMMA ServerMaps ==
    ASSUME PairInv, Server
    PROVE  Session!ServerNext
<1>1. TypeOK /\ ServerNext /\ UNCHANGED <<serving, resp>>
  BY DEF PairInv, CoreInv, IdentityInv, Server, caVars, local
<1>2. \A c \in Conns : ~Pending(c) => serving # c
  BY OrderAssumption DEF PairInv, CoreInv, CaInv, Serves
<1>3. ThreadFree = Session!ThreadFree
  BY DEF ThreadFree, Session!ThreadFree, Cardinality, Session!Cardinality
<1>4. CASE ThreadFree /\ NewClient
  BY <1>1, <1>3, <1>4, AnswerSame DEF NewClient, Session!NewClient, Session!ServerNext
<1>5. ASSUME NEW c \in Conns, ThreadFree, Client(c) PROVE Session!ServerNext
  <2>1. CASE serving # c
    BY <1>1, <1>3, <1>5, <2>1, MappedClient DEF Session!ServerNext
  <2>2. CASE Pending(c)
    <3>1. ~Client(c)
      BY <2>2 DEF Pending, Client, Leave, AuthNone, OpenChannel, ExecSignHost, ExecOther,
                  AuthPassword, AuthPublicKey, Data
    <3> QED
      BY <1>5, <3>1
  <2> QED
    BY <1>2, <2>1, <2>2
<1>6. ASSUME NEW c \in Conns, ThreadFree, Answered(c) PROVE Session!ServerNext
  <2>1. ~Pending(c)
    BY <1>6 DEF Answered, CheckAnswered, SignAnswered, Settled, Pending
  <2> QED
    BY <1>1, <1>2, <1>3, <1>6, <2>1, MappedAnswered DEF Session!ServerNext
<1>7. ASSUME NEW c \in Conns, ThreadFree, Remove(c) PROVE Session!ServerNext
  <2>1. Session!Remove(c)
    BY <1>1, <1>7, AnswerSame DEF Remove, Session!Remove, RemoveEntry, Session!RemoveEntry
  <2> QED
    BY <1>3, <1>7, <2>1 DEF Session!ServerNext
<1>8. ASSUME NEW c \in Conns, NEW right \in BOOLEAN, PamReturns(c, right)
      PROVE  Session!ServerNext
  <2>1. serving # c
    BY <1>2, <1>8 DEF PamReturns, Pending
  <2>2. Session!PamReturns(c, right)
    BY <1>1, <1>8, <2>1, MappedForget, MappedEnd DEF PamReturns, Session!PamReturns
  <2> QED
    BY <2>2 DEF Session!PamDone, Session!ServerNext
<1> QED
  BY <1>1, <1>4, <1>5, <1>6, <1>7, <1>8 DEF ServerNext, PamDone

LEMMA EditMaps ==
    ASSUME Edit
    PROVE  Session!EditInventory
<1>1. PICK p \in EntryPaths : EditFile(p)
  BY DEF Edit
<1>2. SessionAnswer' = SessionAnswer
  BY <1>1, AnswerSame DEF Edit, EditFile, local
<1>3. Session!EditFile(p)
  BY <1>1, <1>2 DEF EditFile, Session!EditFile, Holders, Session!Holders, Usable,
                    Session!Usable, Keyed, Session!Keyed
<1> QED
  BY <1>3 DEF Session!EditInventory

-----------------------------------------------------------------------------
(* The steps of the CA. *)

USE DEF Files!fileVars, Files!NoRequest, Files!NoResponse, Files!NoDefaults

LEMMA NothingSeen ==
    ASSUME PairInv, UNCHANGED vars
    PROVE  (IdentityInv /\ FreshIds /\ HeldInv)'
BY DEF PairInv, CoreInv, vars, IdentityInv, TypeOK, Identity, FreshIds, HeldInv, Asked,
       Holders, Usable, PasswordLogin, PamName, KeyLogin, RequestOwn, CertOwn, FoundOwn

\* The beginnings of a call, the start of a CA and the clock are seen by nobody.
LEMMA QuietSteps ==
    ASSUME PairInv, UNCHANGED <<vars, serving, local>>
    PROVE  CoreInv' /\ UNCHANGED Session!vars
<1>1. CaInv'
  BY DEF PairInv, CoreInv, CaInv, Serves, Pending, Request, Reading, MaySign, EntryHolds,
         Walked, Done, vars, local
<1>2. SessionAnswer' = SessionAnswer
  BY DEF vars, local, SessionAnswer
<1> QED
  BY <1>1, <1>2, NothingSeen DEF CoreInv, vars, Session!vars

\* A request that is taken up begins with its first read; nobody sees it.
LEMMA TakeSteps ==
    ASSUME PairInv, NEW c \in Conns, Take(c)
    PROVE  CoreInv' /\ UNCHANGED Session!vars
<1>1. /\ serving = Nobody /\ serving' = c /\ UNCHANGED vars /\ Pending(c)
      /\ Files!Receive(Request(c))
  BY DEF Take, Accept
<1>2. Pending(c)' /\ Request(c)' = Request(c)
  BY <1>1 DEF vars, Pending, Request
<1>3. call[c].op \in {"check", "sign_user", "sign_host"}
  BY <1>1 DEF Pending, PairInv, CoreInv, IdentityInv, Identity, RequestOwn
<1>4. /\ req' = Request(c) /\ resp' = [kind |-> "none"] /\ pos' = 0 /\ template' = Nobody
      /\ call[c].op = "check" => caPc' = "scan"
      /\ call[c].op = "sign_user" => caPc' = "user_list"
      /\ call[c].op = "sign_host" => caPc' = "host_entry"
  BY <1>1, <1>3 DEF Files!Receive, Request
<1>5. Len(GlobOrder) \in Nat
  BY OrderAssumption
<1>6. Reading(c)'
  BY <1>1, <1>3, <1>4, <1>5 DEF vars, Reading, Walked
<1>7. CaInv'
  BY <1>1, <1>2, <1>4, <1>6 DEF CaInv, Serves
<1>8. CoreInv'
  BY <1>1, <1>7, NothingSeen DEF CoreInv
<1>9. resp.kind # "cert"
  BY <1>1, OrderAssumption DEF PairInv, CoreInv, CaInv
<1>10. SessionAnswer' = SessionAnswer
  BY <1>1, <1>4, <1>9, OrderAssumption DEF SessionAnswer, vars
<1> QED
  BY <1>1, <1>8, <1>10 DEF vars, Session!vars

\* What the CA finds in a file of the inventory.
LEMMA EntryFacts ==
    ASSUME PairInv, NEW p \in EntryPaths, NEW k \in Keys
    PROVE  /\ Entries[p] = NoKey => p \notin Holders(inventory, k)
           /\ Entries[p] # NoKey =>
                 /\ Entries[p].key = k <=> p \in Holders(inventory, k)
                 /\ Entries[p].days = 0
                 /\ Entries[p].names = IF p \in bare THEN {} ELSE {p.stem}
<1>. DEFINE ns == IF p \in bare THEN {} ELSE {p.stem}
<1>1. inventory[p] \in Keys \cup {NoKey} /\ ns \in SUBSET Hosts
  BY NamesAssumption DEF PairInv, CoreInv, IdentityInv, TypeOK
<1>2. CASE inventory[p] = NoKey
  BY <1>2, NamesAssumption DEF Entries, Holders
<1>3. CASE inventory[p] # NoKey
  <2>1. Entries[p] = Entry(inventory[p], ns) /\ Entries[p] # NoKey
    <3>1. Entries[p] = Entry(inventory[p], ns)
      BY <1>3 DEF Entries
    <3>2. NoKey # Entry(inventory[p], ns)
      BY <1>1, <1>3, BrokenAssumption
    <3> QED
      BY <3>1, <3>2
  <2>. HIDE DEF ns
  <2>2. /\ Entries[p].key = inventory[p] /\ Entries[p].days = 0 /\ Entries[p].names = ns
    BY <2>1 DEF Entry
  <2> QED
    BY <2>1, <2>2 DEF Holders, ns
<1> QED
  BY <1>2, <1>3

\* One read.
LEMMA ReadSteps ==
    ASSUME PairInv, Work, resp'.kind # "cert"
    PROVE  CoreInv' /\ UNCHANGED Session!vars
<1>1. PICK c \in Conns : c = serving /\ Serves(c)
  BY DEF PairInv, CoreInv, CaInv, Work
<1>2. /\ UNCHANGED <<nextId, pc, who, rejects, channel, request, clients, removing, files,
                     logins, ended, serving>>
      /\ issued' = IF resp'.kind = "cert" THEN issued \cup {Certificate(serving)}
                                         ELSE issued
      /\ Files!Handle
  BY DEF Work
<1>. DEFINE k == call[c].key
            p == TopPath(call[c].name)
            g == GlobOrder[pos + 1]
<1>3. /\ pc[c] \in {"checking", "signing"} /\ answer[c] = "none" /\ k \in Keys
      /\ req = Request(c) /\ req.key = k
      /\ call[c].op # "check" => req.name = call[c].name
  BY <1>1 DEF Serves, Pending, Request, PairInv, CoreInv, IdentityInv, Identity, RequestOwn
<1>4. /\ Holders(inventory, k) \subseteq held[c].ever
      /\ held[c].always \subseteq Usable(inventory, outside, k)
  BY <1>3 DEF PairInv, CoreInv, HeldInv, Asked
<1>5. ASSUME Reading(c), (Reading(c) \/ Done(c))', req' = req
      PROVE  CoreInv' /\ UNCHANGED Session!vars
  <2>1. issued' = issued /\ UNCHANGED vars
    BY <1>2, <1>5 DEF vars
  <2>2. Serves(c)'
    BY <1>1, <1>5, <2>1 DEF vars, Serves, Pending, Request
  <2>3. CaInv'
    BY <1>1, <1>2, <2>2 DEF CaInv
  <2>4. resp.kind # "cert"
    BY <1>5 DEF Reading
  <2>5. SessionAnswer' = SessionAnswer
    BY <1>2, <1>5, <2>4 DEF SessionAnswer
  <2> QED
    BY <2>1, <2>3, <2>5, NothingSeen DEF CoreInv, vars, Session!vars
<1>6. \A e : Files!Inside(e) <=> e \in EntryPaths \ outside
  BY OrderAssumption DEF Files!Inside, Files!Paths
<1>. USE DEF Files!Fail, Files!Respond
<1>7. CASE Files!ReadUserList
  <2>1. caPc = "user_list" /\ req' = req
    BY <1>7 DEF Files!ReadUserList
  <2>2. Reading(c) /\ call[c].op = "sign_user" /\ req.name \in Logins \cup Hosts
    BY <1>1, <1>3, <2>1 DEF Serves, Reading, Done, PairInv, CoreInv,
       IdentityInv, Identity, TypeOK, RequestOwn, PasswordLogin, PamName
  <2>3. caPc' = "template" /\ template' = Nobody /\ resp' = resp
    BY <1>7, <2>2, BrokenAssumption DEF Files!ReadUserList, Files!Lookup, Files!TemplateOf
  <2>4. Reading(c)'
    BY <1>2, <2>2, <2>3 DEF Reading
  <2> QED
    BY <1>5, <2>1, <2>2, <2>4
<1>8. CASE Files!ReadTemplate
  <2>1. caPc = "template" /\ req' = req
    BY <1>8 DEF Files!ReadTemplate
  <2>2. Reading(c) /\ call[c].op = "sign_user" /\ template = Nobody
    BY <1>1, <2>1 DEF Serves, Reading, Done
  <2>3. caPc' = "after" /\ resp' = resp /\ defaults' = Files!Render(Default, req.name)
    BY <1>8, <2>2, BrokenAssumption DEF Files!ReadTemplate
  <2>4. Reading(c)'
    BY <1>2, <2>2, <2>3 DEF Reading, MaySign
  <2> QED
    BY <1>5, <2>1, <2>2, <2>4
<1>9. CASE Files!ResolveHostEntry
  <2>1. caPc = "host_entry" /\ req' = req
    BY <1>9 DEF Files!ResolveHostEntry
  <2>2. Reading(c) /\ call[c].op = "sign_host" /\ req.name = call[c].name
    BY <1>1, <1>3, <2>1 DEF Serves, Reading, Done
  <2>3. Files!TopPath(req.name) = p
    BY <2>2 DEF TopPath, Files!TopPath
  <2>4. CASE resp' = [kind |-> "error"] /\ caPc' = "idle"
    <3>1. Done(c)'
      BY <1>2, <2>4 DEF Done
    <3> QED
      BY <1>5, <2>1, <2>2, <3>1
  <2>5. CASE p \in EntryPaths /\ caPc' = "host_read" /\ resp' = resp
    <3>1. Reading(c)'
      BY <1>2, <2>2, <2>5 DEF Reading
    <3> QED
      BY <1>5, <2>1, <2>2, <3>1
  <2> QED
    BY <1>6, <1>9, <2>3, <2>4, <2>5 DEF Files!ResolveHostEntry
<1>10. CASE Files!ReadHostEntry
  <2>1. caPc = "host_read" /\ req' = req
    BY <1>10 DEF Files!ReadHostEntry
  <2>2. /\ Reading(c) /\ call[c].op = "sign_host" /\ req.name = call[c].name
        /\ p \in EntryPaths
    BY <1>1, <1>3, <2>1 DEF Serves, Reading, Done
  <2>3. Files!TopPath(req.name) = p
    BY <2>2 DEF TopPath, Files!TopPath
  <2>4. CASE resp' = [kind |-> "error"] /\ caPc' = "idle"
    <3>1. Done(c)'
      BY <1>2, <2>4 DEF Done
    <3> QED
      BY <1>5, <2>1, <2>2, <3>1
  <2>5. CASE /\ Entries[p] # NoKey /\ Entries[p].key = k
             /\ caPc' = "after" /\ resp' = resp
    <3>1. p \in held[c].ever
      BY <1>3, <1>4, <2>2, <2>5, EntryFacts
    <3>2. Reading(c)'
      BY <1>2, <2>2, <2>5, <3>1 DEF Reading, MaySign, EntryHolds
    <3> QED
      BY <1>5, <2>1, <2>2, <3>2
  <2> QED
    BY <1>3, <1>10, <2>3, <2>4, <2>5 DEF Files!ReadHostEntry, Files!Matches
<1>11. CASE Files!ReadValidAfter \/ Files!ReadValidBefore
  <2>1. /\ caPc \in {"after", "before"} /\ caPc' \in {"before", "sign"}
        /\ UNCHANGED <<req, resp>>
    BY <1>11 DEF Files!ReadValidAfter, Files!ReadValidBefore
  <2>2. Reading(c)
    BY <1>1, <2>1 DEF Serves, Done
  <2>3. Reading(c)'
    BY <1>2, <2>1, <2>2 DEF Reading, MaySign, EntryHolds
  <2> QED
    BY <1>5, <2>1, <2>2, <2>3
<1>12. CASE Files!Sign
  <2>1. /\ caPc = "sign" /\ req' = req /\ resp' = [kind |-> "error"] /\ caPc' = "idle"
    BY <1>12 DEF Files!Sign
  <2>2. Reading(c) /\ Done(c)'
    BY <1>1, <2>1 DEF Serves, Done
  <2> QED
    BY <1>5, <2>1, <2>2
<1>13. CASE Files!ScanResolve
  <2>1. caPc = "scan" /\ UNCHANGED <<req, resp>> /\ ~Files!Exhausted
    BY <1>13 DEF Files!ScanResolve
  <2>2. /\ Reading(c) /\ call[c].op = "check" /\ Walked(c) /\ pos < Len(GlobOrder)
        /\ pos + 1 \in 1 .. Len(GlobOrder) /\ g \in EntryPaths
    BY <1>1, <2>1, OrderAssumption DEF Serves, Reading, Done, Walked, Files!Exhausted
  <2>3. CASE /\ g \in outside \/ Entries[g] = NoKey
             /\ pos' = pos + 1 /\ caPc' = caPc
    <3>1. g \notin held[c].always
      BY <1>3, <1>4, <2>2, <2>3, EntryFacts DEF Usable
    <3>2. Walked(c)'
      BY <1>2, <2>2, <2>3, <3>1 DEF Walked
    <3>3. Reading(c)'
      BY <1>2, <2>1, <2>2, <2>3, <3>2 DEF Reading
    <3> QED
      BY <1>5, <2>1, <2>2, <3>3
  <2>4. CASE caPc' = "scan_read" /\ pos' = pos
    <3>1. Reading(c)'
      BY <1>2, <2>1, <2>2, <2>4 DEF Reading, Walked
    <3> QED
      BY <1>5, <2>1, <2>2, <3>1
  <2> QED
    BY <1>6, <1>13, <2>2, <2>3, <2>4 DEF Files!ScanResolve
<1>14. CASE Files!ScanRead
  <2>1. caPc = "scan_read" /\ req' = req
    BY <1>14 DEF Files!ScanRead
  <2>2. /\ Reading(c) /\ call[c].op = "check" /\ Walked(c) /\ pos < Len(GlobOrder)
        /\ pos + 1 \in 1 .. Len(GlobOrder) /\ g \in EntryPaths
    BY <1>1, <2>1, OrderAssumption DEF Serves, Reading, Done, Walked
  <2>3. CASE /\ Entries[g] = NoKey \/ (Entries[g] # NoKey /\ Entries[g].key # k)
             /\ pos' = pos + 1 /\ caPc' = "scan" /\ resp' = resp
    <3>1. g \notin held[c].always
      BY <1>3, <1>4, <2>2, <2>3, EntryFacts DEF Usable
    <3>2. Walked(c)'
      BY <1>2, <2>2, <2>3, <3>1 DEF Walked
    <3>3. Reading(c)'
      BY <1>2, <2>1, <2>2, <2>3, <3>2 DEF Reading
    <3> QED
      BY <1>5, <2>1, <2>2, <3>3
  <2>4. CASE /\ Entries[g] # NoKey /\ Entries[g].key = k
             /\ resp' = [kind |-> "found", path |-> g] /\ caPc' = "idle"
    <3>1. g \in held[c].ever
      BY <1>3, <1>4, <2>2, <2>4, EntryFacts
    <3>2. Done(c)'
      BY <1>2, <2>2, <2>4, <3>1 DEF Done
    <3> QED
      BY <1>5, <2>1, <2>2, <3>2
  <2> QED
    BY <1>3, <1>14, <2>3, <2>4 DEF Files!ScanRead, Files!Matches
<1>15. CASE Files!ScanEnd
  <2>1. /\ caPc = "scan" /\ req' = req /\ Files!Exhausted
        /\ resp' = [kind |-> "not_found"] /\ caPc' = "idle"
    BY <1>15 DEF Files!ScanEnd
  <2>2. /\ Reading(c) /\ call[c].op = "check" /\ Walked(c) /\ pos = Len(GlobOrder)
    BY <1>1, <2>1, OrderAssumption DEF Serves, Reading, Done, Walked, Files!Exhausted
  <2>3. held[c].always = {}
    <3>1. held[c].always \subseteq EntryPaths
      BY <1>4 DEF Holders, Usable
    <3>2. \A e \in EntryPaths : \E i \in 1 .. Len(GlobOrder) : e = GlobOrder[i]
      BY OrderAssumption
    <3> QED
      BY <2>2, <3>1, <3>2 DEF Walked
  <2>4. Done(c)'
    BY <1>2, <2>1, <2>2, <2>3 DEF Done
  <2> QED
    BY <1>5, <2>1, <2>2, <2>4
<1> QED
  BY <1>2, <1>7, <1>8, <1>9, <1>10, <1>11, <1>12, <1>13, <1>14, <1>15 DEF Files!Handle

\* The signature, which SshSession sees although it is not yet sent.
LEMMA SignSteps ==
    ASSUME PairInv, Work, resp'.kind = "cert"
    PROVE  CoreInv' /\ \E c \in Conns : Session!CaSigns(c)
<1>1. PICK c \in Conns : c = serving /\ Serves(c)
  BY DEF PairInv, CoreInv, CaInv, Work
<1>2. Files!Sign /\ req' = req
  <2>1. resp.kind = "none" \/ caPc = "idle"
    BY <1>1 DEF Serves, Reading, Done
  <2> QED
    BY <2>1 DEF Work, Files!Handle, Files!ReadUserList, Files!ReadTemplate,
       Files!ResolveHostEntry, Files!ReadHostEntry, Files!ReadValidAfter,
       Files!ReadValidBefore, Files!Sign, Files!ScanResolve, Files!ScanRead, Files!ScanEnd,
       Files!Fail, Files!Respond
<1>3. /\ UNCHANGED <<nextId, pc, user, method, key, rejects, channel, call, answer, held,
                     clients, removing, inventory, outside, edits, verified, unresolved,
                     ended, serving>>
      /\ issued' = issued \cup {Certificate(c)}
  BY <1>1 DEF Work
<1>4. /\ Reading(c) /\ MaySign(c) /\ caPc' = "idle"
      /\ pc[c] \in {"checking", "signing"} /\ answer[c] = "none"
  BY <1>1, <1>2 DEF Files!Sign, Files!Fail, Files!Respond, Serves, Reading, Done, Pending
<1>5. pc[c] = "signing" /\ RequestOwn(c) /\ (KeyLogin(c) \/ PasswordLogin(c))
  BY <1>4 DEF MaySign, PairInv, CoreInv, IdentityInv, Identity, RequestOwn
<1>6. TypeOK'
  <2>1. Certificate(c) \in [type : {"user", "host"}, name : Logins \cup Hosts, key : Keys,
                            conn : Conns]
    BY <1>5 DEF RequestOwn, KeyLogin, PasswordLogin, PamName, Certificate
  <2> QED
    BY <1>3, <2>1 DEF PairInv, CoreInv, IdentityInv, TypeOK
<1>7. ASSUME NEW d \in Conns PROVE Identity(d)'
  <2>1. Identity(d)
    BY DEF PairInv, CoreInv, IdentityInv
  <2>2. CASE d # c
    <3>1. Certificate(c).conn # d
      BY <2>2 DEF Certificate
    <3>2. \A cert \in issued' : cert.conn = d => cert \in issued
      BY <1>3, <3>1
    <3> QED
      BY <1>3, <2>1, <3>2, Untouched
  <2>3. CASE d = c
    <3>1. CertOwn(c, Certificate(c))
      BY <1>5 DEF CertOwn, Certificate, RequestOwn
    <3>2. \A cert \in issued' : cert.conn = c => CertOwn(c, cert)
      BY <1>3, <2>1, <2>3, <3>1 DEF Identity
    <3>3. /\ PasswordLogin(c)' <=> PasswordLogin(c)
          /\ KeyLogin(c)' <=> KeyLogin(c)
          /\ RequestOwn(c)' <=> RequestOwn(c)
          /\ \A cert : CertOwn(c, cert)' <=> CertOwn(c, cert)
      BY <1>3 DEF PasswordLogin, PamName, KeyLogin, RequestOwn, CertOwn
    <3> QED
      BY <1>3, <1>5, <2>1, <2>3, <3>2, <3>3 DEF Identity
  <2> QED
    BY <2>2, <2>3
<1>8. (FreshIds /\ HeldInv)'
  BY <1>3 DEF PairInv, CoreInv, FreshIds, HeldInv, Asked, Holders, Usable
<1>9. CaInv'
  <2>1. Serves(c)'
    BY <1>1, <1>2, <1>3, <1>4 DEF Serves, Pending, Request, Done
  <2> QED
    BY <1>1, <1>3, <2>1 DEF CaInv
<1>10. CoreInv'
  BY <1>6, <1>7, <1>8, <1>9 DEF CoreInv, IdentityInv
<1>11. Session!CaSigns(c)
  <2>1. SessionAnswer[c] = "none"
    BY <1>4 DEF SessionAnswer, Reading
  <2>2. SessionAnswer' = [SessionAnswer EXCEPT ![c] = "signed"]
    BY <1>1, <1>3, <1>4 DEF SessionAnswer
  <2>3. Session!AnswerIs(c, "signed")
    BY <1>3, <2>2 DEF Session!AnswerIs
  <2>4. Session!Pending(c)
    BY <1>4, <2>1 DEF Session!Pending
  <2>5. issued' = issued \cup {Session!Certificate(c)}
    BY <1>3 DEF Certificate, Session!Certificate
  <2>6. call[c].op = "sign_host" => Session!EntryHolds(c)
    BY <1>4 DEF MaySign, EntryHolds, Session!EntryHolds, TopPath, Session!TopPath
  <2> QED
    BY <1>4, <2>3, <2>4, <2>5, <2>6 DEF MaySign, Session!CaSigns
<1> QED
  BY <1>10, <1>11

\* A call that gets an answer the files allow.
LEMMA AnswerKeeps ==
    ASSUME PairInv, NEW c \in Conns, Pending(c), NEW a, AnswerIs(c, a), UNCHANGED issued,
           \/ a \in {"cert", "not_found", "error", "lost"}
           \/ \E p \in held[c].ever : a = p.stem
    PROVE  (IdentityInv /\ FreshIds /\ HeldInv)'
<1>1. /\ answer' = [answer EXCEPT ![c] = a]
      /\ UNCHANGED <<nextId, pc, user, method, key, rejects, channel, call, held, clients,
                     removing, inventory, outside, edits, verified, unresolved, ended,
                     issued>>
  BY DEF AnswerIs
<1>2. \A p \in held[c].ever : p.stem \in Hosts
  <2>1. held \in [Conns -> [ever : SUBSET EntryPaths, always : SUBSET EntryPaths]]
    BY DEF PairInv, CoreInv, IdentityInv, TypeOK
  <2>2. held[c].ever \subseteq EntryPaths
    BY <2>1
  <2> QED
    BY <2>2, NamesAssumption
<1>3. /\ a \in {"cert", "not_found", "error", "lost"} \cup Hosts
      /\ a \in Hosts => \E p \in held[c].ever : p.stem = a
  BY <1>2, NamesAssumption
<1>4. TypeOK'
  BY <1>3, AnswerTypes DEF PairInv, CoreInv, IdentityInv
<1>5. ASSUME NEW d \in Conns PROVE Identity(d)'
  <2>1. Identity(d)
    BY DEF PairInv, CoreInv, IdentityInv
  <2>2. CASE d # c
    BY <1>1, <2>1, <2>2, Untouched
  <2>3. CASE d = c
    <3>1. answer'[c] = a
      BY <1>1 DEF PairInv, CoreInv, IdentityInv, TypeOK
    <3>2. FoundOwn(c)'
      BY <1>1, <1>3, <3>1 DEF FoundOwn
    <3>3. /\ PasswordLogin(c)' <=> PasswordLogin(c)
          /\ KeyLogin(c)' <=> KeyLogin(c)
          /\ RequestOwn(c)' <=> RequestOwn(c)
          /\ \A cert : CertOwn(c, cert)' <=> CertOwn(c, cert)
      BY <1>1 DEF PasswordLogin, PamName, KeyLogin, RequestOwn, CertOwn
    <3> QED
      BY <1>1, <2>1, <2>3, <3>2, <3>3 DEF Identity, Pending
  <2> QED
    BY <2>2, <2>3
<1>6. (FreshIds /\ HeldInv)'
  BY <1>1 DEF PairInv, CoreInv, FreshIds, HeldInv, Asked, Holders, Usable
<1> QED
  BY <1>4, <1>5, <1>6 DEF IdentityInv

\* An answer, or the loss of it.
LEMMA ReplySteps ==
    ASSUME PairInv, NEW c \in Conns, Reply(c)
    PROVE  CoreInv' /\ Session!Ca(c)
<1>1. /\ serving = c /\ caPc = "idle" /\ Serves(c) /\ Done(c) /\ Pending(c)
      /\ serving' = Nobody /\ caPc' = "idle" /\ resp' = [kind |-> "none"]
      /\ UNCHANGED issued
  BY OrderAssumption DEF Reply, Release, PairInv, CoreInv, CaInv, Serves, Reading
<1>2. PICK a \in {AnswerOf(resp), "lost"} : AnswerIs(c, a)
  BY DEF Reply
<1>3. CaInv'
  BY <1>1 DEF CaInv
<1>4. /\ a = "lost" \/ resp.kind = "found" \/ a = resp.kind
      /\ a # "lost" /\ resp.kind = "found" => a = resp.path.stem
  BY <1>2 DEF AnswerOf
<1>5. \/ a \in {"cert", "not_found", "error", "lost"}
      \/ \E p \in held[c].ever : a = p.stem
  BY <1>1, <1>4 DEF Done
<1>6. CoreInv'
  BY <1>1, <1>2, <1>3, <1>5, AnswerKeeps DEF CoreInv
<1>7. Session!AnswerIs(c, a)
  <2>1. SessionAnswer' = [SessionAnswer EXCEPT ![c] = a]
    BY <1>1, <1>2, OrderAssumption DEF SessionAnswer, AnswerIs, PairInv, CoreInv,
       IdentityInv, TypeOK
  <2> QED
    BY <1>2, <2>1 DEF AnswerIs, Session!AnswerIs
<1>8. /\ pc[c] \in {"checking", "signing"}
      /\ SessionAnswer[c] = IF resp.kind = "cert" THEN "signed" ELSE "none"
  BY <1>1 DEF SessionAnswer, Pending
<1>. USE DEF Session!AnswerIs, Session!Pending, Session!Settled, Session!Ca, Done
<1>9. CASE a = "lost"
  BY <1>1, <1>6, <1>7, <1>8, <1>9 DEF Session!CaFails
<1>10. CASE a # "lost" /\ resp.kind = "cert"
  BY <1>1, <1>4, <1>6, <1>7, <1>8, <1>10 DEF Session!CaReplies
<1>11. CASE a # "lost" /\ resp.kind = "error"
  BY <1>1, <1>4, <1>6, <1>7, <1>8, <1>11 DEF Session!CaFails
<1>12. CASE a # "lost" /\ resp.kind = "found"
  BY <1>1, <1>4, <1>6, <1>7, <1>8, <1>12 DEF Session!CaFinds
<1>13. CASE a # "lost" /\ resp.kind = "not_found"
  BY <1>1, <1>4, <1>6, <1>7, <1>8, <1>13 DEF Session!CaFinds
<1> QED
  BY <1>1, <1>6, <1>9, <1>10, <1>11, <1>12, <1>13

\* A call that fails, or is refused, without having been taken up.
LEMMA TurnedAwaySteps ==
    ASSUME PairInv, NEW c \in Conns, Pending(c), serving # c,
           NEW a \in {"error", "lost"}, AnswerIs(c, a), UNCHANGED <<issued, serving, local>>
    PROVE  CoreInv' /\ Session!Ca(c)
<1>1. UNCHANGED <<caPc, req, template, defaults, after, before, pos, resp>>
  BY DEF local
<1>2. CaInv'
  <2>1. ASSUME NEW d \in Conns, d # c, Serves(d) PROVE Serves(d)'
    <3>1. Pending(d)' /\ req' = Request(d)'
      BY <1>1, <2>1 DEF AnswerIs, Pending, Request, Serves, PairInv, CoreInv, IdentityInv,
                        TypeOK
    <3>2. (Reading(d) => Reading(d)') /\ (Done(d) => Done(d)')
      BY <1>1 DEF AnswerIs, Reading, MaySign, EntryHolds, Walked, Done
    <3> QED
      BY <2>1, <3>1, <3>2 DEF Serves
  <2> QED
    BY <1>1, <2>1 DEF PairInv, CoreInv, CaInv
<1>3. CoreInv'
  BY <1>2, AnswerKeeps DEF CoreInv
<1>4. SessionAnswer' = [SessionAnswer EXCEPT ![c] = a] /\ SessionAnswer[c] = "none"
  BY <1>1 DEF SessionAnswer, AnswerIs, Pending, PairInv, CoreInv, IdentityInv, TypeOK
<1>5. Session!Ca(c)
  BY <1>4 DEF AnswerIs, Pending, Session!AnswerIs, Session!Pending, Session!Settled,
              Session!CaFails, Session!Ca
<1> QED
  BY <1>3, <1>5

LEMMA CallSteps ==
    ASSUME PairInv, NEW c \in Conns, Unreached(c) \/ ReadEof(c) \/ Refuse(c)
    PROVE  CoreInv' /\ Session!Ca(c)
<1>1. serving # c
  BY OrderAssumption DEF Unreached, ReadEof, Refuse, Accept, PairInv, StreamInv
<1>2. CASE Unreached(c)
  BY <1>1, <1>2, TurnedAwaySteps DEF Unreached, caVars
<1>3. CASE ReadEof(c)
  BY <1>1, <1>3, TurnedAwaySteps DEF ReadEof
<1>4. CASE Refuse(c)
  BY <1>1, <1>4, TurnedAwaySteps DEF Refuse, Accept
<1> QED
  BY <1>2, <1>3, <1>4

\* The CA dies; at most one call notices.
LEMMA CrashSteps ==
    ASSUME PairInv, CaCrash
    PROVE  CoreInv' /\ (UNCHANGED Session!vars \/ \E c \in Conns : Session!Ca(c))
<1>1. serving' = Nobody /\ caPc' = "idle" /\ resp' = [kind |-> "none"]
  BY DEF CaCrash, Release
<1>2. CaInv'
  BY <1>1 DEF CaInv
<1>3. CASE serving = Nobody
  <2>1. UNCHANGED vars
    BY <1>3 DEF CaCrash
  <2>2. SessionAnswer' = SessionAnswer
    BY <1>1, <1>3, <2>1, OrderAssumption DEF vars, SessionAnswer
  <2> QED
    BY <1>2, <2>1, <2>2, NothingSeen DEF CoreInv, vars, Session!vars
<1>4. CASE serving # Nobody
  <2>1. PICK c \in Conns : c = serving /\ Serves(c) /\ Pending(c)
    BY <1>4 DEF PairInv, CoreInv, CaInv, Serves
  <2>2. AnswerIs(c, "lost") /\ UNCHANGED issued
    BY <1>4, <2>1 DEF CaCrash
  <2>3. CoreInv'
    BY <1>2, <2>1, <2>2, AnswerKeeps DEF CoreInv
  <2>4. /\ SessionAnswer' = [SessionAnswer EXCEPT ![c] = "lost"]
        /\ SessionAnswer[c] \in {"none", "signed"}
    BY <1>1, <2>1, <2>2, OrderAssumption
       DEF SessionAnswer, AnswerIs, Pending, PairInv, CoreInv, IdentityInv, TypeOK
  <2>5. Session!Ca(c)
    BY <2>1, <2>2, <2>4 DEF AnswerIs, Pending, Session!AnswerIs, Session!Settled,
                            Session!CaFails, Session!Ca
  <2> QED
    BY <2>3, <2>5
<1> QED
  BY <1>3, <1>4

\* What becomes of the streams.
LEMMA StreamSteps ==
    ASSUME PairInv,
           \/ Work \/ SetClock \/ CaCrash \/ CaStart \/ UNCHANGED all
           \/ \E c \in Conns : Call(c) \/ Take(c) \/ Refuse(c) \/ Reply(c)
    PROVE  StreamInv'
<1>1. /\ wire \in [Conns -> Wires] /\ older \in [Conns -> SUBSET Conns]
      /\ serving \in Conns => wire[serving] = "away"
      /\ \A c \in Conns : wire[c] # "away" => Pending(c)
      /\ \A c \in Conns : \A d \in older[c] :
            d # c /\ d \in Conns /\ wire[d] \in {"numbered", "late"}
      /\ \A c \in Conns : c # Nobody
  BY OrderAssumption DEF PairInv, StreamInv
<1>2. ASSUME NEW c \in Conns, NEW a, AnswerIs(c, a)
      PROVE  \A d \in Conns \ {c} : Pending(d) => Pending(d)'
  BY <1>2 DEF AnswerIs, Pending, PairInv, CoreInv, IdentityInv, TypeOK
<1>3. ASSUME UNCHANGED vars PROVE \A d \in Conns : Pending(d) => Pending(d)'
  BY <1>3 DEF vars, Pending
<1>4. CASE UNCHANGED <<pc, answer, serving, wire, older>>
  BY <1>1, <1>4 DEF StreamInv, Pending
<1>5. CASE Work \/ SetClock \/ CaStart \/ UNCHANGED all
  BY <1>4, <1>5 DEF Work, SetClock, CaStart, all, vars, caVars, ipcVars
<1>6. CASE CaCrash
  <2>1. /\ serving' = Nobody /\ older' = [c \in Conns |-> {}]
        /\ wire' = [c \in Conns |-> IF wire[c] = "away" THEN "away" ELSE "cut"]
    BY <1>6 DEF CaCrash, Release
  <2>2. \A c \in Conns : Pending(c) /\ c # serving => Pending(c)'
    <3>1. serving = Nobody \/ serving \in Conns
      BY DEF PairInv, CoreInv, CaInv
    <3>2. serving = Nobody => UNCHANGED vars
      BY <1>6 DEF CaCrash
    <3>3. serving # Nobody => AnswerIs(serving, "lost")
      BY <1>6 DEF CaCrash
    <3> QED
      BY <1>2, <1>3, <3>1, <3>2, <3>3
  <2> QED
    BY <1>1, <2>1, <2>2 DEF StreamInv, Wires
<1>7. ASSUME NEW c \in Conns, Connect(c) PROVE StreamInv'
  <2>1. /\ UNCHANGED <<vars, serving, older>> /\ serving # c /\ wire[c] = "away" /\ Pending(c)
        /\ wire' = [wire EXCEPT ![c] = "queued"]
    BY <1>7 DEF Connect
  <2> QED
    BY <1>1, <1>3, <2>1 DEF StreamInv, Wires
<1>8. ASSUME NEW c \in Conns, Unreached(c) PROVE StreamInv'
  <2>1. UNCHANGED <<serving, wire, older>> /\ AnswerIs(c, "lost") /\ wire[c] = "away"
    BY <1>8 DEF Unreached, caVars, ipcVars
  <2> QED
    BY <1>1, <1>2, <2>1 DEF StreamInv
<1>9. ASSUME NEW c \in Conns, DrawNumber(c) PROVE StreamInv'
  <2>1. PICK w \in {"numbered", "spent"} : wire' = [wire EXCEPT ![c] = w]
    BY <1>9 DEF DrawNumber
  <2>2. /\ UNCHANGED <<vars, serving>> /\ wire[c] = "queued" /\ Pending(c)
        /\ older' = [older EXCEPT ![c] = {d \in Conns : wire[d] = "numbered"}]
    BY <1>9 DEF DrawNumber
  <2> QED
    BY <1>1, <1>3, <2>1, <2>2 DEF StreamInv, Wires
<1>10. ASSUME NEW c \in Conns, ReadEof(c) PROVE StreamInv'
  <2>1. /\ UNCHANGED <<serving, older>> /\ wire[c] = "cut" /\ AnswerIs(c, "lost")
        /\ wire' = [wire EXCEPT ![c] = "away"]
    BY <1>10 DEF ReadEof
  <2> QED
    BY <1>1, <1>2, <2>1 DEF StreamInv, Wires
<1>11. ASSUME NEW c \in Conns, Take(c) PROVE StreamInv'
  <2>1. /\ UNCHANGED vars /\ serving' = c /\ wire[c] = "numbered"
        /\ older' = [d \in Conns |-> IF d = c THEN {} ELSE older[d] \ {c}]
        /\ wire' = [d \in Conns |-> IF d = c THEN "away"
                                    ELSE IF Overtakes(c, d) THEN "late" ELSE wire[d]]
    BY <1>11 DEF Take, Accept
  <2>2. \A d \in Conns : Overtakes(c, d) => wire[d] \in {"numbered", "late"}
    BY <1>1 DEF Overtakes
  <2>3. wire' \in [Conns -> Wires] /\ older' \in [Conns -> SUBSET Conns]
    BY <1>1, <2>1 DEF Wires
  <2>4. \A d \in Conns : wire'[d] # "away" => Pending(d)'
    BY <1>1, <1>3, <2>1, <2>2
  <2>5. \A d \in Conns : \A e \in older'[d] : e # d /\ wire'[e] \in {"numbered", "late"}
    BY <1>1, <2>1
  <2> QED
    BY <2>1, <2>3, <2>4, <2>5 DEF StreamInv
<1>12. ASSUME NEW c \in Conns, Refuse(c) PROVE StreamInv'
  <2>1. /\ UNCHANGED serving /\ serving = Nobody
        /\ older' = [d \in Conns |-> IF d = c THEN {} ELSE older[d] \ {c}]
        /\ wire' = [wire EXCEPT ![c] = "away"]
    BY <1>12 DEF Refuse, Accept
  <2>2. \A d \in Conns \ {c} : Pending(d) => Pending(d)'
    BY <1>2, <1>12 DEF Refuse
  <2> QED
    BY <1>1, <2>1, <2>2 DEF StreamInv, Wires
<1>13. ASSUME NEW c \in Conns, Reply(c) PROVE StreamInv'
  <2>1. /\ UNCHANGED <<wire, older>> /\ serving = c /\ serving' = Nobody
    BY <1>13 DEF Reply, Release, ipcVars
  <2>2. \A d \in Conns \ {c} : Pending(d) => Pending(d)'
    BY <1>2, <1>13 DEF Reply
  <2> QED
    BY <1>1, <2>1, <2>2 DEF StreamInv
<1> QED
  BY <1>5, <1>6, <1>7, <1>8, <1>9, <1>10, <1>11, <1>12, <1>13 DEF Call

-----------------------------------------------------------------------------
(* The pair of server and CA, and what SshSession sees of it. *)

LEMMA PairStart == CaInit => PairInv /\ Session!Init
<1> SUFFICES ASSUME CaInit PROVE PairInv /\ Session!Init
  OBVIOUS
<1>1. /\ Init /\ serving = Nobody /\ caPc = "idle" /\ resp = [kind |-> "none"]
      /\ wire = [c \in Conns |-> "away"] /\ older = [c \in Conns |-> {}]
  BY DEF CaInit
<1>2. IdentityInv /\ FreshIds
  BY <1>1, IdentityStart
<1>3. HeldInv /\ CaInv /\ StreamInv
  BY <1>1, OrderAssumption DEF Init, HeldInv, Asked, CaInv, StreamInv, Wires
<1>4. SessionAnswer = answer
  BY <1>1 DEF Init, SessionAnswer
<1>5. Session!Init
  BY <1>1, <1>4 DEF Init, Session!Init, Keyed, Session!Keyed
<1> QED
  BY <1>2, <1>3, <1>5 DEF PairInv, CoreInv

LEMMA PairSteps ==
    ASSUME PairInv, [CaNext]_all
    PROVE  PairInv' /\ [Session!Next]_(Session!vars)
<1>1. CASE Server
  BY <1>1, ServerKeeps, ServerMaps DEF Session!Next
<1>2. CASE Edit
  BY <1>2, EditKeeps, EditMaps DEF Session!Next
<1>3. CASE Work
  BY <1>3, ReadSteps, SignSteps, StreamSteps DEF PairInv, Session!Ca, Session!Next
<1>4. CASE CaCrash
  BY <1>4, CrashSteps, StreamSteps DEF PairInv, Session!Next
<1>5. CASE SetClock \/ CaStart \/ UNCHANGED all
  <2>1. UNCHANGED <<vars, serving, local>>
    BY <1>5 DEF SetClock, CaStart, all, caVars
  <2> QED
    BY <1>5, <2>1, QuietSteps, StreamSteps DEF PairInv
<1>6. ASSUME NEW c \in Conns, Call(c) \/ Take(c) \/ Refuse(c) \/ Reply(c)
      PROVE  PairInv' /\ [Session!Next]_(Session!vars)
  <2>1. StreamInv'
    BY <1>6, StreamSteps
  <2>2. CASE Connect(c) \/ DrawNumber(c)
    <3>1. UNCHANGED <<vars, serving, local>>
      BY <2>2 DEF Connect, DrawNumber
    <3> QED
      BY <2>1, <3>1, QuietSteps DEF PairInv
  <2>3. CASE Unreached(c) \/ ReadEof(c) \/ Refuse(c)
    BY <2>1, <2>3, CallSteps DEF PairInv, Session!Next
  <2>4. CASE Take(c)
    BY <2>1, <2>4, TakeSteps DEF PairInv
  <2>5. CASE Reply(c)
    BY <2>1, <2>5, ReplySteps DEF PairInv, Session!Next
  <2> QED
    BY <1>6, <2>2, <2>3, <2>4, <2>5 DEF Call
<1> QED
  BY <1>1, <1>2, <1>3, <1>4, <1>5, <1>6 DEF CaNext, CaStep

LEMMA PairHolds == CaSpec => []PairInv
BY PairStart, PairSteps, PTL DEF CaSpec

-----------------------------------------------------------------------------
(* What a step of the pair means for certificates, logins and clients. *)

\* Only the CA signs.
LEMMA PairEarned ==
    ASSUME PairInv, [CaNext]_all
    PROVE  [EarnedStep]_vars
<1>1. CASE Work /\ resp'.kind = "cert"
  <2>1. PICK c \in Conns : Session!CaSigns(c)
    BY <1>1, SignSteps
  <2>2. /\ Session!Pending(c) => Pending(c)
        /\ Session!EntryHolds(c) => EntryHolds(c)
        /\ Session!Certificate(c) = Certificate(c)
    BY DEF Session!Pending, Pending, SessionAnswer, Session!EntryHolds, EntryHolds,
           Session!TopPath, TopPath, Session!Certificate, Certificate
  <2>3. /\ Pending(c)
        /\ call[c].op = "sign_user" \/ (call[c].op = "sign_host" /\ EntryHolds(c))
        /\ issued' = issued \cup {Certificate(c)}
    BY <2>1, <2>2 DEF Session!CaSigns
  <2> QED
    BY <2>3, SignedEarned DEF PairInv, CoreInv
<1>2. CASE issued' = issued
  BY <1>2 DEF EarnedStep
<1>3. CASE Work /\ resp'.kind # "cert"
  <2>1. issued' = issued
    BY <1>3, ReadSteps DEF Session!vars
  <2> QED
    BY <1>2, <2>1
<1>4. CASE Server
  BY <1>2, <1>4, ServerCalls DEF PairInv, CoreInv, Server
<1>5. CASE Edit \/ SetClock \/ CaCrash \/ CaStart
  BY <1>2, <1>5 DEF Edit, EditFile, SetClock, CaCrash, CaStart, vars
<1>6. ASSUME NEW c \in Conns, Call(c) \/ Take(c) \/ Refuse(c) \/ Reply(c)
      PROVE  issued' = issued
  BY <1>6 DEF Call, Connect, Unreached, DrawNumber, ReadEof, Take, Refuse, Reply, vars
<1>7. CASE UNCHANGED all
  BY <1>2, <1>7 DEF all, vars
<1> QED
  BY <1>1, <1>2, <1>3, <1>4, <1>5, <1>6, <1>7 DEF CaNext, CaStep

\* What the CA and the operator do is no login, and the server's clients see none
\* of it.
LEMMA CaApart ==
    ASSUME [CaNext]_all, ~Server
    PROVE  UNCHANGED <<method, pc, clients, removing>>
<1>1. CASE Edit \/ SetClock \/ Work \/ CaCrash \/ CaStart
  BY <1>1 DEF Edit, EditFile, SetClock, Work, CaCrash, CaStart, AnswerIs, vars
<1>2. ASSUME NEW c \in Conns, Call(c) \/ Take(c) \/ Refuse(c) \/ Reply(c)
      PROVE  UNCHANGED <<method, pc, clients, removing>>
  BY <1>2 DEF Call, Connect, Unreached, DrawNumber, ReadEof, Take, Refuse, Reply, AnswerIs,
              vars
<1>3. CASE UNCHANGED all
  BY <1>3 DEF all, vars
<1> QED
  BY <1>1, <1>2, <1>3 DEF CaNext, CaStep

LEMMA PairLogins ==
    ASSUME PairInv, [CaNext]_all
    PROVE  FollowsStep
<1>1. CASE Server
  BY <1>1, LoginSteps DEF PairInv, CoreInv, Server, Next
<1>2. CASE ~Server
  BY <1>2, CaApart DEF FollowsStep
<1> QED
  BY <1>1, <1>2

LEMMA PairTracks ==
    ASSUME PairInv, ClientsTracked, [CaNext]_all
    PROVE  ClientsTracked'
<1>1. CASE Server
  BY <1>1, TrackedSteps DEF PairInv, CoreInv, Server, Next
<1>2. CASE ~Server
  BY <1>2, CaApart DEF ClientsTracked
<1> QED
  BY <1>1, <1>2

-----------------------------------------------------------------------------
(* Why the CA turns a call down. *)

\* The files or the clock are to blame.
Cause(c) ==
    \/ call[c].op # "check" /\ c \in upset
    \/ call[c].op = "sign_host" /\ TopPath(call[c].name) \notin held[c].always

\* What the CA has read for the call of c lets it build a certificate, unless the
\* history tells why not.
Excused(c) ==
    /\ caPc \in {"after", "before", "sign"} =>
          defaults.days = 0 /\ (defaults.names # {} \/ c \in upset)
    /\ caPc = "before" => after \in Nat /\ (after <= clock \/ c \in upset)
    /\ caPc = "sign" => after <= before \/ c \in upset
    /\ caPc = "idle" /\ resp.kind = "error" => Cause(c)

CauseInv ==
    /\ clock \in Nat
    /\ \A c, d \in Conns : c # d /\ Pending(c) /\ Pending(d) => c \in overlapped
    /\ \A c \in Conns : wire[c] = "late" => c \in overlapped
    /\ \A c \in Conns : Pending(c) /\ TopPath(call[c].name) \in bare => c \in upset
    /\ serving \in Conns => Excused(serving)

\* What the history remembers after a step.
Remembers ==
    /\ \A c \in Conns : Pending(c)' /\ c \in overlapped => c \in overlapped'
    /\ \A c \in Conns : Pending(c)' /\ c \in upset => c \in upset'
    /\ \A c, d \in Conns : c # d /\ Pending(c)' /\ Pending(d)' => c \in overlapped'
    /\ \A c \in Conns : Pending(c)' /\ TopPath(call'[c].name) \in bare' => c \in upset'
    /\ \A c \in Conns : Pending(c)' /\ clock' < clock => c \in upset'

TurnedStep ==
    \A c \in Conns : answer[c] # "error" /\ answer'[c] = "error" =>
        \/ c \in overlapped \/ wire[c] = "spent"
        \/ call[c].op # "check" /\ c \in upset
        \/ call[c].op = "sign_host" /\ TopPath(call[c].name) \notin held[c].always

LEMMA HistorySteps ==
    ASSUME CauseInv, [CaNext]_all
    PROVE  Remembers
<1>1. CASE History
  BY <1>1 DEF History, Remembers, TopPath
<1>2. CASE UNCHANGED all
  <2>1. /\ \A c \in Conns : Pending(c)' <=> Pending(c)
        /\ UNCHANGED <<call, bare, clock, overlapped, upset>>
    BY <1>2 DEF all, vars, caVars, worldVars, history, Pending
  <2> QED
    BY <2>1 DEF CauseInv, Remembers
<1> QED
  BY <1>1, <1>2 DEF CaNext

\* One read of the CA keeps the excuse, or finds one.
LEMMA ExcusedWork ==
    ASSUME PairInv, CauseInv, PairInv', Remembers, Work
    PROVE  Excused(serving)'
<1>1. PICK c \in Conns : c = serving /\ Serves(c)
  BY DEF PairInv, CoreInv, CaInv, Work
<1>2. /\ UNCHANGED <<call, held, inventory, outside, bare, clock, serving>>
      /\ Pending(c) /\ Pending(c)'
      /\ Files!Handle
  BY <1>1 DEF Work, Serves, Pending, worldVars
<1>. DEFINE k == call[c].key
            p == TopPath(call[c].name)
<1>. SUFFICES Excused(c)'
  BY <1>1, <1>2 DEF Excused, Cause
<1>3. /\ k \in Keys /\ req.key = k
      /\ call[c].op # "check" => req.name = call[c].name
  BY <1>1, <1>2 DEF Serves, Pending, Request, PairInv, CoreInv, IdentityInv, Identity,
                    RequestOwn
<1>4. held[c].always \subseteq Usable(inventory, outside, k)
  BY <1>2 DEF PairInv, CoreInv, HeldInv, Asked, Pending
<1>5. Excused(c) /\ (c \in upset => c \in upset') /\ clock \in Nat
  BY <1>1, <1>2 DEF CauseInv, Remembers
<1>6. caPc # "idle" => Reading(c)
  BY <1>1 DEF Serves, Done
<1>7. ASSUME caPc' \in {"template", "host_read", "scan", "scan_read"} PROVE Excused(c)'
  BY <1>7 DEF Excused
<1>8. ASSUME caPc' = "idle", resp'.kind = "error" => Cause(c)' PROVE Excused(c)'
  BY <1>8 DEF Excused
<1>. USE DEF Files!Fail, Files!Respond
<1>9. CASE Files!ReadUserList
  BY <1>7, <1>9, BrokenAssumption DEF Files!ReadUserList
<1>10. CASE Files!ReadTemplate
  <2>1. template = Nobody
    BY <1>6, <1>10 DEF Files!ReadTemplate, Reading
  <2>2. caPc' = "after" /\ defaults' = Files!Render(Default, req.name)
    BY <1>10, <2>1, BrokenAssumption DEF Files!ReadTemplate
  <2>3. defaults'.days = 0 /\ defaults'.names # {}
    BY <2>2 DEF Files!Render, Default
  <2> QED
    BY <2>2, <2>3 DEF Excused
<1>11. CASE Files!ResolveHostEntry
  <2>1. /\ call[c].op = "sign_host" /\ Files!TopPath(req.name) = p
    BY <1>3, <1>6, <1>11 DEF Files!ResolveHostEntry, Reading, TopPath, Files!TopPath
  <2>2. CASE caPc' = "host_read"
    BY <1>7, <2>2
  <2>3. CASE ~Files!Inside(p) \/ (p \in Files!Paths /\ Entries[p] = NoKey)
    <3>1. p \notin held[c].always
      BY <1>3, <1>4, <2>3, EntryFacts, OrderAssumption
         DEF Files!Inside, Files!Paths, Usable, Holders
    <3>2. caPc' = "idle" \/ caPc' = "host_read"
      BY <1>11 DEF Files!ResolveHostEntry
    <3>3. Cause(c)'
      BY <1>2, <2>1, <3>1 DEF Cause
    <3> QED
      BY <1>8, <2>2, <3>2, <3>3
  <2> QED
    BY <1>11, <2>1, <2>2, <2>3 DEF Files!ResolveHostEntry
<1>12. CASE Files!ReadHostEntry
  <2>1. /\ call[c].op = "sign_host" /\ Files!TopPath(req.name) = p /\ p \in EntryPaths
    BY <1>3, <1>6, <1>12 DEF Files!ReadHostEntry, Reading, TopPath, Files!TopPath
  <2>2. CASE /\ Entries[p] = NoKey \/ Entries[p].key # k
             /\ caPc' = "idle"
    <3>1. p \notin held[c].always
      BY <1>3, <1>4, <2>1, <2>2, EntryFacts DEF Usable
    <3>2. Cause(c)'
      BY <1>2, <2>1, <3>1 DEF Cause
    <3> QED
      BY <1>8, <2>2, <3>2
  <2>3. CASE /\ Entries[p] # NoKey /\ caPc' = "after"
             /\ defaults' = [days |-> Entries[p].days, names |-> Entries[p].names]
    <3>1. /\ defaults'.days = 0
          /\ defaults'.names = IF p \in bare THEN {} ELSE {p.stem}
      BY <1>3, <2>1, <2>3, EntryFacts
    <3>2. p \in bare => c \in upset'
      BY <1>2, <1>5 DEF CauseInv
    <3> QED
      BY <2>3, <3>1, <3>2 DEF Excused
  <2> QED
    BY <1>3, <1>12, <2>1, <2>2, <2>3 DEF Files!ReadHostEntry, Files!Matches
<1>13. CASE Files!ReadValidAfter
  <2>1. caPc = "after" /\ caPc' = "before" /\ after' = clock /\ UNCHANGED defaults
    BY <1>13 DEF Files!ReadValidAfter
  <2> QED
    BY <1>2, <1>5, <2>1 DEF Excused
<1>14. CASE Files!ReadValidBefore
  <2>1. /\ caPc = "before" /\ caPc' = "sign" /\ before' = clock + defaults.days * 1
        /\ UNCHANGED <<defaults, after>>
    BY <1>14 DEF Files!ReadValidBefore
  <2>2. before' = clock
    BY <1>5, <2>1 DEF Excused
  <2> QED
    BY <1>5, <2>1, <2>2 DEF Excused
<1>15. CASE Files!Sign
  <2>1. /\ caPc = "sign" /\ caPc' = "idle"
        /\ resp'.kind = "error" => ~Files!Buildable
    BY <1>15 DEF Files!Sign
  <2>2. call[c].op # "check"
    BY <1>6, <2>1 DEF Reading, MaySign
  <2>3. ~Files!Buildable => c \in upset'
    BY <1>5, <2>1 DEF Excused, Files!Buildable
  <2> QED
    BY <1>2, <1>8, <2>1, <2>2, <2>3 DEF Cause
<1>16. CASE Files!ScanResolve \/ Files!ScanRead \/ Files!ScanEnd
  BY <1>7, <1>8, <1>16 DEF Files!ScanResolve, Files!ScanRead, Files!ScanEnd
<1> QED
  BY <1>1, <1>2, <1>9, <1>10, <1>11, <1>12, <1>13, <1>14, <1>15, <1>16 DEF Files!Handle

\* So does everything else that happens while the CA serves a call.
LEMMA ExcusedRest ==
    ASSUME PairInv, CauseInv, PairInv', Remembers, serving \in Conns,
           UNCHANGED <<serving, local>>, clock' \in Nat,
           call'[serving] = call[serving],
           held'[serving].always \subseteq held[serving].always
    PROVE  Excused(serving)'
<1>1. Pending(serving)'
  BY OrderAssumption DEF PairInv, CoreInv, CaInv, Serves
<1>2. Excused(serving) /\ clock \in Nat
  BY DEF CauseInv
<1>3. /\ serving \in upset => serving \in upset'
      /\ clock' < clock => serving \in upset'
  BY <1>1 DEF Remembers
<1>4. Cause(serving) => Cause(serving)'
  BY <1>3 DEF Cause
<1>5. after \in Nat /\ after <= clock => after <= clock' \/ serving \in upset'
  BY <1>2, <1>3
<1> QED
  BY <1>2, <1>3, <1>4, <1>5 DEF Excused, local

\* A number becomes late only behind that of another call.
LEMMA LateSteps ==
    ASSUME PairInv, CauseInv, PairInv', Remembers, [CaNext]_all, NEW c \in Conns,
           wire'[c] = "late"
    PROVE  c \in overlapped'
<1>1. Pending(c)' /\ wire \in [Conns -> Wires]
  BY DEF PairInv, StreamInv
<1>2. CASE wire[c] = "late"
  BY <1>1, <1>2 DEF CauseInv, Remembers
<1>3. ASSUME NEW d \in Conns, Take(d), wire[c] # "late" PROVE c \in overlapped'
  <2>1. /\ UNCHANGED vars /\ Pending(d)
        /\ wire'[c] = IF c = d THEN "away"
                      ELSE IF Overtakes(d, c) THEN "late" ELSE wire[c]
    BY <1>3 DEF Take, Accept
  <2>2. c # d /\ Pending(d)'
    BY <1>3, <2>1 DEF vars, Pending
  <2> QED
    BY <1>1, <2>2 DEF Remembers
<1>4. CASE wire' = wire
  BY <1>2, <1>4
<1>5. CASE Server \/ Edit \/ SetClock \/ Work \/ CaStart \/ UNCHANGED all
  BY <1>4, <1>5 DEF Server, Edit, SetClock, Work, CaStart, all, caVars, ipcVars
<1>6. CASE CaCrash
  BY <1>6 DEF CaCrash
<1>7. ASSUME NEW d \in Conns, Call(d) \/ Refuse(d) \/ Reply(d) PROVE wire[c] = "late"
  BY <1>1, <1>7 DEF Call, Connect, Unreached, DrawNumber, ReadEof, Refuse, Reply, caVars,
                    ipcVars
<1> QED
  BY <1>2, <1>3, <1>5, <1>6, <1>7 DEF CaNext, CaStep

LEMMA CauseSteps ==
    ASSUME PairInv, CauseInv, PairInv', [CaNext]_all
    PROVE  CauseInv'
<1>1. Remembers
  BY HistorySteps
<1>2. clock' \in Nat
  <2>1. CASE SetClock
    BY <2>1, OrderAssumption DEF SetClock
  <2>2. ASSUME NEW c \in Conns, Call(c) \/ Take(c) \/ Refuse(c) \/ Reply(c)
        PROVE  clock' = clock
    BY <2>2 DEF Call, Connect, Unreached, DrawNumber, ReadEof, Take, Accept, Refuse, Reply,
                caVars, worldVars
  <2>3. CASE Server \/ Edit \/ Work \/ CaCrash \/ CaStart \/ UNCHANGED all
    BY <2>3 DEF Server, Edit, Work, CaCrash, CaStart, all, caVars, worldVars, CauseInv
  <2> QED
    BY <2>1, <2>2, <2>3 DEF CaNext, CaStep, CauseInv
<1>3. \A c \in Conns : wire'[c] = "late" => c \in overlapped'
  BY <1>1, LateSteps
<1>4. ASSUME serving' \in Conns PROVE Excused(serving)'
  <2>1. CASE Work
    BY <1>1, <2>1, ExcusedWork DEF Work
  <2>2. ASSUME NEW c \in Conns, Take(c) PROVE Excused(serving)'
    <3>1. call[c].op \in {"check", "sign_user", "sign_host"}
      BY <2>2 DEF Take, Accept, Pending, PairInv, CoreInv, IdentityInv, Identity, RequestOwn
    <3>2. caPc' \in {"scan", "user_list", "host_entry"}
      BY <2>2, <3>1 DEF Take, Files!Receive, Request
    <3> QED
      BY <3>2 DEF Excused
  <2>3. CASE CaCrash
    BY <1>4, <2>3, OrderAssumption DEF CaCrash, Release
  <2>4. ASSUME NEW c \in Conns, Reply(c) PROVE FALSE
    BY <1>4, <2>4, OrderAssumption DEF Reply, Release
  <2>5. ASSUME UNCHANGED <<serving, local>>, call'[serving] = call[serving],
               held'[serving].always \subseteq held[serving].always
        PROVE  Excused(serving)'
    BY <1>1, <1>2, <1>4, <2>5, ExcusedRest
  <2>6. CASE Server
    <3>1. UNCHANGED <<serving, local>>
      BY <2>6 DEF Server, caVars
    <3>2. Pending(serving)
      BY <1>4, <3>1, OrderAssumption DEF PairInv, CoreInv, CaInv, Serves
    <3>3. CallSame(serving)
      BY <1>4, <2>6, <3>1, <3>2, ServerCalls DEF Server, PairInv, CoreInv, CallFresh
    <3> QED
      BY <2>5, <3>1, <3>3 DEF CallSame
  <2>7. CASE Edit
    BY <1>4, <2>5, <2>7 DEF Edit, EditFile
  <2>8. CASE SetClock \/ CaStart \/ UNCHANGED all
    BY <2>5, <2>8 DEF SetClock, CaStart, all, vars, caVars
  <2>9. ASSUME NEW c \in Conns, Call(c) \/ Refuse(c) PROVE Excused(serving)'
    BY <2>5, <2>9 DEF Call, Connect, Unreached, DrawNumber, ReadEof, Refuse, AnswerIs, vars,
                      caVars
  <2> QED
    BY <2>1, <2>2, <2>3, <2>4, <2>6, <2>7, <2>8, <2>9 DEF CaNext, CaStep
<1> QED
  BY <1>1, <1>2, <1>3, <1>4 DEF CauseInv, Remembers

LEMMA CauseStart == CaInit => CauseInv
BY OrderAssumption DEF CaInit, Init, CauseInv, Pending

\* A call is turned down by its number or with the reply.
LEMMA TurnedSteps ==
    ASSUME PairInv, CauseInv, [CaNext]_all
    PROVE  TurnedStep
<1> SUFFICES ASSUME NEW c \in Conns, answer[c] # "error", answer'[c] = "error"
             PROVE  c \in overlapped \/ wire[c] = "spent" \/ Cause(c)
  BY DEF TurnedStep, Cause
<1>1. ASSUME NEW d, NEW a, AnswerIs(d, a) PROVE d = c /\ a = "error"
  BY <1>1 DEF AnswerIs, PairInv, CoreInv, IdentityInv, TypeOK
<1>2. CASE Server
  BY <1>2, ServerCalls DEF Server, PairInv, CoreInv, CallSame, CallFresh
<1>3. CASE Edit \/ SetClock \/ Work \/ CaStart \/ UNCHANGED all
  BY <1>3 DEF Edit, EditFile, SetClock, Work, CaStart, all, vars
<1>4. CASE CaCrash
  BY <1>1, <1>4 DEF CaCrash, vars
<1>5. ASSUME NEW d \in Conns, Call(d) PROVE FALSE
  BY <1>1, <1>5 DEF Call, Connect, Unreached, DrawNumber, ReadEof, vars
<1>6. ASSUME NEW d \in Conns, Take(d) PROVE FALSE
  BY <1>6 DEF Take, vars
<1>7. ASSUME NEW d \in Conns, Refuse(d) PROVE c \in overlapped \/ wire[c] = "spent"
  BY <1>1, <1>7 DEF Refuse, CauseInv
<1>8. ASSUME NEW d \in Conns, Reply(d) PROVE Cause(c)
  <2>1. d = c /\ serving = c /\ caPc = "idle" /\ Done(c)
    <3>1. d = c /\ serving = c /\ caPc = "idle"
      BY <1>1, <1>8 DEF Reply
    <3> QED
      BY <3>1, OrderAssumption DEF PairInv, CoreInv, CaInv, Serves, Reading
  <2>2. AnswerOf(resp) = "error"
    BY <1>1, <1>8 DEF Reply
  <2>3. resp.kind # "found"
    <3>1. ASSUME resp.kind = "found" PROVE FALSE
      <4>1. resp.path \in held[c].ever /\ resp.path.stem = "error"
        BY <2>1, <2>2, <3>1 DEF AnswerOf, Done
      <4>2. held[c].ever \subseteq EntryPaths
        BY DEF PairInv, CoreInv, IdentityInv, TypeOK
      <4>3. resp.path.stem \in Hosts
        BY <4>1, <4>2, NamesAssumption
      <4> QED
        BY <4>1, <4>3, NamesAssumption
    <3> QED
      BY <3>1
  <2> QED
    BY <2>1, <2>2, <2>3 DEF AnswerOf, CauseInv, Excused
<1> QED
  BY <1>2, <1>3, <1>4, <1>5, <1>6, <1>7, <1>8 DEF CaNext, CaStep

-----------------------------------------------------------------------------
(* The theorems. *)

\* ssh_server/mod.rs: behind a CA that reads file by file, dies and loses answers,
\* every variable of the server keeps its type.
THEOREM PairTypesHold == CaSpec => []TypeOK
BY PairHolds, PTL DEF PairInv, CoreInv, IdentityInv

\* ssh_server/mod.rs:223-265, user_key_signer.rs:14-49: such a CA, too, signs a
\* user certificate only for a password that PAM accepted on the connection.
THEOREM PairUserCerts == CaSpec => []UserCertsEarned
BY PairHolds, IdentityMeans, PTL DEF PairInv, CoreInv

\* ssh_server/mod.rs:356-386, ca_server.rs:168-200: no answer reaches the wrong
\* connection, so that the certificates of one have one type and one name.
THEOREM PairOneIdentity == CaSpec => []OneIdentity
BY PairHolds, IdentityMeans, PTL DEF PairInv, CoreInv

\* ssh_server/mod.rs:279-386, certificat_authority/mod.rs:150-174: the host's own
\* entry held the key when the CA read it, in the course of the request.
THEOREM PairHostCerts == CaSpec => HostCertsEarned
BY PairHolds, PairEarned, PTL DEF CaSpec, HostCertsEarned, EarnedStep

\* ssh_server/mod.rs:279-323, host_config_reader.rs:82-163: a login with a key
\* rests on a file that the walk of this login read.
THEOREM PairLoginsFollow == CaSpec => LoginsFollowFiles
BY PairHolds, PairLogins, PTL DEF CaSpec, LoginsFollowFiles, FollowsStep

\* ssh_server/mod.rs:326-399: nor does it disturb the clients map.
THEOREM PairClients == CaSpec => []ClientsTracked
<1>1. CaInit => ClientsTracked
  BY DEF CaInit, Init, ClientsTracked
<1> QED
  BY <1>1, PairTracks, PairHolds, PTL DEF CaSpec

\* ca_server.rs:88-200 with host_config_reader.rs:82-163 behind ssh_server/mod.rs:
\* a CA that reads file by file while the operator edits, serves one request at
\* a time, dies and loses answers, does for every connection what SshSession says
\* of its CA.
THEOREM SessionImplemented == CaSpec => SessionSpec
BY PairStart, PairSteps, PairHolds, PTL DEF CaSpec, SessionSpec, Session!Spec

\* ca_server.rs:120-143, mod.rs:84-208, host_config_reader.rs:68-163: whatever the
\* operator, the clock and the other connections do, the CA turns a call down only
\* for one of the causes that TurnedDownForCause names.
THEOREM CallsTurnedDownForCause == CaSpec => TurnedDownForCause
BY CauseStart, CauseSteps, TurnedSteps, PairHolds, PairSteps, PTL
   DEF CaSpec, TurnedDownForCause, TurnedStep
=============================================================================
