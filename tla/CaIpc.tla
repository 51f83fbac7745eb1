------------------------------- MODULE CaIpc -------------------------------
(***************************************************************************)
(* The IPC between the SSH server and the CA process.                      *)
(*                                                                         *)
(* Client side: src/certificat_authority/ca_client.rs.  Every connection   *)
(* handler holds a clone of one CaClient; a call of send_request connects  *)
(* to the Unix socket, draws the next value of the counter all clones      *)
(* share, writes one envelope and reads one reply.  Each call is a task    *)
(* of the tokio runtime, so calls interleave between these steps.          *)
(*                                                                         *)
(* Server side: src/certificat_authority/ca_server.rs.  One loop accepts a *)
(* connection, reads one envelope, checks token and counter, dispatches,   *)
(* writes the reply and drops the stream before it accepts the next one.   *)
(*                                                                         *)
(* Other local processes ("strangers") can connect too and send any frame  *)
(* of StrangerFrames; either process can die and be started again.  A slot *)
(* of Tasks stands for one call at a time; it is reused for a new call     *)
(* only when the CA no longer holds the stream of the old one.             *)
(***************************************************************************)
EXTENDS Integers, Sequences, FiniteSets

CONSTANTS
    Tasks,            \* concurrent calls of send_request in the SSH server
    Strangers,        \* other local processes that connect to the socket
    OtherUsers,       \* processes whose uid is not the CA's
    StrangerFrames,   \* what they may send
    NoPeer,           \* the CA serves nobody
    MaxCounter,       \* u64::MAX
    Backlog,          \* connections the kernel queues before refusing more
    Quota,            \* bound: calls per life of the SSH server
    MaxCaCrashes,     \* bound: deaths of the CA process
    MaxSshRestarts    \* bound: restarts of the SSH server

Peers   == Tasks \cup Strangers
Values  == 0 .. MaxCounter
\* "unreadable": a length above MAX_MESSAGE_SIZE, or not UTF-8.
Frames  == [kind : {"envelope", "malformed", "unreadable"},
            token : BOOLEAN, counter : Values]
NoFrame == [kind |-> "none", token |-> FALSE, counter |-> 0]

\* Outcomes of CaServer::handle_request: a response, an error turned into
\* CaResponse::Error, or a response longer than MAX_MESSAGE_SIZE.
Outcomes == {"ok", "handler_error", "huge"}
Replies  == Outcomes \cup {"refused", "bad_format"}

ASSUME PeersAssumption ==
    /\ OtherUsers \subseteq Peers
    /\ Tasks \cap Strangers = {}
    /\ NoPeer \notin Peers
ASSUME FramesAssumption == StrangerFrames \subseteq Frames
ASSUME BoundsAssumption ==
    /\ MaxCounter \in Nat \ {0}
    /\ {Backlog, Quota, MaxCaCrashes, MaxSshRestarts} \subseteq Nat

VARIABLES
    pc,            \* where each call stands
    num,           \* the counter value in a task's envelope
    result,        \* what the last call of a peer returned, or "none"
    counter,       \* CaClient.counter
    up, down,      \* what each stream carries to the CA and back
    caUp,          \* the CA process listens
    backlog,       \* connections not yet accepted, oldest first
    serving,       \* the connection the CA loop is working on
    reply,         \* the response it is about to write, or "none"
    lastCounter,   \* CaServer.last_counter
    caCrashes, sshRestarts,
    (* History, read by the properties only. *)
    accepted,      \* counter values this CA process has accepted
    executed,      \* the CA dispatched the request of a peer's last call
    overlapped,    \* the task drew its number while a call ahead had none
    drawn          \* highest number drawn before counter last started again

numbers    == <<num, counter, overlapped, drawn>>
clientVars == <<pc, result, numbers>>
serverVars == <<caUp, backlog, serving, reply, lastCounter, accepted, executed>>
wireVars   == <<up, down>>
faultVars  == <<caCrashes, sshRestarts>>
vars == <<pc, num, result, counter, up, down, caUp, backlog, serving, reply,
          lastCounter, caCrashes, sshRestarts, accepted, executed, overlapped, drawn>>

Waiting(p) == \E i \in DOMAIN backlog : backlog[i] = p
Held(p)    == Waiting(p) \/ serving = p          \* the CA end of the stream
Open(p)    == pc[p] \in {"connected", "numbered", "waiting"}   \* p's own end

\* u's connection is served before t's.
Ahead(u, t) ==
    \/ serving = u
    \/ \E i, j \in DOMAIN backlog : i < j /\ backlog[i] = u /\ backlog[j] = t

-----------------------------------------------------------------------------
(* Start of both processes. *)

Init ==
    /\ pc          = [p \in Peers |-> "idle"]
    /\ num         = [t \in Tasks |-> 0]
    /\ result      = [p \in Peers |-> "none"]
    /\ counter     = 0
    /\ up          = [p \in Peers |-> NoFrame]
    /\ down        = [p \in Peers |-> "none"]
    /\ caUp        = TRUE
    /\ backlog     = <<>>
    /\ serving     = NoPeer
    /\ reply       = "none"
    /\ lastCounter = 0
    /\ caCrashes   = 0
    /\ sshRestarts = 0
    /\ accepted    = {}
    /\ executed    = [p \in Peers |-> FALSE]
    /\ overlapped  = [t \in Tasks |-> FALSE]
    /\ drawn       = 0

-----------------------------------------------------------------------------
(* CaClient::send_request, one action per await. *)

Unnumbered == {t \in Tasks : pc[t] \in {"connecting", "connected"}}

\* A handler calls send_request.  Strangers start the same way.
Call(p) ==
    /\ pc[p] \in {"idle", "returned", "lost"}
    /\ ~Held(p)
    /\ p \in Tasks => counter + Cardinality(Unnumbered) < Quota
    /\ pc'       = [pc EXCEPT ![p] = "connecting"]
    /\ result'   = [result EXCEPT ![p] = "none"]
    /\ executed' = [executed EXCEPT ![p] = FALSE]
    /\ up'       = [up EXCEPT ![p] = NoFrame]
    /\ down'     = [down EXCEPT ![p] = "none"]
    /\ UNCHANGED <<numbers, caUp, backlog, serving, reply,
                   lastCounter, accepted, faultVars>>

Return(p, r) ==
    /\ pc'     = [pc EXCEPT ![p] = "returned"]
    /\ result' = [result EXCEPT ![p] = r]

\* UnixStream::connect succeeds as soon as the connection is queued.
Connect(p) ==
    /\ pc[p] = "connecting"
    /\ caUp /\ Len(backlog) < Backlog
    /\ pc'      = [pc EXCEPT ![p] = "connected"]
    /\ backlog' = Append(backlog, p)
    /\ UNCHANGED <<result, numbers, wireVars, caUp, serving,
                   reply, lastCounter, accepted, executed, faultVars>>

\* Nobody listens, or the queue is full.
ConnectFails(p) ==
    /\ pc[p] = "connecting"
    /\ ~caUp \/ Len(backlog) >= Backlog
    /\ Return(p, "failed")
    /\ UNCHANGED <<numbers, wireVars, serverVars, faultVars>>

\* fetch_add wraps; the value drawn is checked, the shared counter is not.
FetchAdd == counter' = IF counter = MaxCounter THEN 0 ELSE counter + 1

DrawNumber(t) ==
    /\ pc[t] = "connected"
    /\ FetchAdd
    /\ counter < MaxCounter                         \* prev.checked_add(1)
    /\ pc'  = [pc EXCEPT ![t] = "numbered"]
    /\ num' = [num EXCEPT ![t] = counter + 1]
    /\ overlapped' = [overlapped EXCEPT ![t] =
           \E u \in Tasks \ {t} : pc[u] = "connected" /\ Ahead(u, t)]
    /\ UNCHANGED <<result, drawn, wireVars, serverVars, faultVars>>

\* "IPC counter exhausted": the stream is dropped unused.
CounterExhausted(t) ==
    /\ pc[t] = "connected"
    /\ FetchAdd
    /\ counter = MaxCounter
    /\ Return(t, "failed")
    /\ drawn' = MaxCounter
    /\ UNCHANGED <<num, overlapped, wireVars, serverVars, faultVars>>

\* The envelope of a task carries the shared token.
WriteRequest(t) ==
    /\ pc[t] = "numbered"
    /\ Held(t)
    /\ pc' = [pc EXCEPT ![t] = "waiting"]
    /\ up' = [up EXCEPT ![t] = [kind |-> "envelope", token |-> TRUE,
                                counter |-> num[t]]]
    /\ UNCHANGED <<result, numbers, down, serverVars, faultVars>>

\* The request exceeds MAX_MESSAGE_SIZE, or the CA end is closed: the number
\* is used up, the stream is dropped.
WriteFails(t) ==
    /\ pc[t] = "numbered"
    /\ Return(t, "failed")
    /\ UNCHANGED <<numbers, wireVars, serverVars, faultVars>>

\* Seeded fault: the length of the response is not checked.
ReceivedAnyLength(r) == r

\* A response longer than MAX_MESSAGE_SIZE is an error.
Received(r) == IF r = "huge" THEN "failed" ELSE r

ReadReply(p) ==
    /\ pc[p] = "waiting"
    /\ down[p] # "none"
    /\ Return(p, Received(down[p]))
    /\ down' = [down EXCEPT ![p] = "none"]
    /\ UNCHANGED <<numbers, up, serverVars, faultVars>>

\* The CA dropped the stream, or died, without a reply.
ReadEof(p) ==
    /\ pc[p] = "waiting"
    /\ down[p] = "none" /\ ~Held(p)
    /\ Return(p, "failed")
    /\ UNCHANGED <<numbers, wireVars, serverVars, faultVars>>

-----------------------------------------------------------------------------
(* Other local processes. *)

SendFrame(s) ==
    /\ pc[s] = "connected" /\ s \in Strangers
    /\ \E f \in StrangerFrames : up' = [up EXCEPT ![s] = f]
    /\ pc' = [pc EXCEPT ![s] = "waiting"]
    /\ UNCHANGED <<result, numbers, down, serverVars, faultVars>>

\* It closes its end, before or after it sent anything.
Leave(s) ==
    /\ Open(s) /\ s \in Strangers
    /\ pc' = [pc EXCEPT ![s] = "lost"]
    /\ UNCHANGED <<result, numbers, wireVars, serverVars, faultVars>>

-----------------------------------------------------------------------------
(* CaServer::run, the body of its loop. *)

\* Seeded fault: no SO_PEERCRED check.
AdmittedAll(p) == TRUE

\* SO_PEERCRED: the peer runs under the uid of the CA.
Admitted(p) == p \notin OtherUsers

\* A stream of another user is dropped at once.
Accept ==
    /\ caUp /\ serving = NoPeer /\ backlog # <<>>
    /\ backlog' = Tail(backlog)
    /\ serving' = IF Admitted(Head(backlog)) THEN Head(backlog) ELSE NoPeer
    /\ UNCHANGED <<clientVars, wireVars, caUp, reply, lastCounter, accepted,
                   executed, faultVars>>

\* The loop has read the whole frame of the stream it serves.
Consume == up' = [up EXCEPT ![serving] = NoFrame]

\* Seeded fault: the end of a stream is not noticed.
UnreadableOnly(p) == up[p].kind = "unreadable"

\* read_exact fails at the end of the stream; a length above the maximum or a
\* payload that is not UTF-8 is given up.
Unusable(p) ==
    \/ up[p] = NoFrame /\ ~Open(p)
    \/ up[p].kind = "unreadable"

\* Logged only: the stream is dropped without a reply.
DropStream ==
    /\ serving # NoPeer /\ reply = "none"
    /\ Unusable(serving)
    /\ Consume
    /\ serving' = NoPeer
    /\ UNCHANGED <<clientVars, down, caUp, backlog, reply, lastCounter,
                   accepted, executed, faultVars>>

\* Not an AuthenticatedRequest.
AnswerMalformed ==
    /\ serving # NoPeer /\ reply = "none"
    /\ up[serving].kind = "malformed"
    /\ Consume
    /\ reply' = "bad_format"
    /\ UNCHANGED <<clientVars, down, caUp, backlog, serving, lastCounter,
                   accepted, executed, faultVars>>

\* Seeded faults: the last value is accepted again; values must be consecutive.
FreshOrEqual(f) == f.counter >= lastCounter
FreshInSequence(f) == f.counter = lastCounter + 1

Fresh(f) == f.counter > lastCounter

Authentic(f) == f.token /\ Fresh(f)

\* An envelope with a wrong token or a stale counter: "authentication failed".
Refuse ==
    /\ serving # NoPeer /\ reply = "none"
    /\ up[serving].kind = "envelope" /\ ~Authentic(up[serving])
    /\ Consume
    /\ reply' = "refused"
    /\ UNCHANGED <<clientVars, down, caUp, backlog, serving, lastCounter,
                   accepted, executed, faultVars>>

\* The counter is stored and the request dispatched in one go: handle_request
\* does not await.
Dispatch ==
    /\ serving # NoPeer /\ reply = "none"
    /\ up[serving].kind = "envelope" /\ Authentic(up[serving])
    /\ Consume
    /\ lastCounter' = up[serving].counter
    /\ reply'    \in Outcomes
    /\ accepted' = accepted \cup {up[serving].counter}
    /\ executed' = [executed EXCEPT ![serving] = TRUE]
    /\ UNCHANGED <<clientVars, down, caUp, backlog, serving, faultVars>>

\* Seeded faults: the stream is kept for another request; the response is
\* left over for the next stream.
ReleaseKeepStream == serving' = serving /\ reply' = "none"
ReleaseKeepReply  == serving' = NoPeer /\ reply' = reply

\* The end of the loop's body drops the stream and the response.
Release == serving' = NoPeer /\ reply' = "none"

\* A failed write is only logged; the stream is dropped either way.
WriteReply ==
    /\ serving # NoPeer /\ reply # "none"
    /\ down' = IF Open(serving) THEN [down EXCEPT ![serving] = reply] ELSE down
    /\ Release
    /\ UNCHANGED <<clientVars, up, caUp, backlog, lastCounter, accepted,
                   executed, faultVars>>

-----------------------------------------------------------------------------
(* Either process can die. *)

\* The CA process ends: the kernel closes every stream it held or had queued.
CaCrash ==
    /\ caUp /\ caCrashes < MaxCaCrashes
    /\ caUp'      = FALSE
    /\ backlog'   = <<>>
    /\ serving'   = NoPeer
    /\ reply'     = "none"
    /\ caCrashes' = caCrashes + 1
    /\ UNCHANGED <<clientVars, wireVars, lastCounter, accepted, executed,
                   sshRestarts>>

\* A CA started on its own (--disable-ca on the other side) is started again:
\* CaServer::new, remove the old socket, bind.
CaRestart ==
    /\ ~caUp
    /\ caUp'        = TRUE
    /\ lastCounter' = 0
    /\ accepted'    = {}
    /\ UNCHANGED <<clientVars, wireVars, backlog, serving, reply, executed,
                   faultVars>>

\* The SSH server is restarted beside a CA that keeps running: all its calls
\* are lost, CaClient::new starts the counter again.
SshRestart ==
    /\ sshRestarts < MaxSshRestarts
    /\ sshRestarts' = sshRestarts + 1
    /\ counter'     = 0
    /\ drawn'       = IF counter > drawn THEN counter ELSE drawn
    /\ pc' = [p \in Peers |-> IF p \in Tasks /\ pc[p] \in
                  {"connecting", "connected", "numbered", "waiting"}
                              THEN "lost" ELSE pc[p]]
    /\ UNCHANGED <<num, result, overlapped, wireVars, serverVars, caCrashes>>

-----------------------------------------------------------------------------
Step(p) ==
    \/ Connect(p) \/ ConnectFails(p) \/ ReadReply(p) \/ ReadEof(p)
    \/ p \in Tasks /\ (\/ DrawNumber(p) \/ CounterExhausted(p)
                       \/ WriteRequest(p) \/ WriteFails(p))

Server == Accept \/ DropStream \/ AnswerMalformed \/ Refuse \/ Dispatch \/ WriteReply

Fault == CaCrash \/ CaRestart \/ SshRestart

Next ==
    \/ \E p \in Peers : Call(p) \/ Step(p)
    \/ \E s \in Strangers : SendFrame(s) \/ Leave(s)
    \/ Server
    \/ Fault

Spec == Init /\ [][Next]_vars

\* tokio polls every task that is ready and the CA loop never stops, so each
\* call and the loop proceed as long as they can.  Nothing obliges a caller to
\* call, a process to die, or a dead CA to be started again.
FairSpec == Spec /\ WF_vars(Server) /\ \A t \in Tasks : WF_vars(Step(t))

-----------------------------------------------------------------------------
TypeOK ==
    /\ pc \in [Peers -> {"idle", "connecting", "connected", "numbered",
                         "waiting", "returned", "lost"}]
    /\ num \in [Tasks -> Values]
    /\ result \in [Peers -> {"none", "failed"} \cup (Replies \ {"huge"})]
    /\ {counter, drawn, lastCounter} \subseteq Values
    /\ up \in [Peers -> Frames \cup {NoFrame}]
    /\ down \in [Peers -> Replies \cup {"none"}]
    /\ caUp \in BOOLEAN
    /\ backlog \in Seq(Peers) /\ Len(backlog) <= Backlog
    /\ serving \in Peers \cup {NoPeer}
    /\ reply \in Replies \cup {"none"}
    /\ caCrashes \in 0 .. MaxCaCrashes /\ sshRestarts \in 0 .. MaxSshRestarts
    /\ accepted \subseteq Values
    /\ executed \in [Peers -> BOOLEAN] /\ overlapped \in [Tasks -> BOOLEAN]

\* The accept queue holds a connection once.
QueueDistinct == \A i, j \in DOMAIN backlog : backlog[i] = backlog[j] => i = j

StreamConsistent(p) ==
    /\ pc[p] \in {"idle", "connecting"} => ~Held(p) /\ down[p] = "none"
    /\ pc[p] = "connecting" => ~executed[p]
    /\ pc[p] \in {"idle", "connecting", "connected", "numbered"} =>
          up[p] = NoFrame
    /\ Held(p) /\ up[p] # NoFrame => pc[p] \in {"waiting", "lost"}
    /\ Waiting(p) => serving # p /\ ~executed[p]
    /\ Held(p) => down[p] = "none"
    /\ serving = p /\ reply # "none" => pc[p] \in {"waiting", "lost"}
    /\ serving = p => (executed[p] <=> reply \in Outcomes)
    /\ down[p] # "none" => (executed[p] <=> down[p] \in Outcomes)
    /\ down[p] # "none" => pc[p] \in {"waiting", "lost"}

\* ca_client.rs:53-101, ca_server.rs:64-165.  A request that is queued or
\* being read has not run, a reply that is staged or under way tells whether
\* it has, and a frame is only ever read for a caller that waits or has gone.
StreamsConsistent ==
    /\ QueueDistinct
    /\ serving = NoPeer => reply = "none"
    /\ \A p \in Peers : StreamConsistent(p)

\* ca_server.rs:128-136: no value above last_counter has been accepted.
AcceptedBelowLast == \A v \in accepted : v <= lastCounter

\* ca_server.rs:120-137.  Whatever anybody sends, a request runs in the CA
\* only under the token and with a counter value that this CA process has not
\* accepted before: no value is good for two requests.
AcceptedOnce ==
    [][\A p \in Peers : ~executed[p] /\ executed'[p] =>
          up[p].token /\ up[p].counter \notin accepted]_vars

\* ca_client.rs:53-101 against ca_server.rs:64-165.  The counter check refuses
\* an honest call only when the call drew its number while a call ahead of it
\* in the accept queue had none yet, or when that number had been drawn before:
\* by an earlier life of the SSH server, or before the counter wrapped.  So calls
\* that do not overlap in this way are served, and a server that is restarted
\* beside a running CA is cut off for no more calls than it had made.
RefusedOnlyIfOverlapped ==
    \A t \in Tasks : result[t] = "refused" => overlapped[t] \/ num[t] <= drawn

\* ca_server.rs:70-85.  A stream of another user gets no answer of any kind,
\* also when it was queued before the permissions of the socket were set.
OtherUsersNeverServed ==
    \A x \in OtherUsers : ~executed[x] /\ down[x] = "none"

\* The loop of the CA has a step to take.
LoopMoves ==
    \/ caUp /\ serving = NoPeer /\ backlog # <<>>
    \/ /\ serving # NoPeer
       /\ \/ reply # "none" \/ Unusable(serving)
          \/ up[serving].kind \in {"malformed", "envelope"}

\* ca_client.rs:83-100, ca_server.rs:64-118.  A call that waits for its reply can
\* read it or the end of its stream, or the loop of the CA can go on, or that
\* loop waits for a process of its own user that has connected and not written.
\* Nothing else holds a call up: no dead CA, no stream whose owner has gone, no
\* process of another user.  (A call of the SSH server writes or gives up by
\* itself; the loop reads without a timeout, so a silent stranger blocks it.)
OnlySilenceBlocks ==
    \A t \in Tasks : pc[t] = "waiting" =>
        \/ down[t] # "none" \/ ~Held(t)
        \/ LoopMoves
        \/ serving \in Peers \ OtherUsers /\ pc[serving] \in {"connected", "numbered"}

\* ca_client.rs:22 and how-it-works.md:33: the counter is against replay.  An
\* honest call, sent once and in a life of the SSH server in which nothing
\* crashed, should not be taken for one.
HonestCallsServed ==
    \A t \in Tasks : result[t] = "refused" => caCrashes + sshRestarts > 0

\* ca_client.rs:190: "the counter saturates at u64::MAX and does not wrap".
CounterSaturates ==
    [][counter' >= counter \/ sshRestarts' # sshRestarts]_vars

\* server-setup.md:197: "You can run the SSH server and the CA separately, for
\* example under different users."  A stream of the SSH server that the CA
\* accepts is then read, whatever user the server runs under.
SeparateUsersServed ==
    [][\A t \in Tasks : caUp' /\ backlog # <<>> /\ backlog' = Tail(backlog)
                        /\ Head(backlog) = t => serving' = t]_vars

\* The whole exchange, with crashes on both sides, is an at-most-once call.
Call_(p) == CASE pc[p] = "idle"     -> "idle"
              [] pc[p] = "returned" -> "done"
              [] pc[p] = "lost"     -> "lost"
              [] OTHER              -> "pending"
Service == INSTANCE CertService WITH
               Callers  <- Peers,
               call     <- [p \in Peers |-> Call_(p)]
ServiceSpec == Service!Spec

\* ca_client.rs:53-101, ca_server.rs:52-166.  A call that was issued returns:
\* an answer, a refusal or an error, even when the CA dies under it.
EveryCallReturns ==
    \A t \in Tasks : pc[t] = "connecting" ~> pc[t] \in {"returned", "lost"}
=============================================================================
