---------------------------- MODULE CaIpcProofs ----------------------------
(***************************************************************************)
(* Theorems about CaIpc for every number of calls and strangers, every     *)
(* counter width, queue length and number of crashes.                      *)
(***************************************************************************)
EXTENDS CaIpc, FiniteSetTheorems, TLAPS

-----------------------------------------------------------------------------
(* The accept queue. *)

\* UnixStream::connect puts the connection behind all others.
LEMMA AppendWaiting ==
    ASSUME NEW p \in Peers, backlog \in Seq(Peers),
           backlog' = Append(backlog, p)
    PROVE  /\ backlog' \in Seq(Peers)
           /\ Len(backlog') = Len(backlog) + 1
           /\ \A q \in Peers : Waiting(q)' <=> Waiting(q) \/ q = p
           /\ QueueDistinct /\ ~Waiting(p) => QueueDistinct'
<1>1. /\ backlog' \in Seq(Peers)
      /\ Len(backlog') = Len(backlog) + 1
      /\ DOMAIN backlog = 1 .. Len(backlog)
      /\ DOMAIN backlog' = 1 .. (Len(backlog) + 1)
      /\ \A i \in 1 .. Len(backlog) : backlog'[i] = backlog[i]
      /\ backlog'[Len(backlog) + 1] = p
      /\ Len(backlog) \in Nat
  OBVIOUS
<1>2. \A q \in Peers : Waiting(q)' <=> Waiting(q) \/ q = p
  BY <1>1 DEF Waiting
<1>3. ASSUME QueueDistinct, ~Waiting(p) PROVE QueueDistinct'
  BY <1>1, <1>3 DEF Waiting, QueueDistinct
<1> QED
  BY <1>1, <1>2, <1>3

\* accept takes the oldest connection and leaves the others in order.
LEMMA TailWaiting ==
    ASSUME backlog \in Seq(Peers), backlog # <<>>, backlog' = Tail(backlog),
           QueueDistinct
    PROVE  /\ backlog' \in Seq(Peers)
           /\ Len(backlog') <= Len(backlog)
           /\ Head(backlog) \in Peers
           /\ Waiting(Head(backlog))
           /\ \A q \in Peers : Waiting(q)' <=> Waiting(q) /\ q # Head(backlog)
           /\ QueueDistinct'
<1>1. /\ backlog' \in Seq(Peers)
      /\ Len(backlog) \in Nat \ {0}
      /\ Len(backlog') = Len(backlog) - 1
      /\ DOMAIN backlog = 1 .. Len(backlog)
      /\ DOMAIN backlog' = 1 .. (Len(backlog) - 1)
      /\ \A i \in 1 .. (Len(backlog) - 1) : backlog'[i] = backlog[i + 1]
      /\ Head(backlog) = backlog[1]
      /\ Head(backlog) \in Peers
  OBVIOUS
<1>2. \A q \in Peers : Waiting(q) => q = Head(backlog) \/ Waiting(q)'
  <2> TAKE q \in Peers
  <2> HAVE Waiting(q)
  <2>1. PICK i \in 1 .. Len(backlog) : backlog[i] = q
    BY <1>1 DEF Waiting
  <2>2. CASE i = 1
    BY <2>1, <2>2, <1>1
  <2>3. CASE i # 1
    <3>1. i - 1 \in 1 .. (Len(backlog) - 1) /\ backlog'[i - 1] = q
      BY <2>1, <2>3, <1>1
    <3> QED
      BY <3>1, <1>1 DEF Waiting
  <2> QED
    BY <2>2, <2>3
<1>3. \A q \in Peers : Waiting(q)' => Waiting(q) /\ q # Head(backlog)
  <2> TAKE q \in Peers
  <2> HAVE Waiting(q)'
  <2>1. PICK i \in 1 .. (Len(backlog) - 1) : backlog'[i] = q
    BY <1>1 DEF Waiting
  <2>2. /\ i + 1 \in 1 .. Len(backlog) /\ 1 \in 1 .. Len(backlog)
        /\ i + 1 # 1 /\ backlog[i + 1] = q
    BY <2>1, <1>1
  <2> QED
    BY <2>2, <1>1 DEF Waiting, QueueDistinct
<1>4. Waiting(Head(backlog))
  BY <1>1 DEF Waiting
<1>5. QueueDistinct'
  BY <1>1 DEF QueueDistinct
<1>6. Len(backlog') <= Len(backlog)
  BY <1>1
<1> QED
  BY <1>1, <1>2, <1>3, <1>4, <1>5, <1>6

-----------------------------------------------------------------------------
(* Type correctness. *)

\* Every variable keeps its type, whatever the instance.
THEOREM TypeCorrect == Spec => []TypeOK
<1>1. Init => TypeOK
  BY BoundsAssumption DEF Init, TypeOK, Values, Frames, NoFrame, Replies, Outcomes
<1>2. TypeOK /\ [Next]_vars => TypeOK'
  <2> SUFFICES ASSUME TypeOK, [Next]_vars PROVE TypeOK'
    OBVIOUS
  <2>t. Tasks \subseteq Peers /\ Strangers \subseteq Peers
    BY DEF Peers
  <2> USE BoundsAssumption DEF TypeOK, Values, faultVars, wireVars, serverVars,
                               clientVars, numbers, Replies, Outcomes
  <2>1. ASSUME NEW p \in Peers, Call(p) PROVE TypeOK'
    BY <2>1 DEF Call
  <2>2. ASSUME NEW p \in Peers, Connect(p) PROVE TypeOK'
    <3>1. backlog' \in Seq(Peers) /\ Len(backlog') <= Backlog
      BY <2>2, AppendWaiting DEF Connect
    <3> QED
      BY <2>2, <3>1 DEF Connect
  <2>3. ASSUME NEW p \in Peers, ConnectFails(p) PROVE TypeOK'
    BY <2>3 DEF ConnectFails, Return
  <2>4. ASSUME NEW p \in Peers, ReadReply(p) PROVE TypeOK'
    BY <2>4 DEF ReadReply, Received, Return
  <2>5. ASSUME NEW p \in Peers, ReadEof(p) PROVE TypeOK'
    BY <2>5 DEF ReadEof, Return
  <2>6. ASSUME NEW t \in Tasks, DrawNumber(t) PROVE TypeOK'
    <3>1. t \in Peers /\ counter + 1 \in 0 .. MaxCounter /\ counter' = counter + 1
      <4>1. counter < MaxCounter /\ FetchAdd
        BY <2>6 DEF DrawNumber
      <4>2. counter \in Nat /\ MaxCounter \in Nat
        OBVIOUS
      <4> QED BY <2>t, <4>1, <4>2 DEF FetchAdd
    <3>2. overlapped' \in [Tasks -> BOOLEAN]
      <4>1. overlapped' = [overlapped EXCEPT ![t] =
               \E u \in Tasks \ {t} : pc[u] = "connected" /\ Ahead(u, t)]
        BY <2>6 DEF DrawNumber
      <4> QED BY <4>1
    <3> QED BY <2>6, <3>1, <3>2 DEF DrawNumber
  <2>7. ASSUME NEW t \in Tasks, CounterExhausted(t) PROVE TypeOK'
    <3>1. t \in Peers /\ counter' = 0 /\ drawn' = MaxCounter
      BY <2>7, <2>t DEF CounterExhausted, FetchAdd
    <3>2. {counter', drawn', lastCounter'} \subseteq 0 .. MaxCounter
      BY <2>7, <3>1 DEF CounterExhausted
    <3> QED BY <2>7, <3>1, <3>2 DEF CounterExhausted, Return
  <2>8. ASSUME NEW t \in Tasks, WriteRequest(t) PROVE TypeOK'
    BY <2>8 DEF WriteRequest, Frames
  <2>9. ASSUME NEW t \in Tasks, WriteFails(t) PROVE TypeOK'
    BY <2>9 DEF WriteFails, Return
  <2>10. ASSUME NEW s \in Strangers, SendFrame(s) PROVE TypeOK'
    BY <2>10, FramesAssumption DEF SendFrame
  <2>11. ASSUME NEW s \in Strangers, Leave(s) PROVE TypeOK'
    BY <2>11 DEF Leave
  <2>12. CASE Accept
    <3>1. Head(backlog) \in Peers /\ backlog' \in Seq(Peers)
          /\ Len(backlog') <= Backlog
      BY <2>12 DEF Accept
    <3> QED
      BY <2>12, <3>1 DEF Accept, Admitted
  <2>13. CASE DropStream
    BY <2>13 DEF DropStream, Unusable, Consume
  <2>14. CASE AnswerMalformed
    BY <2>14 DEF AnswerMalformed, Consume
  <2>15. CASE Refuse
    BY <2>15 DEF Refuse, Consume
  <2>16. CASE Dispatch
    <3>1. serving \in Peers /\ up[serving] \in Frames
      BY <2>16 DEF Dispatch, NoFrame
    <3> QED
      BY <2>16, <3>1 DEF Dispatch, Consume, Frames
  <2>17. CASE WriteReply
    BY <2>17 DEF WriteReply, Release
  <2>18. CASE CaCrash
    <3>1. backlog' \in Seq(Peers) /\ Len(backlog') <= Backlog
      BY <2>18 DEF CaCrash
    <3>2. caCrashes' \in 0 .. MaxCaCrashes
      BY <2>18 DEF CaCrash
    <3> QED
      BY <2>18, <3>1, <3>2 DEF CaCrash
  <2>19. CASE CaRestart
    BY <2>19 DEF CaRestart
  <2>20. CASE SshRestart
    BY <2>20 DEF SshRestart
  <2>21. CASE UNCHANGED vars
    BY <2>21 DEF vars
  <2> QED
    BY <2>1, <2>2, <2>3, <2>4, <2>5, <2>6, <2>7, <2>8, <2>9, <2>10, <2>11,
       <2>12, <2>13, <2>14, <2>15, <2>16, <2>17, <2>18, <2>19, <2>20, <2>21
    DEF Next, Step, Server, Fault, Peers
<1> QED
  BY <1>1, <1>2, PTL DEF Spec

-----------------------------------------------------------------------------
(* The state of the streams. *)

\* What a step of one caller leaves alone: the queue and the CA's end.
LEMMA QueueUnchanged ==
    ASSUME UNCHANGED <<backlog, serving>>
    PROVE  /\ \A q \in Peers : (Waiting(q)' <=> Waiting(q)) /\ (Held(q)' <=> Held(q))
           /\ QueueDistinct' <=> QueueDistinct
BY DEF Waiting, Held, QueueDistinct

\* Between the steps of both sides every stream is in one of the states that
\* send_request and the loop of the CA expect.
LEMMA StreamsInductive ==
    TypeOK /\ StreamsConsistent /\ [Next]_vars => StreamsConsistent'
<1> SUFFICES ASSUME TypeOK, StreamsConsistent, [Next]_vars
             PROVE  StreamsConsistent'
  OBVIOUS
<1>t. Tasks \subseteq Peers /\ Strangers \subseteq Peers /\ NoPeer \notin Peers
  BY PeersAssumption DEF Peers
<1> USE DEF TypeOK, faultVars, wireVars, serverVars, clientVars, numbers, Replies, Outcomes
<1>0. ASSUME UNCHANGED <<backlog, serving, reply>>,
             \A q \in Peers : StreamConsistent(q)'
      PROVE  StreamsConsistent'
  BY <1>0, QueueUnchanged DEF StreamsConsistent
<1>1. ASSUME NEW p \in Peers, Call(p) PROVE StreamsConsistent'
  <2>1. UNCHANGED <<backlog, serving, reply>>
    BY <1>1 DEF Call
  <2>2. ASSUME NEW q \in Peers PROVE StreamConsistent(q)'
    BY <1>1, <2>1, QueueUnchanged DEF Call, StreamsConsistent, StreamConsistent, Held
  <2> QED
    BY <2>1, <2>2, <1>0
<1>2. ASSUME NEW p \in Peers, Connect(p) PROVE StreamsConsistent'
  <2>1. ~Waiting(p) /\ serving # p /\ ~executed[p]
    BY <1>2 DEF Connect, StreamsConsistent, StreamConsistent, Held
  <2>2. QueueDistinct' /\ \A q \in Peers : Waiting(q)' <=> Waiting(q) \/ q = p
    BY <1>2, <2>1, AppendWaiting DEF Connect, StreamsConsistent
  <2>3. ASSUME NEW q \in Peers PROVE StreamConsistent(q)'
    BY <1>2, <2>1, <2>2 DEF Connect, StreamsConsistent, StreamConsistent, Held
  <2> QED
    BY <1>2, <2>2, <2>3 DEF Connect, StreamsConsistent
<1>3. ASSUME NEW p \in Peers, ConnectFails(p) PROVE StreamsConsistent'
  <2>1. UNCHANGED <<backlog, serving, reply>>
    BY <1>3 DEF ConnectFails
  <2>2. ASSUME NEW q \in Peers PROVE StreamConsistent(q)'
    BY <1>3, <2>1, QueueUnchanged
    DEF ConnectFails, Return, StreamsConsistent, StreamConsistent, Held
  <2> QED
    BY <2>1, <2>2, <1>0
<1>4. ASSUME NEW p \in Peers, ReadReply(p) \/ ReadEof(p) PROVE StreamsConsistent'
  <2>1. UNCHANGED <<backlog, serving, reply>>
    BY <1>4 DEF ReadReply, ReadEof
  <2>2. ASSUME NEW q \in Peers PROVE StreamConsistent(q)'
    <3>1. CASE ReadReply(p)
      <4>1. ~Waiting(p) /\ serving # p
        BY <3>1 DEF ReadReply, StreamsConsistent, StreamConsistent, Held
      <4>2. /\ pc' = [pc EXCEPT ![p] = "returned"]
            /\ down' = [down EXCEPT ![p] = "none"]
            /\ UNCHANGED <<up, executed>>
        BY <3>1 DEF ReadReply, Received, Return
      <4> QED
        BY <4>1, <4>2, <2>1, QueueUnchanged DEF StreamsConsistent, StreamConsistent, Held
    <3>2. CASE ReadEof(p)
      <4>1. /\ pc' = [pc EXCEPT ![p] = "returned"]
            /\ down[p] = "none" /\ ~Held(p)
            /\ UNCHANGED <<up, down, executed>>
        BY <3>2 DEF ReadEof, Return
      <4> QED
        BY <4>1, <2>1, QueueUnchanged DEF StreamsConsistent, StreamConsistent, Held
    <3> QED
      BY <1>4, <3>1, <3>2
  <2> QED
    BY <2>1, <2>2, <1>0
<1>5. ASSUME NEW t \in Tasks,
             DrawNumber(t) \/ CounterExhausted(t) \/ WriteRequest(t) \/ WriteFails(t)
      PROVE  StreamsConsistent'
  <2>1. UNCHANGED <<backlog, serving, reply>>
    BY <1>5 DEF DrawNumber, CounterExhausted, WriteRequest, WriteFails
  <2>2. ASSUME NEW q \in Peers PROVE StreamConsistent(q)'
    <3>1. CASE DrawNumber(t)
      BY <3>1, <2>1, <1>t, QueueUnchanged
      DEF DrawNumber, StreamsConsistent, StreamConsistent
    <3>2. CASE CounterExhausted(t)
      BY <3>2, <2>1, <1>t, QueueUnchanged
      DEF CounterExhausted, Return, StreamsConsistent, StreamConsistent
    <3>3. CASE WriteRequest(t)
      BY <3>3, <2>1, <1>t, QueueUnchanged
      DEF WriteRequest, StreamsConsistent, StreamConsistent
    <3>4. CASE WriteFails(t)
      BY <3>4, <2>1, <1>t, QueueUnchanged
      DEF WriteFails, Return, StreamsConsistent, StreamConsistent
    <3> QED
      BY <1>5, <3>1, <3>2, <3>3, <3>4
  <2> QED
    BY <2>1, <2>2, <1>0
<1>6. ASSUME NEW s \in Strangers, SendFrame(s) \/ Leave(s) PROVE StreamsConsistent'
  <2>1. UNCHANGED <<backlog, serving, reply>>
    BY <1>6 DEF SendFrame, Leave
  <2>2. ASSUME NEW q \in Peers PROVE StreamConsistent(q)'
    <3>1. CASE SendFrame(s)
      BY <3>1, <2>1, <1>t, QueueUnchanged
      DEF SendFrame, StreamsConsistent, StreamConsistent
    <3>2. CASE Leave(s)
      BY <3>2, <2>1, <1>t, QueueUnchanged
      DEF Leave, Open, StreamsConsistent, StreamConsistent
    <3> QED
      BY <1>6, <3>1, <3>2
  <2> QED
    BY <2>1, <2>2, <1>0
<1>7. CASE Accept
  <2>1. /\ Head(backlog) \in Peers
        /\ Waiting(Head(backlog))
        /\ \A q \in Peers : Waiting(q)' <=> Waiting(q) /\ q # Head(backlog)
        /\ QueueDistinct'
    BY <1>7, TailWaiting DEF Accept, StreamsConsistent
  <2>2. reply = "none" /\ UNCHANGED <<pc, up, down, reply, executed>>
    BY <1>7 DEF Accept, StreamsConsistent
  <2>3. serving = NoPeer /\ serving' \in {NoPeer, Head(backlog)}
    BY <1>7 DEF Accept, Admitted
  <2>4. ASSUME NEW q \in Peers PROVE StreamConsistent(q)'
    BY <2>1, <2>2, <2>3, <1>t DEF StreamsConsistent, StreamConsistent, Held
  <2> QED
    BY <2>1, <2>2, <2>4 DEF StreamsConsistent
<1>8. CASE DropStream
  <2>1. UNCHANGED backlog /\ serving \in Peers /\ serving' = NoPeer
    BY <1>8 DEF DropStream
  <2>2. QueueDistinct' /\ \A q \in Peers : Waiting(q)' <=> Waiting(q)
    BY <2>1 DEF Waiting, QueueDistinct, StreamsConsistent
  <2>3. ASSUME NEW q \in Peers PROVE StreamConsistent(q)'
    BY <1>8, <1>t, <2>1, <2>2
    DEF DropStream, Unusable, Consume, StreamsConsistent, StreamConsistent, Held
  <2> QED
    BY <1>8, <2>2, <2>3 DEF DropStream, StreamsConsistent
<1>9. CASE AnswerMalformed \/ Refuse \/ Dispatch
  <2>1. UNCHANGED <<backlog, serving>> /\ serving \in Peers /\ up[serving] # NoFrame
    BY <1>9 DEF AnswerMalformed, Refuse, Dispatch, NoFrame
  <2>2. QueueDistinct' /\ \A q \in Peers : (Waiting(q)' <=> Waiting(q))
                                     /\ (Held(q)' <=> Held(q))
    BY <2>1, QueueUnchanged DEF StreamsConsistent
  <2>3. pc[serving] \in {"waiting", "lost"} /\ ~executed[serving]
        /\ ~Waiting(serving) /\ reply = "none" /\ down[serving] = "none"
    BY <1>9, <2>1
    DEF AnswerMalformed, Refuse, Dispatch, StreamsConsistent, StreamConsistent, Held
  <2>4. ASSUME NEW q \in Peers PROVE StreamConsistent(q)'
    <3>1. CASE q = serving
      BY <1>9, <2>1, <2>2, <2>3, <3>1
      DEF AnswerMalformed, Refuse, Dispatch, Consume, StreamConsistent
    <3>2. CASE q # serving
      BY <1>9, <2>1, <2>2, <3>2
      DEF AnswerMalformed, Refuse, Dispatch, Consume, StreamsConsistent, StreamConsistent
    <3> QED
      BY <3>1, <3>2
  <2> QED
    BY <2>1, <2>2, <2>4, <1>t DEF StreamsConsistent
<1>10. CASE WriteReply
  <2>1. UNCHANGED backlog /\ serving \in Peers /\ serving' = NoPeer
    BY <1>10 DEF WriteReply, Release
  <2>2. QueueDistinct' /\ \A q \in Peers : Waiting(q)' <=> Waiting(q)
    BY <2>1 DEF Waiting, QueueDistinct, StreamsConsistent
  <2>3. ASSUME NEW q \in Peers PROVE StreamConsistent(q)'
    BY <1>10, <1>t, <2>1, <2>2
    DEF WriteReply, Release, Open, StreamsConsistent, StreamConsistent, Held
  <2> QED
    BY <1>10, <2>2, <2>3 DEF WriteReply, Release, StreamsConsistent
<1>11. CASE CaCrash
  <2>1. backlog' = <<>> /\ serving' = NoPeer /\ reply' = "none"
        /\ UNCHANGED <<pc, up, down, executed>>
    BY <1>11 DEF CaCrash
  <2>2. QueueDistinct' /\ \A q \in Peers : ~Waiting(q)'
    BY <2>1 DEF Waiting, QueueDistinct
  <2>3. ASSUME NEW q \in Peers PROVE StreamConsistent(q)'
    BY <1>t, <2>1, <2>2 DEF StreamsConsistent, StreamConsistent, Held
  <2> QED
    BY <2>1, <2>2, <2>3 DEF StreamsConsistent
<1>12. CASE CaRestart
  <2>1. UNCHANGED <<backlog, serving, reply, pc, up, down, executed>>
    BY <1>12 DEF CaRestart
  <2>2. ASSUME NEW q \in Peers PROVE StreamConsistent(q)'
    BY <2>1, QueueUnchanged DEF StreamsConsistent, StreamConsistent
  <2> QED
    BY <2>1, <2>2, <1>0
<1>13. CASE SshRestart
  <2>1. UNCHANGED <<backlog, serving, reply, up, down, executed>>
    BY <1>13 DEF SshRestart
  <2>2. ASSUME NEW q \in Peers PROVE StreamConsistent(q)'
    BY <1>13, <2>1, QueueUnchanged DEF SshRestart, StreamsConsistent, StreamConsistent
  <2> QED
    BY <2>1, <2>2, <1>0
<1>14. CASE UNCHANGED vars
  <2>1. UNCHANGED <<backlog, serving, reply, pc, up, down, executed>>
    BY <1>14 DEF vars
  <2>2. ASSUME NEW q \in Peers PROVE StreamConsistent(q)'
    BY <2>1, QueueUnchanged DEF StreamsConsistent, StreamConsistent
  <2> QED
    BY <2>1, <2>2, <1>0
<1> QED
  BY <1>1, <1>2, <1>3, <1>4, <1>5, <1>6, <1>7, <1>8, <1>9, <1>10, <1>11, <1>12,
     <1>13, <1>14
  DEF Next, Step, Server, Fault

\* The streams are consistent in every reachable state.
THEOREM StreamsCorrect == Spec => []StreamsConsistent
<1>1. Init => StreamsConsistent
  BY PeersAssumption
  DEF Init, StreamsConsistent, StreamConsistent, QueueDistinct, Held, Waiting, Peers
<1> QED
  BY <1>1, StreamsInductive, TypeCorrect, PTL DEF Spec

-----------------------------------------------------------------------------
(* Replay protection. *)

\* last_counter is at least every value this CA process has accepted.
LEMMA AcceptedBelowLastInductive ==
    TypeOK /\ AcceptedBelowLast /\ [Next]_vars => AcceptedBelowLast'
<1> SUFFICES ASSUME TypeOK, AcceptedBelowLast, [Next]_vars
             PROVE  AcceptedBelowLast'
  OBVIOUS
<1>1. CASE Dispatch
  <2>1. /\ lastCounter' = up[serving].counter
        /\ up[serving].counter > lastCounter
        /\ accepted' = accepted \cup {up[serving].counter}
    BY <1>1 DEF Dispatch, Authentic, Fresh
  <2>2. serving \in Peers /\ up[serving] \in Frames
    BY <1>1 DEF Dispatch, TypeOK, NoFrame
  <2>3. up[serving].counter \in Int /\ lastCounter \in Int /\ accepted \subseteq Int
    BY <2>2, BoundsAssumption DEF TypeOK, Frames, Values
  <2> QED
    BY <2>1, <2>3 DEF AcceptedBelowLast
<1>2. CASE CaRestart
  BY <1>2 DEF CaRestart, AcceptedBelowLast
<1>3. CASE UNCHANGED <<lastCounter, accepted>>
  BY <1>3 DEF AcceptedBelowLast
<1>4. Dispatch \/ CaRestart \/ UNCHANGED <<lastCounter, accepted>>
  BY DEF Next, vars, Step, Server, Fault, Call, Connect, ConnectFails, DrawNumber,
     CounterExhausted, WriteRequest, WriteFails, ReadReply, ReadEof, SendFrame,
     Leave, Accept, DropStream, AnswerMalformed, Refuse, WriteReply, CaCrash,
     SshRestart, serverVars
<1> QED
  BY <1>1, <1>2, <1>3, <1>4

\* Only Dispatch runs a request.
LEMMA OnlyDispatchExecutes ==
    ASSUME TypeOK, [Next]_vars, NEW p \in Peers, ~executed[p], executed'[p]
    PROVE  Dispatch /\ serving = p
<1>1. CASE \E q \in Peers : Call(q)
  BY <1>1 DEF Call, TypeOK
<1>2. CASE Dispatch
  BY <1>2 DEF Dispatch, TypeOK
<1>3. CASE UNCHANGED executed
  BY <1>3
<1>4. (\E q \in Peers : Call(q)) \/ Dispatch \/ UNCHANGED executed
  BY DEF Next, vars, Step, Server, Fault, Connect, ConnectFails, DrawNumber,
     CounterExhausted, WriteRequest, WriteFails, ReadReply, ReadEof, SendFrame,
     Leave, Accept, DropStream, AnswerMalformed, Refuse, WriteReply, CaCrash,
     CaRestart, SshRestart, serverVars
<1> QED
  BY <1>1, <1>2, <1>3, <1>4

\* No counter value is good for two requests in one life of the CA, whoever
\* sends them: the requests of all other processes included.
THEOREM ReplaySafe == Spec => AcceptedOnce
<1>1. Init => AcceptedBelowLast
  BY DEF Init, AcceptedBelowLast
<1>2. TypeOK /\ AcceptedBelowLast /\ [Next]_vars =>
        [\A p \in Peers : ~executed[p] /\ executed'[p] =>
            up[p].token /\ up[p].counter \notin accepted]_vars
  <2> SUFFICES ASSUME TypeOK, AcceptedBelowLast, [Next]_vars,
                      NEW p \in Peers, ~executed[p], executed'[p]
               PROVE  up[p].token /\ up[p].counter \notin accepted
    OBVIOUS
  <2>1. Dispatch /\ serving = p
    BY OnlyDispatchExecutes
  <2>2. up[p].token /\ up[p].counter > lastCounter /\ up[p] \in Frames
    BY <2>1 DEF Dispatch, Authentic, Fresh, TypeOK, NoFrame
  <2>3. up[p].counter \in Int /\ lastCounter \in Int /\ accepted \subseteq Int
    BY <2>2, BoundsAssumption DEF TypeOK, Frames, Values
  <2> QED
    BY <2>2, <2>3 DEF AcceptedBelowLast
<1> QED
  BY <1>1, <1>2, AcceptedBelowLastInductive, TypeCorrect, PTL DEF Spec, AcceptedOnce

-----------------------------------------------------------------------------
(* The exchange implements an at-most-once call. *)

\* send_request promises exactly what CertService states.
THEOREM ServiceImplemented == Spec => ServiceSpec
<1>1. Init => Service!Init
  BY DEF Init, Service!Init, Call_
<1>2. TypeOK /\ StreamsConsistent /\ [Next]_vars => [Service!Next]_Service!vars
  <2> SUFFICES ASSUME TypeOK, StreamsConsistent, [Next]_vars
               PROVE  [Service!Next]_Service!vars
    OBVIOUS
  <2> DEFINE call == [p \in Peers |-> Call_(p)]
  <2>t. Tasks \subseteq Peers /\ Strangers \subseteq Peers
    BY DEF Peers
  <2>r. \A p \in Peers, r \in Service!Results \ {"none"} :
          Service!Return(p, r) => Service!Next
    BY DEF Service!Next
  <2>1. ASSUME NEW p \in Peers, Call(p) PROVE Service!Next
    <3>1. call[p] # "pending" /\ call' = [call EXCEPT ![p] = "pending"]
      BY <2>1 DEF Call, Call_, TypeOK
    <3>2. Service!Issue(p)
      BY <2>1, <3>1 DEF Call, Service!Issue
    <3> QED
      BY <3>2 DEF Service!Next
  <2>2. ASSUME NEW p \in Peers, NEW r, Return(p, r), UNCHANGED executed,
               r \in Service!Results \ {"none"},
               pc[p] \in {"connecting", "connected", "numbered", "waiting"},
               r \in {"ok", "handler_error"} => executed[p],
               r \in {"refused", "bad_format"} => ~executed[p]
        PROVE  Service!Next
    <3>1. call[p] = "pending" /\ call' = [call EXCEPT ![p] = "done"]
      BY <2>2 DEF Return, Call_, TypeOK
    <3>2. Service!Return(p, r)
      BY <2>2, <3>1 DEF Return, Service!Return
    <3> QED
      BY <2>2, <3>2, <2>r
  <2>3. ASSUME NEW p \in Peers, ReadReply(p) PROVE Service!Next
    <3>1. /\ down[p] \in Replies /\ (executed[p] <=> down[p] \in Outcomes)
          /\ pc[p] = "waiting" /\ UNCHANGED executed
          /\ Return(p, IF down[p] = "huge" THEN "failed" ELSE down[p])
      BY <2>3 DEF ReadReply, Received, StreamsConsistent, StreamConsistent, TypeOK, serverVars
    <3> QED
      BY <3>1, <2>2 DEF Replies, Outcomes, Service!Results
  <2>4. ASSUME NEW p \in Peers, ConnectFails(p) \/ ReadEof(p) PROVE Service!Next
    <3>1. /\ Return(p, "failed") /\ UNCHANGED executed
          /\ pc[p] \in {"connecting", "waiting"}
      BY <2>4 DEF ConnectFails, ReadEof, serverVars
    <3> QED
      BY <3>1, <2>2 DEF Service!Results
  <2>5. ASSUME NEW t \in Tasks, CounterExhausted(t) \/ WriteFails(t)
        PROVE  Service!Next
    <3>1. /\ Return(t, "failed") /\ UNCHANGED executed
          /\ pc[t] \in {"connected", "numbered"}
      BY <2>5 DEF CounterExhausted, WriteFails, serverVars
    <3> QED
      BY <3>1, <2>2, <2>t DEF Service!Results
  <2>6. ASSUME NEW p \in Peers,
               \/ Connect(p)
               \/ p \in Tasks /\ (DrawNumber(p) \/ WriteRequest(p))
               \/ p \in Strangers /\ SendFrame(p)
        PROVE  UNCHANGED Service!vars
    <3>1. call' = call
      BY <2>6 DEF Connect, DrawNumber, WriteRequest, SendFrame, Call_, TypeOK
    <3>2. UNCHANGED <<executed, result>>
      BY <2>6 DEF Connect, DrawNumber, WriteRequest, SendFrame, serverVars
    <3> QED
      BY <3>1, <3>2 DEF Service!vars
  <2>7. ASSUME NEW s \in Strangers, Leave(s) PROVE Service!Next
    <3>1. call[s] = "pending"
          /\ call' = [p \in Peers |-> IF p \in {s} THEN "lost" ELSE call[p]]
      BY <2>7, <2>t DEF Leave, Open, Call_, TypeOK
    <3>2. Service!Lose({s})
      BY <2>7, <3>1 DEF Leave, serverVars, Service!Lose
    <3> QED
      BY <3>2, <2>t DEF Service!Next
  <2>8. CASE Dispatch
    <3>1. serving \in Peers /\ up[serving] # NoFrame /\ reply = "none"
      BY <2>8 DEF Dispatch, NoFrame, TypeOK
    <3>2. pc[serving] \in {"waiting", "lost"} /\ ~executed[serving]
      BY <3>1 DEF StreamsConsistent, StreamConsistent, Held, Outcomes
    <3>3. call[serving] \in {"pending", "lost"} /\ call' = call
      BY <2>8, <3>1, <3>2 DEF Dispatch, clientVars, Call_
    <3>4. Service!Execute(serving)
      BY <2>8, <3>2, <3>3 DEF Dispatch, clientVars, Service!Execute
    <3> QED
      BY <3>1, <3>4 DEF Service!Next
  <2>9. CASE SshRestart
    <3> DEFINE S == {p \in Tasks : pc[p] \in
                        {"connecting", "connected", "numbered", "waiting"}}
    <3>1. \A p \in S : call[p] = "pending"
      BY <2>t DEF Call_
    <3>2. call' = [p \in Peers |-> IF p \in S THEN "lost" ELSE call[p]]
      BY <2>9 DEF SshRestart, Call_
    <3>3. Service!Lose(S)
      BY <2>9, <3>1, <3>2 DEF SshRestart, serverVars, Service!Lose
    <3> QED
      BY <3>3, <2>t DEF Service!Next
  <2>10. CASE \/ Accept \/ DropStream \/ AnswerMalformed \/ Refuse \/ WriteReply
              \/ CaCrash \/ CaRestart \/ UNCHANGED vars
    <3>1. UNCHANGED <<pc, executed, result>>
      BY <2>10 DEF Accept, DropStream, AnswerMalformed, Refuse, WriteReply, CaCrash,
         CaRestart, vars, clientVars
    <3> QED
      BY <3>1 DEF Service!vars, Call_
  <2>11. ASSUME NEW p \in Peers, Step(p) PROVE Service!Next \/ UNCHANGED Service!vars
    <3>1. CASE ReadReply(p)
      BY <2>3, <3>1
    <3>2. CASE ConnectFails(p) \/ ReadEof(p)
      BY <2>4, <3>2
    <3>3. ASSUME p \in Tasks, CounterExhausted(p) \/ WriteFails(p) PROVE Service!Next
      BY <2>5, <3>3
    <3>4. ASSUME p \in Tasks, DrawNumber(p) \/ WriteRequest(p)
          PROVE  UNCHANGED Service!vars
      BY <2>6, <3>4
    <3>5. CASE Connect(p)
      BY <2>6, <3>5
    <3> QED
      BY <2>11, <3>1, <3>2, <3>3, <3>4, <3>5 DEF Step
  <2>12. ASSUME NEW s \in Strangers, SendFrame(s) \/ Leave(s)
         PROVE  Service!Next \/ UNCHANGED Service!vars
    BY <2>6, <2>7, <2>12, <2>t
  <2>13. CASE Server \/ Fault \/ UNCHANGED vars
    BY <2>8, <2>9, <2>10, <2>13 DEF Server, Fault
  <2> QED
    BY <2>1, <2>11, <2>12, <2>13 DEF Next
<1> QED
  BY <1>1, <1>2, TypeCorrect, StreamsCorrect, PTL DEF Spec, ServiceSpec, Service!Spec

-----------------------------------------------------------------------------
(* Other users. *)

OthersInv == serving \notin OtherUsers /\ OtherUsersNeverServed

\* The check of SO_PEERCRED comes before anything is read from a stream.
LEMMA OthersInductive == TypeOK /\ OthersInv /\ [Next]_vars => OthersInv'
<1> SUFFICES ASSUME TypeOK, OthersInv, [Next]_vars PROVE OthersInv'
  OBVIOUS
<1> USE PeersAssumption DEF TypeOK, OthersInv, OtherUsersNeverServed
<1>1. CASE \E p \in Peers : Call(p)
  BY <1>1 DEF Call
<1>2. CASE \E p \in Peers : ReadReply(p)
  BY <1>2 DEF ReadReply, serverVars
<1>3. CASE Accept
  BY <1>3 DEF Accept, Admitted, wireVars, Peers
<1>4. CASE Dispatch
  BY <1>4 DEF Dispatch
<1>5. CASE WriteReply
  BY <1>5 DEF WriteReply, Release, Peers
<1>6. CASE serving' \in {serving, NoPeer} /\ UNCHANGED <<executed, down>>
  BY <1>6 DEF Peers
<1>7. \/ \E p \in Peers : Call(p) \/ ReadReply(p)
      \/ Accept \/ Dispatch \/ WriteReply
      \/ serving' \in {serving, NoPeer} /\ UNCHANGED <<executed, down>>
  BY DEF Next, vars, Step, Server, Fault, Connect, ConnectFails, DrawNumber,
     CounterExhausted, WriteRequest, WriteFails, ReadEof, SendFrame, Leave, DropStream,
     AnswerMalformed, Refuse, CaCrash, CaRestart, SshRestart, serverVars, wireVars
<1> QED BY <1>1, <1>2, <1>3, <1>4, <1>5, <1>6, <1>7

\* A process of another user gets no answer, whatever it sends and whenever it
\* connected.
THEOREM OthersShutOut == Spec => []OtherUsersNeverServed
<1>1. Init => OthersInv
  BY PeersAssumption DEF Init, OthersInv, OtherUsersNeverServed, Peers
<1>2. OthersInv => OtherUsersNeverServed
  BY DEF OthersInv
<1> QED BY <1>1, <1>2, OthersInductive, TypeCorrect, PTL DEF Spec

-----------------------------------------------------------------------------
(* Blocking. *)

\* A frame that was written stays on the stream until the loop has read it.
FrameKept(p) ==
    Held(p) /\ pc[p] = "waiting" /\ ~(serving = p /\ reply # "none")
        => up[p] # NoFrame

\* A CA that has died holds no stream.
BlockInv ==
    /\ caUp \/ (backlog = <<>> /\ serving = NoPeer)
    /\ \A p \in Peers : FrameKept(p)

LEMMA BlockInductive ==
    TypeOK /\ StreamsConsistent /\ BlockInv /\ [Next]_vars => BlockInv'
<1> SUFFICES ASSUME TypeOK, StreamsConsistent, BlockInv, [Next]_vars
             PROVE  BlockInv'
  OBVIOUS
<1>t. Tasks \subseteq Peers /\ Strangers \subseteq Peers /\ NoPeer \notin Peers
  BY PeersAssumption DEF Peers
<1>f. \A f \in Frames : f # NoFrame
  BY DEF Frames, NoFrame
<1>h. \A p \in Peers : Held(p) => backlog # <<>> \/ serving # NoPeer
  BY <1>t DEF Held, Waiting
<1> USE DEF TypeOK, faultVars, wireVars, serverVars, clientVars, numbers
\* A step of one caller, p, leaves the queue and the loop alone.
<1>0. ASSUME NEW p \in Peers, UNCHANGED <<backlog, serving, reply, caUp>>,
             \A q \in Peers \ {p} : pc'[q] = pc[q] /\ up'[q] = up[q],
             Held(p) /\ pc'[p] = "waiting" => up'[p] # NoFrame \/ UNCHANGED <<pc, up>>
      PROVE  BlockInv'
  BY <1>0, QueueUnchanged DEF BlockInv, FrameKept
<1>1. ASSUME NEW p \in Peers, Call(p) PROVE BlockInv'
  BY <1>1, <1>0 DEF Call
<1>2. ASSUME NEW p \in Peers, Connect(p) PROVE BlockInv'
  <2>1. \A q \in Peers : Held(q)' <=> Held(q) \/ q = p
    BY <1>2, AppendWaiting DEF Connect, Held
  <2> QED BY <1>2, <2>1 DEF Connect, BlockInv, FrameKept
<1>3. ASSUME NEW p \in Peers, ConnectFails(p) \/ ReadReply(p) \/ ReadEof(p)
      PROVE  BlockInv'
  BY <1>3, <1>0 DEF ConnectFails, ReadReply, ReadEof, Return
<1>4. ASSUME NEW t \in Tasks,
             DrawNumber(t) \/ CounterExhausted(t) \/ WriteFails(t)
      PROVE  BlockInv'
  BY <1>4, <1>0, <1>t DEF DrawNumber, CounterExhausted, WriteFails, Return
<1>5. ASSUME NEW t \in Tasks, WriteRequest(t) PROVE BlockInv'
  <2>1. up'[t].kind = "envelope"
    BY <1>5, <1>t DEF WriteRequest
  <2>2. up'[t] # NoFrame
    BY <2>1 DEF NoFrame
  <2> QED BY <1>5, <1>0, <1>t, <2>2 DEF WriteRequest
<1>6. ASSUME NEW s \in Strangers, SendFrame(s) PROVE BlockInv'
  <2>1. up'[s] # NoFrame
    BY <1>6, <1>t, <1>f, FramesAssumption DEF SendFrame
  <2> QED BY <1>6, <1>0, <1>t, <2>1 DEF SendFrame
<1>7. ASSUME NEW s \in Strangers, Leave(s) PROVE BlockInv'
  BY <1>7, <1>0, <1>t DEF Leave
<1>8. CASE Accept
  <2>1. \A q \in Peers : Waiting(q)' => Waiting(q)
    BY <1>8, TailWaiting DEF Accept, StreamsConsistent
  <2>2. Waiting(Head(backlog)) /\ Head(backlog) \in Peers
    BY <1>8, TailWaiting DEF Accept, StreamsConsistent
  <2>3. \A q \in Peers : Held(q)' => Held(q)
    BY <1>8, <1>t, <2>1, <2>2 DEF Accept, Held
  <2> QED BY <1>8, <1>t, <2>3 DEF Accept, BlockInv, FrameKept
<1>9. CASE DropStream \/ WriteReply
  <2>1. /\ serving \in Peers /\ serving' = NoPeer
        /\ UNCHANGED <<pc, backlog, caUp>>
        /\ \A q \in Peers \ {serving} : up'[q] = up[q]
    BY <1>9 DEF DropStream, WriteReply, Release, Consume
  <2>2. ~Waiting(serving)
    BY <2>1 DEF StreamsConsistent, StreamConsistent
  <2>3. \A q \in Peers : Held(q)' => Held(q) /\ q # serving
    BY <1>t, <2>1, <2>2 DEF Held, Waiting
  <2> QED BY <2>1, <2>3 DEF BlockInv, FrameKept
<1>10. CASE AnswerMalformed \/ Refuse \/ Dispatch
  <2>1. /\ serving \in Peers /\ serving' = serving /\ reply' # "none"
        /\ UNCHANGED <<pc, backlog, caUp>>
        /\ \A q \in Peers \ {serving} : up'[q] = up[q]
    BY <1>10 DEF AnswerMalformed, Refuse, Dispatch, Consume, Outcomes
  <2> QED BY <2>1, QueueUnchanged DEF BlockInv, FrameKept
<1>11. CASE CaCrash
  <2>1. \A q \in Peers : ~Held(q)'
    BY <1>11, <1>t DEF CaCrash, Held, Waiting
  <2> QED BY <1>11, <2>1 DEF CaCrash, BlockInv, FrameKept
<1>12. CASE CaRestart
  BY <1>12, QueueUnchanged DEF CaRestart, BlockInv, FrameKept
<1>13. CASE SshRestart
  <2>1. /\ UNCHANGED <<backlog, serving, reply, caUp, up>>
        /\ \A q \in Peers : pc'[q] = "waiting" => pc[q] = "waiting"
    BY <1>13 DEF SshRestart
  <2> QED BY <2>1, QueueUnchanged DEF BlockInv, FrameKept
<1>14. CASE UNCHANGED vars
  BY <1>14, QueueUnchanged DEF vars, BlockInv, FrameKept
<1> QED
  BY <1>1, <1>2, <1>3, <1>4, <1>5, <1>6, <1>7, <1>8, <1>9, <1>10, <1>11, <1>12,
     <1>13, <1>14
  DEF Next, Step, Server, Fault

\* While a call waits, the loop of the CA goes on, or it waits for a process
\* of its own user that has connected and not written.
LEMMA HeldUp ==
    ASSUME TypeOK, StreamsConsistent, BlockInv, OthersInv,
           NEW t \in Tasks, Held(t), pc[t] = "waiting"
    PROVE  \/ LoopMoves
           \/ /\ serving \in Peers \ OtherUsers
              /\ pc[serving] \in {"connected", "numbered"}
<1>t. t \in Peers /\ NoPeer \notin Peers
  BY PeersAssumption DEF Peers
<1>1. CASE serving = NoPeer
  <2>1. backlog # <<>>
    BY <1>1, <1>t DEF Held, Waiting
  <2> QED BY <1>1, <2>1 DEF BlockInv, LoopMoves
<1>2. CASE serving # NoPeer /\ reply = "none"
  <2>1. serving \in Peers \ OtherUsers /\ Held(serving)
    BY <1>2 DEF TypeOK, OthersInv, Held
  <2>2. CASE up[serving] # NoFrame
    <3>1. up[serving].kind \in {"envelope", "malformed", "unreadable"}
      BY <2>1, <2>2 DEF TypeOK, Frames
    <3> QED BY <1>2, <3>1 DEF LoopMoves, Unusable
  <2>3. CASE up[serving] = NoFrame
    <3>1. pc[serving] # "waiting"
      BY <1>2, <2>1, <2>3 DEF BlockInv, FrameKept
    <3> QED BY <1>2, <2>1, <2>3, <3>1 DEF LoopMoves, Unusable, Open
  <2> QED BY <2>2, <2>3
<1>3. CASE serving # NoPeer /\ reply # "none"
  BY <1>3 DEF LoopMoves
<1> QED BY <1>1, <1>2, <1>3

\* Nothing but a silent process of its own user holds up the CA and, with it,
\* the calls that wait.
THEOREM OnlySilence == Spec => []OnlySilenceBlocks
<1>1. Init => OthersInv /\ BlockInv
  BY PeersAssumption
  DEF Init, OthersInv, OtherUsersNeverServed, BlockInv, FrameKept, Peers
<1>2. TypeOK /\ StreamsConsistent /\ BlockInv /\ OthersInv => OnlySilenceBlocks
  BY HeldUp DEF OnlySilenceBlocks
<1> QED
  BY <1>1, <1>2, BlockInductive, OthersInductive, TypeCorrect, StreamsCorrect, PTL
  DEF Spec

\* The steps of the loop until the queue is empty, if nobody joins it.
LoopLeft ==
    3 * Len(backlog) + IF serving = NoPeer THEN 0 ELSE IF reply = "none" THEN 2 ELSE 1

\* The loop works its queue off; only a new connection makes it longer.
LoopAdvances ==
    /\ Server => LoopLeft' < LoopLeft
    /\ LoopLeft' <= LoopLeft \/ \E p \in Peers : Connect(p)

LEMMA LoopLeftNat == TypeOK => LoopLeft \in Nat
<1> SUFFICES ASSUME TypeOK PROVE LoopLeft \in Nat
  OBVIOUS
<1>1. Len(backlog) \in Nat
  BY DEF TypeOK
<1> QED BY <1>1 DEF LoopLeft

LEMMA ServerAdvances ==
    ASSUME TypeOK, StreamsConsistent, Server
    PROVE  LoopLeft' \in Nat /\ LoopLeft' < LoopLeft
<1>t. Len(backlog) \in Nat /\ backlog \in Seq(Peers)
  BY DEF TypeOK
<1>1. CASE Accept
  <2>1. LoopLeft = 3 * Len(backlog)
    BY <1>1 DEF Accept, LoopLeft
  <2>2. Len(backlog') = Len(backlog) - 1 /\ Len(backlog) > 0
    BY <1>1, <1>t DEF Accept
  <2>3. LoopLeft' \in {3 * Len(backlog'), 3 * Len(backlog') + 2}
    BY <1>1, <1>t, <2>2 DEF Accept, LoopLeft, StreamsConsistent
  <2> QED BY <1>t, <2>1, <2>2, <2>3
<1>2. CASE DropStream
  <2>1. LoopLeft = 3 * Len(backlog) + 2 /\ LoopLeft' = 3 * Len(backlog)
    BY <1>2, <1>t DEF DropStream, LoopLeft
  <2> QED BY <1>t, <2>1
<1>3. CASE AnswerMalformed \/ Refuse \/ Dispatch
  <2>1. /\ serving # NoPeer /\ reply = "none" /\ reply' # "none"
        /\ UNCHANGED <<backlog, serving>>
    BY <1>3 DEF AnswerMalformed, Refuse, Dispatch, Outcomes
  <2>2. LoopLeft = 3 * Len(backlog) + 2 /\ LoopLeft' = 3 * Len(backlog) + 1
    BY <2>1 DEF LoopLeft
  <2> QED BY <1>t, <2>2
<1>4. CASE WriteReply
  <2>1. LoopLeft = 3 * Len(backlog) + 1 /\ LoopLeft' = 3 * Len(backlog)
    BY <1>4, <1>t DEF WriteReply, Release, LoopLeft
  <2> QED BY <1>t, <2>1
<1> QED BY <1>1, <1>2, <1>3, <1>4 DEF Server

\* ca_server.rs:64-166: every frame costs the loop three steps at most, and no
\* frame, reply, departure or crash makes its queue longer.  With OnlySilence:
\* a call waits for no more than the connections ahead of it, unless one of them
\* is silent.
THEOREM QueueDrains == Spec => [](LoopLeft \in Nat) /\ [][LoopAdvances]_vars
<1>1. TypeOK /\ StreamsConsistent /\ [Next]_vars => [LoopAdvances]_vars
  <2> SUFFICES ASSUME TypeOK, StreamsConsistent, [Next]_vars, ~UNCHANGED vars
               PROVE  LoopAdvances
    OBVIOUS
  <2>t. LoopLeft \in Nat
    BY LoopLeftNat
  <2>1. CASE Server
    BY <2>1, <2>t, ServerAdvances DEF LoopAdvances
  <2>2. CASE \E p \in Peers : Connect(p)
    <3>1. ~Server
      BY <2>2 DEF Connect, Server, Accept, DropStream, AnswerMalformed, Refuse, Dispatch,
                  WriteReply, clientVars, TypeOK
    <3> QED BY <2>2, <3>1 DEF LoopAdvances
  <2>3. CASE CaCrash
    <3>1. LoopLeft' = 0
      BY <2>3 DEF CaCrash, LoopLeft
    <3>2. ~Server
      BY <2>3 DEF CaCrash, Server, Accept, DropStream, AnswerMalformed, Refuse, Dispatch,
                  WriteReply, faultVars, TypeOK
    <3> QED BY <2>t, <3>1, <3>2 DEF LoopAdvances
  <2>4. CASE UNCHANGED <<backlog, serving, reply>> /\ ~Server
    <3>1. LoopLeft' = LoopLeft
      BY <2>4 DEF LoopLeft
    <3> QED BY <2>t, <2>4, <3>1 DEF LoopAdvances
  <2>5. \/ \E p \in Peers : Connect(p)
        \/ CaCrash \/ Server \/ UNCHANGED <<backlog, serving, reply>>
    BY DEF Next, vars, Step, Fault, Call, ConnectFails, DrawNumber, CounterExhausted,
           WriteRequest, WriteFails, ReadReply, ReadEof, SendFrame, Leave, CaRestart,
           SshRestart, serverVars
  <2> QED BY <2>1, <2>2, <2>3, <2>4, <2>5
<1> QED BY <1>1, LoopLeftNat, TypeCorrect, StreamsCorrect, PTL DEF Spec

-----------------------------------------------------------------------------
(* Honest calls.  From here on nobody but the SSH server knows the token. *)

\* Where the numbers come from: all that are about were drawn in this life of
\* the SSH server, up to counter, or before, up to drawn.
NumbersInv ==
    /\ \A t \in Tasks : num[t] <= counter \/ num[t] <= drawn
    /\ lastCounter <= counter \/ lastCounter <= drawn
    /\ \A t \in Tasks : pc[t] = "lost" => num[t] <= drawn
    /\ \A t \in Tasks : up[t] # NoFrame => up[t].token /\ up[t].counter = num[t]
    /\ \A x \in Strangers : ~up[x].token
    /\ \A t \in Tasks : pc[t] \in {"connecting", "connected", "numbered", "waiting",
                                   "lost"} => result[t] = "none"

\* A call with a number the check should let pass, not yet read by the CA.
Pending(t) ==
    /\ pc[t] \in {"numbered", "waiting"} /\ Held(t)
    /\ pc[t] = "waiting" => up[t] # NoFrame
    /\ ~overlapped[t] /\ num[t] > drawn

\* Nothing that is served before such a call has a higher number or none yet.
OrderInv ==
    \A t \in Tasks : Pending(t) =>
        /\ lastCounter < num[t]
        /\ \A u \in Tasks \ {t} : Ahead(u, t) => pc[u] # "connected" /\ num[u] < num[t]

Excused(t) == overlapped[t] \/ num[t] <= drawn

RefusalInv ==
    \A t \in Tasks :
        \/ serving = t /\ reply = "refused"
        \/ down[t] = "refused"
        \/ result[t] = "refused"
        => Excused(t)

\* A new connection comes before none, an accepted one overtakes none.
LEMMA AppendAhead ==
    ASSUME NEW p \in Peers, backlog \in Seq(Peers), backlog' = Append(backlog, p),
           serving' = serving, NEW u \in Peers, NEW t \in Peers, t # p, Ahead(u, t)'
    PROVE  Ahead(u, t)
<1>1. /\ Len(backlog) \in Nat /\ DOMAIN backlog = 1 .. Len(backlog)
      /\ DOMAIN backlog' = 1 .. (Len(backlog) + 1)
      /\ \A i \in 1 .. Len(backlog) : backlog'[i] = backlog[i]
      /\ backlog'[Len(backlog) + 1] = p
  OBVIOUS
<1>2. CASE serving' = u
  BY <1>2 DEF Ahead
<1>3. ASSUME NEW i \in DOMAIN backlog', NEW j \in DOMAIN backlog', i < j,
             backlog'[i] = u, backlog'[j] = t
      PROVE  Ahead(u, t)
  BY <1>1, <1>3 DEF Ahead
<1> QED BY <1>2, <1>3 DEF Ahead

LEMMA TailAhead ==
    ASSUME backlog \in Seq(Peers), backlog # <<>>, backlog' = Tail(backlog),
           serving' \in {NoPeer, Head(backlog)}, NEW u \in Peers, NEW t \in Peers,
           t # u, NoPeer \notin Peers, Waiting(t), Ahead(u, t)'
    PROVE  Ahead(u, t)
<1>1. /\ Len(backlog) \in Nat \ {0} /\ DOMAIN backlog = 1 .. Len(backlog)
      /\ DOMAIN backlog' = 1 .. (Len(backlog) - 1)
      /\ \A i \in 1 .. (Len(backlog) - 1) : backlog'[i] = backlog[i + 1]
      /\ Head(backlog) = backlog[1]
  OBVIOUS
<1>2. CASE serving' = u
  <2>1. backlog[1] = u
    BY <1>1, <1>2
  <2>2. PICK j \in 1 .. Len(backlog) : backlog[j] = t
    BY <1>1 DEF Waiting
  <2>3. 1 < j
    BY <1>1, <2>1, <2>2
  <2> QED BY <1>1, <2>1, <2>2, <2>3 DEF Ahead
<1>3. ASSUME NEW i \in DOMAIN backlog', NEW j \in DOMAIN backlog', i < j,
             backlog'[i] = u, backlog'[j] = t
      PROVE  Ahead(u, t)
  <2>1. i + 1 \in 1 .. Len(backlog) /\ j + 1 \in 1 .. Len(backlog) /\ i + 1 < j + 1
        /\ backlog[i + 1] = u /\ backlog[j + 1] = t
    BY <1>1, <1>3
  <2> QED BY <1>1, <2>1 DEF Ahead
<1> QED BY <1>2, <1>3 DEF Ahead

TokenSecret == \A f \in StrangerFrames : ~f.token

LEMMA NumbersInductive ==
    TokenSecret /\ TypeOK /\ StreamsConsistent /\ NumbersInv /\ [Next]_vars => NumbersInv'
<1> SUFFICES ASSUME TokenSecret, TypeOK, StreamsConsistent, NumbersInv, [Next]_vars
             PROVE  NumbersInv'
  OBVIOUS
<1>t. /\ Tasks \subseteq Peers /\ Strangers \subseteq Peers /\ NoPeer \notin Peers
      /\ Tasks \cap Strangers = {} /\ MaxCounter \in Nat
      /\ {counter, drawn, lastCounter} \subseteq 0 .. MaxCounter
      /\ \A t \in Tasks : num[t] \in 0 .. MaxCounter
  BY PeersAssumption, BoundsAssumption DEF Peers, TypeOK, Values
<1>f. ~NoFrame.token
  BY DEF NoFrame
<1> USE DEF TypeOK, NumbersInv, faultVars, wireVars, serverVars, clientVars, numbers
<1>1. ASSUME NEW p \in Peers, Call(p) PROVE NumbersInv'
  BY <1>1, <1>t, <1>f DEF Call
<1>2. ASSUME NEW p \in Peers, ConnectFails(p) \/ ReadReply(p) \/ ReadEof(p) \/ Connect(p)
      PROVE  NumbersInv'
  <2>1. CASE Connect(p)
    BY <2>1, <1>t DEF Connect
  <2>2. CASE ConnectFails(p)
    BY <2>2, <1>t DEF ConnectFails, Return
  <2>3. CASE ReadReply(p)
    BY <2>3, <1>t DEF ReadReply, Return
  <2>4. CASE ReadEof(p)
    BY <2>4, <1>t DEF ReadEof, Return
  <2> QED BY <1>2, <2>1, <2>2, <2>3, <2>4
<1>3. ASSUME NEW t \in Tasks, DrawNumber(t) PROVE NumbersInv'
  BY <1>3, <1>t DEF DrawNumber, FetchAdd, StreamsConsistent, StreamConsistent
<1>4. ASSUME NEW t \in Tasks, CounterExhausted(t) PROVE NumbersInv'
  BY <1>4, <1>t DEF CounterExhausted, FetchAdd, Return
<1>5. ASSUME NEW t \in Tasks, WriteRequest(t) \/ WriteFails(t) PROVE NumbersInv'
  BY <1>5, <1>t DEF WriteRequest, WriteFails, Return
<1>6. ASSUME NEW x \in Strangers, SendFrame(x) \/ Leave(x) PROVE NumbersInv'
  BY <1>6, <1>t DEF SendFrame, Leave, TokenSecret
<1>7. CASE Dispatch
  <2>1. /\ serving \in Tasks /\ up[serving] # NoFrame /\ lastCounter' = num[serving]
        /\ up' = [up EXCEPT ![serving] = NoFrame]
    BY <1>7, <1>t DEF Dispatch, Authentic, Consume, NoFrame, Peers
  <2> QED BY <1>7, <1>t, <1>f, <2>1 DEF Dispatch
<1>8. CASE DropStream \/ AnswerMalformed \/ Refuse
  <2>1. CASE DropStream
    BY <2>1, <1>t, <1>f DEF DropStream, Consume
  <2>2. CASE AnswerMalformed
    BY <2>2, <1>t, <1>f DEF AnswerMalformed, Consume
  <2>3. CASE Refuse
    BY <2>3, <1>t, <1>f DEF Refuse, Consume
  <2> QED BY <1>8, <2>1, <2>2, <2>3
<1>9. CASE Accept \/ WriteReply \/ CaCrash \/ CaRestart \/ UNCHANGED vars
  BY <1>9, <1>t DEF Accept, WriteReply, CaCrash, CaRestart, vars
<1>10. CASE SshRestart
  BY <1>10, <1>t DEF SshRestart
<1> QED BY <1>1, <1>2, <1>3, <1>4, <1>5, <1>6, <1>7, <1>8, <1>9, <1>10
        DEF Next, Step, Server, Fault

LEMMA OrderInductive ==
    ASSUME TypeOK, StreamsConsistent, NumbersInv, OrderInv, [Next]_vars
    PROVE  OrderInv'
<1>t. /\ Tasks \subseteq Peers /\ Strangers \subseteq Peers /\ NoPeer \notin Peers
      /\ Tasks \cap Strangers = {} /\ MaxCounter \in Nat
      /\ counter \in 0 .. MaxCounter /\ drawn \in 0 .. MaxCounter
      /\ lastCounter \in 0 .. MaxCounter /\ \A t \in Tasks : num[t] \in 0 .. MaxCounter
  BY PeersAssumption, BoundsAssumption DEF Peers, TypeOK, Values
<1> USE DEF TypeOK, faultVars, wireVars, serverVars, clientVars, numbers
<1>q. ASSUME UNCHANGED <<backlog, serving>>
      PROVE  /\ \A p \in Peers : Held(p)' <=> Held(p)
             /\ \A u, t \in Peers : Ahead(u, t)' <=> Ahead(u, t)
  BY <1>q DEF Held, Waiting, Ahead
<1>s. \A p \in Peers : pc[p] = "numbered" => up[p] = NoFrame
  BY DEF StreamsConsistent, StreamConsistent
<1>0. ASSUME UNCHANGED <<backlog, serving, lastCounter, num, overlapped>>, drawn' = drawn,
             \A t \in Tasks : Pending(t)' => Pending(t),
             \A u \in Tasks : pc'[u] = "connected" => pc[u] = "connected"
      PROVE  OrderInv'
  BY <1>0, <1>q, <1>t DEF OrderInv
<1>1. ASSUME NEW p \in Peers, Call(p) PROVE OrderInv'
  <2>1. \A t \in Tasks : Pending(t)' => Pending(t)
    BY <1>1, <1>t, <1>q DEF Call, Pending
  <2> QED BY <1>1, <1>0, <1>t, <2>1 DEF Call
<1>2. ASSUME NEW p \in Peers, Connect(p) PROVE OrderInv'
  <2>1. ~Waiting(p) /\ serving # p
    BY <1>2 DEF Connect, StreamsConsistent, StreamConsistent, Held
  <2>2. \A q \in Peers : Waiting(q)' <=> Waiting(q) \/ q = p
    BY <1>2, AppendWaiting DEF Connect
  <2>3. /\ pc' = [pc EXCEPT ![p] = "connected"] /\ serving' = serving
        /\ UNCHANGED <<lastCounter, num, overlapped, drawn, up>>
    BY <1>2 DEF Connect
  <2>4. SUFFICES ASSUME NEW t \in Tasks, Pending(t)'
                 PROVE  /\ lastCounter' < num'[t]
                        /\ \A u \in Tasks \ {t} : Ahead(u, t)' =>
                              pc'[u] # "connected" /\ num'[u] < num'[t]
    BY DEF OrderInv
  <2>5. t # p /\ Pending(t)
    BY <1>t, <2>2, <2>3, <2>4 DEF Pending, Held
  <2>6. \A u \in Tasks \ {t} : Ahead(u, t)' => Ahead(u, t)
    BY <1>2, <1>t, <2>3, <2>5, AppendAhead DEF Connect
  <2>7. ~Ahead(p, t)
    BY <2>1 DEF Ahead, Waiting
  <2> QED BY <1>t, <2>3, <2>5, <2>6, <2>7 DEF OrderInv
<1>3. ASSUME NEW p \in Peers, ConnectFails(p) \/ ReadReply(p) \/ ReadEof(p) PROVE OrderInv'
  <2>1. \A t \in Tasks : Pending(t)' => Pending(t)
    BY <1>3, <1>t, <1>q DEF ConnectFails, ReadReply, ReadEof, Return, Pending
  <2> QED BY <1>3, <1>0, <1>t, <2>1 DEF ConnectFails, ReadReply, ReadEof, Return
<1>4. ASSUME NEW t \in Tasks, DrawNumber(t) PROVE OrderInv'
  <2>1. /\ pc[t] = "connected" /\ pc' = [pc EXCEPT ![t] = "numbered"] /\ counter < MaxCounter
        /\ num' = [num EXCEPT ![t] = counter + 1]
        /\ overlapped'[t] = \E u \in Tasks \ {t} : pc[u] = "connected" /\ Ahead(u, t)
        /\ \A u \in Tasks \ {t} : overlapped'[u] = overlapped[u]
        /\ UNCHANGED <<drawn, backlog, serving, lastCounter, up>>
    BY <1>4 DEF DrawNumber
  <2>2. SUFFICES ASSUME NEW v \in Tasks, Pending(v)'
                 PROVE  /\ lastCounter' < num'[v]
                        /\ \A u \in Tasks \ {v} : Ahead(u, v)' =>
                              pc'[u] # "connected" /\ num'[u] < num'[v]
    BY DEF OrderInv
  <2>3. CASE v = t
    <3>1. counter + 1 > drawn /\ num'[t] = counter + 1 /\ ~overlapped'[t]
      BY <1>t, <2>1, <2>2, <2>3 DEF Pending
    <3>2. lastCounter' < num'[t]
      BY <1>t, <2>1, <3>1 DEF NumbersInv
    <3>3. ASSUME NEW u \in Tasks \ {t}, Ahead(u, t)'
          PROVE  pc'[u] # "connected" /\ num'[u] < num'[t]
      BY <1>t, <1>q, <2>1, <3>1, <3>3 DEF NumbersInv
    <3> QED BY <2>3, <3>2, <3>3
  <2>4. CASE v # t
    <3>1. Pending(v)
      BY <1>t, <1>q, <2>1, <2>2, <2>4 DEF Pending
    <3>2. ~Ahead(t, v)
      BY <2>1, <2>4, <3>1 DEF OrderInv
    <3> QED BY <1>t, <1>q, <2>1, <2>4, <3>1, <3>2 DEF OrderInv
  <2> QED BY <2>3, <2>4
<1>5. ASSUME NEW t \in Tasks, CounterExhausted(t) PROVE OrderInv'
  BY <1>5, <1>t DEF CounterExhausted, OrderInv, Pending
<1>6. ASSUME NEW t \in Tasks, WriteRequest(t) \/ WriteFails(t) PROVE OrderInv'
  <2>1. \A v \in Tasks : Pending(v)' => Pending(v)
    BY <1>6, <1>t, <1>q, <1>s DEF WriteRequest, WriteFails, Return, Pending
  <2> QED BY <1>6, <1>0, <1>t, <2>1 DEF WriteRequest, WriteFails, Return
<1>7. ASSUME NEW x \in Strangers, SendFrame(x) \/ Leave(x) PROVE OrderInv'
  <2>1. \A v \in Tasks : Pending(v)' => Pending(v)
    BY <1>7, <1>t, <1>q DEF SendFrame, Leave, Pending
  <2> QED BY <1>7, <1>0, <1>t, <2>1 DEF SendFrame, Leave
<1>8. CASE Accept
  <2>1. /\ backlog # <<>> /\ backlog' = Tail(backlog) /\ serving = NoPeer
        /\ serving' \in {NoPeer, Head(backlog)} /\ UNCHANGED <<clientVars, up, lastCounter>>
    BY <1>8 DEF Accept, Admitted
  <2>2. /\ Waiting(Head(backlog))
        /\ \A q \in Peers : Waiting(q)' <=> Waiting(q) /\ q # Head(backlog)
    BY <2>1, TailWaiting DEF StreamsConsistent
  <2>3. SUFFICES ASSUME NEW t \in Tasks, Pending(t)'
                 PROVE  /\ lastCounter' < num'[t]
                        /\ \A u \in Tasks \ {t} : Ahead(u, t)' =>
                              pc'[u] # "connected" /\ num'[u] < num'[t]
    BY DEF OrderInv
  <2>4. Waiting(t) /\ Pending(t)
    BY <1>t, <2>1, <2>2, <2>3 DEF Pending, Held
  <2>5. \A u \in Tasks \ {t} : Ahead(u, t)' => Ahead(u, t)
    BY <1>t, <2>1, <2>4, TailAhead
  <2> QED BY <2>1, <2>4, <2>5 DEF OrderInv
<1>9. CASE DropStream \/ WriteReply
  <2>1. /\ serving # NoPeer /\ serving' = NoPeer /\ UNCHANGED <<clientVars, backlog, lastCounter>>
        /\ \A t \in Tasks \ {serving} : up'[t] = up[t]
    BY <1>9, <1>t DEF DropStream, WriteReply, Release, Consume
  <2>2. SUFFICES ASSUME NEW t \in Tasks, Pending(t)'
                 PROVE  /\ lastCounter' < num'[t]
                        /\ \A u \in Tasks \ {t} : Ahead(u, t)' =>
                              pc'[u] # "connected" /\ num'[u] < num'[t]
    BY DEF OrderInv
  <2>3. Waiting(t)
    BY <1>t, <2>1, <2>2 DEF Pending, Held, Waiting
  <2>4. serving # t
    BY <1>t, <2>3 DEF StreamsConsistent, StreamConsistent, Held
  <2>5. Pending(t)
    BY <2>1, <2>2, <2>3, <2>4 DEF Pending, Held
  <2>6. \A u \in Tasks \ {t} : Ahead(u, t)' => Ahead(u, t)
    BY <1>t, <2>1 DEF Ahead
  <2> QED BY <2>1, <2>5, <2>6 DEF OrderInv
<1>10. CASE AnswerMalformed \/ Refuse
  <2>1. \A t \in Tasks : Pending(t)' => Pending(t)
    BY <1>10, <1>t, <1>q DEF AnswerMalformed, Refuse, Consume, Pending
  <2> QED BY <1>10, <1>0, <1>t, <2>1 DEF AnswerMalformed, Refuse
<1>11. CASE Dispatch
  <2>1. /\ serving \in Peers /\ up[serving].kind = "envelope" /\ up[serving].token
        /\ lastCounter' = up[serving].counter /\ up' = [up EXCEPT ![serving] = NoFrame]
        /\ UNCHANGED <<clientVars, backlog, serving>> /\ up[serving] # NoFrame
    BY <1>11 DEF Dispatch, Authentic, Consume, NoFrame
  <2>2. serving \in Tasks /\ lastCounter' = num[serving]
    BY <2>1 DEF NumbersInv, Peers
  <2>3. SUFFICES ASSUME NEW t \in Tasks, Pending(t)'
                 PROVE  /\ lastCounter' < num'[t]
                        /\ \A u \in Tasks \ {t} : Ahead(u, t)' =>
                              pc'[u] # "connected" /\ num'[u] < num'[t]
    BY DEF OrderInv
  <2>4. pc[serving] \in {"waiting", "lost"}
    BY <2>1 DEF StreamsConsistent, StreamConsistent, Held
  <2>5. t # serving
    BY <1>t, <2>1, <2>3, <2>4 DEF Pending
  <2>6. Pending(t)
    BY <1>t, <1>q, <2>1, <2>3, <2>5 DEF Pending
  <2>7. Ahead(serving, t)
    BY DEF Ahead
  <2> QED BY <1>t, <1>q, <2>1, <2>2, <2>5, <2>6, <2>7 DEF OrderInv
<1>12. CASE CaCrash
  <2>1. \A t \in Tasks : ~Held(t)'
    BY <1>12, <1>t DEF CaCrash, Held, Waiting
  <2> QED BY <2>1 DEF OrderInv, Pending
<1>13. CASE CaRestart
  <2>1. lastCounter' = 0 /\ UNCHANGED <<clientVars, wireVars, backlog, serving>>
    BY <1>13 DEF CaRestart
  <2>2. \A t \in Tasks : Pending(t)' => Pending(t) /\ num[t] > 0
    BY <1>t, <1>q, <2>1 DEF Pending
  <2> QED BY <1>t, <1>q, <2>1, <2>2 DEF OrderInv
<1>14. CASE SshRestart
  <2>1. \A t \in Tasks : pc'[t] \notin {"numbered", "waiting"}
    BY <1>14, <1>t DEF SshRestart
  <2> QED BY <2>1 DEF OrderInv, Pending
<1>15. CASE UNCHANGED vars
  <2>1. \A t \in Tasks : Pending(t)' => Pending(t)
    BY <1>15, <1>t, <1>q DEF vars, Pending
  <2> QED BY <1>15, <1>0, <2>1 DEF vars
<1> QED BY <1>1, <1>2, <1>3, <1>4, <1>5, <1>6, <1>7, <1>8, <1>9, <1>10, <1>11, <1>12,
           <1>13, <1>14, <1>15 DEF Next, Step, Server, Fault

LEMMA RefusalInductive ==
    ASSUME TypeOK, StreamsConsistent, NumbersInv, OrderInv, RefusalInv, [Next]_vars
    PROVE  RefusalInv'
<1>t. /\ Tasks \subseteq Peers /\ Strangers \subseteq Peers /\ NoPeer \notin Peers
      /\ Tasks \cap Strangers = {} /\ MaxCounter \in Nat
      /\ counter \in 0 .. MaxCounter /\ drawn \in 0 .. MaxCounter
      /\ lastCounter \in 0 .. MaxCounter /\ \A t \in Tasks : num[t] \in 0 .. MaxCounter
  BY PeersAssumption, BoundsAssumption DEF Peers, TypeOK, Values
<1> USE DEF TypeOK, RefusalInv, Excused, faultVars, wireVars, serverVars, clientVars, numbers
<1>s. ASSUME NEW t \in Tasks, pc[t] \in {"connected", "numbered"}
      PROVE  /\ result[t] # "refused" /\ down[t] # "refused"
             /\ ~(serving = t /\ reply = "refused")
  BY <1>s, <1>t DEF NumbersInv, StreamsConsistent, StreamConsistent, Held
<1>1. ASSUME NEW p \in Peers, Call(p) PROVE RefusalInv'
  BY <1>1, <1>t DEF Call
<1>2. ASSUME NEW p \in Peers, Connect(p) \/ ConnectFails(p) \/ ReadReply(p) \/ ReadEof(p)
      PROVE  RefusalInv'
  BY <1>2, <1>t DEF Connect, ConnectFails, ReadReply, ReadEof, Return, Received
<1>3. ASSUME NEW t \in Tasks, DrawNumber(t) PROVE RefusalInv'
  BY <1>3, <1>s, <1>t DEF DrawNumber
<1>4. ASSUME NEW t \in Tasks, CounterExhausted(t) PROVE RefusalInv'
  BY <1>4, <1>t DEF CounterExhausted
<1>5. ASSUME NEW t \in Tasks, WriteRequest(t) \/ WriteFails(t) PROVE RefusalInv'
  BY <1>5, <1>t DEF WriteRequest, WriteFails, Return
<1>6. ASSUME NEW x \in Strangers, SendFrame(x) \/ Leave(x) PROVE RefusalInv'
  BY <1>6, <1>t DEF SendFrame, Leave
<1>7. CASE Accept
  <2>1. reply' # "refused" /\ UNCHANGED <<clientVars, down>>
    BY <1>7 DEF Accept, StreamsConsistent
  <2> QED BY <2>1
<1>8. CASE Refuse
  <2>1. serving \in Peers /\ up[serving] # NoFrame /\ ~Authentic(up[serving])
        /\ UNCHANGED <<clientVars, down, serving>>
    BY <1>8 DEF Refuse, NoFrame
  <2>2. ASSUME serving \in Tasks PROVE Excused(serving)
    <3>1. up[serving].counter = num[serving] /\ num[serving] <= lastCounter
      BY <1>t, <2>1, <2>2 DEF NumbersInv, Authentic, Fresh
    <3>2. Held(serving) /\ pc[serving] \in {"waiting", "lost"}
      BY <2>1 DEF Held, StreamsConsistent, StreamConsistent
    <3>3. CASE pc[serving] = "lost"
      BY <2>2, <3>3 DEF NumbersInv
    <3>4. CASE pc[serving] = "waiting" /\ ~Excused(serving)
      <4>1. Pending(serving)
        BY <1>t, <2>1, <2>2, <3>2, <3>4 DEF Pending
      <4> QED BY <1>t, <2>2, <3>1, <4>1 DEF OrderInv
    <3> QED BY <3>2, <3>3, <3>4
  <2> QED BY <1>8, <2>1, <2>2 DEF Refuse
<1>9. CASE WriteReply
  BY <1>9, <1>t DEF WriteReply, Release
<1>10. CASE DropStream \/ AnswerMalformed \/ Dispatch \/ CaCrash \/ CaRestart
  BY <1>10, <1>t DEF DropStream, AnswerMalformed, Dispatch, CaCrash, CaRestart, Outcomes
<1>11. CASE SshRestart
  BY <1>11, <1>t DEF SshRestart
<1>12. CASE UNCHANGED vars
  BY <1>12 DEF vars
<1> QED BY <1>1, <1>2, <1>3, <1>4, <1>5, <1>6, <1>7, <1>8, <1>9, <1>10, <1>11, <1>12
        DEF Next, Step, Server, Fault

\* When only the SSH server knows the token, its calls are refused for no
\* other reason than overlap or a number that had been drawn before.
THEOREM HonestCallsPass ==
    ASSUME TokenSecret
    PROVE  Spec => []RefusedOnlyIfOverlapped
<1>1. Init => NumbersInv /\ OrderInv /\ RefusalInv
  BY PeersAssumption
  DEF Init, NumbersInv, OrderInv, RefusalInv, Pending, NoFrame, Peers
<1>2. TypeOK /\ StreamsConsistent /\ NumbersInv /\ OrderInv /\ RefusalInv /\ [Next]_vars
        => NumbersInv' /\ OrderInv' /\ RefusalInv'
  BY NumbersInductive, OrderInductive, RefusalInductive
<1>3. RefusalInv => RefusedOnlyIfOverlapped
  BY DEF RefusalInv, Excused, RefusedOnlyIfOverlapped
<1> QED BY <1>1, <1>2, <1>3, TypeCorrect, StreamsCorrect, PTL DEF Spec

-----------------------------------------------------------------------------
(* When the claims of the documentation hold. *)

\* The one caller t has drawn no number twice, and none while overlapped.
SequentialInv(t) ==
    /\ counter + (IF pc[t] \in {"connecting", "connected"} THEN 1 ELSE 0) <= Quota
    /\ drawn # 0 => sshRestarts # 0
    /\ ~overlapped[t]
    /\ num[t] = 0 =>
          /\ up[t] = NoFrame /\ pc[t] \notin {"numbered", "waiting"}
          /\ result[t] # "refused" /\ down[t] # "refused"
          /\ ~(serving = t /\ reply = "refused")

LEMMA SequentialInductive ==
    ASSUME NEW t, Tasks = {t}, Quota <= MaxCounter,
           TypeOK, StreamsConsistent, SequentialInv(t), [Next]_vars
    PROVE  SequentialInv(t)'
<1>t. /\ t \in Tasks /\ t \in Peers /\ NoPeer \notin Peers /\ \A s \in Strangers : s # t
      /\ {Quota, MaxCounter, counter, num[t], drawn} \subseteq Nat /\ counter <= MaxCounter
  BY PeersAssumption, BoundsAssumption DEF Peers, TypeOK, Values
<1>r. sshRestarts \in Nat
  BY BoundsAssumption DEF TypeOK
<1> USE DEF TypeOK, faultVars, wireVars, serverVars, clientVars, numbers
<1>1. ASSUME NEW p \in Peers, Call(p) PROVE SequentialInv(t)'
  <2>1. /\ pc' = [pc EXCEPT ![p] = "connecting"] /\ UNCHANGED <<numbers, serving, reply>>
        /\ UNCHANGED sshRestarts
        /\ up' = [up EXCEPT ![p] = NoFrame] /\ down' = [down EXCEPT ![p] = "none"]
        /\ result' = [result EXCEPT ![p] = "none"]
    BY <1>1 DEF Call
  <2>2. CASE p = t
    <3>1. Unnumbered = {}
      BY <1>1, <2>2 DEF Call, Unnumbered
    <3>2. counter < Quota
      BY <1>1, <1>t, <2>2, <3>1, FS_EmptySet DEF Call
    <3> QED BY <1>t, <2>1, <2>2, <3>2 DEF SequentialInv
  <2>3. CASE p # t
    BY <1>t, <2>1, <2>3 DEF SequentialInv
  <2> QED BY <2>2, <2>3
<1>2. ASSUME NEW p \in Peers, Connect(p) \/ ConnectFails(p) \/ ReadEof(p)
      PROVE  SequentialInv(t)'
  <2>1. /\ UNCHANGED <<num, counter, overlapped, drawn, up, down, serving, reply, sshRestarts>>
        /\ pc[p] \in {"connecting", "waiting"}
        /\ \/ pc' = [pc EXCEPT ![p] = "connected"] /\ result' = result /\ pc[p] = "connecting"
           \/ pc' = [pc EXCEPT ![p] = "returned"] /\ result' = [result EXCEPT ![p] = "failed"]
    BY <1>2 DEF Connect, ConnectFails, ReadEof, Return
  <2> QED BY <1>t, <2>1 DEF SequentialInv
<1>3. ASSUME NEW p \in Peers, ReadReply(p) PROVE SequentialInv(t)'
  <2>1. /\ UNCHANGED <<num, counter, overlapped, drawn, up, serving, reply, sshRestarts>>
        /\ pc' = [pc EXCEPT ![p] = "returned"] /\ down' = [down EXCEPT ![p] = "none"]
        /\ result' = [result EXCEPT ![p] = Received(down[p])]
    BY <1>3 DEF ReadReply, Return
  <2> QED BY <1>t, <2>1 DEF SequentialInv, Received
<1>4. ASSUME DrawNumber(t) PROVE SequentialInv(t)'
  <2>1. /\ counter' = counter + 1 /\ num'[t] = counter + 1 /\ ~overlapped'[t]
        /\ pc[t] = "connected" /\ pc' = [pc EXCEPT ![t] = "numbered"]
        /\ UNCHANGED <<drawn, sshRestarts>>
    BY <1>4, <1>t DEF DrawNumber, FetchAdd
  <2> QED BY <1>t, <2>1 DEF SequentialInv
<1>5. ~CounterExhausted(t)
  BY <1>t DEF CounterExhausted, SequentialInv
<1>6. ASSUME WriteRequest(t) \/ WriteFails(t) PROVE SequentialInv(t)'
  BY <1>6, <1>t DEF WriteRequest, WriteFails, Return, SequentialInv
<1>7. ASSUME NEW s \in Strangers, SendFrame(s) \/ Leave(s) PROVE SequentialInv(t)'
  <2>1. /\ UNCHANGED <<result, numbers, down, serving, reply, sshRestarts>>
        /\ pc'[t] = pc[t] /\ up'[t] = up[t]
    BY <1>7, <1>t DEF SendFrame, Leave
  <2> QED BY <2>1 DEF SequentialInv
<1>8. CASE Accept
  BY <1>8, <1>t DEF Accept, StreamsConsistent, SequentialInv
<1>9. CASE DropStream \/ AnswerMalformed \/ Dispatch
  <2>1. /\ UNCHANGED <<clientVars, down, sshRestarts>> /\ reply' # "refused"
        /\ up' = [up EXCEPT ![serving] = NoFrame] \/ up' = up
    BY <1>9 DEF DropStream, AnswerMalformed, Dispatch, Consume, Outcomes
  <2> QED BY <1>t, <2>1 DEF SequentialInv
<1>10. CASE Refuse
  <2>1. /\ UNCHANGED <<clientVars, down, serving, sshRestarts>> /\ up[serving] # NoFrame
        /\ up' = [up EXCEPT ![serving] = NoFrame]
    BY <1>10 DEF Refuse, Consume, NoFrame
  <2> QED BY <1>t, <2>1 DEF SequentialInv
<1>11. CASE WriteReply
  <2>1. /\ UNCHANGED <<clientVars, up, sshRestarts>> /\ reply' = "none"
        /\ down' = down \/ down' = [down EXCEPT ![serving] = reply]
    BY <1>11 DEF WriteReply, Release
  <2> QED BY <1>t, <2>1 DEF SequentialInv
<1>12. CASE CaCrash \/ CaRestart
  BY <1>12, <1>t DEF CaCrash, CaRestart, SequentialInv
<1>13. CASE SshRestart
  <2>1. /\ counter' = 0 /\ sshRestarts' = sshRestarts + 1
        /\ UNCHANGED <<num, result, overlapped, wireVars, serverVars>>
        /\ pc'[t] \notin {"connecting", "connected", "numbered", "waiting"}
    BY <1>13, <1>t DEF SshRestart
  <2> QED BY <1>t, <1>r, <2>1 DEF SequentialInv
<1>14. CASE UNCHANGED vars
  BY <1>14 DEF vars, SequentialInv
<1> QED BY <1>1, <1>2, <1>3, <1>4, <1>5, <1>6, <1>7, <1>8, <1>9, <1>10, <1>11, <1>12,
           <1>13, <1>14 DEF Next, Step, Server, Fault

\* ca_client.rs:22: an SSH server that makes its calls one after the other, and no
\* more of them than a u64 can number, is taken for a replay only when it was
\* restarted beside a running CA.  So the refusals that the run ipc_order finds
\* need two calls at a time.
THEOREM SequentialCallsServed ==
    ASSUME TokenSecret, NEW t, Tasks = {t}, Quota <= MaxCounter
    PROVE  Spec => []HonestCallsServed
<1>1. Init => SequentialInv(t)
  <2> SUFFICES ASSUME Init PROVE SequentialInv(t)
    OBVIOUS
  <2>1. Quota \in Nat /\ t \in Peers /\ t \in Tasks /\ serving # t
    BY BoundsAssumption, PeersAssumption DEF Init, Peers
  <2> QED BY <2>1 DEF Init, SequentialInv
<1>2. TypeOK /\ StreamsConsistent /\ SequentialInv(t) /\ [Next]_vars => SequentialInv(t)'
  BY SequentialInductive
<1>3. TypeOK /\ SequentialInv(t) /\ RefusedOnlyIfOverlapped => HonestCallsServed
  <2> SUFFICES ASSUME TypeOK, SequentialInv(t), RefusedOnlyIfOverlapped, result[t] = "refused"
               PROVE  caCrashes + sshRestarts > 0
    BY DEF HonestCallsServed
  <2>1. /\ num[t] \in Nat /\ drawn \in Nat /\ caCrashes \in Nat /\ sshRestarts \in Nat
    BY BoundsAssumption DEF TypeOK, Values
  <2>2. num[t] <= drawn /\ num[t] # 0
    BY DEF SequentialInv, RefusedOnlyIfOverlapped
  <2>3. sshRestarts # 0
    BY <2>1, <2>2 DEF SequentialInv
  <2> QED BY <2>1, <2>3
<1> QED BY <1>1, <1>2, <1>3, TypeCorrect, StreamsCorrect, HonestCallsPass, PTL DEF Spec

\* ca_server.rs:68-85: the streams of an SSH server that runs under the uid of the
\* CA are read when the CA accepts them; the run ipc_split needs another uid.
THEOREM SameUserServed ==
    ASSUME Tasks \cap OtherUsers = {}
    PROVE  Spec => SeparateUsersServed
<1>1. TypeOK /\ [Next]_vars =>
        [\A t \in Tasks : caUp' /\ backlog # <<>> /\ backlog' = Tail(backlog)
                          /\ Head(backlog) = t => serving' = t]_vars
  <2> SUFFICES ASSUME TypeOK, [Next]_vars, NEW t \in Tasks, caUp',
                      backlog # <<>>, backlog' = Tail(backlog), Head(backlog) = t,
                      ~UNCHANGED vars
               PROVE  serving' = t
    OBVIOUS
  <2>1. /\ backlog \in Seq(Peers) /\ Len(backlog) \in Nat \ {0}
        /\ Len(backlog') = Len(backlog) - 1
    BY DEF TypeOK
  <2>2. CASE Accept
    BY <2>2 DEF Accept, Admitted
  <2>3. CASE UNCHANGED backlog
    BY <2>1, <2>3
  <2>4. CASE \E p \in Peers : Connect(p)
    <3>1. Len(backlog') = Len(backlog) + 1
      BY <2>1, <2>4, AppendWaiting DEF Connect
    <3> QED BY <2>1, <3>1
  <2>5. CASE CaCrash
    BY <2>5 DEF CaCrash
  <2>6. Accept \/ UNCHANGED backlog \/ (\E p \in Peers : Connect(p)) \/ CaCrash
    BY DEF Next, vars, Step, Server, Fault, Call, ConnectFails, DrawNumber,
       CounterExhausted, WriteRequest, WriteFails, ReadReply, ReadEof, SendFrame,
       Leave, DropStream, AnswerMalformed, Refuse, Dispatch, WriteReply, CaRestart,
       SshRestart, serverVars
  <2> QED BY <2>2, <2>3, <2>4, <2>5, <2>6
<1> QED BY <1>1, TypeCorrect, PTL DEF Spec, SeparateUsersServed
=============================================================================
