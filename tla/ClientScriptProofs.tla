------------------------- MODULE ClientScriptProofs -------------------------
(***************************************************************************)
(* Proofs about ClientScript, for any number of runs and of retries.       *)
(***************************************************************************)
EXTENDS ClientScript, TLAPS

\* MaxAttempts is a number above 0.
LEMMA AttemptsNat == MaxAttempts \in Nat
BY RetryAssumption DEF MaxAttempts

LEMMA InitTypes == Init => TypeOK
BY AttemptsNat DEF Init, TypeOK, Plain, Contents, Kinds

\* Every step keeps the variables in their types.
LEMMA StepTypes == TypeOK /\ [Next]_vars => TypeOK'
<1> SUFFICES ASSUME TypeOK, [Next]_vars PROVE TypeOK'
  OBVIOUS
<1> USE AttemptsNat
<1> DEFINE T(v) == v \in [Runs -> Contents]
<1>plain. ASSUME NEW k \in Kinds PROVE Plain(k) \in Contents
  BY <1>plain DEF Plain, Contents
<1>cert. ASSUME NEW n \in Nat PROVE Cert(n) \in Contents
  BY DEF Cert, Contents, Kinds
<1>1. ASSUME NEW r \in Runs, Validate(r) PROVE TypeOK'
  BY <1>1, <1>plain DEF Validate, Exit, Goto, TypeOK, Kinds
<1>2. ASSUME NEW r \in Runs, Connect(r) PROVE TypeOK'
  <2>1. attempt' \in [Runs -> 0 .. MaxAttempts]
    BY <1>2 DEF Connect, More, Counted, TypeOK
  <2>2. T(tmpfile')
    BY <1>2, <1>plain DEF Connect, RemoveTmpfile, TypeOK, Kinds
  <2> QED BY <1>2, <2>1, <2>2 DEF Connect, Exit, Goto, TypeOK
<1>3. ASSUME NEW r \in Runs, Signed(r) PROVE TypeOK'
  BY <1>3 DEF Signed, Goto, TypeOK
<1>4. ASSUME NEW r \in Runs, Ssh(r) PROVE TypeOK'
  <2>1. PICK found \in Contents, c \in {0, 255} : Fetch(r, found, c)
    <3>1. newest[r] \in Nat
      BY DEF TypeOK
    <3> QED BY <1>4, <1>plain, <1>cert, <3>1 DEF Ssh, SshFails, SshDelivers, Kinds
  <2> QED BY <2>1 DEF Fetch, Redirected, Goto, TypeOK
<1>5. ASSUME NEW r \in Runs, Check(r) PROVE TypeOK'
  BY <1>5, <1>plain DEF Check, Exit, Goto, RemoveTmpfile, TypeOK, Kinds
<1>6. ASSUME NEW r \in Runs, Move(r) PROVE TypeOK'
  <2>1. tmpfile[r].cert \in Nat
    BY DEF TypeOK, Contents
  <2> QED BY <1>6, <1>plain, <2>1 DEF Move, Exit, Goto, RemoveTmpfile, TypeOK, Kinds
<1>7. ASSUME NEW r \in Runs, Reload(r) PROVE TypeOK'
  BY <1>7 DEF Reload, Exit, Goto, ExitCode, TypeOK
<1>8. ASSUME NEW r \in Runs, Terminate(r) \/ Kill(r) PROVE TypeOK'
  BY <1>8, <1>plain DEF Terminate, Kill, Exit, Goto, RemoveTmpfile, TypeOK, Kinds
<1>9. CASE UNCHANGED vars
  BY <1>9 DEF vars, TypeOK
<1> QED BY <1>1, <1>2, <1>3, <1>4, <1>5, <1>6, <1>7, <1>8, <1>9 DEF Next, Script

\* ssh-ca-sign-host-key.sh:255-364: the variables of the script keep their
\* types; in particular no run makes more than RetryCount + 1 attempts.
THEOREM TypesHold == Spec => []TypeOK
BY InitTypes, StepTypes, PTL DEF Spec

-----------------------------------------------------------------------------
\* Where a run stands tells what its temporary file and its past are.
RunInv(r) ==
    /\ tmpfile[r].kind = "cert" /\ pc[r] \in {"check", "move"} =>
          tmpfile[r].cert = newest[r]
    /\ tmpfile[r].kind = "partial" => code[r] = 255
    /\ pc[r] = "check" => tmpfile[r].kind \in {"empty", "text", "partial", "cert"}
    /\ pc[r] = "move" => tmpfile[r].kind = "cert"
    /\ pc[r] = "signed" => newest[r] # 0
    /\ pc[r] \in {"check", "move"} /\ tmpfile[r].kind = "cert" => newest[r] # 0
    /\ moved[r] # 0 => pc[r] \in {"reload", "ended"} /\ moved[r] = newest[r]
    /\ pc[r] = "reload" => moved[r] # 0
    /\ pc[r] # "ended" => exit[r] = "no"
    /\ exit[r] = "ok" => moved[r] # 0
    /\ exit[r] = "failed" /\ ~reload[r] => moved[r] = 0
    /\ tmpfile[r].kind # "cert" => tmpfile[r].cert = 0
    /\ pc[r] = "validate" => tmpfile[r].kind = "absent"
    /\ pc[r] = "reload" => tmpfile[r].kind = "absent"
    /\ exit[r] \in {"ok", "failed", "terminated"} =>
          \/ tmpfile[r].kind = "absent"
          \/ exit[r] = "failed" /\ tmpfile[r] = Cert(newest[r]) /\ moved[r] = 0

IInv ==
    /\ TypeOK
    /\ \A r \in Runs : RunInv(r)
    /\ output # 0 => \E r \in Runs : moved[r] = output
    /\ SshdCurrent

\* What the steps of the run r leave alone of another run.
Apart(r) ==
    \A q \in Runs \ {r} :
        /\ pc'[q] = pc[q] /\ tmpfile'[q] = tmpfile[q] /\ code'[q] = code[q]
        /\ newest'[q] = newest[q] /\ moved'[q] = moved[q] /\ exit'[q] = exit[q]
        /\ attempt'[q] = attempt[q]

Touches(r) == Script(r) \/ Ssh(r) \/ Signed(r) \/ Terminate(r) \/ Kill(r)

\* Two runs share OUTPUT and sshd, nothing else.
LEMMA RunsApart ==
    ASSUME TypeOK, NEW r \in Runs, Touches(r)
    PROVE  Apart(r) /\ reload' = reload
<1> USE DEF Apart, TypeOK, Goto, Exit, RemoveTmpfile
<1>1. CASE Validate(r)    BY <1>1 DEF Validate
<1>2. CASE Connect(r)     BY <1>2 DEF Connect
<1>3. CASE Check(r)       BY <1>3 DEF Check
<1>4. CASE Move(r)        BY <1>4 DEF Move
<1>5. CASE Reload(r)
  <2>1. PICK status : Exit(r, status)
    BY <1>5 DEF Reload
  <2> QED BY <1>5, <2>1 DEF Reload
<1>6. CASE Ssh(r)         BY <1>6 DEF Ssh, SshFails, SshDelivers, Fetch
<1>7. CASE Signed(r)      BY <1>7 DEF Signed
<1>8. CASE Terminate(r)   BY <1>8 DEF Terminate
<1>9. CASE Kill(r)        BY <1>9 DEF Kill
<1> QED BY <1>1, <1>2, <1>3, <1>4, <1>5, <1>6, <1>7, <1>8, <1>9 DEF Touches, Script

LEMMA RunKeeps ==
    ASSUME TypeOK, NEW r \in Runs, RunInv(r), Touches(r)
    PROVE  RunInv(r)'
<1> USE DEF RunInv, TypeOK, Goto, Exit, RemoveTmpfile, Plain
<1>1. CASE Validate(r)    BY <1>1 DEF Validate
<1>2. CASE Connect(r)     BY <1>2 DEF Connect
<1>3. CASE Check(r)       BY <1>3 DEF Check, Acceptable
<1>4. CASE Move(r)
  <2>1. tmpfile[r].cert = newest[r] /\ tmpfile[r] \in Contents
    BY <1>4 DEF Move
  <2>2. tmpfile[r] = Cert(newest[r])
    BY <1>4, <2>1 DEF Move, Contents, Cert
  <2> QED BY <1>4, <2>1, <2>2 DEF Move
<1>5. CASE Reload(r)      BY <1>5 DEF Reload, ExitCode
<1>6. CASE Ssh(r)
  <2>1. CASE SshFails(r)    BY <2>1 DEF SshFails, Fetch, Redirected
  <2>2. CASE SshDelivers(r) BY <2>2 DEF SshDelivers, Fetch, Redirected, Cert
  <2> QED BY <1>6, <2>1, <2>2 DEF Ssh
<1>7. CASE Signed(r)      BY <1>7 DEF Signed
<1>8. CASE Terminate(r)   BY <1>8 DEF Terminate
<1>9. CASE Kill(r)        BY <1>9 DEF Kill
<1> QED BY <1>1, <1>2, <1>3, <1>4, <1>5, <1>6, <1>7, <1>8, <1>9 DEF Touches, Script

\* OUTPUT and sshd change only by Move and by Reload.
LEMMA SharedKeeps ==
    ASSUME IInv, NEW r \in Runs, Touches(r)
    PROVE  /\ output' # 0 => \E q \in Runs : moved'[q] = output'
           /\ SshdCurrent'
<1>1. RunInv(r) /\ TypeOK
  BY DEF IInv
<1>2. Apart(r) /\ reload' = reload
  BY <1>1, RunsApart
<1>3. CASE Move(r) /\ output' # output
  <2>1. output' = moved'[r] /\ output' # 0 /\ exit'[r] = "no"
    BY <1>1, <1>3 DEF Move, Goto, RunInv, TypeOK
  <2> QED BY <2>1 DEF SshdCurrent
<1>4. CASE Move(r) /\ output' = output
  <2>1. moved' = moved \/ moved'[r] = output
    BY <1>1, <1>4 DEF Move, TypeOK
  <2>2. moved[r] = 0 /\ exit[r] = "no"
    BY <1>1, <1>4 DEF Move, RunInv
  <2>3. CASE moved' = moved
    BY <1>2, <1>4, <2>2, <2>3 DEF IInv, SshdCurrent, Move, Apart
  <2>4. CASE moved'[r] = output /\ exit' = exit
    <3>1. \A q \in Runs : moved[q] # 0 => moved'[q] = moved[q]
      BY <1>2, <2>2 DEF Apart
    <3> QED BY <1>2, <1>4, <2>4, <3>1 DEF IInv, SshdCurrent, Move, Apart
  <2> QED BY <1>4, <2>1, <2>3, <2>4 DEF Move
<1>5. CASE Reload(r)
  <2>1. output' = output /\ moved' = moved
    BY <1>5 DEF Reload
  <2>2. moved[r] # 0 /\ exit[r] = "no"
    BY <1>1, <1>5 DEF Reload, RunInv
  <2>3. sshd' = output \/ (sshd' = sshd /\ ~(exit'[r] = "ok" /\ reload[r]))
    BY <1>1, <1>5 DEF Reload, Exit, ExitCode, TypeOK
  <2> QED BY <1>2, <2>1, <2>2, <2>3 DEF IInv, SshdCurrent, Apart
<1>6. CASE ~Move(r) /\ ~Reload(r)
  <2>1. output' = output /\ moved' = moved /\ sshd' = sshd
    BY <1>6 DEF Touches, Script, Validate, Connect, Check, Ssh, SshFails, SshDelivers,
                Fetch, Signed, Terminate, Kill
  <2>2. exit'[r] = exit[r] \/ exit'[r] # "ok"
    BY <1>1, <1>6 DEF Touches, Script, Validate, Connect, Check, Ssh, SshFails,
         SshDelivers, Fetch, Signed, Terminate, Kill, Exit, TypeOK
  <2> QED BY <1>2, <2>1, <2>2 DEF IInv, SshdCurrent, Apart
<1> QED BY <1>3, <1>4, <1>5, <1>6

LEMMA InvInductive ==
    /\ Init => IInv
    /\ IInv /\ [Next]_vars => IInv'
<1>1. Init => IInv
  BY InitTypes DEF Init, IInv, RunInv, SshdCurrent, Plain
<1>2. ASSUME IInv, NEW r \in Runs, Touches(r) PROVE IInv'
  <2>1. TypeOK /\ TypeOK'
    BY <1>2, StepTypes DEF IInv, Next, Touches
  <2>2. \A q \in Runs : RunInv(q)'
    <3>1. RunInv(r)'
      BY <1>2, <2>1, RunKeeps DEF IInv
    <3>2. ASSUME NEW q \in Runs \ {r} PROVE RunInv(q)'
      BY <1>2, <2>1, RunsApart DEF IInv, RunInv, Apart
    <3> QED BY <3>1, <3>2
  <2> QED BY <1>2, <2>1, <2>2, SharedKeeps DEF IInv
<1>3. ASSUME IInv, UNCHANGED vars PROVE IInv'
  <2>1. TypeOK'
    BY <1>3, StepTypes DEF IInv
  <2> QED BY <1>3, <2>1 DEF IInv, RunInv, SshdCurrent, vars
<1> QED BY <1>1, <1>2, <1>3 DEF Next, Touches

THEOREM InvHolds == Spec => []IInv
BY InvInductive, PTL DEF Spec

\* ssh-ca-sign-host-key.sh:278-312: however often an answer was lost, what a run
\* moves over OUTPUT is the certificate signed last for it.
THEOREM NewestMoved == Spec => []NewestInPlace
<1>1. IInv => NewestInPlace
  BY DEF IInv, RunInv, NewestInPlace
<1> QED BY <1>1, InvHolds, PTL

\* ssh-ca-sign-host-key.sh:278-360: the exit code tells whether the certificate
\* is in place.
THEOREM ExitIsTrue == Spec => []ExitTellsTruth
<1>1. IInv => ExitTellsTruth
  BY DEF IInv, RunInv, ExitTellsTruth
<1> QED BY <1>1, InvHolds, PTL

\* ssh-ca-sign-host-key.sh:258: whatever way a run ends, except by a signal that
\* no trap sees, it leaves at most a whole certificate it could not move.
THEOREM LitterHolds == Spec => []NoLitter
<1>1. IInv => NoLitter
  BY DEF IInv, RunInv, NoLitter
<1> QED BY <1>1, InvHolds, PTL

\* ssh-ca-sign-host-key.sh:307-364: runs that share OUTPUT and all report success
\* leave sshd with what is in OUTPUT.
THEOREM SshdHasOutput == Spec => []SshdCurrent
<1>1. IInv => SshdCurrent
  BY DEF IInv
<1> QED BY <1>1, InvHolds, PTL

-----------------------------------------------------------------------------
(* The runs implement CertFile. *)

\* A certificate is signed for one run only.
SignedApart ==
    /\ \A r \in Runs : newest[r] <= signed
    /\ \A r, q \in Runs : r # q /\ newest[r] # 0 => newest[r] # newest[q]

LEMMA SignedApartInductive ==
    /\ Init => SignedApart
    /\ TypeOK /\ SignedApart /\ [Next]_vars => SignedApart'
<1>1. Init => SignedApart
  BY DEF Init, SignedApart
<1>2. ASSUME TypeOK, SignedApart, NEW r \in Runs, Signed(r) PROVE SignedApart'
  <2>1. /\ signed \in Nat /\ signed' = signed + 1 /\ newest \in [Runs -> Nat]
        /\ newest' = [newest EXCEPT ![r] = signed + 1]
    BY <1>2 DEF Signed, TypeOK
  <2> QED BY <1>2, <2>1 DEF SignedApart
<1>3. ASSUME SignedApart, UNCHANGED <<signed, newest>> PROVE SignedApart'
  BY <1>3 DEF SignedApart
<1>4. ASSUME NEW r \in Runs, Touches(r)
      PROVE  Signed(r) \/ UNCHANGED <<signed, newest>>
  <2>1. CASE Script(r)
    BY <2>1 DEF Script, Validate, Connect, Check, Move, Reload
  <2>2. CASE Ssh(r)
    BY <2>2 DEF Ssh, SshFails, SshDelivers, Fetch
  <2>3. CASE Terminate(r) \/ Kill(r)
    BY <2>3 DEF Terminate, Kill
  <2> QED BY <1>4, <2>1, <2>2, <2>3 DEF Touches
<1>5. UNCHANGED vars => UNCHANGED <<signed, newest>>
  BY DEF vars
<1> QED BY <1>1, <1>2, <1>3, <1>4, <1>5 DEF Next, Touches

\* A step of a run is a step of CertFile, or leaves what CertFile sees alone.
LEMMA RunMaps ==
    ASSUME IInv, SignedApart, NEW r \in Runs, Touches(r)
    PROVE  File!Next \/ UNCHANGED File!vars
<1> USE DEF File!vars, Goto
<1>1. RunInv(r) /\ TypeOK
  BY DEF IInv
<1>e. ASSUME NEW status \in {"ok", "failed", "terminated", "killed"}, Exit(r, status),
             pc[r] # "ended",
             status = "ok" => moved[r] # 0 /\ ~reload[r],
             status = "failed" => moved[r] = 0 \/ reload[r],
             UNCHANGED <<reload, output, sshd, signed, newest, moved>>
      PROVE  File!Next
  <2>1. File!End(r, status)
    BY <1>1, <1>e DEF File!End, File!Running, Exit, RunInv
  <2> QED BY <2>1 DEF File!Next
<1>2. CASE Validate(r) \/ Connect(r) \/ Check(r)
  <2>1. pc[r] # "ended" /\ moved[r] = 0
    BY <1>1, <1>2 DEF Validate, Connect, Check, RunInv
  <2>2. Exit(r, "failed") \/ UNCHANGED exit
    BY <1>2 DEF Validate, Connect, Check
  <2> QED BY <1>2, <1>e, <2>1, <2>2 DEF Validate, Connect, Check
<1>3. CASE Signed(r)
  <2>1. File!Sign(r)
    BY <1>1, <1>3 DEF Signed, File!Sign, File!Running, RunInv
  <2> QED BY <2>1 DEF File!Next
<1>4. CASE Ssh(r)
  BY <1>4 DEF Ssh, SshFails, SshDelivers, Fetch
<1>5. CASE Move(r)
  <2>1. /\ tmpfile[r].cert = newest[r] /\ newest[r] # 0
        /\ moved[r] = 0 /\ exit[r] = "no" /\ pc[r] # "ended"
    BY <1>1, <1>5 DEF Move, RunInv
  <2>2. \A q \in Runs : moved[q] # newest[r]
    BY <2>1 DEF IInv, RunInv, SignedApart
  <2>3. CASE Exit(r, "failed") /\ UNCHANGED <<output, moved>>
    BY <1>5, <1>e, <2>1, <2>3 DEF Move
  <2>4. CASE ~(Exit(r, "failed") /\ UNCHANGED <<output, moved>>)
    <3>1. File!Replace(r)
      BY <1>5, <2>1, <2>2, <2>4 DEF Move, File!Replace, File!Running
    <3> QED BY <3>1 DEF File!Next
  <2> QED BY <2>3, <2>4
<1>6. CASE Reload(r)
  <2>1. moved[r] # 0 /\ pc[r] # "ended" /\ exit[r] = "no"
    BY <1>1, <1>6 DEF Reload, RunInv
  <2>2. CASE ~reload[r]
    BY <1>6, <1>e, <2>1, <2>2 DEF Reload
  <2>3. CASE reload[r] /\ Exit(r, "ok") /\ sshd' = output
    <3>1. File!Reload(r)
      BY <1>6, <2>1, <2>3 DEF Reload, Exit, File!Reload, File!Running
    <3> QED BY <3>1 DEF File!Next
  <2>4. CASE reload[r] /\ Exit(r, "failed") /\ UNCHANGED sshd
    BY <1>6, <1>e, <2>1, <2>4 DEF Reload
  <2> QED BY <1>6, <2>2, <2>3, <2>4 DEF Reload, ExitCode
<1>7. CASE Terminate(r)
  BY <1>7, <1>e DEF Terminate
<1>8. CASE Kill(r)
  BY <1>8, <1>e DEF Kill
<1> QED BY <1>2, <1>3, <1>4, <1>5, <1>6, <1>7, <1>8 DEF Touches, Script

\* ssh-ca-sign-host-key.sh:255-364: with all its attempts, failures and deaths, a
\* set of runs is a set of single replacements of OUTPUT, each by a certificate
\* that OUTPUT has never held.
THEOREM FileImplemented == Spec => FileSpec
<1>1. Init => File!Init
  BY DEF Init, File!Init
<1>2. IInv /\ SignedApart /\ [Next]_vars => [File!Next]_File!vars
  <2> SUFFICES ASSUME IInv, SignedApart, [Next]_vars PROVE [File!Next]_File!vars
    OBVIOUS
  <2>1. CASE \E r \in Runs : Touches(r)
    BY <2>1, RunMaps
  <2>2. CASE UNCHANGED vars
    BY <2>2 DEF vars, File!vars
  <2> QED BY <2>1, <2>2 DEF Next, Touches
<1>3. Spec => []SignedApart
  BY SignedApartInductive, TypesHold, PTL DEF Spec
<1> QED BY <1>1, <1>2, <1>3, InvHolds, PTL DEF Spec, FileSpec, File!Spec

-----------------------------------------------------------------------------
(* Every run has only so many steps to take. *)

AttemptsLeft(r) == MaxAttempts - attempt[r]

\* An attempt is four steps; three more lead in and out of the loop.
StepsLeft(r) ==
    CASE pc[r] = "ended"    -> 0
      [] pc[r] = "reload"   -> 1
      [] pc[r] = "move"     -> 2
      [] pc[r] = "check"    -> 4 * AttemptsLeft(r) + 3
      [] pc[r] = "signed"   -> 4 * AttemptsLeft(r) + 4
      [] pc[r] = "ssh"      -> 4 * AttemptsLeft(r) + 5
      [] pc[r] = "loop"     -> 4 * AttemptsLeft(r) + 2
      [] pc[r] = "validate" -> 4 * AttemptsLeft(r) + 3

StepsNat == \A r \in Runs : StepsLeft(r) \in Nat

\* Some run comes closer to its end, and no other run is set back.
RunsAdvance ==
    \E r \in Runs : /\ StepsLeft(r)' < StepsLeft(r)
                    /\ \A q \in Runs \ {r} : StepsLeft(q)' = StepsLeft(q)

LEMMA StepsAreNat == TypeOK => StepsNat
<1> SUFFICES ASSUME TypeOK, NEW r \in Runs PROVE StepsLeft(r) \in Nat
  BY DEF StepsNat
<1>1. AttemptsLeft(r) \in Nat
  BY AttemptsNat DEF TypeOK, AttemptsLeft
<1>2. pc[r] \in {"validate", "loop", "ssh", "signed", "check", "move", "reload", "ended"}
  BY DEF TypeOK
<1> QED BY <1>1, <1>2 DEF StepsLeft

LEMMA StepsFall ==
    ASSUME TypeOK, NEW r \in Runs, Touches(r)
    PROVE  StepsLeft(r)' < StepsLeft(r)
<1>a. /\ AttemptsLeft(r) \in Nat /\ attempt[r] \in Nat /\ MaxAttempts \in Nat
      /\ AttemptsLeft(r) = MaxAttempts - attempt[r]
      /\ AttemptsLeft(r)' = MaxAttempts - attempt'[r]
  BY AttemptsNat DEF TypeOK, AttemptsLeft, MaxAttempts
<1>s. StepsLeft(r) \in Nat /\ (pc[r] # "ended" => StepsLeft(r) > 0)
  <2>1. pc[r] \in {"validate", "loop", "ssh", "signed", "check", "move", "reload", "ended"}
    BY DEF TypeOK
  <2> QED BY <2>1, <1>a DEF StepsLeft
<1> USE DEF TypeOK, Goto
<1>e. ASSUME pc[r] # "ended", pc'[r] = "ended" PROVE StepsLeft(r)' < StepsLeft(r)
  <2>1. StepsLeft(r)' = 0
    BY <1>e DEF StepsLeft
  <2> QED BY <1>e, <1>s, <2>1
<1>1. CASE Validate(r)
  <2>1. CASE Exit(r, "failed")
    BY <1>1, <1>e, <2>1 DEF Validate, Exit
  <2>2. CASE Goto(r, "loop")
    <3>1. StepsLeft(r) = 4 * AttemptsLeft(r) + 3 /\ AttemptsLeft(r)' = AttemptsLeft(r)
      BY <1>1, <1>a DEF Validate, StepsLeft
    <3>2. StepsLeft(r)' = 4 * AttemptsLeft(r)' + 2
      BY <2>2 DEF StepsLeft
    <3> QED BY <1>a, <3>1, <3>2
  <2> QED BY <1>1, <2>1, <2>2 DEF Validate
<1>2. CASE Connect(r)
  <2>1. CASE More(r) /\ attempt' = [attempt EXCEPT ![r] = Counted(r)] /\ Goto(r, "ssh")
    <3>1. AttemptsLeft(r)' = AttemptsLeft(r) - 1
      BY <1>a, <2>1 DEF Counted
    <3>2. StepsLeft(r)' = 4 * AttemptsLeft(r)' + 5
      BY <2>1 DEF StepsLeft
    <3>3. StepsLeft(r) = 4 * AttemptsLeft(r) + 2
      BY <1>2 DEF Connect, StepsLeft
    <3> QED BY <1>a, <3>1, <3>2, <3>3
  <2> QED BY <1>2, <1>e, <2>1 DEF Connect, Exit
<1>3. CASE Signed(r)
  <2>1. StepsLeft(r) = 4 * AttemptsLeft(r) + 5 /\ AttemptsLeft(r)' = AttemptsLeft(r)
    BY <1>3, <1>a DEF Signed, StepsLeft
  <2>2. StepsLeft(r)' = 4 * AttemptsLeft(r)' + 4
    BY <1>3 DEF Signed, StepsLeft
  <2> QED BY <1>a, <2>1, <2>2
<1>4. CASE Ssh(r)
  <2>1. /\ pc[r] \in {"ssh", "signed"} /\ pc'[r] = "check"
        /\ AttemptsLeft(r)' = AttemptsLeft(r)
    BY <1>4, <1>a DEF Ssh, SshFails, SshDelivers, Fetch
  <2>2. StepsLeft(r) >= 4 * AttemptsLeft(r) + 4
    BY <1>a, <2>1 DEF StepsLeft
  <2>3. StepsLeft(r)' = 4 * AttemptsLeft(r)' + 3
    BY <2>1 DEF StepsLeft
  <2> QED BY <1>a, <1>s, <2>1, <2>2, <2>3
<1>5. CASE Check(r)
  <2>1. StepsLeft(r) = 4 * AttemptsLeft(r) + 3 /\ AttemptsLeft(r)' = AttemptsLeft(r)
    BY <1>5, <1>a DEF Check, StepsLeft
  <2>2. CASE pc'[r] = "move"
    <3>1. StepsLeft(r)' = 2
      BY <2>2 DEF StepsLeft
    <3> QED BY <1>a, <2>1, <3>1
  <2>3. CASE pc'[r] = "loop"
    <3>1. StepsLeft(r)' = 4 * AttemptsLeft(r)' + 2
      BY <2>3 DEF StepsLeft
    <3> QED BY <1>a, <2>1, <3>1
  <2> QED BY <1>5, <1>e, <2>2, <2>3 DEF Check, Exit
<1>6. CASE Move(r)
  <2>1. CASE pc'[r] = "reload"
    <3>1. StepsLeft(r) = 2 /\ StepsLeft(r)' = 1
      BY <1>6, <2>1 DEF Move, StepsLeft
    <3> QED BY <3>1
  <2> QED BY <1>6, <1>e, <2>1 DEF Move, Exit
<1>7. CASE Reload(r)
  BY <1>7, <1>e DEF Reload, Exit
<1>8. CASE Terminate(r) \/ Kill(r)
  BY <1>8, <1>e DEF Terminate, Kill, Exit
<1> QED BY <1>1, <1>2, <1>3, <1>4, <1>5, <1>6, <1>7, <1>8 DEF Touches, Script

LEMMA OthersStay ==
    ASSUME TypeOK, NEW r \in Runs, Touches(r), NEW q \in Runs \ {r}
    PROVE  StepsLeft(q)' = StepsLeft(q)
<1>1. pc'[q] = pc[q] /\ attempt'[q] = attempt[q]
  BY RunsApart DEF Apart
<1> QED BY <1>1 DEF StepsLeft, AttemptsLeft

\* ssh-ca-sign-host-key.sh:257-330: whatever happens, a run of a script takes no
\* more than 4 * (RetryCount + 1) + 3 steps; a step of one run sets no other back.
\* What is left of RunEnds is that the shell and ssh do go on.
THEOREM RunsAreFinite == Spec => []StepsNat /\ [][RunsAdvance]_vars
<1>1. TypeOK /\ [Next]_vars => [RunsAdvance]_vars
  <2> SUFFICES ASSUME TypeOK, NEW r \in Runs, Touches(r) PROVE RunsAdvance
    BY DEF Next, Touches
  <2> QED BY StepsFall, OthersStay DEF RunsAdvance
<1> QED BY <1>1, StepsAreNat, TypesHold, PTL DEF Spec
=============================================================================
