---------------------------- MODULE ClientScript ----------------------------
(***************************************************************************)
(* ssh-ca-sign-host-key.sh and ssh-ca-sign-user-key.sh: runs of the client *)
(* scripts that write one and the same OUTPUT, as a timer and an           *)
(* administrator may start them at the same time.                          *)
(*                                                                         *)
(* A run fetches a certificate into a temporary file beside OUTPUT, tries  *)
(* again a bounded number of times, moves the file over OUTPUT and, if it  *)
(* was told to, lets sshd read it.  ssh is started without a timeout; what *)
(* it brings back is up to the network and to the server, which may have   *)
(* signed a certificate that never arrives.  Runs can be killed anywhere.  *)
(***************************************************************************)
EXTENDS Naturals

CONSTANTS
    Runs,          \* runs of a script that share OUTPUT
    RetryCount     \* --retry

MaxAttempts == RetryCount + 1

ASSUME RetryAssumption == RetryCount \in Nat

VARIABLES
    reload,        \* RELOAD: the run was started with --reload
    pc,            \* where each run is
    attempt,       \* its local variable attempt
    tmpfile,       \* contents of its temporary file
    code,          \* exit_code of its last ssh
    output,        \* the certificate in OUTPUT; 0 is the one from before
    sshd,          \* the certificate sshd has read
    (* History. *)
    signed,        \* certificates signed so far; they are numbered
    newest,        \* the last one signed for each run
    moved,         \* the certificate each run has moved over OUTPUT, or 0
    exit           \* how each run has ended, or "no"

vars == <<reload, pc, attempt, tmpfile, code, output, sshd, signed, newest, moved, exit>>


\* "partial": a certificate cut short; "text": anything else.
Kinds    == {"absent", "empty", "partial", "text", "cert"}
Contents == [kind : Kinds, cert : Nat]
Plain(k) == [kind |-> k, cert |-> 0]
Cert(n)  == [kind |-> "cert", cert |-> n]

Init ==
    /\ reload \in [Runs -> BOOLEAN]
    /\ pc      = [r \in Runs |-> "validate"]
    /\ attempt = [r \in Runs |-> 0]
    /\ tmpfile = [r \in Runs |-> Plain("absent")]
    /\ code    = [r \in Runs |-> 0]
    /\ output = 0 /\ sshd = 0 /\ signed = 0
    /\ newest  = [r \in Runs |-> 0]
    /\ moved   = [r \in Runs |-> 0]
    /\ exit    = [r \in Runs |-> "no"]

-----------------------------------------------------------------------------
Goto(r, step)    == pc' = [pc EXCEPT ![r] = step]
Exit(r, status)  == Goto(r, "ended") /\ exit' = [exit EXCEPT ![r] = status]

\* Seeded fault: the trap and the rm before exit are left out.
KeepTmpfile(r)   == tmpfile' = [tmpfile EXCEPT ![r] = @]

RemoveTmpfile(r) == tmpfile' = [tmpfile EXCEPT ![r] = Plain("absent")]

\* The arguments, the key file and the like; then mktemp and the trap.
Validate(r) ==
    /\ pc[r] = "validate"
    /\ \/ Exit(r, "failed") /\ UNCHANGED tmpfile
       \/ /\ Goto(r, "loop")
          /\ tmpfile' = [tmpfile EXCEPT ![r] = Plain("empty")]
          /\ UNCHANGED exit
    /\ UNCHANGED <<reload, attempt, code, output, sshd, signed, newest, moved>>

\* Seeded faults: one attempt too many; an attempt is not counted.
MoreOrOne(r)    == attempt[r] <= MaxAttempts
NotCounted(r)   == attempt[r]

More(r)    == attempt[r] < MaxAttempts
Counted(r) == attempt[r] + 1

\* The head of the loop, with the pause before a retry, up to ssh.
Connect(r) ==
    /\ pc[r] = "loop"
    /\ \/ /\ More(r)
          /\ attempt' = [attempt EXCEPT ![r] = Counted(r)]
          /\ Goto(r, "ssh")
          /\ UNCHANGED <<tmpfile, exit>>
       \/ /\ ~More(r)
          /\ Exit(r, "failed") /\ RemoveTmpfile(r)
          /\ UNCHANGED attempt
    /\ UNCHANGED <<reload, code, output, sshd, signed, newest, moved>>

\* The server signs a certificate for this ssh.
Signed(r) ==
    /\ pc[r] = "ssh"
    /\ Goto(r, "signed")
    /\ signed' = signed + 1
    /\ newest' = [newest EXCEPT ![r] = signed + 1]
    /\ UNCHANGED <<reload, attempt, tmpfile, code, output, sshd, moved, exit>>

\* Seeded fault: what an attempt fetches is added behind what is there.
Behind(old, found) == IF old.kind = "empty" THEN found ELSE old

\* The redirection of ssh empties the file first.
Redirected(old, found) == found

\* ssh ends, with a code.
Fetch(r, found, c) ==
    /\ tmpfile' = [tmpfile EXCEPT ![r] = Redirected(tmpfile[r], found)]
    /\ code'    = [code EXCEPT ![r] = c]
    /\ Goto(r, "check")
    /\ UNCHANGED <<reload, attempt, output, sshd, signed, newest, moved, exit>>

\* Refused or disconnected: nothing, or an error text; the certificate that was
\* signed may be lost, also half way, and then ssh knows.
SshFails(r) ==
    \/ pc[r] \in {"ssh", "signed"} /\ \E c \in {0, 255} : Fetch(r, Plain("empty"), c)
    \/ pc[r] = "ssh"    /\ \E c \in {0, 255} : Fetch(r, Plain("text"), c)
    \/ pc[r] = "signed" /\ Fetch(r, Plain("partial"), 255)

\* The connection may still break before the exit status arrives.
SshDelivers(r) ==
    /\ pc[r] = "signed"
    /\ \E c \in {0, 255} : Fetch(r, Cert(newest[r]), c)

\* Seeded fault: what ssh brought is not looked at.
AnyAcceptable(r) == code[r] = 0

\* The file is not empty and begins like a certificate.
Acceptable(r) == code[r] = 0 /\ tmpfile[r].kind \in {"partial", "cert"}

\* An answer that will not do is an error after the last attempt; a failed ssh
\* goes back to the head of the loop in any case.
Check(r) ==
    /\ pc[r] = "check"
    /\ \/ /\ Acceptable(r)
          /\ Goto(r, "move")
          /\ UNCHANGED <<tmpfile, exit>>
       \/ /\ ~Acceptable(r) /\ (More(r) \/ code[r] # 0)
          /\ Goto(r, "loop")
          /\ UNCHANGED <<tmpfile, exit>>
       \/ /\ ~Acceptable(r) /\ ~More(r) /\ code[r] = 0
          /\ RemoveTmpfile(r)
          /\ Exit(r, "failed")
    /\ UNCHANGED <<reload, attempt, code, output, sshd, signed, newest, moved>>

\* mv -f, atomic on one file system.  If it fails, set -e ends the script: the
\* EXIT trap runs, but outside the function, where its local tmpfile is unbound,
\* so that the trap fails too and removes nothing.
Move(r) ==
    /\ pc[r] = "move"
    /\ \/ /\ output' = tmpfile[r].cert
          /\ moved'  = [moved EXCEPT ![r] = tmpfile[r].cert]
          /\ RemoveTmpfile(r)
          /\ Goto(r, "reload")
          /\ UNCHANGED exit
       \/ Exit(r, "failed") /\ UNCHANGED <<output, moved, tmpfile>>
    /\ UNCHANGED <<reload, attempt, code, sshd, signed, newest>>

\* Seeded fault: a failed reload is not reported.
AlwaysOk(reloaded) == "ok"

ExitCode(reloaded) == IF reloaded THEN "ok" ELSE "failed"

\* reload_sshd, for runs that were told to.
Reload(r) ==
    /\ pc[r] = "reload"
    /\ \/ ~reload[r] /\ Exit(r, "ok") /\ UNCHANGED sshd
       \/ reload[r] /\ Exit(r, ExitCode(TRUE)) /\ sshd' = output
       \/ reload[r] /\ Exit(r, ExitCode(FALSE)) /\ UNCHANGED sshd
    /\ UNCHANGED <<reload, attempt, tmpfile, code, output, signed, newest, moved>>

\* A signal upon which the shell runs its trap, inside the function.
Terminate(r) ==
    /\ pc[r] # "ended"
    /\ RemoveTmpfile(r)
    /\ Exit(r, "terminated")
    /\ UNCHANGED <<reload, attempt, code, output, sshd, signed, newest, moved>>

\* One that it does not.
Kill(r) ==
    /\ pc[r] # "ended"
    /\ Exit(r, "killed")
    /\ UNCHANGED <<reload, attempt, tmpfile, code, output, sshd, signed, newest, moved>>

-----------------------------------------------------------------------------
Script(r) == Validate(r) \/ Connect(r) \/ Check(r) \/ Move(r) \/ Reload(r)
Ssh(r)    == SshFails(r) \/ SshDelivers(r)

Next == \E r \in Runs : Script(r) \/ Ssh(r) \/ Signed(r) \/ Terminate(r) \/ Kill(r)

Spec == Init /\ [][Next]_vars

\* The shell goes on, and every ssh ends: the server drops idle connections
\* (inactivity_timeout), and nothing else bounds ssh.
FairSpec == Spec /\ \A r \in Runs : WF_vars(Script(r)) /\ WF_vars(Ssh(r))

-----------------------------------------------------------------------------
TypeOK ==
    /\ reload \in [Runs -> BOOLEAN]
    /\ pc \in [Runs -> {"validate", "loop", "ssh", "signed", "check", "move", "reload",
                        "ended"}]
    /\ attempt \in [Runs -> 0 .. MaxAttempts]
    /\ tmpfile \in [Runs -> Contents]
    /\ code \in [Runs -> {0, 255}]
    /\ {output, sshd, signed} \subseteq Nat
    /\ newest \in [Runs -> Nat] /\ moved \in [Runs -> Nat]
    /\ exit \in [Runs -> {"no", "ok", "failed", "terminated", "killed"}]

\* ssh-ca-sign-host-key.sh:278-312.  What a run puts in place is the certificate
\* signed last for this very run: not one that an earlier attempt lost, not an
\* error text, and OUTPUT holds nothing but what some run has put there whole.
NewestInPlace ==
    /\ \A r \in Runs : moved[r] # 0 => moved[r] = newest[r]
    /\ output # 0 => \E r \in Runs : moved[r] = output

\* ssh-ca-sign-host-key.sh:278-360.  Exit code 0 says that the run has put a
\* certificate in place; a run that fails without having asked for a reload has
\* left OUTPUT alone.
ExitTellsTruth ==
    \A r \in Runs :
        /\ exit[r] = "ok" => moved[r] # 0
        /\ exit[r] = "failed" /\ ~reload[r] => moved[r] = 0

\* ssh-ca-sign-host-key.sh:337-360.  When every run that replaced OUTPUT has
\* reloaded sshd and exited with 0, sshd uses what is in OUTPUT, however the
\* moves and reloads of several runs interleaved.
SshdCurrent ==
    (\A r \in Runs : moved[r] # 0 => exit[r] = "ok" /\ reload[r]) => sshd = output

\* ssh-ca-sign-host-key.sh:258, "Ensure tmpfile is cleaned up on failure": a run
\* that was not killed outright leaves no temporary file behind, except for a
\* certificate that it could not move over OUTPUT.
NoLitter ==
    \A r \in Runs : exit[r] \in {"ok", "failed", "terminated"} =>
        \/ tmpfile[r].kind = "absent"
        \/ exit[r] = "failed" /\ tmpfile[r] = Cert(newest[r]) /\ moved[r] = 0

\* ssh-ca-sign-host-key.sh:255-364.  Whatever ssh brings and wherever a run is
\* killed, the runs change OUTPUT, sshd and their exit codes as CertFile says:
\* each replaces OUTPUT once, whole, and with a certificate it never held.
File == INSTANCE CertFile
FileSpec == File!Spec

\* ssh-ca-sign-host-key.sh:257-330.  A run ends, after RetryCount + 1 attempts at
\* the latest.
RunEnds == \A r \in Runs : <>(pc[r] = "ended")
=============================================================================
