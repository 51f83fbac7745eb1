------------------------------ MODULE CertFile ------------------------------
(***************************************************************************)
(* What the runs of a client script promise about the certificate file     *)
(* OUTPUT that they share, with ssh, its failures, the attempts and the    *)
(* temporary files abstracted away.                                        *)
(*                                                                         *)
(* A run replaces OUTPUT at most once, in one step, with the certificate   *)
(* signed last for it, which OUTPUT has never held before.  It reports     *)
(* "ok" only after that and, if it was to reload sshd, only after sshd has *)
(* read OUTPUT; without a reload it reports "failed" only when it has left *)
(* OUTPUT alone.                                                           *)
(***************************************************************************)
EXTENDS Naturals

CONSTANT Runs           \* runs of a script that share OUTPUT

VARIABLES
    reload,             \* the run is to reload sshd
    output, sshd,       \* the certificate in OUTPUT, the one sshd has read
    signed,             \* how many certificates were signed
    newest,             \* the last one signed for each run, or 0
    moved,              \* the one each run has put in place, or 0
    exit                \* how each run has ended, or "no"

vars == <<reload, output, sshd, signed, newest, moved, exit>>

Init ==
    /\ reload \in [Runs -> BOOLEAN]
    /\ output = 0 /\ sshd = 0 /\ signed = 0
    /\ newest = [r \in Runs |-> 0]
    /\ moved  = [r \in Runs |-> 0]
    /\ exit   = [r \in Runs |-> "no"]

Running(r) == exit[r] = "no"

Sign(r) ==
    /\ Running(r) /\ moved[r] = 0
    /\ signed' = signed + 1
    /\ newest' = [newest EXCEPT ![r] = signed']
    /\ UNCHANGED <<reload, output, sshd, moved, exit>>

Replace(r) ==
    /\ Running(r) /\ moved[r] = 0 /\ newest[r] # 0
    /\ \A q \in Runs : moved[q] # newest[r]
    /\ output' = newest[r]
    /\ moved'  = [moved EXCEPT ![r] = newest[r]]
    /\ UNCHANGED <<reload, sshd, signed, newest, exit>>

\* sshd reads OUTPUT, which another run may have replaced in the meantime.
Reload(r) ==
    /\ Running(r) /\ moved[r] # 0 /\ reload[r]
    /\ sshd' = output
    /\ exit' = [exit EXCEPT ![r] = "ok"]
    /\ UNCHANGED <<reload, output, signed, newest, moved>>

End(r, status) ==
    /\ Running(r)
    /\ status = "ok"     => moved[r] # 0 /\ ~reload[r]
    /\ status = "failed" => moved[r] = 0 \/ reload[r]
    /\ exit' = [exit EXCEPT ![r] = status]
    /\ UNCHANGED <<reload, output, sshd, signed, newest, moved>>

Next ==
    \E r \in Runs :
        \/ Sign(r) \/ Replace(r) \/ Reload(r)
        \/ \E status \in {"ok", "failed", "terminated", "killed"} : End(r, status)

Spec == Init /\ [][Next]_vars
=============================================================================
