---------------------------- MODULE CertService ----------------------------
(***************************************************************************)
(* What CaClient::send_request promises to a handler of the SSH server,    *)
(* with the socket, the counters and the CA process abstracted away.       *)
(*                                                                         *)
(* A call is issued, runs at most once in the CA, and returns: "ok" and    *)
(* "handler_error" only when the request was run, "refused" and            *)
(* "bad_format" only when it was not, "failed" (an Err) in either case.    *)
(* Nothing runs on behalf of a call that has returned.  A caller that dies *)
(* leaves a "lost" call, whose request the CA may still run.               *)
(***************************************************************************)
CONSTANT Callers        \* whoever may issue calls

VARIABLES
    call,               \* call[p]: "idle", "pending", "done" or "lost"
    executed,           \* executed[p]: the CA ran the request of p's last call
    result              \* result[p]: what p's last call returned, or "none"

vars == <<call, executed, result>>

States  == {"idle", "pending", "done", "lost"}
Results == {"none", "ok", "handler_error", "refused", "bad_format", "failed"}

Init ==
    /\ call     = [p \in Callers |-> "idle"]
    /\ executed = [p \in Callers |-> FALSE]
    /\ result   = [p \in Callers |-> "none"]

Issue(p) ==
    /\ call[p] # "pending"
    /\ call'     = [call EXCEPT ![p] = "pending"]
    /\ executed' = [executed EXCEPT ![p] = FALSE]
    /\ result'   = [result EXCEPT ![p] = "none"]

Execute(p) ==
    /\ call[p] \in {"pending", "lost"}
    /\ ~executed[p]
    /\ executed' = [executed EXCEPT ![p] = TRUE]
    /\ UNCHANGED <<call, result>>

Return(p, r) ==
    /\ call[p] = "pending"
    /\ r \in {"ok", "handler_error"} => executed[p]
    /\ r \in {"refused", "bad_format"} => ~executed[p]
    /\ call'   = [call EXCEPT ![p] = "done"]
    /\ result' = [result EXCEPT ![p] = r]
    /\ UNCHANGED executed

\* Some callers die at once: a process takes all its calls with it.
Lose(S) ==
    /\ \A p \in S : call[p] = "pending"
    /\ call' = [p \in Callers |-> IF p \in S THEN "lost" ELSE call[p]]
    /\ UNCHANGED <<executed, result>>

Next ==
    \/ \E p \in Callers : Issue(p) \/ Execute(p)
    \/ \E p \in Callers, r \in Results \ {"none"} : Return(p, r)
    \/ \E S \in SUBSET Callers : Lose(S)

Spec == Init /\ [][Next]_vars
=============================================================================
