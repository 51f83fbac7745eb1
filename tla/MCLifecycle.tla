---------------------------- MODULE MCLifecycle ----------------------------
(***************************************************************************)
(* Instances of Lifecycle for TLC.                                         *)
(***************************************************************************)
EXTENDS Lifecycle

Mode(e, f, g) == [embedded |-> e, fixed |-> f, given |-> g]

\* An embedded CA on fresh paths, with and without --token-file; one on a fixed
\* path; a CA that the operator starts beside the server.
MCModes == {Mode(TRUE, FALSE, FALSE), Mode(TRUE, FALSE, TRUE), Mode(TRUE, TRUE, FALSE),
            Mode(FALSE, TRUE, TRUE)}

\* The files of the CA lie beside the configuration file, a host key lies there
\* and another one in the working directory.
MCPresent == [dir : {ConfigDir}, name : Names] \cup [dir : {WorkDir}, name : {"host_key"}]

In(d, n) == [dir |-> d, name |-> n]
Plain(d) == [parses |-> TRUE, ca |-> [f \in CaPaths |-> In(d, "ca_file")],
             private_key |-> In(d, "host_key"), certificate |-> NoPath,
             user_authenticators |-> {"pam"}]

\* Edits that make the file better or worse: an unknown authenticator; relative
\* paths, then no TOML text; a CA key that is missing, then a certificate.
MCHistories ==
    LET good == Plain(ConfigDir)
        H(first, second) == [e \in 0 .. MaxEdits |-> IF e = 0 THEN first ELSE second]
    IN {H(good, [good EXCEPT !.user_authenticators = {"pam", "other"}]),
        H(Plain(Relative), [good EXCEPT !.parses = FALSE]),
        H([good EXCEPT !.ca["ca_key"] = In(WorkDir, "ca_file")],
          [good EXCEPT !.certificate = In(WorkDir, "ca_file")])}
=============================================================================
