--------------------------- MODULE Configuration ---------------------------
(***************************************************************************)
(* The configuration file: how it is read and which paths it yields, from  *)
(* src/config/mod.rs and the config.rs of the CA and of the SSH server.    *)
(*                                                                         *)
(* A path is a directory and a name; the directory of a relative path is   *)
(* Relative.  The kernel resolves a relative path against the working      *)
(* directory, the program some of them against the directory of the file.  *)
(***************************************************************************)
CONSTANTS
    Names,         \* names of files
    ConfigDir,     \* where the configuration file is
    WorkDir,       \* the working directory of both processes
    Relative,      \* no directory
    Present,       \* the paths at which there is a file
    NoPath         \* an optional path that is not given

Dirs   == {ConfigDir, WorkDir}
Rooted == [dir : Dirs, name : Names]
Paths  == Rooted \cup [dir : {Relative}, name : Names]

ASSUME PathsAssumption ==
    Relative \notin Dirs /\ Present \subseteq Rooted /\ NoPath \notin Paths

CaPaths == {"ca_key", "user_list_file", "default_user_template", "host_inventory"}

\* Contents of the file; one that is no such TOML text does not parse.
Texts == [parses : BOOLEAN, ca : [CaPaths -> Paths], private_key : Paths,
          certificate : Paths \cup {NoPath}, user_authenticators : SUBSET {"pam", "other"}]

\* has_root
HasRoot(p) == p.dir # Relative

Under(dir, p) == IF HasRoot(p) THEN p ELSE [p EXCEPT !.dir = dir]

Exists(p) == Under(WorkDir, p) \in Present

\* Ca::insert_config_path.
InsertConfigPath(ca) == [f \in CaPaths |-> Under(ConfigDir, ca[f])]

\* Ca::check_paths looks at the key only.
CheckPaths(ca) == Exists(ca["ca_key"])

\* read_config: the paths of [ssh] stay as they are.
Readable(text) == text.parses /\ CheckPaths(InsertConfigPath(text.ca))
Read(text)     == [text EXCEPT !.ca = InsertConfigPath(@)]

\* setup_user_authenticators panics on an unknown name; an empty list is none.
KnownAuthenticators(config) == config.user_authenticators \subseteq {"pam"}

\* SshCaServer::run: load_secret_key and load_openssh_certificate.
KeysLoad(config) ==
    /\ Exists(config.private_key)
    /\ config.certificate # NoPath => Exists(config.certificate)
=============================================================================
