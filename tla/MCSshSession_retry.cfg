CONSTANTS
    MaxConns = 1
    Logins = {alice, h1}
    BadLogins = {}
    SystemLogins = {}
    Hosts = {h1, h2}
    BadHosts = {}
    Keys = {k1}
    NotAKey = garbage
    EntryPaths <- MCEntryPaths
    Links = {}
    NoKey = nokey
    Nobody = nobody
    MaxAttempts = 3
    Root = root
    Workers = 1
    MaxEdits = 0
    h1 = h1
    h2 = h2
SPECIFICATION Spec
INVARIANT WrongPasswordLeavesRetry
CHECK_DEADLOCK FALSE
