CONSTANTS
    MaxConns = 2
    Logins = {daemon}
    BadLogins = {}
    Root = root
    SystemLogins = {daemon}
    Hosts = {h1, h2}
    BadHosts = {}
    Keys = {k1}
    NotAKey = garbage
    GlobOrder <- MCTopOrder
    EntryPaths <- MCTopPaths
    Links = {}
    Nameless = {}
    NoKey = nokey
    Nobody = nobody
    MaxAttempts = 2
    Workers = 1
    MaxEdits = 0
    MaxCrashes = 1
    MaxUsed = 0
    MaxClock = 0
    h1 = h1
    h2 = h2
SPECIFICATION CaFairSpec
INVARIANTS TypeOK UserCertsEarned OneIdentity ClientsTracked
PROPERTIES CallsEnd ClientsForgotten
CHECK_DEADLOCK FALSE
