CONSTANTS
    MaxConns = 2
    Logins = {evil}
    BadLogins = {evil}
    Root = root
    SystemLogins = {}
    Hosts = {h1, h2}
    BadHosts = {h2}
    Keys = {k1, k2}
    NotAKey = garbage
    GlobOrder <- MCGlobOrder
    EntryPaths <- MCEntryPaths
    Links <- MCTopPaths
    Nameless <- MCTopPaths
    NoKey = nokey
    Nobody = nobody
    MaxAttempts = 1
    Workers = 1
    MaxEdits = 1
    MaxCrashes = 1
    MaxUsed = 1
    MaxClock = 1
    h1 = h1
    h2 = h2
SYMMETRY MCKeySymmetry
SPECIFICATION CaSpec
PROPERTIES TurnedDownForCause SessionSpec HostCertsEarned LoginsFollowFiles
CHECK_DEADLOCK FALSE
