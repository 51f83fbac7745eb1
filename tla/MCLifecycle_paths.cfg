CONSTANTS
    Names = {"ca_file", "host_key"}
    ConfigDir = "etc"
    WorkDir = "srv"
    Relative = "none"
    Present <- MCPresent
    NoPath = nopath
    Histories <- MCHistories
    Modes <- MCModes
    MaxPolls = 1
    MaxEdits = 1
    MaxServers = 2
    MaxCas = 2
    MaxKills = 2
SPECIFICATION Spec
INVARIANT HostKeyFromConfigDir
CHECK_DEADLOCK FALSE
