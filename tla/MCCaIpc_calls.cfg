CONSTANTS
    Tasks = {t1, t2}
    Strangers = {}
    OtherUsers = {}
    StrangerFrames <- MCNoToken
    NoPeer = nobody
    MaxCounter = 2
    Backlog = 1
    Quota = 3
    MaxCaCrashes = 1
    MaxSshRestarts = 1
SPECIFICATION FairSpec
INVARIANTS TypeOK RefusedOnlyIfOverlapped
PROPERTIES ServiceSpec EveryCallReturns
CHECK_DEADLOCK FALSE
