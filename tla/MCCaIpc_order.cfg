CONSTANTS
    Tasks = {t1, t2}
    Strangers = {}
    OtherUsers = {}
    StrangerFrames <- MCNoToken
    NoPeer = nobody
    MaxCounter = 8
    Backlog = 2
    Quota = 4
    MaxCaCrashes = 0
    MaxSshRestarts = 0
SPECIFICATION Spec
INVARIANT HonestCallsServed
CHECK_DEADLOCK FALSE
