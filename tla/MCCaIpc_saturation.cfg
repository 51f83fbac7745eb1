CONSTANTS
    Tasks = {t1}
    Strangers = {}
    OtherUsers = {}
    StrangerFrames <- MCNoToken
    NoPeer = nobody
    MaxCounter = 3
    Backlog = 1
    Quota = 9
    MaxCaCrashes = 0
    MaxSshRestarts = 0
SPECIFICATION Spec
PROPERTY CounterSaturates
CHECK_DEADLOCK FALSE
