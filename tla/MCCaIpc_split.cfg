CONSTANTS
    Tasks = {t1}
    Strangers = {}
    OtherUsers = {t1}
    StrangerFrames <- MCNoToken
    NoPeer = nobody
    MaxCounter = 8
    Backlog = 2
    Quota = 4
    MaxCaCrashes = 0
    MaxSshRestarts = 0
SPECIFICATION Spec
PROPERTY SeparateUsersServed
CHECK_DEADLOCK FALSE
