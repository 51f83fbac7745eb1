CONSTANTS
    Tasks = {t1}
    Strangers = {s1, x1}
    OtherUsers = {x1}
    StrangerFrames <- MCAnyFrame
    NoPeer = nobody
    MaxCounter = 2
    Backlog = 2
    Quota = 9
    MaxCaCrashes = 1
    MaxSshRestarts = 0
SPECIFICATION Spec
INVARIANTS StreamsConsistent OtherUsersNeverServed OnlySilenceBlocks
PROPERTIES AcceptedOnce ServiceSpec
CHECK_DEADLOCK FALSE
