CONSTANTS
    Runs = {timer, admin}
    RetryCount = 1
    timer = timer
    admin = admin
SPECIFICATION FairSpec
INVARIANTS TypeOK NewestInPlace ExitTellsTruth SshdCurrent NoLitter
PROPERTIES RunEnds FileSpec
CHECK_DEADLOCK FALSE
