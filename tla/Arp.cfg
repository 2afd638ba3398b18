SPECIFICATION FairSpec
CONSTANTS
    i1 = i1
    i2 = i2
    m1 = m1
    m2 = m2
    us = us
    ourMac = ourMac
    broadcast = broadcast
    Ip <- MCIp
    Mac <- MCMac
    OurIp = us
    OurMac = ourMac
    Broadcast = broadcast
    CacheSize = 2
    MaxFrames = 3
    MaxResolves = 2
INVARIANTS TypeOK ResolveFindsFirst AnswersGoToAsker
PROPERTIES NothingMissed ResolveReturns
