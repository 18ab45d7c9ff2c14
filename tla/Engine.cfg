SPECIFICATION EngineSpec
CONSTANTS
    Parts = {"pubsub", "persistence", "clients"}
    ch1 = ch1
    ch2 = ch2
    pat = pat
    Subscribers = {c1, c2}
    Channels = {ch1, ch2}
    Patterns = {pat}
    Matches <- MCMatches
    Slots = {1}
    SlotOf <- MCSlotOf
    Houses <- MCHouses
    Visits <- MCVisits
    BucketMin = 2
    BucketMax = 3
    ThreadRatio = 1
    LineMax = 8
    BigArg = 4
 
INVARIANT PublishReaches
INVARIANT ReloadsItsData
INVARIANT AckedIsDurable
INVARIANT ClientsAnswer
 
CHECK_DEADLOCK FALSE
