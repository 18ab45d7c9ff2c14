SPECIFICATION EngineSpec
CONSTANTS
    Parts = {"persistence"}
    ch1 = ch1
    ch2 = ch2
    pat = pat
    Subscribers = {c1, c2}
    Channels = {ch1, ch2}
    Patterns = {pat}
    Matches <- MCMatches
    Slots = {1}
    SlotOf <- MCSlotOf
    Houses <- MCHistory
    Visits <- MCVisits
    BucketMin = 2
    BucketMax = 3
    ThreadRatio = 1
    LineMax = 8
    BigArg = 4
INVARIANT HistoryIsHarmless
CHECK_DEADLOCK FALSE
