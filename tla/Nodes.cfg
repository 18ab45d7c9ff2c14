SPECIFICATION NodesSpec
CONSTANTS
    Parts = {"replication", "sentinel", "cluster"}
    ra = ra
    rb = rb
    rc = rc
    NoOne = NoOne
    Instances = {ra, rb, rc}
    BacklogSize = 1
    Topologies <- MCTopologies
    s1 = s1
    s2 = s2
    s3 = s3
    sm = sm
    sx = sx
    sy = sy
    Nobody = Nobody
    Sentinels = {s1, s2, s3}
    Servers = {sm, sx, sy}
    Groups <- MCGroups
    Peers = {1, 2, 3, 4, 5}
    Plans <- MCPlans
INVARIANT StreamComplete
INVARIANT NothingLeftWaiting
INVARIANT WaitCountsHolders
INVARIANT OneMasterPerEpoch
 
INVARIANT QuietAgrees
 
PROPERTY FailoverLosesNothing
PROPERTY VotesStand
CHECK_DEADLOCK FALSE
