SPECIFICATION Spec
CONSTANTS
  Dbs = {0, 1}
  Names = {"a", "b"}
  Clients = {"c1", "c2", "c3"}
  Second = 2
  MaxInt = 3
  SeqRange = 4
  MaxId = 99
  Loads <- MCLoads
  MaxLag = 1
  Skew = 1
  Restart = 9
  MaxTracked = 1
INVARIANT FollowersAgree
INVARIANT KeyspaceSound
 
INVARIANT WatchHonest
 
 
CHECK_DEADLOCK FALSE
