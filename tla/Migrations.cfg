SPECIFICATION FairSpec
CONSTANTS
    old = old
    new1 = new1
    new2 = new2
    bare = bare
    Pods = {old, new1, new2, bare}
    Image <- MCImage
    Env <- MCEnv
    Unsigned = {new1}
    None = None
    Dead = Dead
    FaultKinds = {"sql", "connection", "lostCommit", "crash"}
    MaxFaults = 3
INVARIANTS AppliedInOrder ServedAfterMigrations NoConflict
PROPERTIES RolloutHolds EveryPodServes
CHECK_DEADLOCK FALSE
