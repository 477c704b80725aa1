\* A pool of one trunk and its successor, with every fault of a connection, and workers that
\* are spawned before the first of them runs.
CONSTANTS
    Trunks = {t1, t2}
    Callers = {c1}
    Workers = {w1, w2}
    Nobody = Nobody
    MaxTrunks = 1
    Healthy = 7
    Young = 6
    Idle = 4
    IdleLong = 5
    PongStall = 3
    Loop = 1
    Lag = 0
    FirstLag = 0
    PongLag = 2
    StartTime = 8
    MaxTime = 15
    LinkFaults = {"silent", "broken", "blocked"}
SPECIFICATION Spec
INVARIANTS TypeOK Bounded AnsweringTrunkKept DeadTrunkLeaves
PROPERTY PoolRefilled
\* The clock stops at MaxTime.
CHECK_DEADLOCK FALSE
