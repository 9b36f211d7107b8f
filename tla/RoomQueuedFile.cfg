\* Two tracks that brought their file around one that a skip has to wait for.
\* A Room that was rebooted and has no timer or promise left is garbage.
CHECK_DEADLOCK FALSE
SPECIFICATION Spec
CONSTANTS
    Tracks = {t1,t2,t3}
    Lazy = {t3}
    Timed = {t1,t2}
    TrackLength = 1
    MaxQueue = 2
    Advances = {a1, a2}
    MaxFetches = 1
    MaxConnections = 1
    MaxLoop = 0
    NoTrack = NoTrack
INVARIANTS
    QueuedFileIsKept
