\* A tapped recommendation, and a track that brought its file.
\* A Room that was rebooted and has no timer or promise left is garbage.
CHECK_DEADLOCK FALSE
SPECIFICATION Spec
CONSTANTS
    Tracks = {t1,t2}
    Lazy = {t2}
    Timed = {t1,t2}
    TrackLength = 1
    MaxQueue = 2
    Advances = {a1, a2}
    MaxFetches = 1
    MaxConnections = 1
    MaxLoop = 0
    NoTrack = NoTrack
INVARIANTS
    MediaIsThere
