\* Two tracks of a playlist, still to be fetched, and one that brings its file.
SYMMETRY RoomSymmetry
SPECIFICATION Spec
CONSTANTS
    Tracks = {t1, t2, t3}
    Lazy = {t2, t3}
    Timed = {t1}
    TrackLength = 1
    MaxQueue = 2
    Advances = {a1, a2}
    MaxFetches = 1
    MaxConnections = 1
    MaxLoop = 0
    NoTrack = NoTrack
PROPERTIES
    ImplementsPlaylist
    LeavesNoFile
\* A Room that was rebooted and has no timer or promise left is garbage.
CHECK_DEADLOCK FALSE
