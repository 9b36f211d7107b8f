SPECIFICATION Spec
CONSTANTS
    Tracks = {t1, t2, t3}
    Lazy = {}
    Timed = {t1, t2}
    TrackLength = 2
    MaxQueue = 2
    Advances = {a1, a2}
    MaxFetches = 1
    MaxConnections = 1
    MaxLoop = 1
    NoTrack = NoTrack
INVARIANTS
    OnePlace
    TimerMeetsTheEnd
    NeverStuck
    PauseKeepsItsCause
    MediaIsThere
    NoStrayFile
\* A Room that was rebooted and has no timer or promise left is garbage.
CHECK_DEADLOCK FALSE
