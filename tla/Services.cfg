SPECIFICATION ServicesSpec
CONSTANTS
    Pages <- MCPages
    Rooms <- MCRooms
    Users <- MCUsers
    RoomOf <- MCRoomOf
    UserOf <- MCUserOf
    MaxSockets = 3
    MaxEvents = 2
    Runs = {r1, r2}
    Tools = {t1}
    MaxTurns = 2
    MaxTools = 1
    Calls = {c1, c2}
    Streams = {c2}
    Keys = {k1, k2}
    MaxAttempts = 2
    MaxRetries = 1
    Brief = 1
    Hour = 3
    MaxClock = 3
    Commands = {b1, b2}
    Targets = {x1, x2}
    Groups = {x1}
INVARIANTS
    Accounted
    ActiveIsRunning
PROPERTIES
    StopHolds
    AnswerStays
    RevokedRests
    CatchesUp
    ChatQuiets
    CallsEnd
CHECK_DEADLOCK FALSE
