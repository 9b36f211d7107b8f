SPECIFICATION FacesSpec
CONSTANTS
    Pages <- MCPages
    Rooms <- MCRooms
    Users <- MCUsers
    RoomOf <- MCRoomOf
    UserOf <- MCUserOf
    MaxSockets = 2
    MaxEvents = 2
    Requests = {1, 2}
    Playlists = {2}
    MaxCards = 3
    QueueLimit = 2
    MaxMoves = 2
    EndOfTime = 3
    MaxJumps = 2
    SeekTo = 2
INVARIANTS
    OneRoomPerUser
    RosterIsSockets
    ControlsInOrder
    PresenceAgrees
    CardsMoveOn
    ButtonAgrees
    PictureWaitsForSound
    SilenceHasAWayOut
PROPERTIES
    NoChase
CHECK_DEADLOCK FALSE
