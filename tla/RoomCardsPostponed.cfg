SPECIFICATION CardsSpec
CONSTANTS
    Requests = {1, 2}
    Playlists = {}
    MaxCards = 3
    QueueLimit = 2
    MaxMoves = 1
INVARIANT PostponedStopsClaiming
CHECK_DEADLOCK FALSE
