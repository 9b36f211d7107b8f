\* Five call sites on the two slots of mtprotoGate.ts: up to three parked,
\* so that order among the parked and a return to the queue both happen.
\* Fetches that meet have one slot, so that they wait for each other.
SPECIFICATION GateAndFilesSpec
CONSTANTS
    Transfers = {t1, t2, t3, t4, t5}
    MaxConcurrent = 2
    Fetches <- MCFetches
    Preloads <- MCPreloads
    Replies <- MCReplies
    Splits <- MCSplits
    Playlists <- MCPlaylists
    TrackOf <- MCTrackOf
    Attempts = 2
    Slots = 1
    Clip = clip
    NextClip = nextclip
    Song = song
    Reply = reply
    Pick = pick
    NextPick = nextpick
INVARIANTS
    NoIdleSlot
    FilesFollowOwners
    NoAttemptOnceCanceled
PROPERTIES
    StartsInOrder
    ParkedGetsIn
    ImplementsPermitPool
    FetchesEnd
CHECK_DEADLOCK FALSE
