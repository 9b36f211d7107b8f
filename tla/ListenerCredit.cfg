\* Two users, of whom one may have two tabs open; a track of four units.  Three
\* listens of two members, who gain a level every other track.
SPECIFICATION ListeningSpec
CONSTANTS
    Users = {u1, u2}
    Half = 2
    MaxHeard = 3
    MaxTabs = 2
    MaxWaiting = 1
    Listens <- MCListens
    Members <- MCMembers
    Spelled <- MCSpelled
    Chats = {g}
    Lasts <- MCLasts
    History <- MCHistory
    LevelA = 0
    LevelB = 2
    MaxDays = 1
    MaxTroubles = 1
INVARIANTS
    WatchesTellTheTime
    CreditIsEarned
    FinishedIsCredited
    BooksAgree
    MilestonesOnce
    LevelFollows
PROPERTIES
    RankIsPlace
CHECK_DEADLOCK FALSE
