------------------------------ MODULE Ranking -------------------------------
(***************************************************************************)
(* What listening adds up to: recordTrackListen() of lib/ranking.ts, which *)
(* RoomManager calls for each listener it credits, /resetrank, and the     *)
(* rank that /rank and the leaderboards tell somebody.                     *)
(*                                                                         *)
(* Three collections tell of the same listens: one row per chat, member    *)
(* and day, one per chat and member, one per user.  Each write is atomic,  *)
(* nothing ties them together, and several listens of one user may be on   *)
(* their way.  A bot that is killed leaves what a failed write leaves.     *)
(***************************************************************************)
EXTENDS Integers, FiniteSets, Functions

CONSTANTS
    Listens,    \* credits of checkAndCreditListeners(), numbered as they are given
    Members,    \* user ids, numbers
    Spelled,    \* where an id stands when ids are compared as strings
    Chats,
    Lasts,      \* per listen: the seconds heard
    History,    \* per member: tracks in the first chat, on days long past
    LevelA, LevelB,   \* A and B of leveling.ts
    MaxDays,    \* bound: midnights
    MaxTroubles \* bound: failed writes, resets, midnights and looks

ASSUME RankingAssumption ==
    /\ Listens \subseteq Nat
    /\ Members \subseteq Nat /\ IsFiniteSet(Members) /\ IsFiniteSet(Chats) /\ Chats # {}
    /\ Spelled \in [Members -> Nat] /\ Lasts \in [Listens -> Nat] /\ History \in [Members -> Nat]
    /\ \A m, o \in Members : Spelled[m] = Spelled[o] => m = o
    /\ LevelA \in Nat /\ LevelB \in Nat \ {0} /\ MaxDays \in Nat /\ MaxTroubles \in Nat

Everywhere == "everywhere"
NoOne == -1

VARIABLES
    today,      \* the UTC day
    bucket,     \* listen_stats: tracks and seconds per day, chat and member
    tally,      \* member_listen_stats: per chat and member
    user,       \* users: per member, and the level; -1 where there is none
    listen,     \* recordTrackListen() and what follows it, per listen
    reset,      \* the parts of resetAllRanking() under way; how often the users' came through
    look,       \* somebody's rank is being looked up
    troubles,
    \* what the code does not record
    raced,      \* members of whom a listen and a reset were under way together, or half a reset failed
    overtaken   \* members whose stored level is of a listen that others have overtaken

rankVars == <<today, bucket, tally, user, listen, reset, look, troubles, raced, overtaken>>

-----------------------------------------------------------------------------
(* Levels, leveling.ts.                                                    *)

XpForLevel(level) == LevelA * level * level + LevelB * level

\* The highest level that xp pays for.
LevelFromXp(xp) == CHOOSE l \in 0..xp : XpForLevel(l) <= xp /\ xp < XpForLevel(l + 1)

ShouldNotifyLevel(level) == level > 0 /\ (level <= 5 \/ level % 5 = 0)

\* A slip: the level before counts as new.
MilestoneAgain(before, after) ==
    LET worth == {l \in before..after : ShouldNotifyLevel(l)}
    IN  IF worth = {} THEN 0 ELSE CHOOSE l \in worth : \A o \in worth : o <= l

\* getNotifiableMilestone(): the highest new level that is announced, or 0.
Milestone(before, after) ==
    LET worth == {l \in (before + 1)..after : ShouldNotifyLevel(l)}
    IN  IF worth = {} THEN 0 ELSE CHOOSE l \in worth : \A o \in worth : o <= l

-----------------------------------------------------------------------------

Nothing == [tracks |-> 0, seconds |-> 0]
Plus(row, seconds) == [row EXCEPT !.tracks = @ + 1, !.seconds = @ + seconds]

HomeChat == CHOOSE c \in Chats : TRUE
Past(m) == [tracks |-> History[m], seconds |-> History[m]]

\* Nobody looks up a rank; the last one was told this.
Told(rank) == [pc |-> "told", period |-> "overall", scope |-> Everywhere, who |-> NoOne,
               mine |-> Nothing, rank |-> rank]

RankInit ==
    /\ today = 0
    /\ bucket = [d \in 0..MaxDays |-> [c \in Chats |-> [m \in Members |-> Nothing]]]
    /\ tally = [c \in Chats |-> [m \in Members |-> IF c = HomeChat THEN Past(m) ELSE Nothing]]
    /\ user = [m \in Members |->
                [tracks |-> History[m], seconds |-> History[m],
                 level |-> IF History[m] = 0 THEN -1 ELSE LevelFromXp(History[m])]]
    /\ listen = [l \in Listens |->
                  [pc |-> "unheard", who |-> NoOne, chat |-> HomeChat, day |-> 0, todo |-> {},
                   total |-> 0, era |-> 0]]
    /\ reset = [todo |-> {}, era |-> 0]
    /\ look = Told(0)
    /\ troubles = 0 /\ raced = {} /\ overtaken = {}

Trouble == troubles < MaxTroubles /\ troubles' = troubles + 1
Listening(l, x) == listen' = [listen EXCEPT ![l] = x]

ListensOf(m) == {l \in Listens : listen[l].who = m}
UnderWay(l) == listen[l].todo # {} \/ listen[l].pc \in {"counting", "leveling", "telling"}

(* recordTrackListen()                                                     *)

\* A listener is credited: both first writes are sent.
Credited(l) ==
    /\ listen[l].pc = "unheard" /\ \A k \in Listens : k < l => listen[k].pc # "unheard"
    /\ \E m \in Members, c \in Chats :
        /\ Listening(l, [listen[l] EXCEPT !.pc = "writing", !.who = m, !.chat = c, !.day = today,
                                          !.todo = {"bucket", "tally"}])
        /\ raced' = IF reset.todo # {} THEN raced \cup {m} ELSE raced
    /\ UNCHANGED <<today, bucket, tally, user, reset, look, troubles, overtaken>>

\* One of the two came through, also after the other has failed.
Wrote(l, what) ==
    [listen[l] EXCEPT !.todo = @ \ {what},
                      !.pc = IF @ = "writing" /\ listen[l].todo = {what} THEN "counting" ELSE @]

BucketLands(l) ==
    /\ "bucket" \in listen[l].todo
    /\ Listening(l, Wrote(l, "bucket"))
    /\ bucket' = [bucket EXCEPT ![listen[l].day][listen[l].chat][listen[l].who] = Plus(@, Lasts[l])]
    /\ UNCHANGED <<today, tally, user, reset, look, troubles, raced, overtaken>>

TallyLands(l) ==
    /\ "tally" \in listen[l].todo
    /\ Listening(l, Wrote(l, "tally"))
    /\ tally' = [tally EXCEPT ![listen[l].chat][listen[l].who] = Plus(@, Lasts[l])]
    /\ UNCHANGED <<today, bucket, user, reset, look, troubles, raced, overtaken>>

\* A slip: Promise.allSettled().
WriteFailsQuietly(l) ==
    /\ Trouble
    /\ \E what \in listen[l].todo : Listening(l, Wrote(l, what))
    /\ UNCHANGED <<today, bucket, tally, user, reset, look, raced, overtaken>>

\* It did not, and Promise.all() throws: the user's row is never reached.
WriteFails(l) ==
    /\ Trouble
    /\ \E what \in listen[l].todo :
        Listening(l, [listen[l] EXCEPT !.todo = @ \ {what}, !.pc = "failed"])
    /\ UNCHANGED <<today, bucket, tally, user, reset, look, raced, overtaken>>

\* What the count that findOneAndUpdate() hands back is worth.
LevelOf(l) == LevelFromXp(listen[l].total)
MilestoneOf(l) == Milestone(LevelFromXp(listen[l].total - 1), LevelOf(l))

\* A slip: the level is stored by the listen that reaches it only.
CountsOnReaching(l) ==
    /\ listen[l].pc = "counting"
    /\ LET m == listen[l].who
           row == Plus(user[m], Lasts[l])
       IN  /\ user' = [user EXCEPT ![m] = row]
           /\ Listening(l, [listen[l] EXCEPT
                  !.pc = IF LevelFromXp(row.tracks - 1) # LevelFromXp(row.tracks) THEN "leveling" ELSE "telling",
                  !.total = row.tracks, !.era = reset.era])
    /\ UNCHANGED <<today, bucket, tally, reset, look, troubles, raced, overtaken>>

\* findOneAndUpdate() of the user's row.
Counts(l) ==
    /\ listen[l].pc = "counting"
    /\ LET m == listen[l].who
           row == Plus(user[m], Lasts[l])
       IN  /\ user' = [user EXCEPT ![m] = row]
           /\ Listening(l, [listen[l] EXCEPT
                  !.pc = IF row.level # LevelFromXp(row.tracks) THEN "leveling" ELSE "telling",
                  !.total = row.tracks, !.era = reset.era])
    /\ UNCHANGED <<today, bucket, tally, reset, look, troubles, raced, overtaken>>

\* The new level is stored.
Levels(l) ==
    /\ listen[l].pc = "leveling"
    /\ LET m == listen[l].who
       IN  /\ user' = [user EXCEPT ![m].level = LevelOf(l)]
           /\ overtaken' = IF LevelOf(l) = LevelFromXp(user[m].tracks) THEN overtaken \ {m}
                           ELSE overtaken \cup {m}
    /\ Listening(l, [listen[l] EXCEPT !.pc = "telling"])
    /\ UNCHANGED <<today, bucket, tally, reset, look, troubles, raced>>

\* Either write of the user's row fails: nobody is told of a level.
CountFails(l) ==
    /\ listen[l].pc \in {"counting", "leveling"} /\ Trouble
    /\ Listening(l, [listen[l] EXCEPT !.pc = "failed"])
    /\ UNCHANGED <<today, bucket, tally, user, reset, look, raced, overtaken>>

\* notifyLevelUp() tells of MilestoneOf(l), if it is one; a message that is refused is not sent again.
Tells(l) ==
    /\ listen[l].pc = "telling"
    /\ Listening(l, [listen[l] EXCEPT !.pc = "done"])
    /\ UNCHANGED <<today, bucket, tally, user, reset, look, troubles, raced, overtaken>>

(* resetAllRanking()                                                       *)

\* /resetrank sends its writes side by side.
Resets ==
    /\ reset.todo = {} /\ Trouble
    /\ reset' = [reset EXCEPT !.todo = {"buckets", "tallies", "users"}]
    /\ raced' = raced \cup {listen[l].who : l \in {k \in Listens : UnderWay(k)}}
    /\ UNCHANGED <<today, bucket, tally, user, listen, look, overtaken>>

\* Rows go one by one, but what is claimed of a member speaks of that member's alone.
ResetLands(what) ==
    /\ what \in reset.todo
    /\ reset' = [todo |-> reset.todo \ {what},
                 era |-> IF what = "users" THEN reset.era + 1 ELSE reset.era]
    /\ bucket' = IF what = "buckets" THEN [d \in 0..MaxDays |-> [c \in Chats |-> [m \in Members |-> Nothing]]]
                 ELSE bucket
    /\ tally' = IF what = "tallies" THEN [c \in Chats |-> [m \in Members |-> Nothing]] ELSE tally
    /\ user' = IF what = "users" THEN [m \in Members |-> [tracks |-> 0, seconds |-> 0, level |-> -1]] ELSE user
    /\ UNCHANGED <<today, listen, look, troubles, raced, overtaken>>

ResetFails ==
    /\ Trouble
    /\ \E what \in reset.todo : reset' = [reset EXCEPT !.todo = @ \ {what}]
    /\ raced' = Members
    /\ UNCHANGED <<today, bucket, tally, user, listen, look, overtaken>>

Midnight ==
    /\ today < MaxDays /\ Trouble
    /\ today' = today + 1
    /\ UNCHANGED <<bucket, tally, user, listen, reset, look, raced, overtaken>>

-----------------------------------------------------------------------------
(* Ranks.  A week and a month are periods like today that began earlier.   *)

Days(period) == IF period = "today" THEN {today} ELSE 0..MaxDays
ChatsIn(scope) == IF scope = Everywhere THEN Chats ELSE {scope}

Summed(rows) ==
    [tracks |-> SumFunction([k \in DOMAIN rows |-> rows[k].tracks]),
     seconds |-> SumFunction([k \in DOMAIN rows |-> rows[k].seconds])]

\* The row, or the group of rows, that a board shows of a member.
Score(period, scope, m) ==
    IF period = "overall"
    THEN IF scope = Everywhere THEN [tracks |-> user[m].tracks, seconds |-> user[m].seconds]
         ELSE tally[scope][m]
    ELSE Summed([dc \in Days(period) \X ChatsIn(scope) |-> bucket[dc[1]][dc[2]][m]])

\* The users' rows have strings for ids, the others numbers.
Precedes(period, scope, m, o) ==
    IF period = "overall" /\ scope = Everywhere THEN Spelled[m] < Spelled[o] ELSE m < o

Listed(period, scope) ==
    {m \in Members : Score(period, scope, m).tracks > 0 \/ Score(period, scope, m).seconds > 0}

\* A slip: whoever ties shares a place.
AheadUntied(period, scope, m, mine) ==
    {o \in Members : LET s == Score(period, scope, o)
                     IN  \/ s.tracks > mine.tracks
                         \/ s.tracks = mine.tracks /\ s.seconds > mine.seconds}

\* The $or of periodRank(), globalAllTimeRank() and groupAllTimeRank().
Ahead(period, scope, m, mine) ==
    {o \in Members : LET s == Score(period, scope, o)
                     IN  \/ s.tracks > mine.tracks
                         \/ s.tracks = mine.tracks /\ s.seconds > mine.seconds
                         \/ s = mine /\ Precedes(period, scope, o, m)}

\* How leaderboard() sorts: more tracks first, then more seconds, then the id.
Outranks(period, scope, m, o) ==
    LET x == Score(period, scope, m)
        y == Score(period, scope, o)
    IN  \/ x.tracks > y.tracks
        \/ x.tracks = y.tracks /\ x.seconds > y.seconds
        \/ x = y /\ Precedes(period, scope, m, o)

Leaderboard(period, scope) ==
    LET rows == Listed(period, scope)
    IN  CHOOSE board \in [1..Cardinality(rows) -> rows] :
            \A i, j \in DOMAIN board : i < j => Outranks(period, scope, board[i], board[j])

\* One's own row is read; a rank card reads the tracks before the seconds.
LooksUp ==
    /\ look.pc = "told" /\ Trouble
    /\ \E period \in {"today", "week", "overall"}, scope \in Chats \cup {Everywhere}, m \in Members :
        LET row == Score(period, scope, m)
        IN  \/ look' = [look EXCEPT !.pc = "counting", !.period = period, !.scope = scope, !.who = m,
                                    !.mine = row]
            \/ /\ period = "overall"
               /\ look' = [look EXCEPT !.pc = "tracks", !.period = period, !.scope = scope, !.who = m,
                                       !.mine = [tracks |-> row.tracks, seconds |-> 0]]
    /\ UNCHANGED <<today, bucket, tally, user, listen, reset, raced, overtaken>>

LooksUpSeconds ==
    /\ look.pc = "tracks"
    /\ look' = [look EXCEPT !.pc = "counting",
                            !.mine = [tracks |-> look.mine.tracks,
                                      seconds |-> Score(look.period, look.scope, look.who).seconds]]
    /\ UNCHANGED <<today, bucket, tally, user, listen, reset, troubles, raced, overtaken>>

\* Then those ahead are counted.
Ranks ==
    /\ look.pc = "counting"
    /\ look' = Told(IF look.mine = Nothing THEN 0
                    ELSE 1 + Cardinality(Ahead(look.period, look.scope, look.who, look.mine)))
    /\ UNCHANGED <<today, bucket, tally, user, listen, reset, troubles, raced, overtaken>>

ListenStep(l) ==
    \/ BucketLands(l) \/ TallyLands(l) \/ WriteFails(l) \/ Counts(l) \/ Levels(l) \/ CountFails(l) \/ Tells(l)

RankNext ==
    \/ \E l \in Listens : Credited(l) \/ ListenStep(l)
    \/ Resets \/ ResetFails \/ (\E what \in {"buckets", "tallies", "users"} : ResetLands(what))
    \/ Midnight
    \/ LooksUp \/ LooksUpSeconds \/ Ranks

RankSpec == RankInit /\ [][RankNext]_rankVars

-----------------------------------------------------------------------------

Quiet(m) == \A l \in ListensOf(m) : ~UnderWay(l)
Failed(m) == \E l \in ListensOf(m) : listen[l].pc = "failed"

\* What a member had before the listens of this era.
Before(m) == IF reset.era = 0 THEN Past(m) ELSE Nothing
Sum(a, b) == [tracks |-> a.tracks + b.tracks, seconds |-> a.seconds + b.seconds]
AtMost(a, b) == a.tracks <= b.tracks /\ a.seconds <= b.seconds

\* The user's row never counts a listen that the chats' rows do not, and where
\* every write came through the three collections tell the same.
BooksAgree ==
    reset.todo = {} => \A m \in Members \ raced :
        LET total == [tracks |-> user[m].tracks, seconds |-> user[m].seconds]
            tallied == Summed([c \in Chats |-> tally[c][m]])
        IN  /\ AtMost(total, tallied)
            /\ AtMost(total, Sum(Before(m), Score("week", Everywhere, m)))
            /\ Quiet(m) /\ ~Failed(m) => total = tallied /\ total = Sum(Before(m), Score("week", Everywhere, m))

\* The listens of a member that the user's row has counted since the last reset.
CountedFor(m) == {l \in ListensOf(m) : listen[l].total > 0 /\ listen[l].era = reset.era}

\* The listens that were handed a milestone back, and those that have told it or will. One
\* whose level cannot be stored throws (ranking.ts:159) and has nothing to tell any more.
Reaching(m, level) == {l \in CountedFor(m) : MilestoneOf(l) = level}
Telling(m, level) == {l \in Reaching(m, level) : listen[l].pc \in {"leveling", "telling", "done"}}

\* Each milestone that is reached is one listen's to tell, however many of one user are
\* counted at a time: nobody is congratulated twice, and it goes by untold only when the
\* level write of that very listen failed, for no later listen repeats it.
MilestonesOnce ==
    \A m \in Members :
        \A level \in (LevelFromXp(Before(m).tracks) + 1)..LevelFromXp(user[m].tracks) :
            ShouldNotifyLevel(level) =>
                /\ Cardinality(Reaching(m, level)) = 1
                /\ \/ Cardinality(Telling(m, level)) = 1
                   \/ \E l \in Reaching(m, level) : listen[l].pc = "failed"

\* The stored level is never more than was earned, and the last listen to be counted
\* leaves it right when it comes through, whatever failed before it; unless a listen
\* that was counted earlier stores its level later.
LevelFollows ==
    \A m \in Members \ raced :
        /\ user[m].level <= LevelFromXp(user[m].tracks)
        /\ (\E l \in CountedFor(m) : listen[l].total = user[m].tracks /\ listen[l].pc \in {"telling", "done"})
            => user[m].level = LevelFromXp(user[m].tracks) \/ m \in overtaken

\* Who looks up a rank while the own row stands still is told the place that the
\* leaderboard has for it at that moment, ties and all; and none if not listed.
RankIsPlace ==
    [][look.pc = "counting" /\ look'.pc = "told" /\ look.mine = Score(look.period, look.scope, look.who)
        => LET board == Leaderboard(look.period, look.scope)
           IN  IF look.who \in Range(board) THEN board[look'.rank] = look.who ELSE look'.rank = 0]_rankVars

=============================================================================
