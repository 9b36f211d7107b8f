--------------------------- MODULE ListenerCredit ---------------------------
(***************************************************************************)
(* The listening sessions of services/room/RoomManager.ts (trackSession)   *)
(* and the credit lib/ranking.ts records for them.  Every track that       *)
(* starts opens a session with a stopwatch per listener; whoever heard     *)
(* half of it is credited when it finishes, or when somebody leaves.       *)
(*                                                                         *)
(* Of the room only what sessions see: is there a track, does it play, who *)
(* is connected, how many advance() calls wait for a download.  The queue  *)
(* and the clock are left out: a track can finish at any moment, because   *)
(* it can be skipped or sought to its end at any moment.                   *)
(***************************************************************************)
EXTENDS Integers

CONSTANTS
    Users,       \* Telegram users
    Half,        \* halfDurationSec of a track, in time units
    MaxHeard,    \* bound: stopwatches stop here
    MaxTabs,     \* bound: open connections of one user
    MaxWaiting   \* bound: advance() calls that wait for a download

ASSUME CreditAssumption ==
    /\ Half \in Nat \ {0}
    /\ MaxHeard \in Nat /\ Half <= MaxHeard
    /\ MaxTabs \in Nat /\ MaxWaiting \in Nat

VARIABLES
    hasTrack,    \* room.current !== null
    playing,     \* room.playing
    autoPaused,  \* room.autoPaused
    known,       \* the session's track is known to last 5 seconds or more
    waiting,     \* advance() calls that wait for a download
    tabs,        \* connections per user
    session,     \* room.trackSession !== null
    watch,       \* per user: no entry in session.listeners, activeSince null or set
    heard,       \* accumulatedMs, and the time since activeSince
    credited,    \* users whose entry has credited = true
    \* what the code does not record
    truly,       \* time a user was connected while the session's track played
    unearned,    \* who was credited for less than half, and whether a track was there
    missed       \* who heard half of a track that finished and got nothing

roomVars == <<hasTrack, playing, autoPaused, known, waiting>>
sessionVars == <<session, watch, heard, credited, truly>>
creditVars == <<unearned, missed>>
vars == <<roomVars, tabs, sessionVars, creditVars>>

Init ==
    /\ hasTrack = FALSE /\ playing = FALSE /\ autoPaused = FALSE /\ known = FALSE
    /\ waiting = 0
    /\ tabs = [u \in Users |-> 0]
    /\ session = FALSE
    /\ watch = [u \in Users |-> "none"]
    /\ heard = [u \in Users |-> 0] /\ truly = [u \in Users |-> 0]
    /\ credited = {}
    /\ unearned = {} /\ missed = {}

-----------------------------------------------------------------------------
(* Slips the properties below are there to notice, here and before Leave.  *)
(* No behaviour takes these steps; each stands in for a definition below.  *)
StoppedNever(w) == w             \* pause() without pauseTrackSession

JoinedOnce(u) ==                 \* onConnectionJoin without its else branch
    IF session /\ playing /\ watch[u] = "none" THEN [watch EXCEPT ![u] = "running"] ELSE watch

CreditableTooSoon ==             \* half, less one
    IF session /\ known
    THEN {u \in Users : watch[u] # "none" /\ heard[u] + 1 >= Half /\ u \notin credited}
    ELSE {}

-----------------------------------------------------------------------------
(* The session's methods.                                                  *)

(* initTrackSession: whoever is connected listens from now on.             *)
InitTrackSession ==
    /\ session' = TRUE
    /\ watch' = [u \in Users |-> IF tabs[u] > 0 THEN "running" ELSE "none"]
    /\ heard' = [u \in Users |-> 0] /\ truly' = [u \in Users |-> 0]
    /\ credited' = {}

(* The stopwatches after pauseTrackSession, and after resumeTrackSession   *)
(* with the connections of present.                                        *)
Stopped(w) == [u \in Users |-> IF w[u] = "running" THEN "stopped" ELSE w[u]]
Resumed(w, present) ==
    IF session THEN [u \in Users |-> IF present[u] > 0 THEN "running" ELSE w[u]] ELSE w

(* onConnectionJoin, for a track that plays.                               *)
Joined(u) == IF session /\ playing THEN [watch EXCEPT ![u] = "running"] ELSE watch

(* checkAndCreditListeners: whom it credits, leaver or not.                *)
Creditable ==
    IF session /\ known
    THEN {u \in Users : watch[u] # "none" /\ heard[u] >= Half /\ u \notin credited}
    ELSE {}

Unearned(S) == unearned \union {<<u, hasTrack>> : u \in {v \in S : truly[v] < Half}}

(* finalizeTrackSession: whoever heard half is credited.                   *)
Credit ==
    /\ unearned' = Unearned(Creditable)
    /\ missed' = IF session /\ hasTrack /\ known
                 THEN missed \union ({u \in Users : truly[u] >= Half} \ (credited \union Creditable))
                 ELSE missed

CloseSession ==
    /\ session' = FALSE
    /\ watch' = [u \in Users |-> "none"]
    /\ UNCHANGED <<heard, credited, truly>>

-----------------------------------------------------------------------------
(* The room's methods, as far as they touch the session.                   *)

(* startTrack: whatever session was open is overwritten.                   *)
StartTrack ==
    /\ hasTrack' = TRUE /\ playing' = TRUE
    /\ known' \in BOOLEAN
    /\ InitTrackSession

(* enqueue into an idle room.                                              *)
Enqueue ==
    /\ ~hasTrack
    /\ StartTrack
    /\ UNCHANGED <<autoPaused, waiting, tabs, creditVars>>

(* forcePlay: the interrupted track's session is not finalised.            *)
ForcePlay ==
    /\ StartTrack
    /\ UNCHANGED <<autoPaused, waiting, tabs, creditVars>>

(* advance() up to its first await: the session is finalised at once, and  *)
(* the next track starts, or has to be fetched, or there is none.          *)
Advance ==
    /\ Credit
    /\ \/ StartTrack /\ UNCHANGED waiting
       \/ /\ waiting < MaxWaiting
          /\ waiting' = waiting + 1
          /\ CloseSession
          /\ UNCHANGED <<hasTrack, playing, known>>
       \/ /\ hasTrack' = FALSE /\ playing' = FALSE
          /\ CloseSession
          /\ UNCHANGED <<known, waiting>>
    /\ UNCHANGED <<autoPaused, tabs>>

(* Skip, or the end timer.                                                 *)
TrackOver == hasTrack /\ Advance

(* The download advance() waited for is there, or failed.                  *)
AcquireDone ==
    /\ waiting > 0
    /\ waiting' = waiting - 1
    /\ StartTrack
    /\ UNCHANGED <<autoPaused, tabs, creditVars>>

AcquireFail ==
    /\ waiting > 0
    /\ Credit
    /\ \/ /\ waiting' = waiting - 1
          /\ StartTrack
       \/ /\ CloseSession
          /\ UNCHANGED <<hasTrack, playing, known, waiting>>
       \/ /\ hasTrack' = FALSE /\ playing' = FALSE
          /\ waiting' = waiting - 1
          /\ CloseSession
          /\ UNCHANGED known
    /\ UNCHANGED <<autoPaused, tabs>>

(* restartCurrent: a loop begins the track, and a session, again.          *)
RestartCurrent ==
    /\ hasTrack /\ playing /\ known
    /\ Credit
    /\ InitTrackSession
    /\ UNCHANGED <<roomVars, tabs>>

Play ==
    /\ hasTrack /\ ~playing
    /\ playing' = TRUE /\ autoPaused' = FALSE
    /\ watch' = Resumed(watch, tabs)
    /\ UNCHANGED <<hasTrack, known, waiting, tabs, session, heard, credited, truly, creditVars>>

Pause ==
    /\ hasTrack /\ playing
    /\ playing' = FALSE /\ autoPaused' = FALSE
    /\ watch' = Stopped(watch)
    /\ UNCHANGED <<hasTrack, known, waiting, tabs, session, heard, credited, truly, creditVars>>

(* probeMediaDuration() answered while its track still plays.              *)
ProbeDone ==
    /\ hasTrack /\ ~known
    /\ known' = TRUE
    /\ UNCHANGED <<hasTrack, playing, autoPaused, waiting, tabs, sessionVars, creditVars>>

(* end(): the session stays as it is.                                      *)
End ==
    /\ hasTrack
    /\ hasTrack' = FALSE /\ playing' = FALSE
    /\ UNCHANGED <<autoPaused, known, waiting, tabs, sessionVars, creditVars>>

(* reboot(): another Room object, and nobody connected.  The old one has   *)
(* no listener left, and what its promises still do to it is left out.     *)
Reboot ==
    /\ hasTrack' = FALSE /\ playing' = FALSE /\ autoPaused' = FALSE /\ known' = FALSE
    /\ waiting' = 0
    /\ tabs' = [u \in Users |-> 0]
    /\ CloseSession
    /\ UNCHANGED creditVars

(* addConnection, with the play() of a room that paused when it emptied.   *)
Join(u) ==
    /\ tabs[u] < MaxTabs
    /\ tabs' = [tabs EXCEPT ![u] = @ + 1]
    /\ IF autoPaused /\ ~playing /\ hasTrack
       THEN /\ playing' = TRUE /\ autoPaused' = FALSE
            /\ watch' = Resumed(Joined(u), tabs')
       ELSE /\ watch' = Joined(u)
            /\ UNCHANGED <<playing, autoPaused>>
    /\ UNCHANGED <<hasTrack, known, waiting, session, heard, credited, truly, creditVars>>

(* u has left connections left: onConnectionLeave stops the watch of who   *)
(* has none and credits everybody who is due, and the last one out pauses  *)
(* the room.                                                               *)
Depart(u, left) ==
    LET leaves == session /\ left = 0 /\ watch[u] = "running"
        after  == IF leaves THEN [watch EXCEPT ![u] = "stopped"] ELSE watch
        due    == IF leaves THEN Creditable ELSE {}
    IN
    /\ tabs' = [tabs EXCEPT ![u] = left]
    /\ credited' = credited \union due
    /\ unearned' = Unearned(due)
    /\ IF (\A v \in Users : tabs'[v] = 0) /\ playing /\ hasTrack
       THEN /\ playing' = FALSE /\ autoPaused' = TRUE
            /\ watch' = Stopped(after)
       ELSE /\ watch' = after
            /\ UNCHANGED <<playing, autoPaused>>
    /\ UNCHANGED <<hasTrack, known, waiting, session, heard, truly, missed>>

(* A slip: a connection removed though it is gone.                         *)
LeaveTwice(u) == Depart(u, tabs[u] - 1)

(* removeConnection, and evictUser for who went to another room.           *)
Leave(u) == tabs[u] > 0 /\ Depart(u, tabs[u] - 1)
Evict(u) == tabs[u] > 0 /\ Depart(u, 0)

(* Time passes.                                                            *)
Later(n) == IF n < MaxHeard THEN n + 1 ELSE n
Tick ==
    /\ heard' = [u \in Users |-> IF watch[u] = "running" THEN Later(heard[u]) ELSE heard[u]]
    /\ truly' = [u \in Users |->
                   IF session /\ hasTrack /\ playing /\ tabs[u] > 0
                   THEN Later(truly[u]) ELSE truly[u]]
    /\ UNCHANGED <<roomVars, tabs, session, watch, credited, creditVars>>

Next ==
    \/ Enqueue \/ ForcePlay \/ TrackOver \/ AcquireDone \/ AcquireFail
    \/ RestartCurrent \/ Play \/ Pause \/ ProbeDone \/ End \/ Reboot
    \/ \E u \in Users : Join(u) \/ Leave(u) \/ Evict(u)
    \/ Tick

Spec == Init /\ [][Next]_vars

-----------------------------------------------------------------------------
(* The type of the state.                                                  *)
TypeOK ==
    /\ hasTrack \in BOOLEAN /\ playing \in BOOLEAN /\ autoPaused \in BOOLEAN
    /\ known \in BOOLEAN /\ session \in BOOLEAN
    /\ waiting \in 0..MaxWaiting
    /\ tabs \in [Users -> 0..MaxTabs]
    /\ watch \in [Users -> {"none", "stopped", "running"}]
    /\ heard \in [Users -> 0..MaxHeard] /\ truly \in [Users -> 0..MaxHeard]
    /\ credited \subseteq Users /\ missed \subseteq Users
    /\ unearned \subseteq Users \X BOOLEAN

(* While its track is in the room, a session's stopwatch runs for exactly  *)
(* those who are connected while it plays, however often they came and     *)
(* went, in however many tabs, and shows the time they really listened.    *)
WatchesTellTheTime ==
    session /\ hasTrack =>
        \A u \in Users :
            /\ watch[u] = "running" <=> playing /\ tabs[u] > 0
            /\ heard[u] = truly[u]

(* Nobody is credited for a track in the room without having heard half.   *)
CreditIsEarned == \A u \in Users : <<u, TRUE>> \notin unearned

(* Nobody who heard half of a track that was played or skipped to its end  *)
(* goes without.                                                           *)
FinishedIsCredited == missed = {}

(* "Record a qualified track listen/watch": nobody is credited without     *)
(* having heard half of the track, be it ended meanwhile.                  *)
OnlyListenersAreCredited == unearned = {}
=============================================================================
