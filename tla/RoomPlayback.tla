---------------------------- MODULE RoomPlayback ----------------------------
(***************************************************************************)
(* services/room/RoomManager.ts: the playback of one Room object, from     *)
(* getOrCreate to for ever.  The code is single-threaded: a step is one    *)
(* call run to its end or to its next await, so a timer, a download that   *)
(* settles or another user's request can come between advance() and the    *)
(* rest of advance().                                                      *)
(*                                                                         *)
(* Data left out: titles, cards, messages, video URLs, the listening       *)
(* sessions and poses.  Time is counted in units of which every track of   *)
(* known duration has TrackLength; the position of a track stops counting  *)
(* there, as every reader of it takes max(0, duration - position).         *)
(*                                                                         *)
(* A public call finds the Room through the rooms map.  reboot() takes it  *)
(* out of the map, and from then on calls reach another Room object while  *)
(* the timers and promises of this one go on: hence `registered`.          *)
(***************************************************************************)
EXTENDS Integers, Sequences, SequencesExt

CONSTANTS
    Tracks,          \* every track ever requested; a request is a fresh one
    Lazy,            \* those that come with acquireMedia() and no file yet
    Timed,           \* those whose duration is known when they are requested
    TrackLength,     \* duration of a track, in time units
    MaxQueue,        \* config.room.maxQueue
    Advances,        \* bound: calls of advance() under way at once
    MaxFetches,      \* bound: prefetches of one track under way at once
    MaxConnections,  \* bound: open connections
    MaxLoop,         \* bound: the count setLoop is given
    NoTrack          \* null

ASSUME RoomAssumption ==
    /\ NoTrack \notin Tracks
    /\ Lazy \subseteq Tracks /\ Timed \subseteq Tracks
    /\ TrackLength \in Nat \ {0}
    /\ MaxQueue \in Nat /\ MaxFetches \in Nat
    /\ MaxConnections \in Nat /\ MaxLoop \in Nat

Off == -1   \* room.endTimer === null

VARIABLES
    registered,        \* the rooms map still holds this Room
    queue,             \* room.queue
    current,           \* room.current
    playing,           \* room.playing
    position,          \* positionSec(room)
    endTimer,          \* time left on room.endTimer, or Off
    loopRemaining,     \* room.loopRemaining
    resumeAt,          \* track.resumeAtSec, 0 when undefined
    timed,             \* tracks whose duration is a positive number by now
    probing,           \* tracks with a probeMediaDuration() under way
    connections,       \* room.connections.size
    trackHadPresence,  \* room.trackHadPresence
    autoPaused,        \* room.autoPaused
    autoplay,          \* room.autoplay
    radio,             \* where triggerAutoplay() is; "idle" is !autoplayAcquiring
    advances,          \* the calls of advance() that are waiting
    fetching,          \* acquireMedia() calls of prefetchNext() under way, per track
    media,             \* the file a track's mediaFsPath and dispose stand for
    \* what the code does not record and properties speak about
    requested,         \* tracks that have been enqueued
    spilled,           \* tracks that lost the only handle on a file still on disk
    pausedBy,          \* who paused last: a user, or the room emptying
    halted             \* end() was the last thing asked of the queue

transportVars  == <<current, playing, position, endTimer, loopRemaining, resumeAt>>
durationVars   == <<timed, probing>>
presenceVars   == <<connections, trackHadPresence, autoPaused, pausedBy>>
autoplayVars   == <<autoplay, radio>>
fileVars       == <<fetching, media, spilled>>
requestVars    == <<requested, halted>>
vars == <<registered, queue, transportVars, durationVars, presenceVars,
          autoplayVars, advances, fileVars, requestVars>>

(* A call of advance(): before it, waiting for the download of `next` that *)
(* replaces `finished`, or waiting for the disposal of a track that was    *)
(* replaced ("disposing") or that was the last one ("emptied").            *)
At(pc) == [pc |-> pc, finished |-> NoTrack, next |-> NoTrack]
Idle == At("idle")

Init ==   \* getOrCreate
    /\ registered = TRUE
    /\ queue = <<>>
    /\ current = NoTrack /\ playing = FALSE /\ position = 0
    /\ endTimer = Off /\ loopRemaining = 0
    /\ resumeAt = [t \in Tracks |-> 0]
    /\ timed = Timed /\ probing = {}
    /\ connections = 0 /\ trackHadPresence = FALSE
    /\ autoPaused = FALSE /\ pausedBy = "nobody"
    /\ autoplay = FALSE /\ radio = "idle"
    /\ advances = [a \in Advances |-> Idle]
    /\ fetching = [t \in Tracks |-> 0]
    /\ media = [t \in Tracks |-> "none"]
    /\ spilled = {}
    /\ requested = {} /\ halted = FALSE

-----------------------------------------------------------------------------
(* Helpers of the class, as the values they compute.                       *)

(* scheduleEnd: what the end timer is left at when the tracks in known are *)
(* those with a duration.                                                  *)
ScheduledEnd(known, track, isPlaying, at) ==
    IF track \in known /\ isPlaying THEN TrackLength - at ELSE Off

(* !t.mediaFsPath && t.acquireMedia                                        *)
NeedsMedia(t, files) == t \in Lazy /\ files[t] = "none"

(* dispose() of every track in S: rm -f of its file, nothing without one.  *)
Dispose(S, files) ==
    [t \in Tracks |-> IF t \in S /\ files[t] = "ready" THEN "gone" ELSE files[t]]

(* next.mediaFsPath = m.path; next.dispose = m.dispose: a file the track   *)
(* already had is left on disk with nobody to remove it.                   *)
Assign(t) == [media EXCEPT ![t] = "ready"]
Spill(t)  == IF media[t] = "ready" THEN spilled \union {t} ELSE spilled

(* prefetchNext: start fetching the head of q unless it has its file.      *)
PrefetchNext(q, files) ==
    IF q # <<>> /\ NeedsMedia(Head(q), files)
    THEN /\ fetching[Head(q)] < MaxFetches
         /\ fetching' = [fetching EXCEPT ![Head(q)] = @ + 1]
    ELSE UNCHANGED fetching

(* startTrack: files is where the media stands when it is called, loose is *)
(* resumeAt as the caller has left it.                                     *)
StartTrack(t, files, loose) ==
    /\ current' = t
    /\ playing' = TRUE
    /\ position' = loose[t]
    /\ resumeAt' = [loose EXCEPT ![t] = 0]
    /\ loopRemaining' = 0
    /\ endTimer' = ScheduledEnd(timed, t, TRUE, loose[t])
    /\ probing' = IF t \notin timed /\ files[t] # "none" THEN probing \union {t} ELSE probing
    /\ trackHadPresence' = (connections > 0)
    /\ UNCHANGED timed

-----------------------------------------------------------------------------
(* Slips the properties below are there to notice.  No behaviour of the    *)
(* room takes these steps; each stands in for one of its definitions.      *)
LeaveTwice ==                    \* a connection removed though it is gone
    /\ registered
    /\ connections' = connections - 1
    /\ UNCHANGED <<registered, queue, transportVars, durationVars, trackHadPresence, autoPaused,
                   pausedBy, autoplayVars, advances, fileVars, requestVars>>

SuspendWithTimer ==              \* pause() without clearEnd
    /\ playing' = FALSE
    /\ UNCHANGED endTimer

ResumeWithoutTimer ==            \* play() without scheduleEnd
    /\ playing' = TRUE
    /\ autoPaused' = FALSE
    /\ UNCHANGED endTimer

PauseKeepingAutoPaused ==        \* pause() leaving room.autoPaused alone
    /\ registered /\ current # NoTrack /\ playing
    /\ playing' = FALSE /\ endTimer' = Off
    /\ pausedBy' = "user"
    /\ UNCHANGED <<registered, queue, current, position, loopRemaining, resumeAt, durationVars,
                   connections, trackHadPresence, autoPaused, autoplayVars, advances, fileVars,
                   requestVars>>

EndDisposingOfQueueOnly ==       \* end() after room.current = null
    /\ registered
    /\ current # NoTrack \/ queue # <<>>
    /\ endTimer' = Off
    /\ current' = NoTrack /\ queue' = <<>> /\ playing' = FALSE /\ position' = 0
    /\ media' = Dispose(ToSet(queue), media)
    /\ halted' = TRUE
    /\ UNCHANGED <<registered, loopRemaining, resumeAt, durationVars, presenceVars,
                   autoplayVars, advances, fetching, spilled, requested>>

-----------------------------------------------------------------------------
(* advance(), in three pieces: up to the download, up to the disposal, end *)

(* From the start of the next track to `await finished.dispose()`.         *)
StartNext(a, finished, next, rest, files) ==
    /\ StartTrack(next, files, resumeAt)
    /\ queue' = rest
    /\ PrefetchNext(rest, files)
    /\ media' = Dispose({finished}, files)
    /\ advances' = [advances EXCEPT ![a] =
                      IF finished = NoTrack THEN Idle ELSE At("disposing")]
    /\ UNCHANGED <<connections, autoPaused, pausedBy>>

(* advance() called: to its first await.  `loops` is loopRemaining as the  *)
(* caller has left it.                                                     *)
BeginAdvance(a, loops) ==
    /\ UNCHANGED <<registered, autoplayVars, spilled, requestVars>>
    /\ \/ /\ queue # <<>>                           \* await next.acquireMedia()
          /\ NeedsMedia(Head(queue), media)
          /\ queue' = Tail(queue)
          /\ endTimer' = Off
          /\ loopRemaining' = loops
          /\ advances' = [advances EXCEPT ![a] =
                            [pc |-> "acquiring", finished |-> current, next |-> Head(queue)]]
          /\ UNCHANGED <<current, playing, position, resumeAt, durationVars,
                         presenceVars, fetching, media>>
       \/ /\ queue # <<>>
          /\ ~NeedsMedia(Head(queue), media)
          /\ StartNext(a, current, Head(queue), Tail(queue), media)
       \/ /\ queue = <<>>
          /\ current' = NoTrack /\ playing' = FALSE /\ position' = 0
          /\ endTimer' = Off /\ loopRemaining' = loops
          /\ media' = Dispose({current}, media)
          /\ advances' = [advances EXCEPT ![a] =
                            IF current = NoTrack THEN Idle ELSE At("emptied")]
          /\ trackHadPresence' = IF current = NoTrack THEN connections > 0 ELSE trackHadPresence
          /\ UNCHANGED <<queue, resumeAt, durationVars, connections, autoPaused,
                         pausedBy, fetching>>

(* A slip: the download's track plays as forcePlay plays one, with the     *)
(* track it interrupts read before the wait.                               *)
AcquireDonePostponing(a) ==
    LET next == advances[a].next
        finished == advances[a].finished
    IN
    /\ advances[a].pc = "acquiring"
    /\ StartNext(a, NoTrack, next, IF finished = NoTrack THEN queue ELSE Cons(finished, queue),
                 Assign(next))
    /\ spilled' = Spill(next)
    /\ UNCHANGED <<registered, autoplayVars, requestVars>>

(* next.acquireMedia() resolved: the finished track is the one advance()   *)
(* read before it waited, whatever the room plays by now.                  *)
AcquireDone(a) ==
    LET next == advances[a].next IN
    /\ advances[a].pc = "acquiring"
    /\ StartNext(a, advances[a].finished, next, queue, Assign(next))
    /\ spilled' = Spill(next)
    /\ UNCHANGED <<registered, autoplayVars, requestVars>>

(* It rejected: the track is given up and advance() calls itself.          *)
AcquireFail(a) ==
    /\ advances[a].pc = "acquiring"
    /\ BeginAdvance(a, loopRemaining)

(* finished.dispose() settled: the rest of advance(), and the head of      *)
(* triggerAutoplay() up to its first await.  What it has prefetched, and   *)
(* so whether it has to wait for recommendations, is left open.            *)
FinishAdvance(a) ==
    LET wantsMore == /\ advances[a].pc = "emptied"
                     /\ autoplay
                     /\ trackHadPresence \/ connections > 0
        free == radio = "idle" /\ current = NoTrack /\ queue = <<>>
    IN
    /\ advances[a].pc \in {"disposing", "emptied"}
    /\ advances' = [advances EXCEPT ![a] = Idle]
    /\ trackHadPresence' = (connections > 0)
    /\ IF wantsMore /\ free THEN radio' \in {"picking", "acquiring"} ELSE UNCHANGED radio
    /\ UNCHANGED <<registered, queue, transportVars, durationVars, connections,
                   autoPaused, pausedBy, autoplay, fileVars, requestVars>>

-----------------------------------------------------------------------------
(* The end timer, the clock, the prefetch and the duration probe.          *)

(* A slip: a loop that is never counted down.                              *)
EndTimerLoopingForEver ==
    /\ endTimer = 0
    /\ \/ /\ loopRemaining > 0
          /\ playing' = TRUE
          /\ position' = 0
          /\ endTimer' = ScheduledEnd(timed, current, TRUE, 0)
          /\ UNCHANGED <<registered, queue, current, loopRemaining, resumeAt, durationVars,
                         presenceVars, autoplayVars, advances, fileVars, requestVars>>
       \/ /\ loopRemaining = 0
          /\ \E a \in Advances : advances[a].pc = "idle" /\ BeginAdvance(a, 0)

(* The end timer's callback: once more from the top, or on to the next.    *)
EndTimerFires ==
    /\ endTimer = 0
    /\ \/ /\ loopRemaining > 0                      \* restartCurrent
          /\ loopRemaining' = loopRemaining - 1
          /\ playing' = TRUE
          /\ position' = 0
          /\ endTimer' = ScheduledEnd(timed, current, TRUE, 0)
          /\ UNCHANGED <<registered, queue, current, resumeAt, durationVars, presenceVars,
                         autoplayVars, advances, fileVars, requestVars>>
       \/ /\ loopRemaining = 0
          /\ \E a \in Advances : advances[a].pc = "idle" /\ BeginAdvance(a, 0)

(* Time passes for a room that plays.                                      *)
Tick ==
    /\ playing /\ current # NoTrack
    /\ position < TrackLength
    /\ position' = position + 1
    /\ endTimer' = IF endTimer > 0 THEN endTimer - 1 ELSE endTimer
    /\ UNCHANGED <<registered, queue, current, playing, loopRemaining, resumeAt, durationVars,
                   presenceVars, autoplayVars, advances, fileVars, requestVars>>

(* The acquireMedia() of prefetchNext() resolved, for a track that may be  *)
(* anywhere by now, or rejected.                                           *)
FetchDone(t) ==
    /\ fetching[t] > 0
    /\ fetching' = [fetching EXCEPT ![t] = @ - 1]
    /\ \/ media' = Assign(t) /\ spilled' = Spill(t)
       \/ UNCHANGED <<media, spilled>>
    /\ UNCHANGED <<registered, queue, transportVars, durationVars, presenceVars,
                   autoplayVars, advances, requestVars>>

(* probeMediaDuration() answered: with a duration of the track still       *)
(* playing, with one nobody wants any more, or with none.                  *)
ProbeDone(t) ==
    /\ t \in probing
    /\ probing' = probing \ {t}
    /\ \/ /\ current = t
          /\ timed' = timed \union {t}
          /\ endTimer' = ScheduledEnd(timed', t, playing, position)
       \/ UNCHANGED <<timed, endTimer>>
    /\ UNCHANGED <<registered, queue, current, playing, position, loopRemaining, resumeAt,
                   presenceVars, autoplayVars, advances, fileVars, requestVars>>

-----------------------------------------------------------------------------
(* triggerAutoplay() after its awaits.                                     *)

(* The recommendations are there: give up if there are none or the room    *)
(* has been given something to play meanwhile, else fetch the first.       *)
RadioPicks ==
    /\ radio = "picking"
    /\ \/ radio' = "acquiring" /\ current = NoTrack /\ queue = <<>>
       \/ radio' = "idle"
    /\ UNCHANGED <<registered, queue, transportVars, durationVars, presenceVars, autoplay,
                   advances, fileVars, requestVars>>

(* Its audio is there, the room is still free and still the one enqueue()  *)
(* reaches: the pick plays.                                                *)
RadioPlays(t) ==
    /\ radio = "acquiring"
    /\ registered /\ current = NoTrack /\ queue = <<>>
    /\ t \in (Tracks \ requested) \ Lazy
    /\ radio' = "idle"
    /\ requested' = requested \union {t}
    /\ media' = Assign(t)
    /\ StartTrack(t, media', resumeAt)
    /\ UNCHANGED <<registered, queue, connections, autoPaused, pausedBy, autoplay, advances,
                   fetching, spilled, halted>>

(* It could not be fetched, the room is busy, or another Room object got   *)
(* the pick.                                                               *)
RadioGivesUp ==
    /\ radio = "acquiring"
    /\ radio' = "idle"
    /\ UNCHANGED <<registered, queue, transportVars, durationVars, presenceVars, autoplay,
                   advances, fileVars, requestVars>>

-----------------------------------------------------------------------------
(* The public calls.                                                       *)

(* A slip: the forced track is started and also left in the queue.         *)
InterruptWithoutSplice(t, rest, files) ==
    LET kept == IF current = NoTrack THEN resumeAt
                ELSE [resumeAt EXCEPT ![current] = position]
    IN
    /\ queue' = IF current = NoTrack THEN Cons(t, rest) ELSE Cons(current, Cons(t, rest))
    /\ StartTrack(t, files, kept)

(* forcePlay: t, taken out of the queue as rest, plays at once and the     *)
(* current track goes to the head with its position kept.                  *)
Interrupt(t, rest, files) ==
    LET kept == IF current = NoTrack THEN resumeAt
                ELSE [resumeAt EXCEPT ![current] = position]
    IN
    /\ queue' = IF current = NoTrack THEN rest ELSE Cons(current, rest)
    /\ StartTrack(t, files, kept)

(* enqueue, which starts the track in an idle room, forces it into a busy  *)
(* one if asked to, and turns it away when the queue is full.  Only single *)
(* requests, which bring their file, are ever forced.                      *)
Enqueue(t, force) ==
    LET files == IF t \in Lazy THEN media ELSE Assign(t) IN
    /\ registered
    /\ t \in Tracks \ requested
    /\ force => t \notin Lazy
    /\ \/ /\ current = NoTrack
          /\ StartTrack(t, files, resumeAt)
          /\ UNCHANGED <<queue, connections, autoPaused, pausedBy, fetching>>
       \/ /\ current # NoTrack /\ force
          /\ Interrupt(t, queue, files)
          /\ UNCHANGED <<connections, autoPaused, pausedBy, fetching>>
       \/ /\ current # NoTrack /\ ~force
          /\ Len(queue) < MaxQueue
          /\ queue' = Append(queue, t)
          /\ IF queue = <<>> THEN PrefetchNext(queue', files) ELSE UNCHANGED fetching
          /\ UNCHANGED <<transportVars, durationVars, presenceVars>>
    /\ media' = files
    /\ requested' = requested \union {t}
    /\ halted' = FALSE
    /\ UNCHANGED <<registered, autoplayVars, advances, spilled>>

(* A slip: forcePlay throws the interrupted track away, as advance does.   *)
ForcePlayDisposing(i) ==
    /\ registered
    /\ queue[i] \notin Lazy
    /\ Interrupt(queue[i], RemoveAt(queue, i), media)
    /\ media' = Dispose({current}, media)
    /\ UNCHANGED <<registered, connections, autoPaused, pausedBy, autoplayVars, advances,
                   fetching, spilled, requestVars>>

(* forcePlay, from the Play Now button: the cards that carry it are those  *)
(* of tracks that brought their file.                                      *)
ForcePlay(i) ==
    /\ registered
    /\ queue[i] \notin Lazy
    /\ Interrupt(queue[i], RemoveAt(queue, i), media)
    /\ UNCHANGED <<registered, connections, autoPaused, pausedBy, autoplayVars, advances,
                   fileVars, requestVars>>

RemoveQueued(i) ==
    /\ registered
    /\ queue' = RemoveAt(queue, i)
    /\ media' = Dispose({queue[i]}, media)
    /\ UNCHANGED <<registered, transportVars, durationVars, presenceVars, autoplayVars,
                   advances, fetching, spilled, requestVars>>

(* play() and pause() as far as their callers share them.                  *)
Resume ==
    /\ playing' = TRUE
    /\ autoPaused' = FALSE
    /\ endTimer' = ScheduledEnd(timed, current, TRUE, position)
Suspend ==
    /\ playing' = FALSE
    /\ endTimer' = Off

Play ==
    /\ registered /\ current # NoTrack /\ ~playing
    /\ Resume
    /\ UNCHANGED <<registered, queue, current, position, loopRemaining, resumeAt, durationVars,
                   connections, trackHadPresence, pausedBy, autoplayVars, advances, fileVars,
                   requestVars>>

Pause ==
    /\ registered /\ current # NoTrack /\ playing
    /\ Suspend
    /\ autoPaused' = FALSE
    /\ pausedBy' = "user"
    /\ UNCHANGED <<registered, queue, current, position, loopRemaining, resumeAt, durationVars,
                   connections, trackHadPresence, autoplayVars, advances, fileVars, requestVars>>

(* seek, clamped to the track; refused without a duration.                 *)
Seek(target) ==
    /\ registered /\ current \in timed
    /\ position' = target
    /\ endTimer' = IF playing THEN ScheduledEnd(timed, current, TRUE, target) ELSE endTimer
    /\ UNCHANGED <<registered, queue, current, playing, loopRemaining, resumeAt, durationVars,
                   presenceVars, autoplayVars, advances, fileVars, requestVars>>

Skip ==
    /\ registered /\ current # NoTrack
    /\ \E a \in Advances : advances[a].pc = "idle" /\ BeginAdvance(a, 0)

SetLoop(count) ==
    /\ registered /\ current # NoTrack
    /\ loopRemaining' = count
    /\ UNCHANGED <<registered, queue, current, playing, position, endTimer, resumeAt,
                   durationVars, presenceVars, autoplayVars, advances, fileVars, requestVars>>

ClearQueue ==
    /\ registered /\ queue # <<>>
    /\ queue' = <<>>
    /\ media' = Dispose(ToSet(queue), media)
    /\ UNCHANGED <<registered, transportVars, durationVars, presenceVars, autoplayVars,
                   advances, fetching, spilled, requestVars>>

End ==
    /\ registered
    /\ current # NoTrack \/ queue # <<>>
    /\ endTimer' = Off
    /\ current' = NoTrack /\ queue' = <<>> /\ playing' = FALSE /\ position' = 0
    /\ media' = Dispose(ToSet(queue) \union {current}, media)
    /\ halted' = TRUE
    /\ UNCHANGED <<registered, loopRemaining, resumeAt, durationVars, presenceVars,
                   autoplayVars, advances, fetching, spilled, requested>>

(* reboot: out of the map, everybody disconnected, every file thrown away; *)
(* the object itself keeps its track, its queue and its promises.          *)
Reboot ==
    /\ registered
    /\ registered' = FALSE
    /\ endTimer' = Off
    /\ connections' = 0
    /\ media' = Dispose(ToSet(queue) \union {current}, media)
    /\ UNCHANGED <<queue, current, playing, position, loopRemaining, resumeAt, durationVars,
                   trackHadPresence, autoPaused, pausedBy, autoplayVars, advances, fetching,
                   spilled, requestVars>>

(* addConnection: the first to enter a room that paused because it emptied *)
(* sets it going again.                                                    *)
Join ==
    /\ registered
    /\ connections < MaxConnections
    /\ connections' = connections + 1
    /\ trackHadPresence' = TRUE
    /\ IF autoPaused /\ ~playing /\ current # NoTrack
       THEN Resume ELSE UNCHANGED <<playing, autoPaused, endTimer>>
    /\ UNCHANGED <<registered, queue, current, position, loopRemaining, resumeAt, durationVars,
                   pausedBy, autoplayVars, advances, fileVars, requestVars>>

(* removeConnection, and evictUser for somebody who went to another room:  *)
(* the last one out pauses a playing room.                                 *)
Leave ==
    /\ registered
    /\ connections > 0
    /\ connections' = connections - 1
    /\ IF connections = 1 /\ playing /\ current # NoTrack
       THEN Suspend /\ autoPaused' = TRUE /\ pausedBy' = "empty"
       ELSE UNCHANGED <<playing, endTimer, autoPaused, pausedBy>>
    /\ UNCHANGED <<registered, queue, current, position, loopRemaining, resumeAt, durationVars,
                   trackHadPresence, autoplayVars, advances, fileVars, requestVars>>

(* setAutoplay, or the stored setting getOrCreate asked for arriving.      *)
SetAutoplay(enabled) ==
    /\ registered
    /\ autoplay' = enabled
    /\ UNCHANGED <<registered, queue, transportVars, durationVars, presenceVars, radio,
                   advances, fileVars, requestVars>>

-----------------------------------------------------------------------------
(* What runs by itself, and what people ask for.                           *)
Proceed ==
    \/ EndTimerFires
    \/ Tick
    \/ \E a \in Advances : AcquireDone(a) \/ AcquireFail(a) \/ FinishAdvance(a)
    \/ \E t \in Tracks : FetchDone(t) \/ ProbeDone(t) \/ RadioPlays(t)
    \/ RadioPicks
    \/ RadioGivesUp

Request ==
    \/ \E t \in Tracks, force \in BOOLEAN : Enqueue(t, force)
    \/ \E i \in 1..Len(queue) : ForcePlay(i) \/ RemoveQueued(i)
    \/ Play \/ Pause \/ Skip
    \/ \E target \in 0..(TrackLength - 1) : Seek(target)
    \/ \E count \in 0..MaxLoop : SetLoop(count)
    \/ ClearQueue \/ End \/ Reboot
    \/ Join \/ Leave
    \/ \E enabled \in BOOLEAN : SetAutoplay(enabled)

Next == Proceed \/ Request

Spec == Init /\ [][Next]_vars

(* Timers fire, time passes, and every download, disposal and probe        *)
(* settles one way or the other.  Nothing is assumed of the people.        *)
FairSpec ==
    /\ Spec
    /\ WF_vars(EndTimerFires) /\ WF_vars(Tick)
    /\ \A a \in Advances :
          /\ WF_vars(AcquireDone(a) \/ AcquireFail(a))
          /\ WF_vars(FinishAdvance(a))
    /\ \A t \in Tracks : WF_vars(FetchDone(t)) /\ WF_vars(ProbeDone(t))
    /\ WF_vars(RadioPicks)
    /\ WF_vars(RadioGivesUp \/ \E t \in Tracks : RadioPlays(t))

-----------------------------------------------------------------------------
OptTrack == Tracks \union {NoTrack}

(* The type of the room's state.                                           *)
TypeOK ==
    /\ registered \in BOOLEAN
    /\ queue \in Seq(Tracks)
    /\ current \in OptTrack
    /\ playing \in BOOLEAN
    /\ position \in 0..TrackLength
    /\ endTimer \in {Off} \union 0..TrackLength
    /\ loopRemaining \in 0..MaxLoop
    /\ resumeAt \in [Tracks -> 0..TrackLength]
    /\ timed \subseteq Tracks /\ probing \subseteq Tracks
    /\ connections \in 0..MaxConnections
    /\ trackHadPresence \in BOOLEAN
    /\ autoPaused \in BOOLEAN
    /\ pausedBy \in {"nobody", "user", "empty"}
    /\ autoplay \in BOOLEAN
    /\ radio \in {"idle", "picking", "acquiring"}
    /\ advances \in [Advances ->
          [pc : {"idle", "acquiring", "disposing", "emptied"},
           finished : OptTrack, next : OptTrack]]
    /\ fetching \in [Tracks -> 0..MaxFetches]
    /\ media \in [Tracks -> {"none", "ready", "gone"}]
    /\ spilled \subseteq Tracks
    /\ requested \subseteq Tracks
    /\ halted \in BOOLEAN

Queued(t) == \E i \in 1..Len(queue) : queue[i] = t
Acquiring(a) == advances[a].pc = "acquiring"
Pending(t) == \E a \in Advances : Acquiring(a) /\ advances[a].next = t
InRoom(t) == Queued(t) \/ t = current \/ Pending(t)

(* A track is in one place at most: once in the queue, or playing, or      *)
(* taken off by one advance() that waits for its file.                     *)
OnePlace ==
    /\ \A i, j \in 1..Len(queue) : queue[i] = queue[j] => i = j
    /\ \A t \in Tracks : Queued(t) => t # current /\ ~Pending(t)
    /\ \A a, b \in Advances :
          Acquiring(a) =>
             /\ advances[a].next # current
             /\ Acquiring(b) /\ advances[a].next = advances[b].next => a = b

(* A track that left the room - played out, skipped, removed, cleared,     *)
(* ended - never comes back, whatever was under way when it left.          *)
GoneForGood ==
    [][\A t \in requested : InRoom(t)' => InRoom(t)]_vars

(* The tracks that some advance() has taken off the queue and waits for.   *)
Coming == {advances[a].next : a \in {b \in Advances : Acquiring(b)}}

List == INSTANCE Playlist WITH
    line <- queue, coming <- Coming, on <- current, entered <- requested

(* However its calls, timers, downloads and recommendations interleave,    *)
(* the room plays in the order of a Playlist: each request once, nothing   *)
(* overtaken but by Play Now, nothing doubled by two advances, nothing     *)
(* back after it left.                                                     *)
ImplementsPlaylist == List!Spec

(* The end timer runs only for a playing track of known duration, and goes *)
(* off exactly when that track is over, through pauses, seeks, resumptions,*)
(* loops and late answers of the duration probe.                           *)
TimerMeetsTheEnd ==
    endTimer # Off =>
        /\ playing
        /\ current \in timed
        /\ endTimer = TrackLength - position

(* A room does not get stuck on a track: while one of known duration plays *)
(* the end timer is set, unless an advance() is about to replace it.       *)
NeverStuck ==
    registered /\ playing /\ current \in timed /\ (\A a \in Advances : ~Acquiring(a))
        => endTimer # Off

(* Left alone, a room does not play one track of known duration for ever;  *)
(* and with autoplay off, where no recommendation follows, it works        *)
(* through its queue and falls silent, stays paused, or comes to a live    *)
(* track, which has no end.                                                *)
LeftAloneItMovesOn ==
    <>[][Proceed]_vars =>
        /\ \A t \in Tracks : []<>~(registered /\ playing /\ current = t /\ t \in timed)
        /\ <>[]~autoplay => <>[]~(registered /\ playing /\ current \in timed)

(* Somebody walking into a paused room sets it going only when it paused   *)
(* because it had emptied, never when somebody had pressed Pause; and what *)
(* paused because the room emptied does go on.                             *)
PauseKeepsItsCause ==
    current # NoTrack /\ ~playing => (autoPaused <=> pausedBy = "empty")

(* Whatever the room plays or will play has its file on disk.              *)
MediaIsThere ==
    registered =>
        /\ current # NoTrack => media[current] = "ready"
        /\ \A t \in Tracks \ Lazy : Queued(t) => media[t] = "ready"

(* No file is left on disk once its track is out of the room.              *)
NoStrayFile ==
    /\ spilled = {}
    /\ \A t \in Tracks : media[t] = "ready" => InRoom(t)

(* Advance() waits for a download that t does not survive with its file:   *)
(* t's own, when it fails beside a second one, or that of another track,   *)
(* which then takes the place of whatever started meanwhile.               *)
Overtaken(t) ==
    \E a \in Advances :
        Acquiring(a) /\ (advances[a].next = t \/ (t = current /\ advances[a].finished # t))

(* A track that leaves the room, by whichever of the calls that drop one,  *)
(* leaves no file behind, unless a download was waited for meanwhile.      *)
LeavesNoFile ==
    [][\A t \in Tracks :
          InRoom(t) /\ ~InRoom(t)' => media'[t] # "ready" \/ Overtaken(t)]_vars

(* "Stop playback and clear the whole queue for the room."                 *)
EndMeansSilence == halted => current = NoTrack

(* "The interrupted track is deliberately *not* disposed [...]: its media  *)
(* file is about to be needed again."                                      *)
QueuedFileIsKept ==
    registered => \A t \in Tracks : Queued(t) => media[t] # "gone"
=============================================================================
