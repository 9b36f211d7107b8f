------------------------- MODULE RoomPlaybackProofs -------------------------
(***************************************************************************)
(* What RoomPlayback promises, for every set of tracks and every bound.    *)
(* The proof is layered: the type of the state, then where tracks can be,  *)
(* then the timer and the pause, each layer using the ones before it.      *)
(***************************************************************************)
EXTENDS RoomPlayback, TLAPS

(* An advance() that waits for a download waits for that of some track.    *)
WaitsForATrack == \A a \in Advances : Acquiring(a) => advances[a].next \in Tracks

TypeInv == TypeOK /\ WaitsForATrack

-----------------------------------------------------------------------------
(* Lemmas about the helpers.                                               *)

(* A scheduled end lies within the track.                                  *)
LEMMA ScheduledEndType ==
    ASSUME NEW known, NEW track, NEW isPlaying, NEW at \in 0..TrackLength
    PROVE  ScheduledEnd(known, track, isPlaying, at) \in {Off} \union 0..TrackLength
  BY RoomAssumption DEF ScheduledEnd

(* Disposing of tracks leaves every other track's file as it is.           *)
LEMMA DisposeType ==
    ASSUME NEW S, NEW files \in [Tracks -> {"none", "ready", "gone"}]
    PROVE  Dispose(S, files) \in [Tracks -> {"none", "ready", "gone"}]
  BY DEF Dispose

(* Giving a track its file leaves every track with a file state.           *)
LEMMA AssignType ==
    ASSUME TypeOK, NEW t \in Tracks
    PROVE  Assign(t) \in [Tracks -> {"none", "ready", "gone"}]
  BY DEF Assign, TypeOK

(* The head of a queue is a track and the rest a queue.                    *)
LEMMA TailType ==
    ASSUME NEW q \in Seq(Tracks), q # <<>>
    PROVE  Head(q) \in Tracks /\ Tail(q) \in Seq(Tracks)
  OBVIOUS

(* A track put at the front of a queue makes a queue.                      *)
LEMMA ConsType ==
    ASSUME NEW q \in Seq(Tracks), NEW x \in Tracks
    PROVE  Cons(x, q) \in Seq(Tracks)
  BY DEF Cons

(* Taking one track out of a queue leaves a queue.                         *)
LEMMA RemoveAtType ==
    ASSUME NEW q \in Seq(Tracks), NEW i \in 1..Len(q)
    PROVE  RemoveAt(q, i) \in Seq(Tracks) /\ q[i] \in Tracks
  BY DEF RemoveAt

(* prefetchNext counts its fetches within their bound.                     *)
LEMMA PrefetchType ==
    ASSUME TypeOK, NEW q \in Seq(Tracks), NEW files, PrefetchNext(q, files)
    PROVE  fetching' \in [Tracks -> 0..MaxFetches]
<1>1. CASE q # <<>> /\ NeedsMedia(Head(q), files)
  <2>1. Head(q) \in Tracks
    BY <1>1, TailType
  <2> QED
    <3> DEFINE h == Head(q)
    <3>1. fetching[h] < MaxFetches /\ fetching' = [fetching EXCEPT ![h] = fetching[h] + 1]
      BY <1>1 DEF PrefetchNext
    <3>2. fetching[h] + 1 \in 0..MaxFetches
      BY <2>1, <3>1, RoomAssumption DEF TypeOK
    <3> HIDE DEF h
    <3> QED
      BY <3>1, <3>2 DEF TypeOK
<1>2. CASE ~(q # <<>> /\ NeedsMedia(Head(q), files))
  BY <1>2 DEF PrefetchNext, TypeOK
<1> QED
  BY <1>1, <1>2

(* startTrack leaves the transport and the clock well typed.               *)
LEMMA StartTrackType ==
    ASSUME TypeOK, NEW t \in Tracks, NEW files, NEW loose \in [Tracks -> 0..TrackLength],
           StartTrack(t, files, loose)
    PROVE  /\ current' \in OptTrack
           /\ playing' \in BOOLEAN
           /\ position' \in 0..TrackLength
           /\ endTimer' \in {Off} \union 0..TrackLength
           /\ loopRemaining' \in 0..MaxLoop
           /\ resumeAt' \in [Tracks -> 0..TrackLength]
           /\ timed' \subseteq Tracks /\ probing' \subseteq Tracks
           /\ trackHadPresence' \in BOOLEAN
<1>1. loose[t] \in 0..TrackLength /\ 0 \in 0..TrackLength /\ 0 \in 0..MaxLoop
  BY RoomAssumption
<1>2. endTimer' \in {Off} \union 0..TrackLength
  BY <1>1, ScheduledEndType DEF StartTrack
<1>3. resumeAt' \in [Tracks -> 0..TrackLength]
  BY <1>1 DEF StartTrack
<1>4. timed' \subseteq Tracks /\ probing' \subseteq Tracks
  BY DEF StartTrack, TypeOK
<1>5. current' \in OptTrack /\ playing' \in BOOLEAN /\ trackHadPresence' \in BOOLEAN
  BY DEF StartTrack, OptTrack
<1>6. position' \in 0..TrackLength /\ loopRemaining' \in 0..MaxLoop
  BY <1>1 DEF StartTrack
<1> QED
  BY <1>2, <1>3, <1>4, <1>5, <1>6

(* forcePlay leaves the transport and the queue well typed.                *)
LEMMA InterruptType ==
    ASSUME TypeOK, NEW t \in Tracks, NEW rest \in Seq(Tracks), NEW files,
           Interrupt(t, rest, files)
    PROVE  /\ queue' \in Seq(Tracks)
           /\ current' \in OptTrack
           /\ playing' \in BOOLEAN
           /\ position' \in 0..TrackLength
           /\ endTimer' \in {Off} \union 0..TrackLength
           /\ loopRemaining' \in 0..MaxLoop
           /\ resumeAt' \in [Tracks -> 0..TrackLength]
           /\ timed' \subseteq Tracks /\ probing' \subseteq Tracks
           /\ trackHadPresence' \in BOOLEAN
<1> DEFINE kept == IF current = NoTrack THEN resumeAt
                   ELSE [resumeAt EXCEPT ![current] = position]
<1>1. kept \in [Tracks -> 0..TrackLength]
  BY DEF TypeOK, OptTrack
<1>2. queue' \in Seq(Tracks)
  <2>1. CASE current = NoTrack
    BY <2>1 DEF Interrupt
  <2>2. CASE current # NoTrack
    <3>1. current \in Tracks
      BY <2>2 DEF TypeOK, OptTrack
    <3> QED
      BY <2>2, <3>1, ConsType DEF Interrupt
  <2> QED
    BY <2>1, <2>2
<1>3. StartTrack(t, files, kept)
  BY DEF Interrupt
<1> HIDE DEF kept
<1> QED
  BY <1>1, <1>2, <1>3, StartTrackType

-----------------------------------------------------------------------------
(* The type of the state.                                                  *)

(* A new room is well typed.                                               *)
LEMMA TypeInit == Init => TypeInv
<1> SUFFICES ASSUME Init PROVE TypeInv
  OBVIOUS
<1>1. /\ registered \in BOOLEAN /\ playing \in BOOLEAN /\ trackHadPresence \in BOOLEAN
      /\ autoPaused \in BOOLEAN /\ autoplay \in BOOLEAN /\ halted \in BOOLEAN
  BY DEF Init
<1>6. queue \in Seq(Tracks) /\ current \in OptTrack
  BY DEF Init, OptTrack
<1>2. /\ position \in 0..TrackLength /\ loopRemaining \in 0..MaxLoop
      /\ connections \in 0..MaxConnections
      /\ resumeAt \in [Tracks -> 0..TrackLength]
      /\ fetching \in [Tracks -> 0..MaxFetches]
  BY RoomAssumption DEF Init
<1>3. /\ timed \subseteq Tracks /\ probing \subseteq Tracks /\ spilled \subseteq Tracks
      /\ requested \subseteq Tracks /\ endTimer \in {Off} \union 0..TrackLength
  BY RoomAssumption DEF Init
<1>4. /\ media \in [Tracks -> {"none", "ready", "gone"}]
      /\ pausedBy \in {"nobody", "user", "empty"}
      /\ radio \in {"idle", "picking", "acquiring"}
  BY DEF Init
<1>5. /\ advances \in [Advances ->
            [pc : {"idle", "acquiring", "disposing", "emptied"},
             finished : OptTrack, next : OptTrack]]
      /\ WaitsForATrack
  BY DEF Init, Idle, At, OptTrack, WaitsForATrack, Acquiring
<1> QED
  BY <1>1, <1>2, <1>3, <1>4, <1>5, <1>6 DEF TypeInv, TypeOK

(* What advance() leaves advances at.                                      *)
LEMMA AdvancesType ==
    ASSUME TypeInv, NEW a \in Advances,
           NEW r \in [pc : {"idle", "acquiring", "disposing", "emptied"},
                      finished : OptTrack, next : OptTrack],
           r.pc = "acquiring" => r.next \in Tracks,
           advances' = [advances EXCEPT ![a] = r]
    PROVE  /\ advances' \in [Advances ->
                 [pc : {"idle", "acquiring", "disposing", "emptied"},
                  finished : OptTrack, next : OptTrack]]
           /\ WaitsForATrack'
  BY DEF TypeInv, TypeOK, WaitsForATrack, Acquiring

(* A call of advance() that waits for no download is well typed.           *)
LEMMA AtType ==
    ASSUME NEW pc \in {"idle", "acquiring", "disposing", "emptied"}
    PROVE  /\ At(pc) \in [pc : {"idle", "acquiring", "disposing", "emptied"},
                          finished : OptTrack, next : OptTrack]
           /\ At(pc).pc = pc
           /\ Idle \in [pc : {"idle", "acquiring", "disposing", "emptied"},
                        finished : OptTrack, next : OptTrack]
           /\ Idle.pc = "idle"
  BY DEF At, Idle, OptTrack

(* advance() from the start of a track to its disposal, and the type.      *)
LEMMA StartNextType ==
    ASSUME TypeInv, NEW a \in Advances, NEW finished \in OptTrack, NEW next \in Tracks,
           NEW rest \in Seq(Tracks), NEW files \in [Tracks -> {"none", "ready", "gone"}],
           StartNext(a, finished, next, rest, files),
           UNCHANGED <<registered, autoplayVars, requestVars>>,
           spilled' \subseteq Tracks
    PROVE  TypeInv'
<1>1. StartTrack(next, files, resumeAt)
  BY DEF StartNext
<1>2. /\ current' \in OptTrack
      /\ playing' \in BOOLEAN
      /\ position' \in 0..TrackLength
      /\ endTimer' \in {Off} \union 0..TrackLength
      /\ loopRemaining' \in 0..MaxLoop
      /\ resumeAt' \in [Tracks -> 0..TrackLength]
      /\ timed' \subseteq Tracks /\ probing' \subseteq Tracks
      /\ trackHadPresence' \in BOOLEAN
  BY <1>1, StartTrackType DEF TypeInv, TypeOK
<1>3. fetching' \in [Tracks -> 0..MaxFetches]
  BY PrefetchType DEF StartNext, TypeInv
<1>4. /\ advances' \in [Advances ->
           [pc : {"idle", "acquiring", "disposing", "emptied"},
            finished : OptTrack, next : OptTrack]]
      /\ WaitsForATrack'
  <2>1. CASE finished = NoTrack
    BY <2>1, AdvancesType, AtType DEF StartNext
  <2>2. CASE finished # NoTrack
    BY <2>2, AdvancesType, AtType DEF StartNext
  <2> QED
    BY <2>1, <2>2
<1>5. media' \in [Tracks -> {"none", "ready", "gone"}]
  BY DisposeType DEF StartNext
<1>6. UNCHANGED <<registered, connections, autoPaused, pausedBy, autoplay, radio,
                  requested, halted>> /\ queue' = rest
  BY DEF StartNext, autoplayVars, requestVars
<1> QED
  BY <1>2, <1>3, <1>4, <1>5, <1>6 DEF TypeInv, TypeOK

(* advance() up to its first await keeps the type.                         *)
LEMMA BeginAdvanceType ==
    ASSUME TypeInv, NEW a \in Advances, NEW loops \in 0..MaxLoop, BeginAdvance(a, loops)
    PROVE  TypeInv'
<1> USE DEF autoplayVars, requestVars, presenceVars, durationVars
<1>1. CASE queue # <<>> /\ NeedsMedia(Head(queue), media)
  <2>1. Head(queue) \in Tracks /\ Tail(queue) \in Seq(Tracks)
    BY <1>1, TailType DEF TypeInv, TypeOK
  <2> DEFINE r == [pc |-> "acquiring", finished |-> current, next |-> Head(queue)]
  <2>2. /\ r \in [pc : {"idle", "acquiring", "disposing", "emptied"},
                  finished : OptTrack, next : OptTrack]
        /\ r.next \in Tracks
    BY <2>1 DEF TypeInv, TypeOK, OptTrack
  <2>3. advances' = [advances EXCEPT ![a] = r]
    BY <1>1 DEF BeginAdvance
  <2>4. UNCHANGED <<registered, current, playing, position, resumeAt, timed, probing,
                    connections, trackHadPresence, autoPaused, pausedBy, autoplay, radio,
                    fetching, media, spilled, requested, halted>>
        /\ queue' = Tail(queue) /\ endTimer' = Off /\ loopRemaining' = loops
    BY <1>1 DEF BeginAdvance
  <2> HIDE DEF r
  <2>5. /\ advances' \in [Advances ->
             [pc : {"idle", "acquiring", "disposing", "emptied"},
              finished : OptTrack, next : OptTrack]]
        /\ WaitsForATrack'
    BY <2>2, <2>3, AdvancesType
  <2> QED
    BY <2>1, <2>4, <2>5 DEF TypeInv, TypeOK
<1>2. CASE queue # <<>> /\ ~NeedsMedia(Head(queue), media)
  <2>1. Head(queue) \in Tracks /\ Tail(queue) \in Seq(Tracks)
    BY <1>2, TailType DEF TypeInv, TypeOK
  <2>2. StartNext(a, current, Head(queue), Tail(queue), media)
        /\ UNCHANGED <<registered, autoplayVars, requestVars>> /\ spilled' = spilled
    BY <1>2 DEF BeginAdvance
  <2> QED
    <3>1. current \in OptTrack /\ media \in [Tracks -> {"none", "ready", "gone"}]
          /\ spilled' \subseteq Tracks
      BY <2>2 DEF TypeInv, TypeOK
    <3> DEFINE h == Head(queue)
               rest == Tail(queue)
    <3>2. /\ h \in Tracks /\ rest \in Seq(Tracks) /\ StartNext(a, current, h, rest, media)
          /\ UNCHANGED <<registered, autoplayVars, requestVars>>
      BY <2>1, <2>2
    <3> HIDE DEF h, rest, autoplayVars, requestVars
    <3> QED
      BY <3>1, <3>2, StartNextType
<1>3. CASE queue = <<>>
  <2>1. /\ advances' \in [Advances ->
             [pc : {"idle", "acquiring", "disposing", "emptied"},
              finished : OptTrack, next : OptTrack]]
        /\ WaitsForATrack'
    <3>1. CASE current = NoTrack
      BY <1>3, <3>1, AdvancesType, AtType DEF BeginAdvance
    <3>2. CASE current # NoTrack
      BY <1>3, <3>2, AdvancesType, AtType DEF BeginAdvance
    <3> QED
      BY <3>1, <3>2
  <2>2. media' \in [Tracks -> {"none", "ready", "gone"}]
    BY <1>3, DisposeType DEF BeginAdvance, TypeInv, TypeOK
  <2>3. UNCHANGED <<registered, queue, resumeAt, timed, probing, connections, autoPaused,
                    pausedBy, autoplay, radio, fetching, spilled, requested, halted>>
        /\ current' = NoTrack /\ playing' = FALSE /\ position' = 0
        /\ endTimer' = Off /\ loopRemaining' = loops
    BY <1>3 DEF BeginAdvance
  <2>4. trackHadPresence' \in BOOLEAN
    <3>1. CASE current = NoTrack
      BY <1>3, <3>1 DEF BeginAdvance
    <3>2. CASE current # NoTrack
      <4>1. trackHadPresence' = trackHadPresence
        BY <1>3, <3>2 DEF BeginAdvance
      <4> QED
        BY <4>1 DEF TypeInv, TypeOK
    <3> QED
      BY <3>1, <3>2
  <2>5. current' \in OptTrack /\ position' \in 0..TrackLength /\ loopRemaining' \in 0..MaxLoop
        /\ endTimer' \in {Off} \union 0..TrackLength
    BY <2>3, RoomAssumption DEF OptTrack
  <2>6. playing' \in BOOLEAN
    BY <2>3
  <2> QED
    BY <2>1, <2>2, <2>3, <2>4, <2>5, <2>6 DEF TypeInv, TypeOK
<1> QED
  BY <1>1, <1>2, <1>3

(* Every step on its own: each keeps the type.                             *)
LEMMA AcquireDoneType ==
    ASSUME TypeInv, NEW a \in Advances, AcquireDone(a) PROVE TypeInv'
<1> DEFINE next == advances[a].next
           finished == advances[a].finished
           files == Assign(next)
<1>1. next \in Tracks /\ finished \in OptTrack /\ queue \in Seq(Tracks)
  BY DEF AcquireDone, TypeInv, TypeOK, WaitsForATrack, Acquiring
<1>2. files \in [Tracks -> {"none", "ready", "gone"}]
  BY <1>1, AssignType DEF TypeInv
<1>3. /\ StartNext(a, finished, next, queue, files)
      /\ UNCHANGED <<registered, autoplayVars, requestVars>>
      /\ spilled' = Spill(next)
  BY DEF AcquireDone
<1>4. spilled' \subseteq Tracks
  BY <1>1, <1>3 DEF Spill, TypeInv, TypeOK
<1> HIDE DEF next, finished, files
<1> QED
  BY <1>1, <1>2, <1>3, <1>4, StartNextType

(* The end of advance() keeps the type.                                    *)
LEMMA FinishAdvanceType ==
    ASSUME TypeInv, NEW a \in Advances, FinishAdvance(a) PROVE TypeInv'
<1>1. /\ advances' \in [Advances ->
           [pc : {"idle", "acquiring", "disposing", "emptied"},
            finished : OptTrack, next : OptTrack]]
      /\ WaitsForATrack'
  BY AdvancesType, AtType DEF FinishAdvance
<1>2. radio' \in {"idle", "picking", "acquiring"} /\ trackHadPresence' \in BOOLEAN
  BY DEF FinishAdvance, TypeInv, TypeOK
<1>3. UNCHANGED <<registered, queue, transportVars, durationVars, connections,
                  autoPaused, pausedBy, autoplay, fileVars, requestVars>>
  BY DEF FinishAdvance
<1> QED
  BY <1>1, <1>2, <1>3
     DEF TypeInv, TypeOK, transportVars, durationVars, fileVars, requestVars

(* The end timer, looping or advancing, keeps the type.                    *)
LEMMA EndTimerFiresType == ASSUME TypeInv, EndTimerFires PROVE TypeInv'
<1>1. CASE loopRemaining # 0
  <2>1. /\ loopRemaining' = loopRemaining - 1 /\ playing' = TRUE /\ position' = 0
        /\ endTimer' = ScheduledEnd(timed, current, TRUE, 0)
        /\ UNCHANGED <<registered, queue, current, resumeAt, durationVars, presenceVars,
                       autoplayVars, advances, fileVars, requestVars>>
    BY <1>1 DEF EndTimerFires
  <2>2. /\ loopRemaining' \in 0..MaxLoop /\ position' \in 0..TrackLength
        /\ endTimer' \in {Off} \union 0..TrackLength
    <3>1. loopRemaining \in 0..MaxLoop /\ 0 \in 0..TrackLength
      BY RoomAssumption DEF TypeInv, TypeOK
    <3>2. loopRemaining - 1 \in 0..MaxLoop
      BY <1>1, <3>1, RoomAssumption
    <3> QED
      BY <2>1, <3>1, <3>2, ScheduledEndType
  <2>3. playing' \in BOOLEAN
    BY <2>1
  <2> QED
    BY <2>1, <2>2, <2>3
       DEF TypeInv, TypeOK, WaitsForATrack, Acquiring, durationVars, presenceVars,
           autoplayVars, fileVars, requestVars
<1>2. CASE loopRemaining = 0
  <2>1. PICK a \in Advances : BeginAdvance(a, 0)
    BY <1>2 DEF EndTimerFires
  <2>2. 0 \in 0..MaxLoop
    BY RoomAssumption
  <2> QED
    BY <2>1, <2>2, BeginAdvanceType
<1> QED
  BY <1>1, <1>2

(* The clock does not run past the end of a track.                         *)
LEMMA TickType == ASSUME TypeInv, Tick PROVE TypeInv'
<1>1. /\ position' \in 0..TrackLength /\ endTimer' \in {Off} \union 0..TrackLength
      /\ UNCHANGED <<registered, queue, current, playing, loopRemaining, resumeAt, durationVars,
                     presenceVars, autoplayVars, advances, fileVars, requestVars>>
  BY RoomAssumption DEF Tick, TypeInv, TypeOK, Off
<1> QED
  BY <1>1 DEF TypeInv, TypeOK, WaitsForATrack, Acquiring, durationVars, presenceVars,
              autoplayVars, fileVars, requestVars

(* A prefetch that settles keeps the type.                                 *)
LEMMA FetchDoneType == ASSUME TypeInv, NEW t \in Tracks, FetchDone(t) PROVE TypeInv'
<1>1. fetching' \in [Tracks -> 0..MaxFetches]
  <2>1. fetching[t] - 1 \in 0..MaxFetches
    BY RoomAssumption DEF FetchDone, TypeInv, TypeOK
  <2> QED
    BY <2>1 DEF FetchDone, TypeInv, TypeOK
<1>2. media' \in [Tracks -> {"none", "ready", "gone"}] /\ spilled' \subseteq Tracks
  <2>1. CASE media' = Assign(t) /\ spilled' = Spill(t)
    BY <2>1, AssignType DEF Spill, TypeInv, TypeOK
  <2>2. CASE UNCHANGED <<media, spilled>>
    BY <2>2 DEF TypeInv, TypeOK
  <2> QED
    BY <2>1, <2>2 DEF FetchDone
<1>3. UNCHANGED <<registered, queue, transportVars, durationVars, presenceVars,
                  autoplayVars, advances, requestVars>>
  BY DEF FetchDone
<1> QED
  BY <1>1, <1>2, <1>3
     DEF TypeInv, TypeOK, WaitsForATrack, Acquiring, transportVars, durationVars,
         presenceVars, autoplayVars, requestVars

(* A duration that arrives late keeps the type.                            *)
LEMMA ProbeDoneType == ASSUME TypeInv, NEW t \in Tracks, ProbeDone(t) PROVE TypeInv'
<1>1. timed' \subseteq Tracks /\ probing' \subseteq Tracks
  BY DEF ProbeDone, TypeInv, TypeOK
<1>2. endTimer' \in {Off} \union 0..TrackLength
  <2>1. position \in 0..TrackLength
    BY DEF TypeInv, TypeOK
  <2>2. CASE endTimer' = ScheduledEnd(timed', t, playing, position)
    BY <2>1, <2>2, ScheduledEndType
  <2>3. CASE endTimer' = endTimer
    BY <2>3 DEF TypeInv, TypeOK
  <2> QED
    BY <2>2, <2>3 DEF ProbeDone
<1>3. UNCHANGED <<registered, queue, current, playing, position, loopRemaining, resumeAt,
                  presenceVars, autoplayVars, advances, fileVars, requestVars>>
  BY DEF ProbeDone
<1> QED
  BY <1>1, <1>2, <1>3
     DEF TypeInv, TypeOK, WaitsForATrack, Acquiring, presenceVars, autoplayVars, fileVars,
         requestVars

(* The recommendations, played or given up, keep the type.                 *)
LEMMA RadioType ==
    ASSUME TypeInv, RadioPicks \/ RadioGivesUp \/ \E t \in Tracks : RadioPlays(t)
    PROVE  TypeInv'
<1>1. CASE RadioPicks \/ RadioGivesUp
  <2>1. /\ radio' \in {"idle", "picking", "acquiring"}
        /\ UNCHANGED <<registered, queue, transportVars, durationVars, presenceVars, autoplay,
                       advances, fileVars, requestVars>>
    BY <1>1 DEF RadioPicks, RadioGivesUp
  <2> QED
    BY <2>1 DEF TypeInv, TypeOK, WaitsForATrack, Acquiring, transportVars, durationVars,
                presenceVars, fileVars, requestVars
<1>2. ASSUME NEW t \in Tracks, RadioPlays(t) PROVE TypeInv'
  <2>1. /\ StartTrack(t, media', resumeAt)
        /\ media' = Assign(t) /\ radio' = "idle" /\ requested' = requested \union {t}
        /\ UNCHANGED <<registered, queue, connections, autoPaused, pausedBy, autoplay, advances,
                       fetching, spilled, halted>>
    BY <1>2 DEF RadioPlays
  <2>2. /\ current' \in OptTrack
        /\ playing' \in BOOLEAN
        /\ position' \in 0..TrackLength
        /\ endTimer' \in {Off} \union 0..TrackLength
        /\ loopRemaining' \in 0..MaxLoop
        /\ resumeAt' \in [Tracks -> 0..TrackLength]
        /\ timed' \subseteq Tracks /\ probing' \subseteq Tracks
        /\ trackHadPresence' \in BOOLEAN
    BY <2>1, StartTrackType DEF TypeInv, TypeOK
  <2>3. media' \in [Tracks -> {"none", "ready", "gone"}]
    BY <2>1, AssignType DEF TypeInv
  <2> QED
    BY <2>1, <2>2, <2>3 DEF TypeInv, TypeOK, WaitsForATrack, Acquiring
<1> QED
  BY <1>1, <1>2

(* A request, queued, played or forced, keeps the type.                    *)
LEMMA EnqueueType ==
    ASSUME TypeInv, NEW t \in Tracks, NEW force \in BOOLEAN, Enqueue(t, force) PROVE TypeInv'
<1> DEFINE files == IF t \in Lazy THEN media ELSE Assign(t)
           Transport ==
              /\ queue' \in Seq(Tracks)
              /\ current' \in OptTrack
              /\ playing' \in BOOLEAN
              /\ position' \in 0..TrackLength
              /\ endTimer' \in {Off} \union 0..TrackLength
              /\ loopRemaining' \in 0..MaxLoop
              /\ resumeAt' \in [Tracks -> 0..TrackLength]
              /\ timed' \subseteq Tracks /\ probing' \subseteq Tracks
              /\ trackHadPresence' \in BOOLEAN
              /\ fetching' \in [Tracks -> 0..MaxFetches]
              /\ UNCHANGED <<connections, autoPaused, pausedBy>>
<1>1. /\ media' = files /\ requested' = requested \union {t} /\ halted' = FALSE
      /\ UNCHANGED <<registered, autoplay, radio, advances, spilled>>
  BY DEF Enqueue, autoplayVars
<1>2. files \in [Tracks -> {"none", "ready", "gone"}]
  BY AssignType DEF TypeInv, TypeOK
<1>3. ASSUME StartTrack(t, files, resumeAt),
             UNCHANGED <<queue, connections, autoPaused, pausedBy, fetching>>
      PROVE  Transport
  <2> HIDE DEF files
  <2>1. resumeAt \in [Tracks -> 0..TrackLength] /\ TypeOK
    BY DEF TypeInv, TypeOK
  <2> QED
    BY <1>3, <2>1, StartTrackType DEF TypeOK
<1>4. ASSUME Interrupt(t, queue, files),
             UNCHANGED <<connections, autoPaused, pausedBy, fetching>>
      PROVE  Transport
  <2> HIDE DEF files
  <2>1. queue \in Seq(Tracks) /\ TypeOK
    BY DEF TypeInv, TypeOK
  <2> QED
    BY <1>4, <2>1, InterruptType DEF TypeOK
<1>5. ASSUME queue' = Append(queue, t),
             IF queue = <<>> THEN PrefetchNext(queue', files) ELSE UNCHANGED fetching,
             UNCHANGED <<transportVars, durationVars, presenceVars>>
      PROVE  Transport
  <2> HIDE DEF files
  <2>1. queue' \in Seq(Tracks) /\ TypeOK
    BY <1>5 DEF TypeInv, TypeOK
  <2>2. fetching' \in [Tracks -> 0..MaxFetches]
    BY <1>5, <2>1, PrefetchType DEF TypeOK
  <2> QED
    BY <1>5, <2>1, <2>2 DEF TypeOK, transportVars, durationVars, presenceVars
<1>6. Transport
  BY <1>3, <1>4, <1>5 DEF Enqueue
<1> HIDE DEF files
<1> QED
  BY <1>1, <1>2, <1>6 DEF TypeInv, TypeOK, WaitsForATrack, Acquiring

(* Play Now keeps the type.                                                *)
LEMMA ForcePlayType ==
    ASSUME TypeInv, NEW i \in 1..Len(queue), ForcePlay(i) PROVE TypeInv'
<1> DEFINE t == queue[i]
           rest == RemoveAt(queue, i)
<1>1. t \in Tracks /\ rest \in Seq(Tracks)
  BY RemoveAtType DEF TypeInv, TypeOK
<1>2. /\ Interrupt(t, rest, media)
      /\ UNCHANGED <<registered, connections, autoPaused, pausedBy, autoplayVars, advances,
                     fileVars, requestVars>>
  BY DEF ForcePlay
<1> HIDE DEF t, rest
<1>3. TypeOK
  BY DEF TypeInv
<1>4. /\ queue' \in Seq(Tracks)
      /\ current' \in OptTrack
      /\ playing' \in BOOLEAN
      /\ position' \in 0..TrackLength
      /\ endTimer' \in {Off} \union 0..TrackLength
      /\ loopRemaining' \in 0..MaxLoop
      /\ resumeAt' \in [Tracks -> 0..TrackLength]
      /\ timed' \subseteq Tracks /\ probing' \subseteq Tracks
      /\ trackHadPresence' \in BOOLEAN
  BY <1>1, <1>2, <1>3, InterruptType
<1> QED
  BY <1>2, <1>4
     DEF TypeInv, TypeOK, WaitsForATrack, Acquiring, autoplayVars, fileVars, requestVars

(* The calls that start no track.                                          *)
LEMMA QueueCallsType ==
    ASSUME TypeInv,
           (\E i \in 1..Len(queue) : RemoveQueued(i)) \/ ClearQueue \/ End \/ Reboot
    PROVE  TypeInv'
<1> USE DEF transportVars, durationVars, presenceVars, autoplayVars, fileVars, requestVars
<1>1. ASSUME NEW i \in 1..Len(queue), RemoveQueued(i) PROVE TypeInv'
  <2>1. queue' \in Seq(Tracks)
    BY <1>1, RemoveAtType DEF RemoveQueued, TypeInv, TypeOK
  <2>2. media' \in [Tracks -> {"none", "ready", "gone"}]
    BY <1>1, DisposeType DEF RemoveQueued, TypeInv, TypeOK
  <2>3. UNCHANGED <<registered, transportVars, durationVars, presenceVars, autoplayVars,
                    advances, fetching, spilled, requestVars>>
    BY <1>1 DEF RemoveQueued
  <2> QED
    BY <2>1, <2>2, <2>3 DEF TypeInv, TypeOK, WaitsForATrack, Acquiring
<1>2. CASE ClearQueue
  <2>1. queue' \in Seq(Tracks)
    BY <1>2 DEF ClearQueue
  <2>2. media' \in [Tracks -> {"none", "ready", "gone"}]
    BY <1>2, DisposeType DEF ClearQueue, TypeInv, TypeOK
  <2>3. UNCHANGED <<registered, transportVars, durationVars, presenceVars, autoplayVars,
                    advances, fetching, spilled, requestVars>>
    BY <1>2 DEF ClearQueue
  <2> QED
    BY <2>1, <2>2, <2>3 DEF TypeInv, TypeOK, WaitsForATrack, Acquiring
<1>3. CASE End
  <2>1. /\ queue' \in Seq(Tracks) /\ current' \in OptTrack /\ position' \in 0..TrackLength
        /\ endTimer' \in {Off} \union 0..TrackLength
    BY <1>3, RoomAssumption DEF End, OptTrack
  <2>2. playing' \in BOOLEAN /\ halted' \in BOOLEAN
    BY <1>3 DEF End
  <2>3. media' \in [Tracks -> {"none", "ready", "gone"}]
    BY <1>3, DisposeType DEF End, TypeInv, TypeOK
  <2>4. UNCHANGED <<registered, loopRemaining, resumeAt, durationVars, presenceVars,
                    autoplayVars, advances, fetching, spilled, requested>>
    BY <1>3 DEF End
  <2> QED
    BY <2>1, <2>2, <2>3, <2>4 DEF TypeInv, TypeOK, WaitsForATrack, Acquiring
<1>4. CASE Reboot
  <2>1. endTimer' \in {Off} \union 0..TrackLength /\ connections' \in 0..MaxConnections
    BY <1>4, RoomAssumption DEF Reboot
  <2>2. registered' \in BOOLEAN
    BY <1>4 DEF Reboot
  <2>3. media' \in [Tracks -> {"none", "ready", "gone"}]
    BY <1>4, DisposeType DEF Reboot, TypeInv, TypeOK
  <2>4. UNCHANGED <<queue, current, playing, position, loopRemaining, resumeAt, durationVars,
                    trackHadPresence, autoPaused, pausedBy, autoplayVars, advances, fetching,
                    spilled, requestVars>>
    BY <1>4 DEF Reboot
  <2> QED
    BY <2>1, <2>2, <2>3, <2>4 DEF TypeInv, TypeOK, WaitsForATrack, Acquiring
<1> QED
  BY <1>1, <1>2, <1>3, <1>4

(* Going on from a pause sets the timer within the track.                  *)
LEMMA ResumeType ==
    ASSUME TypeOK, Resume
    PROVE  /\ playing' \in BOOLEAN /\ autoPaused' \in BOOLEAN
           /\ endTimer' \in {Off} \union 0..TrackLength
<1>1. position \in 0..TrackLength
  BY DEF TypeOK
<1>2. endTimer' \in {Off} \union 0..TrackLength
  BY <1>1, ScheduledEndType DEF Resume
<1>3. playing' \in BOOLEAN /\ autoPaused' \in BOOLEAN
  BY DEF Resume
<1> QED
  BY <1>2, <1>3

(* Play, pause, seek, skip and loop keep the type.                         *)
LEMMA TransportCallsType ==
    ASSUME TypeInv,
           \/ Play \/ Pause \/ Skip
           \/ \E target \in 0..(TrackLength - 1) : Seek(target)
           \/ \E count \in 0..MaxLoop : SetLoop(count)
    PROVE  TypeInv'
<1> USE DEF transportVars, durationVars, presenceVars, autoplayVars, fileVars, requestVars
<1>1. CASE Play
  <2>1. Resume /\ TypeOK
    BY <1>1 DEF Play, TypeInv
  <2>2. /\ playing' \in BOOLEAN /\ autoPaused' \in BOOLEAN
        /\ endTimer' \in {Off} \union 0..TrackLength
    BY <2>1, ResumeType
  <2>3. UNCHANGED <<registered, queue, current, position, loopRemaining, resumeAt, durationVars,
                    connections, trackHadPresence, pausedBy, autoplayVars, advances, fileVars,
                    requestVars>>
    BY <1>1 DEF Play
  <2> QED
    BY <2>2, <2>3 DEF TypeInv, TypeOK, WaitsForATrack, Acquiring
<1>2. CASE Pause
  <2>1. playing' \in BOOLEAN /\ autoPaused' \in BOOLEAN
    BY <1>2 DEF Pause, Suspend
  <2>2. endTimer' \in {Off} \union 0..TrackLength /\ pausedBy' \in {"nobody", "user", "empty"}
    BY <1>2 DEF Pause, Suspend
  <2>3. UNCHANGED <<registered, queue, current, position, loopRemaining, resumeAt, durationVars,
                    connections, trackHadPresence, autoplayVars, advances, fileVars, requestVars>>
    BY <1>2 DEF Pause
  <2> QED
    BY <2>1, <2>2, <2>3 DEF TypeInv, TypeOK, WaitsForATrack, Acquiring
<1>3. CASE Skip
  <2>1. 0 \in 0..MaxLoop
    BY RoomAssumption
  <2>2. PICK a \in Advances : BeginAdvance(a, 0)
    BY <1>3 DEF Skip
  <2> QED
    BY <2>1, <2>2, BeginAdvanceType
<1>4. ASSUME NEW target \in 0..(TrackLength - 1), Seek(target) PROVE TypeInv'
  <2>1. target \in 0..TrackLength
    BY RoomAssumption
  <2>2. endTimer' \in {Off} \union 0..TrackLength
    BY <1>4, <2>1, ScheduledEndType DEF Seek, TypeInv, TypeOK
  <2>3. /\ position' = target
        /\ UNCHANGED <<registered, queue, current, playing, loopRemaining, resumeAt, durationVars,
                       presenceVars, autoplayVars, advances, fileVars, requestVars>>
    BY <1>4 DEF Seek
  <2> QED
    BY <2>1, <2>2, <2>3 DEF TypeInv, TypeOK, WaitsForATrack, Acquiring
<1>5. ASSUME NEW count \in 0..MaxLoop, SetLoop(count) PROVE TypeInv'
  BY <1>5 DEF SetLoop, TypeInv, TypeOK, WaitsForATrack, Acquiring
<1> QED
  BY <1>1, <1>2, <1>3, <1>4, <1>5

(* People who come and go, and the radio switch, keep the type.            *)
LEMMA PeopleType ==
    ASSUME TypeInv, Join \/ Leave \/ \E enabled \in BOOLEAN : SetAutoplay(enabled)
    PROVE  TypeInv'
<1> USE DEF transportVars, durationVars, presenceVars, autoplayVars, fileVars, requestVars
<1>1. CASE Join
  <2>1. connections' \in 0..MaxConnections
    BY <1>1, RoomAssumption DEF Join, TypeInv, TypeOK
  <2>2. /\ playing' \in BOOLEAN /\ autoPaused' \in BOOLEAN
        /\ endTimer' \in {Off} \union 0..TrackLength
    <3>1. TypeOK /\ (Resume \/ UNCHANGED <<playing, autoPaused, endTimer>>)
      BY <1>1 DEF Join, TypeInv
    <3>2. CASE UNCHANGED <<playing, autoPaused, endTimer>>
      BY <3>1, <3>2 DEF TypeOK
    <3> QED
      BY <3>1, <3>2, ResumeType
  <2>3. /\ trackHadPresence' = TRUE
        /\ UNCHANGED <<registered, queue, current, position, loopRemaining, resumeAt,
                       durationVars, pausedBy, autoplayVars, advances, fileVars, requestVars>>
    BY <1>1 DEF Join
  <2>4. trackHadPresence' \in BOOLEAN
    BY <2>3
  <2> QED
    BY <2>1, <2>2, <2>3, <2>4 DEF TypeInv, TypeOK, WaitsForATrack, Acquiring
<1>2. CASE Leave
  <2>1. connections' \in 0..MaxConnections
    BY <1>2, RoomAssumption DEF Leave, TypeInv, TypeOK
  <2>2. /\ playing' \in BOOLEAN /\ autoPaused' \in BOOLEAN
        /\ endTimer' \in {Off} \union 0..TrackLength
        /\ pausedBy' \in {"nobody", "user", "empty"}
    <3>1. CASE UNCHANGED <<playing, endTimer, autoPaused, pausedBy>>
      BY <3>1 DEF TypeInv, TypeOK
    <3>2. CASE Suspend /\ autoPaused' = TRUE /\ pausedBy' = "empty"
      <4>1. playing' \in BOOLEAN /\ autoPaused' \in BOOLEAN
        BY <3>2 DEF Suspend
      <4>2. endTimer' \in {Off} \union 0..TrackLength
        BY <3>2 DEF Suspend
      <4> QED
        BY <3>2, <4>1, <4>2
    <3> QED
      BY <1>2, <3>1, <3>2 DEF Leave
  <2>3. UNCHANGED <<registered, queue, current, position, loopRemaining, resumeAt, durationVars,
                    trackHadPresence, autoplayVars, advances, fileVars, requestVars>>
    BY <1>2 DEF Leave
  <2> QED
    BY <2>1, <2>2, <2>3 DEF TypeInv, TypeOK, WaitsForATrack, Acquiring
<1>3. ASSUME NEW enabled \in BOOLEAN, SetAutoplay(enabled) PROVE TypeInv'
  BY <1>3 DEF SetAutoplay, TypeInv, TypeOK, WaitsForATrack, Acquiring
<1> QED
  BY <1>1, <1>2, <1>3

(* The type is kept by every step.                                         *)
LEMMA TypeStep == TypeInv /\ [Next]_vars => TypeInv'
<1> SUFFICES ASSUME TypeInv, [Next]_vars PROVE TypeInv'
  OBVIOUS
<1>1. ASSUME NEW a \in Advances, AcquireFail(a) PROVE TypeInv'
  <2>1. loopRemaining \in 0..MaxLoop /\ BeginAdvance(a, loopRemaining)
    BY <1>1 DEF AcquireFail, TypeInv, TypeOK
  <2> QED
    BY <2>1, BeginAdvanceType
<1>2. CASE Proceed
  BY <1>1, <1>2, EndTimerFiresType, TickType, AcquireDoneType, FinishAdvanceType,
     FetchDoneType, ProbeDoneType, RadioType DEF Proceed
<1>3. CASE Request
  BY <1>3, EnqueueType, ForcePlayType, QueueCallsType, TransportCallsType, PeopleType
     DEF Request
<1>4. CASE UNCHANGED vars
  BY <1>4 DEF TypeInv, TypeOK, WaitsForATrack, Acquiring, vars, transportVars, durationVars,
              presenceVars, autoplayVars, fileVars, requestVars
<1> QED
  BY <1>2, <1>3, <1>4 DEF Next

(* The state of a room keeps its type: in particular its end timer never   *)
(* counts past the track, and its queue holds tracks only.                 *)
THEOREM RoomTypeOK == Spec => []TypeOK
<1>1. TypeInv => TypeOK
  BY DEF TypeInv
<1> QED
  BY <1>1, TypeInit, TypeStep, PTL DEF Spec

-----------------------------------------------------------------------------
(* Where tracks can be.                                                    *)

Has(q, t) == \E i \in 1..Len(q) : q[i] = t

Distinct(q) == \A i, j \in 1..Len(q) : q[i] = q[j] => i = j

(* What enqueue()'s fresh id is worth: it names nothing that is here.      *)
PlacedWereRequested == \A t \in Tracks : InRoom(t) => t \in requested

PlaceInv == OnePlace /\ PlacedWereRequested

(* The step brings back no track that had left.                            *)
Stays == \A t \in requested : InRoom(t)' => InRoom(t)

(* Taking the head off a queue takes off that track and no other.          *)
LEMMA TailPlace ==
    ASSUME NEW q \in Seq(Tracks), q # <<>>
    PROVE  /\ Has(q, Head(q))
           /\ \A t : Has(Tail(q), t) => Has(q, t)
           /\ Distinct(q) => Distinct(Tail(q)) /\ ~Has(Tail(q), Head(q))
<1>1. /\ Len(q) \in Nat \ {0} /\ Head(q) = q[1] /\ Len(Tail(q)) = Len(q) - 1
      /\ \A i \in 1..Len(Tail(q)) : Tail(q)[i] = q[i + 1]
  OBVIOUS
<1>2. \A i \in 1..Len(Tail(q)) : i + 1 \in 1..Len(q) /\ i + 1 # 1
  BY <1>1
<1>3. 1 \in 1..Len(q)
  BY <1>1
<1> QED
  BY <1>1, <1>2, <1>3 DEF Has, Distinct

(* Putting a track at the front adds that track and no other.              *)
LEMMA ConsPlace ==
    ASSUME NEW q \in Seq(Tracks), NEW x \in Tracks
    PROVE  /\ \A t : Has(Cons(x, q), t) => t = x \/ Has(q, t)
           /\ Distinct(q) /\ ~Has(q, x) => Distinct(Cons(x, q))
<1>1. /\ Len(q) \in Nat /\ Len(Cons(x, q)) = Len(q) + 1 /\ Cons(x, q)[1] = x
      /\ \A i \in 2..Len(Cons(x, q)) : i - 1 \in 1..Len(q) /\ Cons(x, q)[i] = q[i - 1]
  BY DEF Cons
<1>2. \A i \in 1..Len(Cons(x, q)) : i = 1 \/ i \in 2..Len(Cons(x, q))
  BY <1>1
<1> HIDE DEF Cons
<1>3. \A t : Has(Cons(x, q), t) => t = x \/ Has(q, t)
  BY <1>1, <1>2 DEF Has
<1>4. ASSUME Distinct(q), ~Has(q, x) PROVE Distinct(Cons(x, q))
  BY <1>1, <1>2, <1>4 DEF Has, Distinct
<1> QED
  BY <1>3, <1>4

(* Putting a track at the back adds that track and no other.               *)
LEMMA AppendPlace ==
    ASSUME NEW q \in Seq(Tracks), NEW x \in Tracks
    PROVE  /\ \A t : Has(Append(q, x), t) => t = x \/ Has(q, t)
           /\ Distinct(q) /\ ~Has(q, x) => Distinct(Append(q, x))
<1>1. /\ Len(q) \in Nat /\ Len(Append(q, x)) = Len(q) + 1 /\ Append(q, x)[Len(q) + 1] = x
      /\ \A i \in 1..Len(q) : Append(q, x)[i] = q[i]
  OBVIOUS
<1>2. \A i \in 1..Len(Append(q, x)) : i = Len(q) + 1 \/ i \in 1..Len(q)
  BY <1>1
<1> QED
  BY <1>1, <1>2 DEF Has, Distinct

(* What stands where in two queues put together.                           *)
LEMMA ConcatElements ==
    ASSUME NEW u \in Seq(Tracks), NEW v \in Seq(Tracks)
    PROVE  /\ Len(u \o v) = Len(u) + Len(v)
           /\ \A i \in 1..Len(u \o v) :
                 (u \o v)[i] = IF i <= Len(u) THEN u[i] ELSE v[i - Len(u)]
  OBVIOUS

(* Taking out one place takes out that track and no other.                 *)
LEMMA RemoveAtPlace ==
    ASSUME NEW q \in Seq(Tracks), NEW k \in 1..Len(q)
    PROVE  /\ Has(q, q[k])
           /\ \A t : Has(RemoveAt(q, k), t) => Has(q, t)
           /\ Distinct(q) => Distinct(RemoveAt(q, k)) /\ ~Has(RemoveAt(q, k), q[k])
<1> DEFINE r == RemoveAt(q, k)
           at(i) == IF i < k THEN i ELSE i + 1
<1>1. /\ Len(q) \in Nat /\ Len(r) = Len(q) - 1
      /\ \A i \in 1..Len(r) : r[i] = q[at(i)]
  <2> DEFINE left == SubSeq(q, 1, k - 1)
             right == SubSeq(q, k + 1, Len(q))
  <2>1. /\ Len(q) \in Nat /\ k \in Nat /\ 1 <= k /\ k <= Len(q)
        /\ left \in Seq(Tracks) /\ Len(left) = k - 1
        /\ \A i \in 1..(k - 1) : left[i] = q[i]
    OBVIOUS
  <2>2. /\ right \in Seq(Tracks) /\ Len(right) = Len(q) - k
        /\ \A i \in 1..(Len(q) - k) : right[i] = q[k + i]
    BY <2>1
  <2>3. r = left \o right
    BY DEF RemoveAt
  <2> HIDE DEF left, right, r
  <2>4. /\ Len(r) = Len(left) + Len(right)
        /\ \A i \in 1..Len(r) : r[i] = IF i <= Len(left) THEN left[i] ELSE right[i - Len(left)]
    BY <2>1, <2>2, <2>3, ConcatElements
  <2>5. ASSUME NEW i \in 1..Len(r) PROVE r[i] = q[at(i)]
    <3>1. CASE i < k
      BY <2>1, <2>2, <2>4, <3>1
    <3>2. CASE ~(i < k)
      <4>1. i - (k - 1) \in 1..(Len(q) - k) /\ k + (i - (k - 1)) = i + 1
        BY <2>1, <2>2, <2>4, <3>2
      <4>2. r[i] = right[i - (k - 1)] /\ right[i - (k - 1)] = q[k + (i - (k - 1))]
        BY <2>1, <2>2, <2>4, <3>2, <4>1
      <4> QED
        BY <3>2, <4>1, <4>2
    <3> QED
      BY <3>1, <3>2
  <2> QED
    BY <2>1, <2>2, <2>4, <2>5
<1>2. /\ \A i \in 1..Len(r) : at(i) \in 1..Len(q) /\ at(i) # k
      /\ \A i, j \in 1..Len(r) : at(i) = at(j) => i = j
  BY <1>1
<1> HIDE DEF r, at
<1>3. \A t : Has(r, t) => Has(q, t)
  BY <1>1, <1>2 DEF Has
<1>4. ASSUME Distinct(q) PROVE Distinct(r) /\ ~Has(r, q[k])
  BY <1>1, <1>2, <1>4 DEF Has, Distinct
<1>5. Has(q, q[k])
  BY DEF Has
<1> QED
  BY <1>3, <1>4, <1>5 DEF r

(* A step that moves tracks into the queue and the current place without   *)
(* doubling one, from the room or from a fresh request.                    *)
LEMMA Moves ==
    ASSUME TypeInv, PlaceInv, NEW q \in Seq(Tracks), NEW c \in OptTrack,
           queue' = q, current' = c,
           Distinct(q), ~Has(q, c),
           \A a \in Advances : Acquiring(a)' =>
              /\ Acquiring(a) /\ advances'[a].next = advances[a].next
              /\ advances[a].next # c /\ ~Has(q, advances[a].next),
           requested \subseteq requested',
           \A t \in Tracks : Has(q, t) \/ t = c =>
              InRoom(t) \/ (t \notin requested /\ t \in requested')
    PROVE  PlaceInv' /\ Stays
<1> USE DEF PlaceInv
<1>1. \A t : Queued(t)' <=> Has(q, t)
  BY DEF Queued, Has
<1>2. \A t : Pending(t)' => Pending(t) /\ t # c /\ ~Has(q, t)
  BY DEF Pending
<1>3. OnePlace'
  <2>1. \A i, j \in 1..Len(queue') : queue'[i] = queue'[j] => i = j
    BY DEF Distinct
  <2>2. \A t \in Tracks : Queued(t)' => t # current' /\ ~Pending(t)'
    BY <1>1, <1>2
  <2>3. \A a, b \in Advances :
           Acquiring(a)' =>
              /\ advances'[a].next # current'
              /\ Acquiring(b)' /\ advances'[a].next = advances'[b].next => a = b
    BY DEF OnePlace
  <2> QED
    BY <2>1, <2>2, <2>3 DEF OnePlace
<1>4. ASSUME NEW t \in Tracks, InRoom(t)'
      PROVE  t \in requested' /\ (t \in requested => InRoom(t))
  BY <1>1, <1>2, <1>4 DEF InRoom, PlacedWereRequested
<1>5. PlacedWereRequested'
  BY <1>4 DEF PlacedWereRequested
<1>6. Stays
  BY <1>4 DEF Stays, TypeInv, TypeOK
<1> QED
  BY <1>3, <1>5, <1>6

(* A step that moves nothing.                                              *)
LEMMA Stands ==
    ASSUME TypeInv, PlaceInv, UNCHANGED <<queue, current, advances>>, requested \subseteq requested'
    PROVE  PlaceInv' /\ Stays
  BY DEF PlaceInv, Stays, OnePlace, PlacedWereRequested, InRoom, Queued, Pending, Acquiring

(* A new room has no track to be found twice.                              *)
LEMMA PlaceInit == Init => PlaceInv
  BY RoomAssumption
     DEF Init, PlaceInv, OnePlace, PlacedWereRequested, InRoom, Queued, Pending, Acquiring,
         Idle, At

(* What the invariant says of the queue, in the words of the lemmas.       *)
LEMMA QueuePlace ==
    ASSUME TypeInv, PlaceInv
    PROVE  /\ queue \in Seq(Tracks) /\ current \in OptTrack
           /\ Distinct(queue) /\ ~Has(queue, current) /\ ~Has(queue, NoTrack)
           /\ \A t : Has(queue, t) => t \in Tracks /\ InRoom(t)
           /\ \A a \in Advances : Acquiring(a) =>
                 /\ advances[a].next \in Tracks /\ InRoom(advances[a].next)
                 /\ advances[a].next # current /\ ~Has(queue, advances[a].next)
<1>1. queue \in Seq(Tracks) /\ current \in OptTrack
  BY DEF TypeInv, TypeOK
<1>2. \A t : Has(queue, t) => t \in Tracks
  BY <1>1 DEF Has
<1>3. \A t : Has(queue, t) <=> Queued(t)
  BY DEF Has, Queued
<1>4. Distinct(queue)
  BY DEF PlaceInv, OnePlace, Distinct
<1>5. ~Has(queue, NoTrack) /\ ~Has(queue, current)
  BY <1>2, <1>3, RoomAssumption DEF PlaceInv, OnePlace
<1>6. \A a \in Advances : Acquiring(a) =>
         /\ advances[a].next \in Tracks /\ Pending(advances[a].next)
         /\ advances[a].next # current
  BY DEF TypeInv, WaitsForATrack, Pending, PlaceInv, OnePlace
<1> QED
  BY <1>1, <1>2, <1>3, <1>4, <1>5, <1>6 DEF PlaceInv, OnePlace, InRoom

(* advance() starting a track that is out of the queue it leaves, and that *)
(* no other advance() waits for.                                           *)
LEMMA StartNextPlace ==
    ASSUME TypeInv, PlaceInv, NEW a \in Advances, NEW finished, NEW next \in Tracks,
           NEW rest \in Seq(Tracks), NEW files,
           StartNext(a, finished, next, rest, files), requested' = requested,
           Distinct(rest), ~Has(rest, next), InRoom(next),
           \A t \in Tracks : Has(rest, t) => InRoom(t),
           \A b \in Advances : b # a /\ Acquiring(b) =>
              advances[b].next # next /\ ~Has(rest, advances[b].next)
    PROVE  PlaceInv' /\ Stays
<1>1. queue' = rest /\ current' = next
  BY DEF StartNext, StartTrack
<1>2. ~Acquiring(a)'
  BY DEF StartNext, Acquiring, Idle, At, TypeInv, TypeOK
<1>3. \A b \in Advances : b # a => advances'[b] = advances[b]
  BY DEF StartNext, TypeInv, TypeOK
<1>4. \A b \in Advances : Acquiring(b)' =>
         /\ Acquiring(b) /\ advances'[b].next = advances[b].next
         /\ advances[b].next # next /\ ~Has(rest, advances[b].next)
  BY <1>2, <1>3 DEF Acquiring
<1>5. next \in OptTrack
  BY DEF OptTrack
<1> QED
  BY <1>1, <1>4, <1>5, Moves

(* advance() up to its first await moves one track and doubles none.       *)
LEMMA BeginAdvancePlace ==
    ASSUME TypeInv, PlaceInv, NEW a \in Advances, NEW loops, BeginAdvance(a, loops)
    PROVE  PlaceInv' /\ Stays
<1>1. requested' = requested
  BY DEF BeginAdvance, requestVars
<1>2. ASSUME queue # <<>>
      PROVE  /\ Head(queue) \in Tracks /\ Tail(queue) \in Seq(Tracks)
             /\ Distinct(Tail(queue)) /\ ~Has(Tail(queue), Head(queue))
             /\ Has(queue, Head(queue)) /\ \A t : Has(Tail(queue), t) => Has(queue, t)
  BY <1>2, QueuePlace, TailPlace, TailType
<1>3. CASE queue # <<>> /\ NeedsMedia(Head(queue), media)
  <2> DEFINE h == Head(queue)
             q == Tail(queue)
  <2>1. /\ queue' = q /\ current' = current
        /\ advances' = [advances EXCEPT ![a] =
                          [pc |-> "acquiring", finished |-> current, next |-> h]]
    BY <1>3 DEF BeginAdvance
  <2>2. /\ h \in Tracks /\ q \in Seq(Tracks) /\ Distinct(q) /\ ~Has(q, h)
        /\ Has(queue, h) /\ \A t : Has(q, t) => Has(queue, t)
    BY <1>2, <1>3
  <2> HIDE DEF h, q
  <2>3. /\ Acquiring(a)' /\ advances'[a].next = h
        /\ \A b \in Advances : b # a => advances'[b] = advances[b]
    BY <2>1 DEF Acquiring, TypeInv, TypeOK
  <2>4. \A b \in Advances : b # a /\ Acquiring(b)' =>
           /\ Acquiring(b) /\ advances'[b].next = advances[b].next
           /\ advances[b].next # h /\ advances[b].next # current
           /\ ~Has(q, advances[b].next)
    BY <2>2, <2>3, QueuePlace DEF Acquiring
  <2>5. h # current /\ ~Has(q, current)
    BY <2>2, QueuePlace
  <2>6. \A t : Queued(t)' <=> Has(q, t)
    BY <2>1 DEF Queued, Has
  <2>7. \A t : Pending(t)' => t = h \/ (Pending(t) /\ t # h /\ t # current /\ ~Has(q, t))
    BY <2>3, <2>4 DEF Pending
  <2>8. OnePlace'
    <3>1. \A i, j \in 1..Len(queue') : queue'[i] = queue'[j] => i = j
      BY <2>1, <2>2 DEF Distinct
    <3>2. \A t \in Tracks : Queued(t)' => t # current' /\ ~Pending(t)'
      BY <2>1, <2>2, <2>5, <2>6, <2>7
    <3>3. ASSUME NEW b \in Advances, NEW c \in Advances, Acquiring(b)'
          PROVE  /\ advances'[b].next # current'
                 /\ Acquiring(c)' /\ advances'[b].next = advances'[c].next => b = c
      <4>1. advances'[b].next # current'
        BY <2>1, <2>3, <2>4, <2>5, <3>3
      <4>2. ASSUME Acquiring(c)', advances'[b].next = advances'[c].next, b # c PROVE FALSE
        <5>1. b # a
          BY <2>3, <2>4, <4>2
        <5>2. c # a
          BY <2>3, <2>4, <3>3, <4>2
        <5> QED
          BY <2>4, <3>3, <4>2, <5>1, <5>2 DEF PlaceInv, OnePlace
      <4> QED
        BY <4>1, <4>2
    <3> QED
      BY <3>1, <3>2, <3>3 DEF OnePlace
  <2>9. ASSUME NEW t \in Tracks, InRoom(t)' PROVE InRoom(t)
    BY <2>1, <2>2, <2>6, <2>7, <2>9, QueuePlace DEF InRoom
  <2> QED
    BY <1>1, <2>8, <2>9 DEF PlaceInv, PlacedWereRequested, Stays, TypeInv, TypeOK
<1>4. CASE queue # <<>> /\ ~NeedsMedia(Head(queue), media)
  <2> DEFINE h == Head(queue)
             q == Tail(queue)
  <2>1. StartNext(a, current, h, q, media)
    BY <1>4 DEF BeginAdvance
  <2>2. /\ h \in Tracks /\ q \in Seq(Tracks) /\ Distinct(q) /\ ~Has(q, h)
        /\ Has(queue, h) /\ \A t : Has(q, t) => Has(queue, t)
    BY <1>2, <1>4
  <2> HIDE DEF h, q
  <2>3. /\ InRoom(h) /\ \A t \in Tracks : Has(q, t) => InRoom(t)
        /\ \A b \in Advances : b # a /\ Acquiring(b) =>
              advances[b].next # h /\ ~Has(q, advances[b].next)
    BY <2>2, QueuePlace
  <2> QED
    BY <1>1, <2>1, <2>2, <2>3, StartNextPlace
<1>5. CASE queue = <<>>
  <2>1. queue' = queue /\ current' = NoTrack /\ NoTrack \in OptTrack
    BY <1>5 DEF BeginAdvance, OptTrack
  <2>2. ~Acquiring(a)' /\ \A b \in Advances : b # a => advances'[b] = advances[b]
    BY <1>5 DEF BeginAdvance, Acquiring, Idle, At, TypeInv, TypeOK
  <2>3. \A b \in Advances : Acquiring(b)' =>
           /\ Acquiring(b) /\ advances'[b].next = advances[b].next
           /\ advances[b].next # NoTrack /\ ~Has(queue, advances[b].next)
    BY <2>2, QueuePlace, RoomAssumption DEF Acquiring
  <2>4. \A t \in Tracks : Has(queue, t) \/ t = NoTrack => InRoom(t)
    BY QueuePlace, RoomAssumption
  <2> QED
    BY <1>1, <2>1, <2>3, <2>4, QueuePlace, Moves
<1> QED
  BY <1>3, <1>4, <1>5

(* The download that settles plays the track that waited for it.           *)
LEMMA AcquireDonePlace ==
    ASSUME TypeInv, PlaceInv, NEW a \in Advances, AcquireDone(a) PROVE PlaceInv' /\ Stays
<1> DEFINE next == advances[a].next
           finished == advances[a].finished
           files == Assign(next)
<1>1. Acquiring(a) /\ StartNext(a, finished, next, queue, files) /\ requested' = requested
  BY DEF AcquireDone, Acquiring, requestVars
<1>2. \A b \in Advances : b # a /\ Acquiring(b) =>
         advances[b].next # next /\ ~Has(queue, advances[b].next)
  BY <1>1, QueuePlace DEF PlaceInv, OnePlace
<1>3. next \in Tracks /\ InRoom(next) /\ ~Has(queue, next)
  BY <1>1, QueuePlace
<1> HIDE DEF next, finished, files
<1> QED
  BY <1>1, <1>2, <1>3, QueuePlace, StartNextPlace

(* The end of advance() moves no track.                                    *)
LEMMA FinishAdvancePlace ==
    ASSUME TypeInv, PlaceInv, NEW a \in Advances, FinishAdvance(a) PROVE PlaceInv' /\ Stays
<1>1. queue' = queue /\ current' = current /\ requested' = requested
  BY DEF FinishAdvance, transportVars, requestVars
<1>2. \A b \in Advances : Acquiring(b)' =>
         Acquiring(b) /\ advances'[b].next = advances[b].next
  BY DEF FinishAdvance, Acquiring, Idle, At, TypeInv, TypeOK
<1>3. \A b \in Advances : Acquiring(b)' =>
         advances[b].next # current /\ ~Has(queue, advances[b].next)
  BY <1>2, QueuePlace
<1>4. \A t \in Tracks : Has(queue, t) \/ t = current => InRoom(t)
  BY QueuePlace DEF InRoom
<1> QED
  BY <1>1, <1>2, <1>3, <1>4, QueuePlace, Moves

(* forcePlay of a track taken out of the queue, or of a fresh one.         *)
LEMMA InterruptPlace ==
    ASSUME TypeInv, PlaceInv, NEW t \in Tracks, NEW rest \in Seq(Tracks), NEW files,
           Interrupt(t, rest, files), UNCHANGED advances, requested \subseteq requested',
           Distinct(rest), ~Has(rest, t), \A u : Has(rest, u) => Has(queue, u),
           Has(queue, t) \/ (t \notin requested /\ t \in requested')
    PROVE  PlaceInv' /\ Stays
<1> DEFINE q == IF current = NoTrack THEN rest ELSE Cons(current, rest)
<1>1. queue' = q /\ current' = t
  BY DEF Interrupt, StartTrack
<1>2. \A a \in Advances : Acquiring(a) => advances[a].next # t
  BY QueuePlace DEF PlaceInv, PlacedWereRequested
<1>3. t # current
  BY QueuePlace DEF PlaceInv, PlacedWereRequested, InRoom
<1>4. ~Has(rest, current)
  BY QueuePlace
<1>5. q \in Seq(Tracks) /\ Distinct(q) /\ \A u : Has(q, u) => u = current \/ Has(queue, u)
  <2>1. CASE current = NoTrack
    BY <2>1
  <2>2. CASE current # NoTrack
    <3>1. current \in Tracks
      BY <2>2, QueuePlace DEF OptTrack
    <3> QED
      BY <1>4, <2>2, <3>1, ConsType, ConsPlace
  <2> QED
    BY <2>1, <2>2
<1>6. ~Has(q, t)
  <2>1. CASE current = NoTrack
    BY <2>1
  <2>2. CASE current # NoTrack
    <3>1. current \in Tracks
      BY <2>2, QueuePlace DEF OptTrack
    <3> QED
      BY <1>3, <2>2, <3>1, ConsPlace
  <2> QED
    BY <2>1, <2>2
<1> HIDE DEF q
<1>7. \A a \in Advances : Acquiring(a)' =>
         /\ Acquiring(a) /\ advances'[a].next = advances[a].next
         /\ advances[a].next # t /\ ~Has(q, advances[a].next)
  BY <1>2, <1>5, QueuePlace DEF Acquiring
<1>8. \A u \in Tracks : Has(q, u) \/ u = t =>
         InRoom(u) \/ (u \notin requested /\ u \in requested')
  BY <1>5, QueuePlace DEF InRoom
<1>9. t \in OptTrack
  BY DEF OptTrack
<1> QED
  BY <1>1, <1>5, <1>6, <1>7, <1>8, <1>9, Moves

(* A fresh request is nowhere in the room yet.                             *)
LEMMA FreshPlace ==
    ASSUME TypeInv, PlaceInv, NEW t \in Tracks \ requested
    PROVE  /\ t # current /\ ~Has(queue, t)
           /\ \A a \in Advances : Acquiring(a) => advances[a].next # t
  BY QueuePlace DEF PlaceInv, PlacedWereRequested, InRoom

(* A fresh track that starts in a room with none.                          *)
LEMMA StartFreshPlace ==
    ASSUME TypeInv, PlaceInv, NEW t \in Tracks \ requested, NEW files, NEW loose,
           StartTrack(t, files, loose), UNCHANGED <<queue, advances>>,
           requested' = requested \union {t}
    PROVE  PlaceInv' /\ Stays
<1>1. current' = t /\ t \in OptTrack /\ t \in requested'
  BY DEF StartTrack, OptTrack
<1>2. \A a \in Advances : Acquiring(a)' =>
         /\ Acquiring(a) /\ advances'[a].next = advances[a].next
         /\ advances[a].next # t /\ ~Has(queue, advances[a].next)
  BY FreshPlace, QueuePlace DEF Acquiring
<1>3. \A u \in Tracks : Has(queue, u) \/ u = t =>
         InRoom(u) \/ (u \notin requested /\ u \in requested')
  BY <1>1, QueuePlace
<1> QED
  BY <1>1, <1>2, <1>3, QueuePlace, FreshPlace, Moves

(* A request adds its own track, in one place.                             *)
LEMMA EnqueuePlace ==
    ASSUME TypeInv, PlaceInv, NEW t \in Tracks, NEW force \in BOOLEAN, Enqueue(t, force)
    PROVE  PlaceInv' /\ Stays
<1> DEFINE files == IF t \in Lazy THEN media ELSE Assign(t)
<1>1. /\ t \in Tracks \ requested /\ requested' = requested \union {t}
      /\ advances' = advances
  BY DEF Enqueue
<1>2. t \in requested' /\ requested \subseteq requested'
  BY <1>1
<1>3. CASE StartTrack(t, files, resumeAt) /\ queue' = queue
  <2> HIDE DEF files
  <2> QED
    BY <1>1, <1>3, StartFreshPlace
<1>4. CASE Interrupt(t, queue, files)
  <2> HIDE DEF files
  <2> QED
    BY <1>1, <1>2, <1>4, QueuePlace, FreshPlace, InterruptPlace
<1>5. CASE queue' = Append(queue, t) /\ current' = current
  <2> DEFINE q == Append(queue, t)
  <2>1. q \in Seq(Tracks) /\ Distinct(q) /\ \A u : Has(q, u) => u = t \/ Has(queue, u)
    BY <1>1, QueuePlace, FreshPlace, AppendPlace
  <2>2. queue' = q
    BY <1>5
  <2> HIDE DEF q
  <2>3. current \in OptTrack /\ ~Has(q, current)
    BY <1>1, <2>1, QueuePlace, FreshPlace
  <2>4. \A a \in Advances : Acquiring(a)' =>
           /\ Acquiring(a) /\ advances'[a].next = advances[a].next
           /\ advances[a].next # current /\ ~Has(q, advances[a].next)
    BY <1>1, <2>1, QueuePlace, FreshPlace DEF Acquiring
  <2>5. \A u \in Tracks : Has(q, u) \/ u = current =>
           InRoom(u) \/ (u \notin requested /\ u \in requested')
    BY <1>1, <1>2, <2>1, QueuePlace DEF InRoom
  <2> QED
    BY <1>2, <1>5, <2>1, <2>2, <2>3, <2>4, <2>5, Moves
<1> QED
  BY <1>3, <1>4, <1>5 DEF Enqueue, transportVars

(* A recommendation adds its own track, in one place.                      *)
LEMMA RadioPlaysPlace ==
    ASSUME TypeInv, PlaceInv, NEW t \in Tracks, RadioPlays(t) PROVE PlaceInv' /\ Stays
<1> DEFINE files == media'
<1>1. /\ t \in Tracks \ requested /\ requested' = requested \union {t}
      /\ StartTrack(t, files, resumeAt) /\ UNCHANGED <<queue, advances>>
  BY DEF RadioPlays
<1> HIDE DEF files
<1> QED
  BY <1>1, StartFreshPlace

(* The queue loses tracks, and the room may lose the one that plays.       *)
LEMMA QueueCallsPlace ==
    ASSUME TypeInv, PlaceInv,
           (\E i \in 1..Len(queue) : ForcePlay(i) \/ RemoveQueued(i)) \/ ClearQueue \/ End
    PROVE  PlaceInv' /\ Stays
<1> USE DEF transportVars, requestVars
<1>1. ASSUME NEW i \in 1..Len(queue), ForcePlay(i) PROVE PlaceInv' /\ Stays
  <2> DEFINE t == queue[i]
             rest == RemoveAt(queue, i)
  <2>1. /\ t \in Tracks /\ rest \in Seq(Tracks) /\ Has(queue, t)
        /\ Distinct(rest) /\ ~Has(rest, t) /\ \A u : Has(rest, u) => Has(queue, u)
    BY QueuePlace, RemoveAtType, RemoveAtPlace
  <2>2. Interrupt(t, rest, media) /\ UNCHANGED <<advances, requested>>
    BY <1>1 DEF ForcePlay
  <2> HIDE DEF t, rest
  <2> QED
    BY <2>1, <2>2, InterruptPlace
<1>2. ASSUME NEW q \in Seq(Tracks), Distinct(q), \A u : Has(q, u) => Has(queue, u),
             NEW c \in {current, NoTrack}, queue' = q, current' = c,
             UNCHANGED <<advances, requested>>
      PROVE  PlaceInv' /\ Stays
  <2>1. c \in OptTrack /\ ~Has(q, c)
    BY <1>2, QueuePlace DEF OptTrack
  <2>2. \A a \in Advances : Acquiring(a)' =>
           /\ Acquiring(a) /\ advances'[a].next = advances[a].next
           /\ advances[a].next # c /\ ~Has(q, advances[a].next)
    BY <1>2, QueuePlace, RoomAssumption DEF Acquiring
  <2>3. \A u \in Tracks : Has(q, u) \/ u = c => InRoom(u)
    BY <1>2, QueuePlace, RoomAssumption DEF InRoom
  <2> QED
    BY <1>2, <2>1, <2>2, <2>3, Moves
<1>3. ASSUME NEW i \in 1..Len(queue), RemoveQueued(i) PROVE PlaceInv' /\ Stays
  <2> DEFINE rest == RemoveAt(queue, i)
  <2>1. /\ rest \in Seq(Tracks) /\ Distinct(rest) /\ \A u : Has(rest, u) => Has(queue, u)
    BY QueuePlace, RemoveAtType, RemoveAtPlace
  <2>2. queue' = rest /\ UNCHANGED <<current, advances, requested>>
    BY <1>3 DEF RemoveQueued
  <2> HIDE DEF rest
  <2> QED
    BY <1>2, <2>1, <2>2
<1>4. <<>> \in Seq(Tracks) /\ Distinct(<<>>) /\ \A u : ~Has(<<>>, u)
  BY DEF Distinct, Has
<1>5. CASE ClearQueue
  BY <1>2, <1>4, <1>5 DEF ClearQueue
<1>6. CASE End
  BY <1>2, <1>4, <1>6 DEF End
<1> QED
  BY <1>1, <1>3, <1>5, <1>6

(* Every step keeps tracks in one place, and brings none back.             *)
LEMMA PlaceStep ==
    ASSUME TypeInv, PlaceInv, [Next]_vars PROVE PlaceInv' /\ Stays
<1> USE DEF transportVars, durationVars, presenceVars, autoplayVars, fileVars, requestVars
<1>1. CASE EndTimerFires
  <2>1. CASE \E a \in Advances : BeginAdvance(a, 0)
    BY <2>1, BeginAdvancePlace
  <2>2. CASE UNCHANGED <<queue, current, advances, requested>>
    BY <2>2, Stands
  <2> QED
    BY <1>1, <2>1, <2>2 DEF EndTimerFires
<1>2. CASE Tick \/ RadioPicks \/ RadioGivesUp
  BY <1>2, Stands DEF Tick, RadioPicks, RadioGivesUp
<1>3. ASSUME NEW t \in Tracks, FetchDone(t) \/ ProbeDone(t) PROVE PlaceInv' /\ Stays
  BY <1>3, Stands DEF FetchDone, ProbeDone
<1>4. ASSUME NEW a \in Advances, AcquireFail(a) PROVE PlaceInv' /\ Stays
  BY <1>4, BeginAdvancePlace DEF AcquireFail
<1>5. CASE Proceed
  BY <1>1, <1>2, <1>3, <1>4, <1>5, AcquireDonePlace, FinishAdvancePlace, RadioPlaysPlace
     DEF Proceed
<1>6. CASE Skip
  BY <1>6, BeginAdvancePlace DEF Skip
<1>7. CASE Play \/ Pause \/ Reboot \/ Join \/ Leave
  BY <1>7, Stands DEF Play, Pause, Reboot, Join, Leave
<1>8. ASSUME NEW v, Seek(v) \/ SetLoop(v) \/ SetAutoplay(v) PROVE PlaceInv' /\ Stays
  BY <1>8, Stands DEF Seek, SetLoop, SetAutoplay
<1>9. CASE Request
  BY <1>6, <1>7, <1>8, <1>9, EnqueuePlace, QueueCallsPlace DEF Request
<1>10. CASE UNCHANGED vars
  BY <1>10, Stands DEF vars
<1> QED
  BY <1>5, <1>9, <1>10 DEF Next

(* A track is in the queue once, or plays, or is waited for by one         *)
(* advance(), however many of them are under way.                          *)
THEOREM RoomOnePlace == Spec => []OnePlace
<1>1. Init => TypeInv /\ PlaceInv
  BY TypeInit, PlaceInit
<1>2. TypeInv /\ PlaceInv /\ [Next]_vars => (TypeInv /\ PlaceInv)'
  BY TypeStep, PlaceStep
<1>3. PlaceInv => OnePlace
  BY DEF PlaceInv
<1> QED
  BY <1>1, <1>2, <1>3, PTL DEF Spec

(* A track that has left the room never comes back.                        *)
THEOREM RoomGoneForGood == Spec => GoneForGood
<1>1. Init => TypeInv /\ PlaceInv
  BY TypeInit, PlaceInit
<1>2. TypeInv /\ PlaceInv /\ [Next]_vars => (TypeInv /\ PlaceInv)'
  BY TypeStep, PlaceStep
<1>3. TypeInv /\ PlaceInv /\ [Next]_vars => [\A t \in requested : InRoom(t)' => InRoom(t)]_vars
  BY PlaceStep DEF Stays
<1> QED
  BY <1>1, <1>2, <1>3, PTL DEF Spec, GoneForGood

-----------------------------------------------------------------------------
(* The room is a playlist.                                                 *)

(* What is coming when the call a is not looked at.                        *)
ComingBut(a) == {advances[b].next : b \in {c \in Advances : c # a /\ Acquiring(c)}}

(* The list's operators on sequences are those of the room.                *)
LEMMA SameOperators ==
    /\ \A x, q : List!Cons(x, q) = Cons(x, q)
    /\ \A q, i : List!RemoveAt(q, i) = RemoveAt(q, i)
  BY DEF Cons, List!Cons, RemoveAt, List!RemoveAt

(* Only one call waits for a track, so without its wait the track is not   *)
(* coming; a call that does not wait makes no difference.                  *)
LEMMA ComingSplit ==
    ASSUME PlaceInv, NEW a \in Advances
    PROVE  /\ Acquiring(a) => /\ advances[a].next \in Coming
                              /\ ComingBut(a) = Coming \ {advances[a].next}
           /\ ~Acquiring(a) => ComingBut(a) = Coming
<1>1. ASSUME Acquiring(a)
      PROVE  /\ advances[a].next \in Coming
             /\ ComingBut(a) = Coming \ {advances[a].next}
  <2>1. \A b \in Advances : Acquiring(b) /\ b # a => advances[b].next # advances[a].next
    BY <1>1 DEF PlaceInv, OnePlace
  <2> QED
    BY <1>1, <2>1 DEF Coming, ComingBut
<1>2. ASSUME ~Acquiring(a) PROVE ComingBut(a) = Coming
  BY <1>2 DEF Coming, ComingBut
<1> QED
  BY <1>1, <1>2

(* A step of the call a changes what is coming by its own wait alone.      *)
LEMMA ComingAfter ==
    ASSUME TypeInv, NEW a \in Advances, NEW r, advances' = [advances EXCEPT ![a] = r]
    PROVE  Coming' = IF r.pc = "acquiring" THEN ComingBut(a) \union {r.next} ELSE ComingBut(a)
<1>1. advances'[a] = r /\ \A b \in Advances : b # a => advances'[b] = advances[b]
  BY DEF TypeInv, TypeOK
<1>2. \A b \in Advances : b # a => (Acquiring(b)' <=> Acquiring(b))
  BY <1>1 DEF Acquiring
<1>3. Acquiring(a)' <=> r.pc = "acquiring"
  BY <1>1 DEF Acquiring
<1> QED
  BY <1>1, <1>2, <1>3 DEF Coming, ComingBut

(* A call that is not to wait leaves coming what the others wait for.      *)
LEMMA ComingElsewhere ==
    ASSUME TypeInv, NEW a \in Advances, NEW r \in {Idle, At("disposing"), At("emptied")},
           advances' = [advances EXCEPT ![a] = r]
    PROVE  Coming' = ComingBut(a)
<1>1. r.pc # "acquiring"
  BY DEF Idle, At
<1> QED
  BY <1>1, ComingAfter

(* advance() up to its first await moves the list on, with what the other  *)
(* calls wait for still to come.                                           *)
LEMMA BeginAdvanceList ==
    ASSUME TypeInv, NEW a \in Advances, NEW loops, BeginAdvance(a, loops)
    PROVE  List!MoveOn(ComingBut(a))
<1>1. requested' = requested
  BY DEF BeginAdvance, requestVars
<1>2. CASE queue # <<>> /\ NeedsMedia(Head(queue), media)
  <2>1. /\ queue' = Tail(queue) /\ current' = current
        /\ advances' = [advances EXCEPT ![a] =
                          [pc |-> "acquiring", finished |-> current, next |-> Head(queue)]]
    BY <1>2 DEF BeginAdvance
  <2>2. Coming' = ComingBut(a) \union {Head(queue)}
    <3> DEFINE r == [pc |-> "acquiring", finished |-> current, next |-> Head(queue)]
    <3>1. r.pc = "acquiring" /\ r.next = Head(queue) /\ advances' = [advances EXCEPT ![a] = r]
      BY <2>1
    <3> HIDE DEF r
    <3> QED
      BY <3>1, ComingAfter
  <2> QED
    BY <1>1, <1>2, <2>1, <2>2 DEF List!MoveOn
<1>3. CASE queue # <<>> /\ ~NeedsMedia(Head(queue), media)
  <2>1. StartNext(a, current, Head(queue), Tail(queue), media)
    BY <1>3 DEF BeginAdvance
  <2>2. queue' = Tail(queue) /\ current' = Head(queue)
    BY <2>1 DEF StartNext, StartTrack
  <2>3. Coming' = ComingBut(a)
    BY <2>1, ComingElsewhere DEF StartNext
  <2> QED
    BY <1>1, <1>3, <2>2, <2>3 DEF List!MoveOn
<1>4. CASE queue = <<>>
  <2>1. queue' = queue /\ current' = NoTrack
    BY <1>4 DEF BeginAdvance
  <2>2. Coming' = ComingBut(a)
    BY <1>4, ComingElsewhere DEF BeginAdvance
  <2> QED
    BY <1>1, <1>4, <2>1, <2>2 DEF List!MoveOn
<1> QED
  BY <1>2, <1>3, <1>4

(* What a call of advance() does after its waits: a track arrives, or is   *)
(* given up, or the list does not notice.                                  *)
LEMMA AdvanceList ==
    ASSUME TypeInv, PlaceInv, NEW a \in Advances
    PROVE  /\ AcquireDone(a) => List!Arrive(advances[a].next)
           /\ AcquireFail(a) => List!GiveUp(advances[a].next)
           /\ FinishAdvance(a) => UNCHANGED <<queue, Coming, current, requested>>
<1> DEFINE next == advances[a].next
           finished == advances[a].finished
           files == Assign(next)
<1>1. ASSUME AcquireDone(a) PROVE List!Arrive(next)
  <2>1. Acquiring(a) /\ StartNext(a, finished, next, queue, files) /\ requested' = requested
    BY <1>1 DEF AcquireDone, Acquiring, requestVars
  <2> HIDE DEF next, finished, files
  <2>2. queue' = queue /\ current' = next
    BY <2>1 DEF StartNext, StartTrack
  <2>3. Coming' = ComingBut(a)
    BY <2>1, ComingElsewhere DEF StartNext
  <2> QED
    BY <2>1, <2>2, <2>3, ComingSplit DEF List!Arrive, next
<1>2. ASSUME AcquireFail(a) PROVE List!GiveUp(next)
  <2>1. Acquiring(a) /\ List!MoveOn(ComingBut(a))
    BY <1>2, BeginAdvanceList DEF AcquireFail, Acquiring
  <2> QED
    BY <2>1, ComingSplit DEF List!GiveUp
<1>3. ASSUME FinishAdvance(a) PROVE UNCHANGED <<queue, Coming, current, requested>>
  <2>1. ~Acquiring(a) /\ Coming' = ComingBut(a)
    BY <1>3, ComingElsewhere DEF FinishAdvance, Acquiring
  <2>2. UNCHANGED <<queue, current, requested>>
    BY <1>3 DEF FinishAdvance, transportVars, requestVars
  <2> QED
    BY <2>1, <2>2, ComingSplit
<1> QED
  BY <1>1, <1>2, <1>3

(* A step that leaves the calls of advance() alone leaves alone what is    *)
(* coming.                                                                 *)
LEMMA ComingSame == ASSUME advances' = advances PROVE Coming' = Coming
  BY DEF Coming, Acquiring

(* What enters the room, and what is played, dropped or cleared by name.   *)
LEMMA CallsList ==
    /\ \A t \in Tracks, force \in BOOLEAN : Enqueue(t, force) => List!Enter(t)
    /\ \A t \in Tracks : RadioPlays(t) => List!Enter(t)
    /\ \A i \in 1..Len(queue) : /\ ForcePlay(i) => List!PlayNow(i)
                                /\ RemoveQueued(i) => List!Drop(i)
    /\ ClearQueue => List!Clear
    /\ End => List!Stop
<1> USE DEF transportVars, requestVars
<1>1. ASSUME NEW t, NEW rest, NEW files, Interrupt(t, rest, files)
      PROVE  current' = t /\ queue' = List!Interrupted(rest)
  BY <1>1, SameOperators DEF Interrupt, StartTrack, List!Interrupted
<1>2. ASSUME NEW t \in Tracks, NEW force \in BOOLEAN, Enqueue(t, force) PROVE List!Enter(t)
  <2>1. t \notin requested /\ requested' = requested \union {t} /\ Coming' = Coming
    BY <1>2, ComingSame DEF Enqueue
  <2>2. \/ current = NoTrack /\ current' = t /\ queue' = queue
        \/ \E files : Interrupt(t, queue, files)
        \/ current # NoTrack /\ queue' = Append(queue, t) /\ current' = current
    BY <1>2 DEF Enqueue, StartTrack
  <2> QED
    BY <1>1, <2>1, <2>2 DEF List!Enter, List!Interrupted
<1>3. ASSUME NEW t \in Tracks, RadioPlays(t) PROVE List!Enter(t)
  BY <1>3, ComingSame DEF RadioPlays, StartTrack, List!Enter, List!Interrupted
<1>4. ASSUME NEW i \in 1..Len(queue), ForcePlay(i) PROVE List!PlayNow(i)
  BY <1>1, <1>4, ComingSame, SameOperators DEF ForcePlay, List!PlayNow
<1>5. ASSUME NEW i \in 1..Len(queue), RemoveQueued(i) PROVE List!Drop(i)
  BY <1>5, ComingSame, SameOperators DEF RemoveQueued, List!Drop
<1>6. ClearQueue => List!Clear
  BY ComingSame DEF ClearQueue, List!Clear
<1>7. End => List!Stop
  BY ComingSame DEF End, List!Stop
<1> QED
  BY <1>2, <1>3, <1>4, <1>5, <1>6, <1>7

(* Every step of the room is a step of the list, or none.                  *)
LEMMA ListStep ==
    ASSUME TypeInv, PlaceInv, [Next]_vars
    PROVE  [List!Next]_<<queue, Coming, current, requested>>
<1> USE DEF transportVars, durationVars, presenceVars, autoplayVars, fileVars, requestVars
<1> DEFINE Stutters == UNCHANGED <<queue, Coming, current, requested>>
           Follows == List!Next \/ Stutters
<1>1. ASSUME NEW a \in Advances, NEW loops, advances[a].pc = "idle", BeginAdvance(a, loops)
      PROVE  List!Next
  <2>1. List!MoveOn(Coming)
    BY <1>1, BeginAdvanceList, ComingSplit DEF Acquiring
  <2> QED
    BY <2>1 DEF List!Next
<1>2. ASSUME UNCHANGED <<queue, current, advances, requested>> PROVE Stutters
  BY <1>2, ComingSame
<1>3. CASE EndTimerFires
  BY <1>1, <1>2, <1>3 DEF EndTimerFires
<1>4. CASE Tick \/ RadioPicks \/ RadioGivesUp
  BY <1>2, <1>4 DEF Tick, RadioPicks, RadioGivesUp
<1>5. ASSUME NEW a \in Advances, AcquireDone(a) \/ AcquireFail(a) \/ FinishAdvance(a)
      PROVE  Follows
  <2>1. CASE AcquireDone(a) \/ AcquireFail(a)
    <3>1. advances[a].next \in Tracks
      BY <2>1 DEF TypeInv, WaitsForATrack, Acquiring, AcquireDone, AcquireFail
    <3> QED
      BY <2>1, <3>1, AdvanceList DEF List!Next
  <2>2. CASE FinishAdvance(a)
    BY <2>2, AdvanceList
  <2> QED
    BY <1>5, <2>1, <2>2
<1>6. ASSUME NEW t \in Tracks, FetchDone(t) \/ ProbeDone(t) PROVE Stutters
  BY <1>2, <1>6 DEF FetchDone, ProbeDone
<1>7. ASSUME NEW t \in Tracks, RadioPlays(t) PROVE List!Next
  BY <1>7, CallsList DEF List!Next
<1>8. CASE Proceed
  BY <1>3, <1>4, <1>5, <1>6, <1>7, <1>8 DEF Proceed
<1>9. CASE Skip
  BY <1>1, <1>9 DEF Skip
<1>10. CASE Play \/ Pause \/ Reboot \/ Join \/ Leave
  BY <1>2, <1>10 DEF Play, Pause, Reboot, Join, Leave
<1>11. ASSUME NEW v, Seek(v) \/ SetLoop(v) \/ SetAutoplay(v) PROVE Stutters
  BY <1>2, <1>11 DEF Seek, SetLoop, SetAutoplay
<1>12. ASSUME NEW t \in Tracks, NEW force \in BOOLEAN, Enqueue(t, force) PROVE List!Next
  BY <1>12, CallsList DEF List!Next
<1>13. ASSUME NEW i \in 1..Len(queue), ForcePlay(i) \/ RemoveQueued(i) PROVE List!Next
  BY <1>13, CallsList DEF List!Next
<1>14. CASE ClearQueue \/ End
  BY <1>14, CallsList DEF List!Next
<1>15. CASE Request
  BY <1>9, <1>10, <1>11, <1>12, <1>13, <1>14, <1>15 DEF Request
<1>16. CASE UNCHANGED vars
  BY <1>2, <1>16 DEF vars
<1> QED
  BY <1>8, <1>15, <1>16 DEF Next

(* The room plays in the order of a Playlist: with its clock, its files    *)
(* and its calls under way hidden, whatever it does is what the list does. *)
THEOREM RoomIsPlaylist == Spec => ImplementsPlaylist
<1>1. Init => TypeInv /\ PlaceInv
  BY TypeInit, PlaceInit
<1>2. TypeInv /\ PlaceInv /\ [Next]_vars => (TypeInv /\ PlaceInv)'
  BY TypeStep, PlaceStep
<1>3. Init => List!Init
  BY DEF Init, List!Init, Coming, Acquiring, Idle, At
<1>4. TypeInv /\ PlaceInv /\ [Next]_vars => [List!Next]_(List!vars)
  BY ListStep DEF List!vars
<1> QED
  BY <1>1, <1>2, <1>3, <1>4, PTL DEF Spec, ImplementsPlaylist, List!Spec

-----------------------------------------------------------------------------
(* The end timer.                                                          *)

TimerInv == TimerMeetsTheEnd /\ NeverStuck

(* The end timer of a playing room, set or not as the track's duration     *)
(* asks: what every action that schedules the end establishes.             *)
Scheduled ==
    /\ playing
    /\ endTimer = ScheduledEnd(timed, current, TRUE, position)

(* scheduleEnd leaves the timer at the end of the playing track.           *)
LEMMA ScheduledTimer ==
    ASSUME TypeInv', Scheduled' PROVE TimerInv'
<1>1. position' \in 0..TrackLength /\ TrackLength \in Nat
  BY RoomAssumption DEF TypeInv, TypeOK
<1>2. CASE current' \in timed'
  <2>1. endTimer' = TrackLength - position' /\ endTimer' # Off
    <3>1. endTimer' = TrackLength - position'
      BY <1>2 DEF Scheduled, ScheduledEnd
    <3>2. \A at \in 0..TrackLength : TrackLength - at # Off
      BY <1>1 DEF Off
    <3> QED
      BY <1>1, <3>1, <3>2
  <2> QED
    BY <1>2, <2>1 DEF Scheduled, TimerInv, TimerMeetsTheEnd, NeverStuck
<1>3. CASE current' \notin timed'
  <2>1. endTimer' = Off
    BY <1>3 DEF Scheduled, ScheduledEnd
  <2> QED
    BY <1>3, <2>1 DEF TimerInv, TimerMeetsTheEnd, NeverStuck
<1> QED
  BY <1>2, <1>3

(* A cleared timer of a room that does not play is right.                  *)
LEMMA SilentTimer ==
    ASSUME endTimer' = Off, ~playing' \/ ~registered' PROVE TimerInv'
  BY DEF TimerInv, TimerMeetsTheEnd, NeverStuck

(* A step that leaves the track, its clock and the timer alone, and after  *)
(* which no download has ended.                                            *)
LEMMA SameTimer ==
    ASSUME TimerInv, UNCHANGED <<registered, current, playing, position, endTimer, timed>>,
           \A a \in Advances : Acquiring(a) => Acquiring(a)'
    PROVE  TimerInv'
  BY DEF TimerInv, TimerMeetsTheEnd, NeverStuck

(* startTrack schedules the end of the track it starts.                    *)
LEMMA StartTrackTimer ==
    ASSUME NEW t, NEW files, NEW loose, StartTrack(t, files, loose)
    PROVE  Scheduled'
  BY DEF StartTrack, Scheduled

(* A new room has no timer and plays nothing.                              *)
LEMMA TimerInit == Init => TimerInv
  BY DEF Init, TimerInv, TimerMeetsTheEnd, NeverStuck

(* advance() clears the timer or schedules the next end.                   *)
LEMMA BeginAdvanceTimer ==
    ASSUME TypeInv, TypeInv', NEW a \in Advances, NEW loops, BeginAdvance(a, loops)
    PROVE  TimerInv'
<1>1. CASE queue # <<>> /\ NeedsMedia(Head(queue), media)
  <2>1. endTimer' = Off /\ Acquiring(a)'
    BY <1>1 DEF BeginAdvance, Acquiring, TypeInv, TypeOK
  <2> QED
    BY <2>1 DEF TimerInv, TimerMeetsTheEnd, NeverStuck
<1>2. CASE queue # <<>> /\ ~NeedsMedia(Head(queue), media)
  BY <1>2, StartTrackTimer, ScheduledTimer DEF BeginAdvance, StartNext
<1>3. CASE queue = <<>>
  BY <1>3, SilentTimer DEF BeginAdvance
<1> QED
  BY <1>1, <1>2, <1>3

(* The room's own steps.                                                   *)
LEMMA ProceedTimer ==
    ASSUME TypeInv, TypeInv', TimerInv, Proceed PROVE TimerInv'
<1> USE DEF transportVars, durationVars, presenceVars, autoplayVars, fileVars, requestVars
<1>1. CASE EndTimerFires
  <2>1. CASE \E a \in Advances : BeginAdvance(a, 0)
    BY <2>1, BeginAdvanceTimer
  <2>2. CASE /\ playing' = TRUE /\ position' = 0
             /\ endTimer' = ScheduledEnd(timed, current, TRUE, 0)
             /\ UNCHANGED <<current, timed>>
    BY <2>2, ScheduledTimer DEF Scheduled
  <2> QED
    BY <1>1, <2>1, <2>2 DEF EndTimerFires
<1>2. CASE Tick
  <2>1. /\ position < TrackLength /\ position' = position + 1
        /\ endTimer' = IF endTimer > 0 THEN endTimer - 1 ELSE endTimer
        /\ UNCHANGED <<registered, current, playing, timed, advances>>
    BY <1>2 DEF Tick
  <2>2. /\ position \in 0..TrackLength /\ TrackLength \in Nat
        /\ endTimer \in {Off} \union 0..TrackLength
    BY RoomAssumption DEF TypeInv, TypeOK
  <2>3. endTimer # Off => endTimer = TrackLength - position
    BY DEF TimerInv, TimerMeetsTheEnd
  <2>4. /\ endTimer' # Off <=> endTimer # Off
        /\ endTimer' # Off => endTimer' = TrackLength - position'
    BY <2>1, <2>2, <2>3 DEF Off
  <2> QED
    BY <2>1, <2>4 DEF TimerInv, TimerMeetsTheEnd, NeverStuck, Acquiring
<1>3. ASSUME NEW a \in Advances, AcquireDone(a) PROVE TimerInv'
  BY <1>3, StartTrackTimer, ScheduledTimer DEF AcquireDone, StartNext
<1>4. ASSUME NEW a \in Advances, AcquireFail(a) PROVE TimerInv'
  BY <1>4, BeginAdvanceTimer DEF AcquireFail
<1>5. ASSUME NEW a \in Advances, FinishAdvance(a) PROVE TimerInv'
  <2>1. UNCHANGED <<registered, current, playing, position, endTimer, timed>>
    BY <1>5 DEF FinishAdvance
  <2>2. \A b \in Advances : Acquiring(b) => Acquiring(b)'
    BY <1>5 DEF FinishAdvance, Acquiring, TypeInv, TypeOK
  <2> QED
    BY <2>1, <2>2, SameTimer
<1>6. ASSUME NEW t \in Tracks, ProbeDone(t) PROVE TimerInv'
  <2>1. UNCHANGED <<registered, current, playing, position, advances>>
    BY <1>6 DEF ProbeDone
  <2>2. CASE UNCHANGED <<timed, endTimer>>
    BY <2>1, <2>2, SameTimer DEF Acquiring
  <2>3. CASE /\ current = t /\ timed' = timed \union {t}
             /\ endTimer' = ScheduledEnd(timed', t, playing, position)
    <3>1. CASE playing
      <4>1. playing' /\ endTimer' = ScheduledEnd(timed', current', TRUE, position')
        BY <2>1, <2>3, <3>1 DEF ScheduledEnd
      <4> QED
        BY <4>1, ScheduledTimer DEF Scheduled
    <3>2. CASE ~playing
      <4>1. ~playing' /\ endTimer' = Off
        BY <2>1, <2>3, <3>2 DEF ScheduledEnd
      <4> QED
        BY <4>1, SilentTimer
    <3> QED
      BY <3>1, <3>2
  <2> QED
    BY <1>6, <2>2, <2>3 DEF ProbeDone
<1>7. ASSUME NEW t \in Tracks, RadioPlays(t) PROVE TimerInv'
  BY <1>7, StartTrackTimer, ScheduledTimer DEF RadioPlays
<1>8. ASSUME NEW t \in Tracks, FetchDone(t) PROVE TimerInv'
  BY <1>8, SameTimer DEF FetchDone, Acquiring
<1>9. CASE RadioPicks \/ RadioGivesUp
  BY <1>9, SameTimer DEF RadioPicks, RadioGivesUp, Acquiring
<1> QED
  BY <1>1, <1>2, <1>3, <1>4, <1>5, <1>6, <1>7, <1>8, <1>9 DEF Proceed

(* What people ask for.                                                    *)
LEMMA RequestTimer ==
    ASSUME TypeInv, TypeInv', TimerInv, Request PROVE TimerInv'
<1> USE DEF transportVars, durationVars, presenceVars, autoplayVars, fileVars, requestVars
<1>1. ASSUME NEW t, NEW rest, NEW files, Interrupt(t, rest, files) PROVE TimerInv'
  BY <1>1, StartTrackTimer, ScheduledTimer DEF Interrupt
<1>2. ASSUME NEW t \in Tracks, NEW force \in BOOLEAN, Enqueue(t, force) PROVE TimerInv'
  <2> DEFINE files == IF t \in Lazy THEN media ELSE Assign(t)
  <2>1. CASE StartTrack(t, files, resumeAt)
    BY <2>1, StartTrackTimer, ScheduledTimer
  <2>2. CASE Interrupt(t, queue, files)
    BY <1>1, <2>2
  <2>3. CASE UNCHANGED <<registered, current, playing, position, endTimer, timed, advances>>
    BY <2>3, SameTimer DEF Acquiring
  <2> QED
    BY <1>2, <2>1, <2>2, <2>3 DEF Enqueue
<1>3. ASSUME NEW i, ForcePlay(i) PROVE TimerInv'
  BY <1>1, <1>3 DEF ForcePlay
<1>4. ASSUME NEW i, RemoveQueued(i) PROVE TimerInv'
  BY <1>4, SameTimer DEF RemoveQueued, Acquiring
<1>5. ASSUME Resume, UNCHANGED <<current, position, timed>> PROVE TimerInv'
  BY <1>5, ScheduledTimer DEF Resume, Scheduled
<1>6. CASE Play
  BY <1>5, <1>6 DEF Play
<1>7. CASE Pause
  BY <1>7, SilentTimer DEF Pause, Suspend
<1>8. CASE Skip
  BY <1>8, BeginAdvanceTimer DEF Skip
<1>9. ASSUME NEW target, Seek(target) PROVE TimerInv'
  <2>1. /\ current' \in timed' /\ position' = target
        /\ UNCHANGED <<registered, current, playing, timed, advances>>
        /\ endTimer' = IF playing THEN ScheduledEnd(timed, current, TRUE, target) ELSE endTimer
    BY <1>9 DEF Seek
  <2>2. CASE playing
    BY <2>1, <2>2, ScheduledTimer DEF Scheduled
  <2>3. CASE ~playing
    BY <2>1, <2>3 DEF TimerInv, TimerMeetsTheEnd, NeverStuck
  <2> QED
    BY <2>2, <2>3
<1>10. ASSUME NEW v, SetLoop(v) \/ SetAutoplay(v) PROVE TimerInv'
  BY <1>10, SameTimer DEF SetLoop, SetAutoplay, Acquiring
<1>11. CASE ClearQueue
  BY <1>11, SameTimer DEF ClearQueue, Acquiring
<1>12. CASE End
  BY <1>12, SilentTimer DEF End
<1>13. CASE Reboot
  BY <1>13, SilentTimer DEF Reboot
<1>14. CASE Join
  <2>1. CASE Resume
    BY <1>5, <1>14, <2>1 DEF Join
  <2>2. CASE UNCHANGED <<playing, autoPaused, endTimer>>
    BY <1>14, <2>2, SameTimer DEF Join, Acquiring
  <2> QED
    BY <1>14, <2>1, <2>2 DEF Join
<1>15. CASE Leave
  <2>1. CASE Suspend
    BY <2>1, SilentTimer DEF Suspend
  <2>2. CASE UNCHANGED <<playing, endTimer, autoPaused, pausedBy>>
    BY <1>15, <2>2, SameTimer DEF Leave, Acquiring
  <2> QED
    BY <1>15, <2>1, <2>2 DEF Leave
<1> QED
  BY <1>2, <1>3, <1>4, <1>6, <1>7, <1>8, <1>9, <1>10, <1>11, <1>12, <1>13, <1>14, <1>15
     DEF Request

(* Every step keeps the timer at the end of the track.                     *)
LEMMA TimerStep ==
    ASSUME TypeInv, TimerInv, [Next]_vars PROVE TimerInv'
<1>1. TypeInv'
  BY TypeStep
<1>2. CASE UNCHANGED vars
  BY <1>2, SameTimer DEF vars, transportVars, durationVars, Acquiring
<1> QED
  BY <1>1, <1>2, ProceedTimer, RequestTimer DEF Next

(* The end timer goes off exactly when the playing track is over.          *)
THEOREM RoomTimerMeetsTheEnd == Spec => []TimerMeetsTheEnd
<1>1. Init => TypeInv /\ TimerInv
  BY TypeInit, TimerInit
<1>2. TypeInv /\ TimerInv /\ [Next]_vars => (TypeInv /\ TimerInv)'
  BY TypeStep, TimerStep
<1>3. TimerInv => TimerMeetsTheEnd
  BY DEF TimerInv
<1> QED
  BY <1>1, <1>2, <1>3, PTL DEF Spec

(* A playing track of known duration has its end timer set, unless an      *)
(* advance() is waiting to replace the track.                              *)
THEOREM RoomNeverStuck == Spec => []NeverStuck
<1>1. Init => TypeInv /\ TimerInv
  BY TypeInit, TimerInit
<1>2. TypeInv /\ TimerInv /\ [Next]_vars => (TypeInv /\ TimerInv)'
  BY TypeStep, TimerStep
<1>3. TimerInv => NeverStuck
  BY DEF TimerInv
<1> QED
  BY <1>1, <1>2, <1>3, PTL DEF Spec

-----------------------------------------------------------------------------
(* The pause.                                                              *)

(* Every step keeps the room knowing why it paused.                        *)
LEMMA PauseStep ==
    ASSUME PauseKeepsItsCause, [Next]_vars PROVE PauseKeepsItsCause'
<1> USE DEF PauseKeepsItsCause, transportVars, durationVars, presenceVars, autoplayVars,
            fileVars, requestVars
<1>1. ASSUME NEW t, NEW files, NEW loose, StartTrack(t, files, loose)
      PROVE  PauseKeepsItsCause'
  BY <1>1 DEF StartTrack
<1>2. ASSUME UNCHANGED <<current, playing, autoPaused, pausedBy>> PROVE PauseKeepsItsCause'
  BY <1>2
<1>3. ASSUME NEW a, NEW loops, BeginAdvance(a, loops) PROVE PauseKeepsItsCause'
  BY <1>1, <1>2, <1>3 DEF BeginAdvance, StartNext
<1>4. CASE Proceed
  <2>1. CASE EndTimerFires
    <3>1. CASE playing' = TRUE
      BY <3>1
    <3> QED
      BY <1>3, <2>1, <3>1 DEF EndTimerFires
  <2>2. ASSUME NEW a \in Advances, AcquireDone(a) \/ AcquireFail(a) \/ FinishAdvance(a)
        PROVE  PauseKeepsItsCause'
    BY <1>1, <1>2, <1>3, <2>2 DEF AcquireDone, StartNext, AcquireFail, FinishAdvance
  <2>3. ASSUME NEW t \in Tracks, FetchDone(t) \/ ProbeDone(t) \/ RadioPlays(t)
        PROVE  PauseKeepsItsCause'
    BY <1>1, <1>2, <2>3 DEF FetchDone, ProbeDone, RadioPlays
  <2>4. CASE Tick \/ RadioPicks \/ RadioGivesUp
    BY <1>2, <2>4 DEF Tick, RadioPicks, RadioGivesUp
  <2> QED
    BY <1>4, <2>1, <2>2, <2>3, <2>4 DEF Proceed
<1>5. CASE Request
  <2>1. ASSUME NEW t \in Tracks, NEW force \in BOOLEAN, Enqueue(t, force)
        PROVE  PauseKeepsItsCause'
    BY <1>1, <1>2, <2>1 DEF Enqueue, Interrupt
  <2>2. ASSUME NEW i, ForcePlay(i) \/ RemoveQueued(i) PROVE PauseKeepsItsCause'
    BY <1>1, <1>2, <2>2 DEF ForcePlay, Interrupt, RemoveQueued
  <2>3. CASE Play \/ Join
    <3>1. CASE playing' = TRUE
      BY <3>1
    <3> QED
      BY <1>2, <2>3, <3>1 DEF Play, Join, Resume
  <2>4. CASE Pause
    BY <2>4 DEF Pause
  <2>5. CASE Leave
    BY <2>5 DEF Leave
  <2>6. CASE Skip
    BY <1>3, <2>6 DEF Skip
  <2>7. CASE ClearQueue \/ Reboot
    BY <1>2, <2>7 DEF ClearQueue, Reboot
  <2>8. CASE End
    BY <2>8 DEF End
  <2>9. ASSUME NEW v, Seek(v) \/ SetLoop(v) \/ SetAutoplay(v) PROVE PauseKeepsItsCause'
    BY <1>2, <2>9 DEF Seek, SetLoop, SetAutoplay
  <2> QED
    BY <1>5, <2>1, <2>2, <2>3, <2>4, <2>5, <2>6, <2>7, <2>8, <2>9 DEF Request
<1>6. CASE UNCHANGED vars
  BY <1>2, <1>6 DEF vars
<1> QED
  BY <1>4, <1>5, <1>6 DEF Next

(* A room that somebody paused is not set going by who walks in, and one   *)
(* that paused because it emptied is.                                      *)
THEOREM RoomPauseKeepsItsCause == Spec => []PauseKeepsItsCause
<1>1. Init => PauseKeepsItsCause
  BY DEF Init, PauseKeepsItsCause
<1>2. PauseKeepsItsCause /\ [Next]_vars => PauseKeepsItsCause'
  BY PauseStep
<1> QED
  BY <1>1, <1>2, PTL DEF Spec

----------------------------------------------------------------------------
(***************************************************************************)
(* What becomes of the files of a room: a track that leaves takes its file *)
(* with it, and where every request brings its file none goes missing or   *)
(* astray.                                                                 *)
(***************************************************************************)

(* Nothing leaves the room in this step with its file on disk.             *)
Leaves == \A t \in Tracks : InRoom(t) /\ ~InRoom(t)' => media'[t] # "ready" \/ Overtaken(t)

(* A disposed track has no file, and no other track is touched.            *)
LEMMA DisposedFiles ==
    ASSUME NEW S, NEW files
    PROVE  \A t \in Tracks :
              /\ t \in S => Dispose(S, files)[t] # "ready"
              /\ t \notin S => Dispose(S, files)[t] = files[t]
  BY DEF Dispose

(* Every track of a queue is its head or in the rest of it.                *)
LEMMA HeadOrTail ==
    ASSUME NEW q \in Seq(Tracks), q # <<>>, NEW t, Has(q, t)
    PROVE  t = Head(q) \/ Has(Tail(q), t)
<1>1. PICK i \in 1..Len(q) : q[i] = t
  BY DEF Has
<1>2. CASE i = 1
  BY <1>1, <1>2
<1>3. CASE i # 1
  <2>1. i - 1 \in 1..Len(Tail(q)) /\ Tail(q)[i - 1] = q[i]
    BY <1>3
  <2> QED
    BY <1>1, <2>1 DEF Has
<1> QED
  BY <1>2, <1>3

(* What is put in front of a queue, and what was in it, is in the new one. *)
LEMMA ConsKeeps ==
    ASSUME NEW q \in Seq(Tracks), NEW x \in Tracks
    PROVE  Has(Cons(x, q), x) /\ \A t : Has(q, t) => Has(Cons(x, q), t)
<1>1. /\ Len(Cons(x, q)) = Len(q) + 1 /\ Cons(x, q)[1] = x /\ Len(q) \in Nat
      /\ \A i \in 1..Len(q) : i + 1 \in 1..Len(Cons(x, q)) /\ Cons(x, q)[i + 1] = q[i]
  BY DEF Cons
<1>2. 1 \in 1..Len(Cons(x, q))
  BY <1>1
<1> HIDE DEF Cons
<1> QED
  BY <1>1, <1>2 DEF Has

(* What was in a queue is in it with a track put behind.                   *)
LEMMA AppendKeeps ==
    ASSUME NEW q \in Seq(Tracks), NEW x \in Tracks
    PROVE  \A t : Has(q, t) => Has(Append(q, x), t)
<1>1. \A i \in 1..Len(q) : i \in 1..Len(Append(q, x)) /\ Append(q, x)[i] = q[i]
  OBVIOUS
<1> QED
  BY <1>1 DEF Has

(* Taking out one place takes out no other track.                          *)
LEMMA RemoveAtKeeps ==
    ASSUME NEW q \in Seq(Tracks), NEW k \in 1..Len(q), NEW t, Has(q, t)
    PROVE  t = q[k] \/ Has(RemoveAt(q, k), t)
<1> DEFINE left == SubSeq(q, 1, k - 1)
           right == SubSeq(q, k + 1, Len(q))
           r == RemoveAt(q, k)
<1>1. /\ Len(q) \in Nat /\ k \in Nat /\ 1 <= k /\ k <= Len(q)
      /\ left \in Seq(Tracks) /\ Len(left) = k - 1
      /\ \A i \in 1..(k - 1) : left[i] = q[i]
  OBVIOUS
<1>2. /\ right \in Seq(Tracks) /\ Len(right) = Len(q) - k
      /\ \A i \in 1..(Len(q) - k) : right[i] = q[k + i]
  BY <1>1
<1>3. r = left \o right
  BY DEF RemoveAt
<1> HIDE DEF left, right, r
<1>4. /\ Len(r) = Len(left) + Len(right)
      /\ \A i \in 1..Len(r) : r[i] = IF i <= Len(left) THEN left[i] ELSE right[i - Len(left)]
  BY <1>1, <1>2, <1>3, ConcatElements
<1>5. PICK i \in 1..Len(q) : q[i] = t
  BY DEF Has
<1>6. CASE i < k
  <2>1. i \in 1..Len(r) /\ i <= Len(left) /\ left[i] = q[i]
    BY <1>1, <1>2, <1>4, <1>6
  <2>2. r[i] = t
    BY <1>4, <1>5, <2>1
  <2> QED
    BY <2>1, <2>2 DEF Has, r
<1>7. CASE i > k
  <2>1. /\ i - 1 \in 1..Len(r) /\ ~(i - 1 <= Len(left))
        /\ (i - 1) - Len(left) \in 1..(Len(q) - k) /\ k + ((i - 1) - Len(left)) = i
    BY <1>1, <1>2, <1>4, <1>7
  <2>2. r[i - 1] = t
    BY <1>2, <1>4, <1>5, <2>1
  <2> QED
    BY <2>1, <2>2 DEF Has, r
<1> QED
  BY <1>1, <1>5, <1>6, <1>7

(* A track is in the room in the queue, playing or waited for.             *)
LEMMA InRoomMeans ==
    /\ \A t : InRoom(t) <=> Has(queue, t) \/ t = current \/ Pending(t)
    /\ \A t : InRoom(t)' <=> Has(queue', t) \/ t = current' \/ Pending(t)'
  BY DEF InRoom, Queued, Has

(* A step that moves no track and ends no wait for one.                    *)
LEMMA NothingLeaves ==
    ASSUME UNCHANGED <<queue, current>>,
           \A a \in Advances : Acquiring(a) => Acquiring(a)' /\ advances'[a].next = advances[a].next
    PROVE  Leaves
  BY InRoomMeans DEF Leaves, Pending

(* advance() up to its first await drops what it finished, with its file,  *)
(* and of what it had waited for before, nothing but its own track.        *)
LEMMA BeginAdvanceLeaves ==
    ASSUME TypeInv, NEW a \in Advances, NEW loops, BeginAdvance(a, loops)
    PROVE  Leaves
<1>1. queue \in Seq(Tracks) /\ advances \in [Advances -> [pc : {"idle", "acquiring", "disposing", "emptied"},
           finished : OptTrack, next : OptTrack]]
  BY DEF TypeInv, TypeOK
<1>2. \A b \in Advances : b # a => advances'[b] = advances[b]
  BY <1>1 DEF BeginAdvance, StartNext
<1>3. \A t \in Tracks : Pending(t) => Pending(t)' \/ Overtaken(t)
  BY <1>2 DEF Pending, Overtaken, Acquiring
<1>4. CASE queue # <<>> /\ NeedsMedia(Head(queue), media)
  <2>1. /\ queue' = Tail(queue) /\ current' = current
        /\ advances' = [advances EXCEPT ![a] =
                          [pc |-> "acquiring", finished |-> current, next |-> Head(queue)]]
    BY <1>4 DEF BeginAdvance
  <2>2. \A t : t = Head(queue) => Pending(t)'
    BY <1>1, <2>1 DEF Pending, Acquiring
  <2>3. \A t : Has(queue, t) => Has(queue', t) \/ Pending(t)'
    BY <1>1, <1>4, <2>1, <2>2, HeadOrTail
  <2> QED
    BY <1>3, <2>1, <2>3, InRoomMeans DEF Leaves
<1>5. CASE queue # <<>> /\ ~NeedsMedia(Head(queue), media)
  <2>1. queue' = Tail(queue) /\ current' = Head(queue) /\ media' = Dispose({current}, media)
    BY <1>5 DEF BeginAdvance, StartNext, StartTrack
  <2>2. \A t : Has(queue, t) => Has(queue', t) \/ t = current'
    BY <1>1, <1>5, <2>1, HeadOrTail
  <2> QED
    BY <1>3, <2>1, <2>2, InRoomMeans, DisposedFiles DEF Leaves
<1>6. CASE queue = <<>>
  <2>1. queue' = queue /\ media' = Dispose({current}, media)
    BY <1>6 DEF BeginAdvance
  <2> QED
    BY <1>3, <2>1, InRoomMeans, DisposedFiles DEF Leaves
<1> QED
  BY <1>4, <1>5, <1>6

(* A download that settles takes the place of the track it was to follow,  *)
(* whose file goes, or of one that started meanwhile.                      *)
LEMMA AcquireDoneLeaves ==
    ASSUME TypeInv, NEW a \in Advances, AcquireDone(a) PROVE Leaves
<1> DEFINE next == advances[a].next
           finished == advances[a].finished
<1>1. /\ Acquiring(a) /\ queue' = queue /\ current' = next
      /\ media' = Dispose({finished}, Assign(next))
  BY DEF AcquireDone, StartNext, StartTrack, Acquiring
<1>2. \A b \in Advances : b # a => advances'[b] = advances[b]
  BY DEF AcquireDone, StartNext, TypeInv, TypeOK
<1>3. \A t \in Tracks : Pending(t) => Pending(t)' \/ t = next
  BY <1>2 DEF Pending, Acquiring
<1>4. ASSUME NEW t \in Tracks, t = current
      PROVE  media'[t] # "ready" \/ Overtaken(t)
  <2>1. CASE t = finished
    <3> HIDE DEF next, finished
    <3>1. t \in {finished}
      BY <2>1
    <3> QED
      BY <1>1, <3>1, DisposedFiles
  <2>2. CASE t # finished
    BY <1>1, <1>4, <2>2 DEF Overtaken
  <2> QED
    BY <2>1, <2>2
<1> HIDE DEF next, finished
<1> QED
  BY <1>1, <1>3, <1>4, InRoomMeans DEF Leaves

(* A track that starts at once keeps the others where they were, the       *)
(* interrupted one at the head of the queue.                               *)
LEMMA InterruptLeaves ==
    ASSUME TypeInv, NEW t \in Tracks, NEW rest \in Seq(Tracks), NEW files,
           Interrupt(t, rest, files), UNCHANGED advances,
           \A u : Has(queue, u) => u = t \/ Has(rest, u)
    PROVE  Leaves
<1>1. current' = t /\ current \in OptTrack
  BY DEF Interrupt, StartTrack, TypeInv, TypeOK
<1>2. \A u \in Tracks : Pending(u) => Pending(u)'
  BY DEF Pending, Acquiring
<1>3. CASE current = NoTrack
  <2>1. queue' = rest
    BY <1>3 DEF Interrupt
  <2> QED
    BY <1>1, <1>2, <1>3, <2>1, InRoomMeans, RoomAssumption DEF Leaves
<1>4. CASE current # NoTrack
  <2>1. queue' = Cons(current, rest) /\ current \in Tracks
    BY <1>1, <1>4 DEF Interrupt, OptTrack
  <2>2. Has(queue', current) /\ \A u : Has(rest, u) => Has(queue', u)
    BY <2>1, ConsKeeps
  <2> QED
    BY <1>1, <1>2, <2>2, InRoomMeans DEF Leaves
<1> QED
  BY <1>3, <1>4

(* A request drops nothing.                                                *)
LEMMA EnqueueLeaves ==
    ASSUME TypeInv, NEW t \in Tracks, NEW force \in BOOLEAN, Enqueue(t, force) PROVE Leaves
<1> DEFINE files == IF t \in Lazy THEN media ELSE Assign(t)
<1>1. queue \in Seq(Tracks) /\ advances' = advances
  BY DEF Enqueue, TypeInv, TypeOK
<1>2. \A u \in Tracks : Pending(u) => Pending(u)'
  BY <1>1 DEF Pending, Acquiring
<1>3. CASE current = NoTrack /\ queue' = queue
  BY <1>2, <1>3, InRoomMeans, RoomAssumption DEF Leaves
<1>4. CASE Interrupt(t, queue, files)
  <2> HIDE DEF files
  <2> QED
    BY <1>1, <1>4, InterruptLeaves
<1>5. CASE queue' = Append(queue, t) /\ current' = current
  <2>1. \A u : Has(queue, u) => Has(queue', u)
    BY <1>1, <1>5, AppendKeeps
  <2> QED
    BY <1>2, <1>5, <2>1, InRoomMeans DEF Leaves
<1> QED
  BY <1>3, <1>4, <1>5 DEF Enqueue, transportVars

(* The calls that take tracks out of the queue or end the room dispose of  *)
(* what they take out.                                                     *)
LEMMA QueueCallsLeave ==
    ASSUME TypeInv,
           (\E i \in 1..Len(queue) : ForcePlay(i) \/ RemoveQueued(i)) \/ ClearQueue \/ End
    PROVE  Leaves
<1> USE DEF transportVars, requestVars
<1>1. queue \in Seq(Tracks)
  BY DEF TypeInv, TypeOK
<1>2. UNCHANGED advances => \A u \in Tracks : Pending(u) => Pending(u)'
  BY DEF Pending, Acquiring
<1>3. ASSUME NEW i \in 1..Len(queue), ForcePlay(i) PROVE Leaves
  <2> DEFINE t == queue[i]
             rest == RemoveAt(queue, i)
  <2>1. t \in Tracks /\ rest \in Seq(Tracks) /\ \A u : Has(queue, u) => u = t \/ Has(rest, u)
    BY <1>1, RemoveAtType, RemoveAtKeeps
  <2>2. Interrupt(t, rest, media) /\ UNCHANGED advances
    BY <1>3 DEF ForcePlay
  <2> HIDE DEF t, rest
  <2> QED
    BY <2>1, <2>2, InterruptLeaves
<1>4. ASSUME NEW i \in 1..Len(queue), RemoveQueued(i) PROVE Leaves
  <2>1. /\ queue' = RemoveAt(queue, i) /\ current' = current /\ advances' = advances
        /\ media' = Dispose({queue[i]}, media)
    BY <1>4 DEF RemoveQueued
  <2>2. \A u : Has(queue, u) => u = queue[i] \/ Has(queue', u)
    BY <1>1, <2>1, RemoveAtKeeps
  <2>3. \A u \in Tracks : u = queue[i] => media'[u] # "ready"
    BY <2>1, DisposedFiles
  <2> QED
    BY <1>2, <2>1, <2>2, <2>3, InRoomMeans DEF Leaves
<1>5. \A u : Has(queue, u) => u \in ToSet(queue)
  BY <1>1 DEF Has, ToSet
<1>6. CASE ClearQueue
  <2>1. current' = current /\ advances' = advances /\ media' = Dispose(ToSet(queue), media)
    BY <1>6 DEF ClearQueue
  <2> QED
    BY <1>2, <1>5, <2>1, InRoomMeans, DisposedFiles DEF Leaves
<1>7. CASE End
  <2>1. advances' = advances /\ media' = Dispose(ToSet(queue) \union {current}, media)
    BY <1>7 DEF End
  <2> QED
    BY <1>2, <1>5, <2>1, InRoomMeans, DisposedFiles DEF Leaves
<1> QED
  BY <1>3, <1>4, <1>6, <1>7

(* In no step does a track leave its file behind, but by the two waits.    *)
LEMMA LeavesStep == ASSUME TypeInv, [Next]_vars PROVE Leaves
<1> USE DEF transportVars, durationVars, presenceVars, autoplayVars, fileVars, requestVars
<1>0. UNCHANGED <<queue, current, advances>> => Leaves
  BY NothingLeaves DEF Acquiring
<1>1. CASE EndTimerFires
  BY <1>0, <1>1, BeginAdvanceLeaves DEF EndTimerFires
<1>2. CASE Tick \/ RadioPicks \/ RadioGivesUp
  BY <1>0, <1>2 DEF Tick, RadioPicks, RadioGivesUp
<1>3. ASSUME NEW t \in Tracks, FetchDone(t) \/ ProbeDone(t) PROVE Leaves
  BY <1>0, <1>3 DEF FetchDone, ProbeDone
<1>4. ASSUME NEW t \in Tracks, RadioPlays(t) PROVE Leaves
  <2>1. queue' = queue /\ current = NoTrack /\ advances' = advances
    BY <1>4 DEF RadioPlays
  <2> QED
    BY <2>1, InRoomMeans, RoomAssumption DEF Leaves, Pending, Acquiring
<1>5. ASSUME NEW a \in Advances, AcquireFail(a) PROVE Leaves
  BY <1>5, BeginAdvanceLeaves DEF AcquireFail
<1>6. ASSUME NEW a \in Advances, FinishAdvance(a) PROVE Leaves
  <2>1. UNCHANGED <<queue, current>> /\ ~Acquiring(a)
        /\ \A b \in Advances : b # a => advances'[b] = advances[b]
    BY <1>6 DEF FinishAdvance, Acquiring, TypeInv, TypeOK
  <2>2. \A b \in Advances : Acquiring(b) => Acquiring(b)' /\ advances'[b].next = advances[b].next
    BY <2>1 DEF Acquiring
  <2> QED
    BY <2>1, <2>2, NothingLeaves
<1>7. CASE Proceed
  BY <1>1, <1>2, <1>3, <1>4, <1>5, <1>6, <1>7, AcquireDoneLeaves DEF Proceed
<1>8. CASE Skip
  BY <1>8, BeginAdvanceLeaves DEF Skip
<1>9. CASE Play \/ Pause \/ Reboot \/ Join \/ Leave
  BY <1>0, <1>9 DEF Play, Pause, Reboot, Join, Leave
<1>10. ASSUME NEW v, Seek(v) \/ SetLoop(v) \/ SetAutoplay(v) PROVE Leaves
  BY <1>0, <1>10 DEF Seek, SetLoop, SetAutoplay
<1>11. CASE Request
  BY <1>8, <1>9, <1>10, <1>11, EnqueueLeaves, QueueCallsLeave DEF Request
<1>12. CASE UNCHANGED vars
  BY <1>0, <1>12 DEF vars
<1> QED
  BY <1>7, <1>11, <1>12 DEF Next

(* Whatever call drops a track removes its file with it, unless advance()  *)
(* was waiting for a download then.                                        *)
THEOREM RoomLeavesNoFile == Spec => LeavesNoFile
<1>1. Init => TypeInv
  BY TypeInit
<1>2. TypeInv /\ [Next]_vars => TypeInv'
  BY TypeStep
<1>3. TypeInv /\ [Next]_vars =>
         [\A t \in Tracks : InRoom(t) /\ ~InRoom(t)' => media'[t] # "ready" \/ Overtaken(t)]_vars
  BY LeavesStep DEF Leaves
<1> QED
  BY <1>1, <1>2, <1>3, PTL DEF Spec, LeavesNoFile

-----------------------------------------------------------------------------
(* Where every request brings its file, there is nothing to wait for.      *)

(* Nobody waits for a download or ever did, and the files on disk are      *)
(* those of the tracks in the room.                                        *)
FilesInv ==
    /\ \A a \in Advances : ~Acquiring(a)
    /\ \A t \in Tracks : fetching[t] = 0
    /\ spilled = {}
    /\ \A t \in Tracks \ requested : media[t] = "none"
    /\ \A t \in Tracks : media[t] = "ready" => InRoom(t)
    /\ registered => \A t \in Tracks : InRoom(t) => media[t] = "ready"

(* What a step does to the files: it starts no download and loses none,    *)
(* gives a file only to a track it puts into the room, and touches none of *)
(* a track that stays there.                                               *)
FilesFollow ==
    /\ \A a \in Advances : ~Acquiring(a)'
    /\ fetching' = fetching /\ spilled' = spilled
    /\ registered' => registered
    /\ requested \subseteq requested'
    /\ \A t \in Tracks :
          /\ t \notin requested' => media'[t] = media[t]
          /\ media'[t] = "ready" => media[t] = "ready" \/ InRoom(t)'
          /\ registered' /\ InRoom(t)' => media'[t] = "ready" \/ (InRoom(t) /\ media'[t] = media[t])

(* A new room has no file.                                                 *)
LEMMA FilesInit == Init => FilesInv
<1> SUFFICES ASSUME Init PROVE FilesInv
  OBVIOUS
<1>1. \A a \in Advances : advances[a] = Idle
  BY DEF Init
<1>2. \A a \in Advances : ~Acquiring(a)
  BY <1>1 DEF Acquiring, Idle, At
<1>3. queue = <<>> /\ current = NoTrack /\ \A t : ~Has(queue, t)
  BY DEF Init, Has
<1>4. \A t \in Tracks : ~InRoom(t)
  BY <1>2, <1>3, RoomAssumption, InRoomMeans DEF Pending
<1>5. fetching = [t \in Tracks |-> 0] /\ spilled = {} /\ media = [t \in Tracks |-> "none"]
  BY DEF Init
<1> QED
  BY <1>2, <1>4, <1>5 DEF FilesInv

(* A step whose files follow its tracks keeps the invariant.               *)
LEMMA FilesKept ==
    ASSUME TypeInv, FilesInv, Leaves, FilesFollow PROVE FilesInv'
<1>1. \A t \in Tracks : ~Overtaken(t)
  BY DEF FilesInv, Overtaken
<1>2. \A t \in Tracks \ requested' : media'[t] = "none"
  BY DEF FilesInv, FilesFollow
<1>3. \A t \in Tracks : media'[t] = "ready" => InRoom(t)'
  BY <1>1 DEF FilesInv, FilesFollow, Leaves
<1>4. registered' => \A t \in Tracks : InRoom(t)' => media'[t] = "ready"
  BY DEF FilesInv, FilesFollow
<1>5. /\ \A a \in Advances : ~Acquiring(a)'
      /\ \A t \in Tracks : fetching'[t] = 0
      /\ spilled' = {}
  BY DEF FilesInv, FilesFollow
<1> QED
  BY <1>2, <1>3, <1>4, <1>5 DEF FilesInv

(* A step that touches neither tracks nor files.                           *)
LEMMA FilesStand ==
    ASSUME TypeInv, FilesInv, UNCHANGED <<queue, current, media, fetching, spilled, requested>>,
           \A a \in Advances : ~Acquiring(a)', registered' => registered
    PROVE  FilesFollow
<1>1. \A t : InRoom(t)' => InRoom(t)
  BY InRoomMeans DEF Pending
<1> QED
  BY <1>1 DEF FilesFollow

(* Nothing is fetched ahead where nothing has to be fetched.               *)
LEMMA NothingToFetch ==
    ASSUME Lazy = {}, NEW q, NEW files, PrefetchNext(q, files)
    PROVE  fetching' = fetching
  BY DEF PrefetchNext, NeedsMedia

(* advance() has nothing to wait for: it removes the file of the track     *)
(* that is over, which is nowhere in the room any more.                    *)
LEMMA BeginAdvanceFiles ==
    ASSUME Lazy = {}, TypeInv, PlaceInv, FilesInv, NEW a \in Advances, NEW loops,
           BeginAdvance(a, loops)
    PROVE  FilesFollow
<1>1. /\ queue \in Seq(Tracks) /\ advances \in [Advances -> [pc : {"idle", "acquiring", "disposing", "emptied"},
                                             finished : OptTrack, next : OptTrack]]
  BY DEF TypeInv, TypeOK
<1>2. UNCHANGED <<registered, spilled, requested>> /\ media' = Dispose({current}, media)
  BY DEF BeginAdvance, NeedsMedia, StartNext, requestVars
<1>3. fetching' = fetching
  BY NothingToFetch DEF BeginAdvance, NeedsMedia, StartNext
<1>4. ASSUME NEW b \in Advances PROVE ~Acquiring(b)'
  BY <1>1 DEF BeginAdvance, NeedsMedia, StartNext, Acquiring, FilesInv, Idle, At
<1>5. \A t \in Tracks : InRoom(t)' => InRoom(t) /\ t # current
  <2>1. CASE queue # <<>>
    <3>1. queue' = Tail(queue) /\ current' = Head(queue)
      BY <2>1 DEF BeginAdvance, NeedsMedia, StartNext, StartTrack
    <3>2. \A t : Has(queue', t) \/ t = current' => Has(queue, t)
      BY <1>1, <2>1, <3>1, TailPlace
    <3> QED
      BY <1>4, <3>2, InRoomMeans, QueuePlace DEF Pending
  <2>2. CASE queue = <<>>
    <3>1. queue' = queue /\ current' = NoTrack
      BY <2>2 DEF BeginAdvance
    <3> QED
      BY <1>4, <3>1, InRoomMeans, QueuePlace, RoomAssumption DEF Pending
  <2> QED
    BY <2>1, <2>2
<1>6. \A t \in Tracks : media'[t] = "ready" => media[t] = "ready"
  BY <1>2, DisposedFiles
<1>7. \A t \in Tracks : t # current => media'[t] = media[t]
  BY <1>2, DisposedFiles
<1>8. \A t \in Tracks \ requested : media'[t] = media[t]
  BY <1>2 DEF FilesInv, Dispose
<1> QED
  BY <1>2, <1>3, <1>4, <1>5, <1>6, <1>7, <1>8 DEF FilesFollow

(* A request brings its file into the room with it.                        *)
LEMMA EnqueueFiles ==
    ASSUME Lazy = {}, TypeInv, PlaceInv, FilesInv, NEW t \in Tracks, NEW force \in BOOLEAN,
           Enqueue(t, force)
    PROVE  FilesFollow
<1>1. /\ queue \in Seq(Tracks) /\ advances' = advances /\ requested' = requested \union {t}
      /\ UNCHANGED <<registered, spilled>> /\ media' = Assign(t)
      /\ media \in [Tracks -> {"none", "ready", "gone"}]
  BY DEF Enqueue, TypeInv, TypeOK
<1>2. fetching' = fetching
  BY NothingToFetch DEF Enqueue
<1>3. \A a \in Advances : ~Acquiring(a)'
  BY <1>1 DEF FilesInv, Acquiring
<1>4. media'[t] = "ready" /\ \A u \in Tracks : u # t => media'[u] = media[u]
  BY <1>1 DEF Assign
<1>5. InRoom(t)' /\ \A u \in Tracks : InRoom(u)' => u = t \/ InRoom(u)
  <2>1. CASE current' = t /\ queue' = queue
    BY <1>3, <2>1, InRoomMeans DEF Pending
  <2>2. CASE current # NoTrack /\ queue' = Cons(current, queue) /\ current' = t
    <3>1. current \in Tracks
      BY <2>2 DEF TypeInv, TypeOK, OptTrack
    <3> QED
      BY <1>1, <1>3, <2>2, <3>1, InRoomMeans, ConsPlace DEF Pending
  <2>3. CASE queue' = Append(queue, t) /\ current' = current
    <3>1. Has(Append(queue, t), t)
      <4>1. Len(queue) + 1 \in 1..Len(Append(queue, t)) /\ Append(queue, t)[Len(queue) + 1] = t
        BY <1>1
      <4> QED
        BY <4>1 DEF Has
    <3> QED
      BY <1>1, <1>3, <2>3, <3>1, InRoomMeans, AppendPlace DEF Pending
  <2> QED
    BY <2>1, <2>2, <2>3 DEF Enqueue, Interrupt, StartTrack, transportVars
<1> QED
  BY <1>1, <1>2, <1>3, <1>4, <1>5 DEF FilesFollow

(* A recommendation comes with its file too.                               *)
LEMMA RadioFiles ==
    ASSUME TypeInv, PlaceInv, FilesInv, NEW t \in Tracks, RadioPlays(t) PROVE FilesFollow
<1>1. /\ current' = t /\ UNCHANGED <<registered, queue, advances, fetching, spilled>>
      /\ requested' = requested \union {t} /\ media' = Assign(t)
      /\ media \in [Tracks -> {"none", "ready", "gone"}]
  BY DEF RadioPlays, StartTrack, TypeInv, TypeOK
<1>2. \A a \in Advances : ~Acquiring(a)'
  BY <1>1 DEF FilesInv, Acquiring
<1>3. InRoom(t)' /\ \A u \in Tracks : InRoom(u)' => u = t \/ InRoom(u)
  BY <1>1, <1>2, InRoomMeans DEF Pending
<1>4. media'[t] = "ready" /\ \A u \in Tracks : u # t => media'[u] = media[u]
  BY <1>1 DEF Assign
<1> QED
  BY <1>1, <1>2, <1>3, <1>4 DEF FilesFollow

(* Tracks taken out of the queue, or ended, are out of the room when their *)
(* file goes.                                                              *)
LEMMA QueueCallsFiles ==
    ASSUME TypeInv, PlaceInv, FilesInv,
           (\E i \in 1..Len(queue) : ForcePlay(i) \/ RemoveQueued(i)) \/ ClearQueue \/ End
    PROVE  FilesFollow
<1> USE DEF transportVars, requestVars, fileVars
<1>1. /\ queue \in Seq(Tracks) /\ Distinct(queue) /\ ~Has(queue, current)
      /\ current \in OptTrack /\ \A t : Has(queue, t) => t \in Tracks
  BY QueuePlace
<1>2. UNCHANGED advances => \A a \in Advances : ~Acquiring(a)'
  BY DEF FilesInv, Acquiring
<1>3. ASSUME NEW S, media' = Dispose(S, media),
             UNCHANGED <<registered, advances, fetching, spilled, requested>>,
             \A t \in Tracks : InRoom(t)' => InRoom(t) /\ t \notin S
      PROVE  FilesFollow
  <2>1. \A t \in Tracks : media'[t] = "ready" => media[t] = "ready"
    BY <1>3, DisposedFiles
  <2>2. \A t \in Tracks : t \notin S => media'[t] = media[t]
    BY <1>3, DisposedFiles
  <2>3. \A t \in Tracks \ requested : media'[t] = media[t]
    BY <1>3 DEF FilesInv, Dispose
  <2> QED
    BY <1>2, <1>3, <2>1, <2>2, <2>3 DEF FilesFollow
<1>4. ASSUME NEW i \in 1..Len(queue), ForcePlay(i) PROVE FilesFollow
  <2> DEFINE t == queue[i]
             rest == RemoveAt(queue, i)
  <2>1. t \in Tracks /\ rest \in Seq(Tracks) /\ Has(queue, t) /\ \A u : Has(rest, u) => Has(queue, u)
    BY <1>1, RemoveAtType, RemoveAtPlace
  <2>2. /\ Interrupt(t, rest, media)
        /\ UNCHANGED <<registered, advances, media, fetching, spilled, requested>>
    BY <1>4 DEF ForcePlay
  <2> HIDE DEF t, rest
  <2>3. current' = t /\ queue' = IF current = NoTrack THEN rest ELSE Cons(current, rest)
    BY <2>2 DEF Interrupt, StartTrack
  <2>4. \A u : Has(queue', u) => u = current \/ Has(rest, u)
    BY <1>1, <2>1, <2>3, ConsPlace DEF OptTrack
  <2>5. \A u \in Tracks : InRoom(u)' => InRoom(u)
    BY <1>2, <2>1, <2>2, <2>3, <2>4, InRoomMeans DEF Pending
  <2> QED
    BY <1>2, <2>2, <2>5 DEF FilesFollow
<1>5. ASSUME NEW i \in 1..Len(queue), RemoveQueued(i) PROVE FilesFollow
  <2>1. /\ queue' = RemoveAt(queue, i) /\ current' = current
        /\ UNCHANGED <<registered, advances, fetching, spilled, requested>>
        /\ media' = Dispose({queue[i]}, media)
    BY <1>5 DEF RemoveQueued
  <2>2. \A u : Has(queue', u) => Has(queue, u) /\ u # queue[i]
    BY <1>1, <2>1, RemoveAtPlace
  <2>3. current # queue[i]
    BY <1>1, RemoveAtPlace
  <2>4. \A u \in Tracks : InRoom(u)' => InRoom(u) /\ u # queue[i]
    BY <1>2, <2>1, <2>2, <2>3, InRoomMeans DEF Pending
  <2> QED
    BY <1>3, <2>1, <2>4
<1>6. /\ \A u : ~Has(<<>>, u)
      /\ \A u : u \in ToSet(queue) => Has(queue, u)
  BY <1>1 DEF Has, ToSet
<1>7. CASE ClearQueue
  <2>1. /\ queue' = <<>> /\ current' = current /\ media' = Dispose(ToSet(queue), media)
        /\ UNCHANGED <<registered, advances, fetching, spilled, requested>>
    BY <1>7 DEF ClearQueue
  <2>2. \A u \in Tracks : InRoom(u)' => InRoom(u) /\ u \notin ToSet(queue)
    BY <1>1, <1>2, <1>6, <2>1, InRoomMeans DEF Pending
  <2> QED
    BY <1>3, <2>1, <2>2
<1>8. CASE End
  <2>1. /\ queue' = <<>> /\ current' = NoTrack
        /\ media' = Dispose(ToSet(queue) \union {current}, media)
        /\ UNCHANGED <<registered, advances, fetching, spilled, requested>>
    BY <1>8 DEF End
  <2>2. \A u \in Tracks : ~InRoom(u)'
    BY <1>2, <1>6, <2>1, InRoomMeans, RoomAssumption DEF Pending
  <2> QED
    BY <1>3, <2>1, <2>2
<1> QED
  BY <1>4, <1>5, <1>7, <1>8

(* In every step the files follow the tracks.                              *)
LEMMA FilesStep ==
    ASSUME Lazy = {}, TypeInv, PlaceInv, FilesInv, [Next]_vars PROVE FilesInv'
<1>a. Leaves
  BY LeavesStep
<1>b. SUFFICES FilesFollow
  BY <1>a, FilesKept
<1> USE DEF transportVars, durationVars, presenceVars, autoplayVars, fileVars, requestVars
<1>0. UNCHANGED <<registered, queue, current, advances, media, fetching, spilled, requested>>
         => FilesFollow
  BY FilesStand DEF FilesInv, Acquiring
<1>1. CASE EndTimerFires
  BY <1>0, <1>1, BeginAdvanceFiles DEF EndTimerFires
<1>2. CASE Tick \/ RadioPicks \/ RadioGivesUp
  BY <1>0, <1>2 DEF Tick, RadioPicks, RadioGivesUp
<1>3. ASSUME NEW t \in Tracks PROVE ~FetchDone(t) /\ (ProbeDone(t) => FilesFollow)
  BY <1>0 DEF FetchDone, ProbeDone, FilesInv
<1>4. ASSUME NEW a \in Advances PROVE ~AcquireDone(a) /\ ~AcquireFail(a)
  BY DEF AcquireDone, AcquireFail, FilesInv, Acquiring
<1>5. ASSUME NEW a \in Advances, FinishAdvance(a) PROVE FilesFollow
  <2>1. \A b \in Advances : ~Acquiring(b)'
    BY <1>5 DEF FinishAdvance, FilesInv, Acquiring, Idle, At, TypeInv, TypeOK
  <2> QED
    BY <1>5, <2>1, FilesStand DEF FinishAdvance
<1>6. CASE Proceed
  BY <1>1, <1>2, <1>3, <1>4, <1>5, <1>6, RadioFiles DEF Proceed
<1>7. CASE Skip
  BY <1>7, BeginAdvanceFiles DEF Skip
<1>8. CASE Reboot
  <2>1. \A a \in Advances : ~Acquiring(a)'
    BY <1>8 DEF Reboot, FilesInv, Acquiring
  <2>2. \A t \in Tracks : /\ media'[t] = "ready" => media[t] = "ready"
                          /\ t \notin requested => media'[t] = media[t]
    BY <1>8 DEF Reboot, Dispose, FilesInv
  <2> QED
    BY <1>8, <2>1, <2>2 DEF Reboot, FilesFollow
<1>9. CASE Play \/ Pause \/ Join \/ Leave
  BY <1>0, <1>9 DEF Play, Pause, Join, Leave
<1>10. ASSUME NEW v, Seek(v) \/ SetLoop(v) \/ SetAutoplay(v) PROVE FilesFollow
  BY <1>0, <1>10 DEF Seek, SetLoop, SetAutoplay
<1>11. CASE Request
  BY <1>7, <1>8, <1>9, <1>10, <1>11, EnqueueFiles, QueueCallsFiles
     DEF Request
<1>12. CASE UNCHANGED vars
  BY <1>0, <1>12 DEF vars
<1> QED
  BY <1>6, <1>11, <1>12 DEF Next

(* Where every request brings its file, what the room plays or will play   *)
(* has one on disk.                                                        *)
THEOREM RoomMediaIsThere == ASSUME Lazy = {} PROVE Spec => []MediaIsThere
<1>1. Init => TypeInv /\ PlaceInv /\ FilesInv
  BY TypeInit, PlaceInit, FilesInit
<1>2. TypeInv /\ PlaceInv /\ FilesInv /\ [Next]_vars => (TypeInv /\ PlaceInv /\ FilesInv)'
  BY TypeStep, PlaceStep, FilesStep
<1>3. TypeInv /\ PlaceInv /\ FilesInv => MediaIsThere
  BY DEF FilesInv, MediaIsThere, TypeInv, TypeOK, OptTrack, InRoom
<1> QED
  BY <1>1, <1>2, <1>3, PTL DEF Spec

(* And no file is left on disk once its track is out of the room.          *)
THEOREM RoomNoStrayFile == ASSUME Lazy = {} PROVE Spec => []NoStrayFile
<1>1. Init => TypeInv /\ PlaceInv /\ FilesInv
  BY TypeInit, PlaceInit, FilesInit
<1>2. TypeInv /\ PlaceInv /\ FilesInv /\ [Next]_vars => (TypeInv /\ PlaceInv /\ FilesInv)'
  BY TypeStep, PlaceStep, FilesStep
<1>3. FilesInv => NoStrayFile
  BY DEF FilesInv, NoStrayFile
<1> QED
  BY <1>1, <1>2, <1>3, PTL DEF Spec

============================================================================
