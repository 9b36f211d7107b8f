----------------------------- MODULE MediaEngine ----------------------------
(***************************************************************************)
(* The player of a page: MediaEngine (playeon-web/src/lib/media-engine.ts) *)
(* and the two effects of player-screen.tsx that drive it, against the     *)
(* media elements of the browser.                                          *)
(*                                                                         *)
(* Sound and picture are one element in download mode, here the sound; in  *)
(* split mode they are two, and the sound is the master.  Time is whole    *)
(* seconds, so that every tolerance between none and one second is "not    *)
(* level", and those between one and two are "off by two".                 *)
(***************************************************************************)
EXTENDS Integers

CONSTANTS
    EndOfTime,   \* bound: the last second of a behaviour
    MaxJumps,    \* bound: how often the room changes under the player
    SeekTo       \* where the room is sought to

ASSUME PlayerAssumption == {EndOfTime, MaxJumps, SeekTo} \subseteq Nat

VARIABLES
    clock,   \* Date.now()
    show,    \* the newest snapshot: track, whether it is split, and the room clock
    player,  \* the fields of the engine, and its elements
    \* what the code does not record
    seen,    \* the snapshot whose jump, if it was one, the engine has acted on
    kicked,  \* a gesture started the picture while the sound was starved
    jumps    \* how many of MaxJumps there were

playerVars == <<clock, show, player, seen, kicked, jumps>>

Elements == {"sound", "picture"}

Snapshots == [track : Nat, split : BOOLEAN, at : Nat, since : Nat, playing : BOOLEAN]
MediaElements == [at : Int, paused : BOOLEAN, loaded : BOOLEAN, seeking : BOOLEAN, starved : BOOLEAN]
Engines == [split : BOOLEAN, playing : BOOLEAN, anchor : Int, anchorAt : Int, snapAfter : Int, caughtUp : Int,
            buffering : SUBSET Elements, stalling : SUBSET Elements,
            gestureBound : BOOLEAN, listening : BOOLEAN, sound : MediaElements, picture : MediaElements]

PlayerTypeOK ==
    /\ clock \in Nat /\ jumps \in Nat /\ kicked \in BOOLEAN
    /\ show \in Snapshots /\ show.since <= clock /\ seen \in Snapshots
    /\ player \in Engines

(* An element that React has just built for a source.                      *)
Built == [at |-> 0, paused |-> TRUE, loaded |-> FALSE, seeking |-> FALSE, starved |-> FALSE]

Long == 2          \* CATCH_UP_COOLDOWN_MS and, rounded up, AV_SNAP_COOLDOWN_MS
Unset == -1

(* store.positionSec() of a snapshot                                       *)
PositionIn(s) == s.at + (IF s.playing THEN clock - s.since ELSE 0)
Level(x, y) == x = y
Near(x, y) == x - y \in -1..1     \* within MASTER_DRIFT_SEC, DOWNLOAD_DRIFT_SEC, ANCHOR_MOVE_SEC

-----------------------------------------------------------------------------
(* The methods, as the engine they leave.                                  *)

MovedTo(element, p) == [element EXCEPT !.at = p, !.seeking = element.loaded]
SoundAt(m, p) == [m EXCEPT !.sound = MovedTo(@, p)]
PictureAt(m, p) == [m EXCEPT !.picture = MovedTo(@, p), !.snapAfter = clock + Long]

SetAnchorOnly(m, p) == [m EXCEPT !.anchor = p]   \* a slip: anchorAt stays

SetAnchor(m, p) == [m EXCEPT !.anchor = p, !.anchorAt = clock]

(* #expectedPosition                                                       *)
Expected(m) == m.anchor + (IF m.playing THEN clock - m.anchorAt ELSE 0)
Jumped(m, p) == m.anchor = Unset \/ ~Near(p, Expected(m))

SnapVideo(m, p) == IF m.split /\ ~m.picture.seeking THEN PictureAt(m, p) ELSE m

DriveVideo(m) == IF m.split THEN [m EXCEPT !.picture.paused = ~m.playing \/ "sound" \in m.buffering] ELSE m

(* Not bound again while it is bound.                                      *)
BindGesture(m) == IF m.gestureBound THEN m ELSE [m EXCEPT !.gestureBound = TRUE, !.listening = TRUE]

(* #play: the browser lets the sound start, or asks for a gesture first.   *)
PlaySound(m, allowed) ==
    IF m.playing /\ m.sound.paused
    THEN IF allowed THEN [m EXCEPT !.sound.paused = FALSE] ELSE BindGesture(m)
    ELSE m

(* sync, in which the picture is driven first, and follows a jump only.    *)
Corrected(m, p) ==
    IF m.sound.seeking \/ (Near(m.sound.at, p) /\ ~Jumped(m, p)) THEN m
    ELSE LET there == SoundAt(SetAnchor(m, p), p) IN
         IF Jumped(m, p) THEN SnapVideo(there, p) ELSE there

Synced(m, s, allowed) ==
    LET there == Corrected(DriveVideo([m EXCEPT !.playing = s.playing]), PositionIn(s)) IN
    IF s.playing THEN PlaySound(there, allowed) ELSE [there EXCEPT !.sound.paused = TRUE]

(* #catchUp, on the room clock                                             *)
CatchUp(m, p) ==
    IF ~m.playing \/ clock - m.caughtUp < Long \/ Level(m.sound.at, p) THEN m
    ELSE SnapVideo(SoundAt([SetAnchor(m, p) EXCEPT !.caughtUp = clock], p), p)

(* #commitBuffering: the picture waits for the sound and resumes with it.  *)
Committed(m, e, stalls) ==
    LET told == [m EXCEPT !.stalling = @ \ {e},
                          !.buffering = IF stalls THEN @ \union {e} ELSE @ \ {e}]
    IN  IF e = "picture" \/ told.buffering = m.buffering THEN told
        ELSE IF stalls THEN DriveVideo(told)
        ELSE CatchUp(DriveVideo(told), PositionIn(show))

UnboundKeepingTimers(m) == m   \* a slip

(* #unbind: the handlers go with the old elements, the timers are cleared. *)
Unbound(m) == [m EXCEPT !.stalling = {}]

(* resetTrack and attach, to the elements of another source                *)
Attached(m, split) ==
    [Unbound(m) EXCEPT !.anchor = Unset, !.anchorAt = 0, !.snapAfter = 0,
                       !.split = split, !.buffering = {}, !.sound = Built, !.picture = Built]

-----------------------------------------------------------------------------
(* A page that opens on a room, with a new engine.                         *)
NewEngine == [split |-> FALSE, playing |-> FALSE, anchor |-> Unset, anchorAt |-> 0, snapAfter |-> 0,
           caughtUp |-> 0 - Long, buffering |-> {}, stalling |-> {},
           gestureBound |-> FALSE, listening |-> FALSE, sound |-> Built, picture |-> Built]

PlayerInit ==
    /\ clock = 0
    /\ \E split, playing, allowed \in BOOLEAN :
          /\ show = [track |-> 1, split |-> split, at |-> 0, since |-> 0, playing |-> playing]
          /\ player = Synced(Attached(NewEngine, split), show, allowed)
    /\ seen = show /\ kicked = FALSE /\ jumps = 0

(* The effects of a render: elements for another source are attached, then *)
(* the engine is synced with the room.                                     *)
Renders(s, allowed) ==
    LET m == IF <<s.track, s.split>> = <<show.track, show.split>> THEN player ELSE Attached(player, s.split)
        after == Synced(m, s, allowed)
    IN  /\ show' = s /\ player' = after
        /\ kicked' = FALSE
        /\ seen' = IF m.sound.seeking /\ Jumped([m EXCEPT !.playing = s.playing], PositionIn(s)) THEN seen ELSE s
        /\ UNCHANGED clock

(* A snapshot of a room that is as it was.                                 *)
Refreshes(allowed) == Renders(show, allowed) /\ UNCHANGED jumps

(* Snapshots of a room that was sought, paused, resumed, went on to the    *)
(* next track, or whose video URL has arrived.                             *)
Changes(allowed) ==
    /\ jumps < MaxJumps /\ jumps' = jumps + 1
    /\ \/ \E p \in {0, SeekTo} : Renders([show EXCEPT !.at = p, !.since = clock], allowed)
       \/ Renders([show EXCEPT !.at = PositionIn(show), !.since = clock, !.playing = ~@], allowed)
       \/ \E split \in BOOLEAN :
             Renders([track |-> show.track + 1, split |-> split, at |-> 0, since |-> clock, playing |-> TRUE], allowed)
       \/ ~show.split /\ Renders([show EXCEPT !.split = TRUE], allowed)

Acts(m) == player' = m /\ UNCHANGED <<clock, show, jumps>>

(* loadedmetadata of the master, with anchorOnLoad                         *)
SoundLoads(allowed) ==
    /\ ~player.sound.loaded
    /\ LET p == PositionIn(show)
           m == [player EXCEPT !.sound.loaded = TRUE]
           there == IF Level(m.sound.at, p) THEN m ELSE SoundAt(m, p)
       IN  Acts(PlaySound(SnapVideo(SetAnchor(there, p), p), allowed))
    /\ seen' = show /\ UNCHANGED kicked

PictureLoads ==
    /\ player.split /\ ~player.picture.loaded
    /\ Acts([player EXCEPT !.picture.loaded = TRUE]) /\ UNCHANGED <<seen, kicked>>

Seeked(e) ==
    /\ player[e].seeking
    /\ Acts([player EXCEPT ![e].seeking = FALSE]) /\ UNCHANGED <<seen, kicked>>

(* waiting: the stall counts if it lasts.                                  *)
Starves(e) ==
    /\ ~player[e].paused /\ ~player[e].starved
    /\ Acts([player EXCEPT ![e].starved = TRUE, !.stalling = IF e \in player.buffering THEN @ ELSE @ \union {e}])
    /\ UNCHANGED <<seen, kicked>>

(* playing, canplay: recovery is never delayed.                            *)
Flows(e) ==
    /\ player[e].starved
    /\ Acts(Committed([player EXCEPT ![e].starved = FALSE], e, FALSE))
    /\ kicked' = (kicked /\ e # "sound")
    /\ seen' = IF player'.caughtUp # player.caughtUp THEN show ELSE seen

(* The stall has lasted STALL_GRACE_MS.                                    *)
StallCounts(e) ==
    /\ e \in player.stalling
    /\ Acts(Committed(player, e, TRUE))
    /\ UNCHANGED <<seen, kicked>>

ResumedOnce(m) == [m EXCEPT !.listening = FALSE]   \* a slip

(* The listener of a gesture that BindGesture put up: both elements start. *)
Resumed(m) == [m EXCEPT !.gestureBound = FALSE, !.listening = FALSE]

Gesture(allowed) ==
    /\ player.listening
    /\ LET m == PlaySound(Resumed(player), allowed) IN
       IF player.playing /\ player.split
       THEN /\ Acts([m EXCEPT !.picture.paused = FALSE])
            /\ kicked' = (kicked \/ "sound" \in player.buffering)
       ELSE Acts(m) /\ UNCHANGED kicked
    /\ UNCHANGED seen

(* The two loops of run().  Their phase against the clock is open.         *)
MasterLoop ==
    /\ player.playing /\ ~player.sound.paused /\ ~player.sound.seeking
    /\ "sound" \notin player.buffering
    /\ LET p == PositionIn(show) IN
       /\ ~Near(player.sound.at, p)
       /\ Acts(SetAnchor(SoundAt(player, p), p))
    /\ seen' = show /\ UNCHANGED kicked

AvLoop ==
    /\ player.split /\ ~player.sound.paused
    /\ ~Level(player.picture.at, player.sound.at)
    /\ ~player.picture.seeking /\ clock >= player.snapAfter
    /\ Acts(PictureAt(player, player.sound.at))
    /\ UNCHANGED <<seen, kicked>>

(* A second passes for what can play.                                      *)
Second(element) ==
    IF element.loaded /\ ~element.paused /\ ~element.seeking /\ ~element.starved
    THEN [element EXCEPT !.at = @ + 1] ELSE element

SecondPasses ==
    /\ clock < EndOfTime /\ clock' = clock + 1
    /\ player' = [player EXCEPT !.sound = Second(@), !.picture = Second(@)]
    /\ UNCHANGED <<show, seen, kicked, jumps>>

PlayerNext ==
    \/ \E allowed \in BOOLEAN : Refreshes(allowed) \/ Changes(allowed) \/ SoundLoads(allowed) \/ Gesture(allowed)
    \/ \E e \in Elements : Seeked(e) \/ Starves(e) \/ Flows(e) \/ StallCounts(e)
    \/ PictureLoads \/ MasterLoop \/ AvLoop \/ SecondPasses

PlayerSpec == PlayerInit /\ [][PlayerNext]_playerVars

-----------------------------------------------------------------------------
(* The picture is never seeked to chase the room clock: it is put there    *)
(* when the snapshot jumped, when the sound has loaded, and when a stall   *)
(* of the sound is over; otherwise it is levelled with the sound.          *)
NoChase ==
    [][(show' = show /\ clock' = clock /\ player'.picture.at # player.picture.at) =>
          \/ player'.picture.at = player.sound.at
          \/ seen # show
          \/ ~player.sound.loaded /\ player'.sound.loaded
          \/ "sound" \in player.buffering \ player'.buffering]_playerVars

(* The picture runs exactly while the room plays and the sound is not      *)
(* stalled, and it is the sound on the page now that stalls: a stall of    *)
(* the track before holds nothing back.  A gesture starts the picture of a *)
(* stalled sound, which nothing takes back before the next snapshot.       *)
PictureWaitsForSound ==
    /\ player.split => kicked \/ player.picture.paused = (~player.playing \/ "sound" \in player.buffering)
    /\ \A e \in player.buffering \union player.stalling : player[e].starved

(* A room that plays is heard, or the next gesture anywhere tries again.   *)
SilenceHasAWayOut == player.playing /\ player.sound.paused => player.listening

=============================================================================
