-------------------------- MODULE MediaEngineProofs -------------------------
(***************************************************************************)
(* What MediaEngine promises, for every bound.                             *)
(***************************************************************************)
EXTENDS MediaEngine, TLAPS

(* What the engine takes from the room.                                    *)
FollowsShow == player.playing = show.playing /\ player.split = show.split

(* Where the anchor is on the room clock of the snapshot that was acted on. *)
Anchored ==
    /\ player.anchor # Unset
    /\ Near(PositionIn(seen), player.anchor + (IF seen.playing THEN clock - player.anchorAt ELSE 0))

-----------------------------------------------------------------------------
(* The methods, one at a time.                                             *)

(* n differs from m in positions and times at most.                        *)
SameTransport(m, n) ==
    /\ n.split = m.split /\ n.playing = m.playing
    /\ n.buffering = m.buffering /\ n.stalling = m.stalling
    /\ n.gestureBound = m.gestureBound /\ n.listening = m.listening
    /\ n.sound.paused = m.sound.paused /\ n.sound.starved = m.sound.starved
    /\ n.sound.loaded = m.sound.loaded
    /\ n.picture.paused = m.picture.paused /\ n.picture.starved = m.picture.starved

(* A move touches position and seeking only.                               *)
LEMMA MovedElement ==
    ASSUME NEW x \in MediaElements, NEW p \in Int
    PROVE  /\ MovedTo(x, p) \in MediaElements
           /\ MovedTo(x, p).paused = x.paused /\ MovedTo(x, p).starved = x.starved
           /\ MovedTo(x, p).loaded = x.loaded /\ MovedTo(x, p).at = p
  BY DEF MovedTo, MediaElements

(* A record of the engine has these fields.                                *)
LEMMA EngineFields ==
    ASSUME NEW m \in Engines
    PROVE  /\ m.split \in BOOLEAN /\ m.playing \in BOOLEAN
           /\ {m.anchor, m.anchorAt, m.snapAfter, m.caughtUp} \subseteq Int
           /\ m.buffering \in SUBSET Elements /\ m.stalling \in SUBSET Elements
           /\ m.gestureBound \in BOOLEAN /\ m.listening \in BOOLEAN
           /\ m.sound \in MediaElements /\ m.picture \in MediaElements
  BY DEF Engines

(* The anchor is put at p, now.                                            *)
LEMMA AnchorSet ==
    ASSUME NEW m \in Engines, NEW p \in Int, clock \in Nat
    PROVE  /\ SetAnchor(m, p) \in Engines /\ SameTransport(m, SetAnchor(m, p))
           /\ SetAnchor(m, p).anchor = p /\ SetAnchor(m, p).anchorAt = clock
           /\ SetAnchor(m, p).picture = m.picture /\ SetAnchor(m, p).caughtUp = m.caughtUp
<1> DEFINE x == [m EXCEPT !.anchor = p]
<1>0. x \in Engines
  BY DEF Engines
<1>1. SetAnchor(m, p) \in Engines
  <2>1. SetAnchor(m, p) = [x EXCEPT !.anchorAt = clock]
    BY DEF SetAnchor
  <2> HIDE DEF x
  <2> QED
    BY <1>0, <2>1 DEF Engines
<1> QED
  BY <1>1 DEF SetAnchor, Engines, SameTransport

(* The sound is put at p.                                                  *)
LEMMA SoundMoved ==
    ASSUME NEW m \in Engines, NEW p \in Int
    PROVE  /\ SoundAt(m, p) \in Engines /\ SameTransport(m, SoundAt(m, p))
           /\ SoundAt(m, p).anchor = m.anchor /\ SoundAt(m, p).anchorAt = m.anchorAt
           /\ SoundAt(m, p).picture = m.picture /\ SoundAt(m, p).caughtUp = m.caughtUp
<1>1. m.sound \in MediaElements /\ MovedTo(m.sound, p) \in MediaElements
  BY EngineFields, MovedElement
<1>2. SoundAt(m, p) \in Engines
  BY <1>1 DEF Engines, SoundAt
<1>3. SoundAt(m, p).sound = MovedTo(m.sound, p) /\ SoundAt(m, p).picture = m.picture
  BY DEF Engines, SoundAt
<1>4. SameTransport(m, SoundAt(m, p))
  BY <1>1, <1>3, MovedElement DEF Engines, SoundAt, SameTransport
<1> QED
  BY <1>2, <1>4 DEF Engines, SoundAt

(* The picture is put at p.                                                *)
LEMMA PictureMoved ==
    ASSUME NEW m \in Engines, NEW p \in Int, clock \in Nat
    PROVE  /\ PictureAt(m, p) \in Engines /\ SameTransport(m, PictureAt(m, p))
           /\ PictureAt(m, p).anchor = m.anchor /\ PictureAt(m, p).anchorAt = m.anchorAt
           /\ PictureAt(m, p).caughtUp = m.caughtUp /\ PictureAt(m, p).picture.at = p
<1>1. m.picture \in MediaElements /\ MovedTo(m.picture, p) \in MediaElements
  BY EngineFields, MovedElement
<1>2. PictureAt(m, p) \in Engines
  <2>1. PICK x : x = [m EXCEPT !.picture = MovedTo(@, p)]
    OBVIOUS
  <2>2. x \in Engines
    BY <1>1, <2>1 DEF Engines
  <2>3. PictureAt(m, p) = [x EXCEPT !.snapAfter = clock + Long]
    BY <2>1 DEF PictureAt
  <2> QED
    BY <2>2, <2>3 DEF Engines, Long
<1>3. PictureAt(m, p).picture = MovedTo(m.picture, p) /\ PictureAt(m, p).sound = m.sound
  BY DEF Engines, PictureAt
<1>4. SameTransport(m, PictureAt(m, p)) /\ PictureAt(m, p).picture.at = p
  BY <1>1, <1>3, MovedElement DEF Engines, PictureAt, SameTransport
<1> QED
  BY <1>2, <1>4 DEF Engines, PictureAt

(* The picture is put at p, or left to a seek that is under way.           *)
LEMMA VideoSnapped ==
    ASSUME NEW m \in Engines, NEW p \in Int, clock \in Nat
    PROVE  LET n == SnapVideo(m, p) IN
           /\ n \in Engines /\ SameTransport(m, n)
           /\ n.anchor = m.anchor /\ n.anchorAt = m.anchorAt /\ n.caughtUp = m.caughtUp
<1>1. SameTransport(m, m)
  BY DEF SameTransport
<1> QED
  BY <1>1, PictureMoved DEF SnapVideo

(* Two such changes are one.                                               *)
LEMMA TransportAdds ==
    ASSUME NEW a, NEW b, NEW c, SameTransport(a, b), SameTransport(b, c) PROVE SameTransport(a, c)
  BY DEF SameTransport

(* sync puts the sound on the room clock if it is off it, and the picture  *)
(* only if the clock jumped.                                               *)
LEMMA CorrectedPlaces ==
    ASSUME NEW m \in Engines, NEW p \in Int, clock \in Nat
    PROVE  LET n == Corrected(m, p) IN
           /\ n \in Engines /\ SameTransport(m, n)
           /\ \/ n.anchor = p /\ n.anchorAt = clock /\ ~m.sound.seeking
              \/ /\ n.anchor = m.anchor /\ n.anchorAt = m.anchorAt
                 /\ m.sound.seeking \/ ~Jumped(m, p)
           /\ ~Jumped(m, p) => n.picture = m.picture
<1> DEFINE n == Corrected(m, p)
           a == SetAnchor(m, p)
           there == SoundAt(a, p)
<1>1. SameTransport(m, m)
  BY DEF SameTransport
<1>2. a \in Engines /\ SameTransport(m, a) /\ a.anchor = p /\ a.anchorAt = clock /\ a.picture = m.picture
  BY AnchorSet
<1> HIDE DEF a
<1>3. /\ there \in Engines /\ SameTransport(a, there)
      /\ there.anchor = p /\ there.anchorAt = clock /\ there.picture = m.picture
  BY <1>2, SoundMoved
<1> HIDE DEF there
<1>4. /\ SnapVideo(there, p) \in Engines /\ SameTransport(there, SnapVideo(there, p))
      /\ SnapVideo(there, p).anchor = p /\ SnapVideo(there, p).anchorAt = clock
  BY <1>3, VideoSnapped
<1>5. SameTransport(m, there) /\ SameTransport(m, SnapVideo(there, p))
  BY <1>2, <1>3, <1>4, TransportAdds
<1>6. CASE m.sound.seeking \/ (Near(m.sound.at, p) /\ ~Jumped(m, p))
  <2>1. n = m
    BY <1>6 DEF Corrected
  <2> QED
    BY <1>1, <1>6, <2>1
<1>7. CASE ~(m.sound.seeking \/ (Near(m.sound.at, p) /\ ~Jumped(m, p)))
  <2>1. n = IF Jumped(m, p) THEN SnapVideo(there, p) ELSE there
    BY <1>7 DEF Corrected, there, a
  <2> QED
    BY <1>3, <1>4, <1>5, <1>7, <2>1
<1> QED
  BY <1>6, <1>7

(* The stalls that are waited for or counted are stalls of the elements.   *)
Stalls(m) ==
    /\ "sound" \in m.buffering \union m.stalling => m.sound.starved
    /\ "picture" \in m.buffering \union m.stalling => m.picture.starved

(* The picture is started or paused, and nothing else.                     *)
LEMMA VideoDriven ==
    ASSUME NEW m \in Engines
    PROVE  LET n == DriveVideo(m) IN
           /\ n \in Engines
           /\ n.split = m.split /\ n.playing = m.playing /\ n.sound = m.sound
           /\ n.buffering = m.buffering /\ n.stalling = m.stalling
           /\ n.gestureBound = m.gestureBound /\ n.listening = m.listening
           /\ n.anchor = m.anchor /\ n.anchorAt = m.anchorAt /\ n.caughtUp = m.caughtUp
           /\ n.picture.at = m.picture.at /\ n.picture.starved = m.picture.starved
           /\ m.split => n.picture.paused = (~m.playing \/ "sound" \in m.buffering)
           /\ ~m.split => n.picture = m.picture
<1>1. m.picture \in MediaElements
  BY EngineFields
<1>2. CASE m.split
  <2>1. DriveVideo(m) = [m EXCEPT !.picture.paused = ~m.playing \/ "sound" \in m.buffering]
    BY <1>2 DEF DriveVideo
  <2>2. DriveVideo(m) \in Engines
    BY ZenonT(40), <2>1 DEF Engines, MediaElements
  <2>3. /\ DriveVideo(m).picture = [m.picture EXCEPT !.paused = ~m.playing \/ "sound" \in m.buffering]
    BY <2>1 DEF Engines
  <2>4. /\ DriveVideo(m).picture.at = m.picture.at
        /\ DriveVideo(m).picture.starved = m.picture.starved
        /\ DriveVideo(m).picture.paused = (~m.playing \/ "sound" \in m.buffering)
    BY <1>1, <2>3 DEF MediaElements
  <2> QED
    BY <1>2, <2>1, <2>2, <2>4 DEF Engines
<1>3. CASE ~m.split
  BY <1>3 DEF DriveVideo
<1> QED
  BY <1>2, <1>3

(* The sound is started, or a gesture is asked for.                        *)
LEMMA SoundPlayed ==
    ASSUME NEW m \in Engines, m.listening = m.gestureBound, NEW allowed \in BOOLEAN
    PROVE  LET n == PlaySound(m, allowed) IN
           /\ n \in Engines /\ n.listening = n.gestureBound
           /\ n.split = m.split /\ n.playing = m.playing /\ n.picture = m.picture
           /\ n.sound.starved = m.sound.starved /\ n.sound.loaded = m.sound.loaded
           /\ n.buffering = m.buffering /\ n.stalling = m.stalling
           /\ n.anchor = m.anchor /\ n.anchorAt = m.anchorAt /\ n.caughtUp = m.caughtUp
           /\ n.playing /\ n.sound.paused => n.listening
<1>1. m.sound \in MediaElements /\ m.gestureBound \in BOOLEAN
  BY EngineFields
<1>2. CASE m.playing /\ m.sound.paused /\ allowed
  <2>1. PlaySound(m, allowed) = [m EXCEPT !.sound.paused = FALSE]
    BY <1>2 DEF PlaySound
  <2>2. PlaySound(m, allowed) \in Engines
    BY <2>1 DEF Engines, MediaElements
  <2>3. PlaySound(m, allowed).sound = [m.sound EXCEPT !.paused = FALSE]
    BY <2>1 DEF Engines
  <2>4. /\ ~PlaySound(m, allowed).sound.paused
        /\ PlaySound(m, allowed).sound.starved = m.sound.starved
        /\ PlaySound(m, allowed).sound.loaded = m.sound.loaded
    BY <1>1, <2>3 DEF MediaElements
  <2> QED
    BY <2>1, <2>2, <2>4 DEF Engines
<1>3. CASE m.playing /\ m.sound.paused /\ ~allowed
  <2>1. PlaySound(m, allowed) = BindGesture(m)
    BY <1>3 DEF PlaySound
  <2>2. CASE m.gestureBound
    BY <2>1, <2>2 DEF BindGesture
  <2>3. CASE ~m.gestureBound
    <3>1. PICK x : x = [m EXCEPT !.gestureBound = TRUE]
      OBVIOUS
    <3>2. x \in Engines
      BY <3>1 DEF Engines
    <3>3. PlaySound(m, allowed) = [x EXCEPT !.listening = TRUE]
      BY <2>1, <2>3, <3>1 DEF BindGesture
    <3>4. /\ x.split = m.split /\ x.playing = m.playing /\ x.picture = m.picture /\ x.sound = m.sound
          /\ x.buffering = m.buffering /\ x.stalling = m.stalling /\ x.gestureBound
          /\ x.anchor = m.anchor /\ x.anchorAt = m.anchorAt /\ x.caughtUp = m.caughtUp
      BY <3>1 DEF Engines
    <3> QED
      BY ZenonT(40), <3>2, <3>3, <3>4 DEF Engines
  <2> QED
    BY <2>2, <2>3
<1>4. CASE ~(m.playing /\ m.sound.paused)
  BY <1>4 DEF PlaySound
<1> QED
  BY <1>2, <1>3, <1>4

(* The engine and its elements agree.                                      *)
Good(m, k) ==
    /\ m \in Engines /\ m.listening = m.gestureBound /\ Stalls(m)
    /\ k => "sound" \in m.buffering
    /\ m.split => k \/ m.picture.paused = (~m.playing \/ "sound" \in m.buffering)
    /\ m.playing /\ m.sound.paused => m.listening

(* The room clock is an integer ...                                        *)
LEMMA PositionIsInt ==
    ASSUME clock \in Nat, NEW s \in Snapshots PROVE PositionIn(s) \in Int
  BY DEF PositionIn, Snapshots

Told(m, s) == [m EXCEPT !.playing = s.playing]

(* After a sync they agree, and the anchor is where the snapshot says, or  *)
(* was not far from there, or the sound was being sought.                  *)
SyncTold(m, s, n) ==
    LET p == PositionIn(s) IN
    /\ Good(n, FALSE) /\ n.playing = s.playing /\ n.split = m.split
    /\ \/ n.anchor = p /\ n.anchorAt = clock /\ ~m.sound.seeking
       \/ /\ n.anchor = m.anchor /\ n.anchorAt = m.anchorAt
          /\ m.sound.seeking \/ ~Jumped(Told(m, s), p)
    /\ ~Jumped(Told(m, s), p) => n.picture.at = m.picture.at

LEMMA SyncedGood ==
    ASSUME NEW m \in Engines, m.listening = m.gestureBound, Stalls(m),
           clock \in Nat, NEW s \in Snapshots, NEW allowed \in BOOLEAN
    PROVE  SyncTold(m, s, Synced(m, s, allowed))
<1> DEFINE p == PositionIn(s)
           x == Told(m, s)
<1>1. p \in Int
  BY PositionIsInt
<1> HIDE DEF p
<1>2. /\ x \in Engines /\ x.playing = s.playing /\ x.split = m.split
      /\ x.sound = m.sound /\ x.picture = m.picture /\ x.anchor = m.anchor /\ x.anchorAt = m.anchorAt
      /\ x.buffering = m.buffering /\ x.stalling = m.stalling
      /\ x.listening = m.listening /\ x.gestureBound = m.gestureBound
  BY DEF Told, Engines, Snapshots
<1> HIDE DEF x
<1>3. PICK y : y = DriveVideo(x)
  OBVIOUS
<1>4. /\ y \in Engines /\ y.playing = s.playing /\ y.split = m.split
      /\ y.sound = m.sound /\ y.anchor = m.anchor /\ y.anchorAt = m.anchorAt
      /\ y.buffering = m.buffering /\ y.stalling = m.stalling /\ y.listening = y.gestureBound
      /\ y.picture.at = m.picture.at /\ y.picture.starved = m.picture.starved
      /\ y.split => y.picture.paused = (~y.playing \/ "sound" \in y.buffering)
  BY <1>2, <1>3, VideoDriven
<1>5. Jumped(y, p) <=> Jumped(x, p)
  BY <1>2, <1>4 DEF Jumped, Expected
<1>6. PICK z : z = Corrected(y, p)
  OBVIOUS
<1>7. /\ z \in Engines /\ SameTransport(y, z)
      /\ \/ z.anchor = p /\ z.anchorAt = clock /\ ~m.sound.seeking
         \/ z.anchor = m.anchor /\ z.anchorAt = m.anchorAt /\ (m.sound.seeking \/ ~Jumped(x, p))
      /\ ~Jumped(x, p) => z.picture.at = m.picture.at
  BY <1>1, <1>4, <1>5, <1>6, CorrectedPlaces
<1>8. /\ z.playing = s.playing /\ z.split = m.split /\ z.listening = z.gestureBound /\ Stalls(z)
      /\ z.split => z.picture.paused = (~z.playing \/ "sound" \in z.buffering)
  BY <1>4, <1>7 DEF SameTransport, Stalls
<1>9. CASE s.playing
  <2>1. Synced(m, s, allowed) = PlaySound(z, allowed)
    BY <1>3, <1>6, <1>9 DEF Synced, Told, x, p
  <2> QED
    BY <1>7, <1>8, <2>1, SoundPlayed DEF SyncTold, Good, Stalls, x, p
<1>10. CASE ~s.playing
  <2>1. Synced(m, s, allowed) = [z EXCEPT !.sound.paused = TRUE]
    BY <1>3, <1>6, <1>10 DEF Synced, Told, x, p
  <2>2. Synced(m, s, allowed) \in Engines
    BY ZenonT(40), <1>7, <2>1 DEF Engines, MediaElements
  <2>3. Synced(m, s, allowed).sound = [z.sound EXCEPT !.paused = TRUE] /\ z.sound \in MediaElements
    BY <1>7, <2>1 DEF Engines
  <2>4. Synced(m, s, allowed).sound.starved = z.sound.starved
    BY <2>3 DEF MediaElements
  <2>5. PICK n : n = Synced(m, s, allowed)
    OBVIOUS
  <2>6. /\ n.split = z.split /\ n.playing = z.playing /\ n.picture = z.picture
        /\ n.buffering = z.buffering /\ n.stalling = z.stalling
        /\ n.listening = z.listening /\ n.gestureBound = z.gestureBound
        /\ n.anchor = z.anchor /\ n.anchorAt = z.anchorAt
    BY <1>7, <2>1, <2>5 DEF Engines
  <2>7. n \in Engines /\ n.sound.starved = z.sound.starved
    BY <2>2, <2>4, <2>5
  <2>8. Good(n, FALSE)
    BY <1>8, <1>10, <2>6, <2>7 DEF Good, Stalls
  <2> QED
    BY <1>7, <1>8, <2>5, <2>6, <2>8 DEF SyncTold, x, p
<1> QED
  BY <1>9, <1>10 DEF Snapshots

(* New elements have no stalls.                                            *)
LEMMA AttachedFresh ==
    ASSUME NEW m \in Engines, m.listening = m.gestureBound, NEW split \in BOOLEAN
    PROVE  LET n == Attached(m, split) IN
           /\ n \in Engines /\ n.listening = n.gestureBound /\ Stalls(n)
           /\ n.split = split /\ n.anchor = Unset /\ ~n.sound.seeking
<1>1. Built \in MediaElements /\ ~Built.seeking
  BY DEF Built, MediaElements
<1>2. PICK a : a = [m EXCEPT !.stalling = {}]
  OBVIOUS
<1>3. PICK b : b = [a EXCEPT !.anchor = Unset]
  OBVIOUS
<1>4. PICK c : c = [b EXCEPT !.anchorAt = 0]
  OBVIOUS
<1>5. PICK d : d = [c EXCEPT !.snapAfter = 0]
  OBVIOUS
<1>6. PICK e : e = [d EXCEPT !.split = split]
  OBVIOUS
<1>7. PICK f : f = [e EXCEPT !.buffering = {}]
  OBVIOUS
<1>8. PICK g : g = [f EXCEPT !.sound = Built]
  OBVIOUS
<1>9. Attached(m, split) = [g EXCEPT !.picture = Built]
  BY <1>2, <1>3, <1>4, <1>5, <1>6, <1>7, <1>8, Zenon DEF Attached, Unbound
<1>10. a \in Engines /\ a.stalling = {} /\ a.listening = a.gestureBound
  BY <1>2 DEF Engines
<1>11. b \in Engines /\ b.stalling = {} /\ b.listening = b.gestureBound /\ b.anchor = Unset
  BY <1>3, <1>10 DEF Engines, Unset
<1>12. c \in Engines /\ c.stalling = {} /\ c.listening = c.gestureBound /\ c.anchor = Unset
  BY <1>4, <1>11 DEF Engines
<1>13. d \in Engines /\ d.stalling = {} /\ d.listening = d.gestureBound /\ d.anchor = Unset
  BY <1>5, <1>12 DEF Engines
<1>14. e \in Engines /\ e.stalling = {} /\ e.listening = e.gestureBound /\ e.anchor = Unset /\ e.split = split
  BY <1>6, <1>13 DEF Engines
<1>15. /\ f \in Engines /\ f.stalling = {} /\ f.listening = f.gestureBound /\ f.anchor = Unset
       /\ f.split = split /\ f.buffering = {}
  BY <1>7, <1>14 DEF Engines
<1>16. /\ g \in Engines /\ g.stalling = {} /\ g.listening = g.gestureBound /\ g.anchor = Unset
       /\ g.split = split /\ g.buffering = {} /\ g.sound = Built
  BY <1>1, <1>8, <1>15 DEF Engines
<1>17. PICK n : n = Attached(m, split)
  OBVIOUS
<1>18. /\ n \in Engines /\ n.stalling = {} /\ n.listening = n.gestureBound /\ n.anchor = Unset
       /\ n.split = split /\ n.buffering = {} /\ n.sound = Built
  BY <1>1, <1>9, <1>16, <1>17 DEF Engines
<1> QED
  BY <1>1, <1>17, <1>18 DEF Stalls

(* A catch-up changes nothing, or puts everything on the room clock.       *)
LEMMA CaughtUp ==
    ASSUME NEW m \in Engines, NEW p \in Int, clock \in Nat
    PROVE  LET n == CatchUp(m, p) IN
           /\ n \in Engines /\ SameTransport(m, n)
           /\ \/ n = m
              \/ n.anchor = p /\ n.anchorAt = clock /\ n.caughtUp # m.caughtUp
<1> DEFINE n == CatchUp(m, p)
           a == SetAnchor(m, p)
<1>1. CASE ~m.playing \/ clock - m.caughtUp < Long \/ Level(m.sound.at, p)
  <2>1. n = m
    BY <1>1 DEF CatchUp
  <2> QED
    BY <2>1 DEF SameTransport
<1>2. CASE ~(~m.playing \/ clock - m.caughtUp < Long \/ Level(m.sound.at, p))
  <2>1. a \in Engines /\ SameTransport(m, a) /\ a.anchor = p /\ a.anchorAt = clock
    BY AnchorSet
  <2> HIDE DEF a
  <2>2. PICK b : b = [a EXCEPT !.caughtUp = clock]
    OBVIOUS
  <2>3. /\ b \in Engines /\ SameTransport(a, b)
        /\ b.anchor = p /\ b.anchorAt = clock /\ b.caughtUp = clock
    BY <2>1, <2>2 DEF Engines, SameTransport
  <2>4. PICK c : c = SoundAt(b, p)
    OBVIOUS
  <2>5. /\ c \in Engines /\ SameTransport(b, c)
        /\ c.anchor = p /\ c.anchorAt = clock /\ c.caughtUp = clock
    BY <2>3, <2>4, SoundMoved
  <2>6. n = SnapVideo(c, p)
    BY <1>2, <2>2, <2>4 DEF CatchUp, a
  <2>7. /\ n \in Engines /\ SameTransport(c, n)
        /\ n.anchor = p /\ n.anchorAt = clock /\ n.caughtUp = clock
    BY <2>5, <2>6, VideoSnapped
  <2>8. SameTransport(m, n)
    BY <2>1, <2>3, <2>5, <2>7, TransportAdds
  <2>9. clock # m.caughtUp
    BY <1>2, EngineFields DEF Long
  <2> QED
    BY <2>7, <2>8, <2>9
<1> QED
  BY <1>1, <1>2

(* A stall that counts, or that is over, takes the engine from m to n.     *)
StallTold(m, e, stalls, n) ==
    /\ n \in Engines /\ n.playing = m.playing /\ n.split = m.split
    /\ n.listening = m.listening /\ n.gestureBound = m.gestureBound
    /\ n.sound.paused = m.sound.paused /\ n.sound.starved = m.sound.starved
    /\ n.picture.starved = m.picture.starved
    /\ n.stalling = m.stalling \ {e}
    /\ n.buffering = IF stalls THEN m.buffering \union {e} ELSE m.buffering \ {e}
    /\ IF e = "sound" /\ n.buffering # m.buffering
       THEN n.split => n.picture.paused = (~n.playing \/ "sound" \in n.buffering)
       ELSE n.picture = m.picture
    /\ stalls => /\ n.picture.at = m.picture.at
                 /\ n.anchor = m.anchor /\ n.anchorAt = m.anchorAt
    /\ \/ n.anchor = m.anchor /\ n.anchorAt = m.anchorAt /\ n.caughtUp = m.caughtUp
       \/ n.anchor = PositionIn(show) /\ n.anchorAt = clock /\ n.caughtUp # m.caughtUp

LEMMA StallCommitted ==
    ASSUME NEW m \in Engines, NEW e \in Elements, NEW stalls \in BOOLEAN,
           clock \in Nat, show \in Snapshots
    PROVE  StallTold(m, e, stalls, Committed(m, e, stalls))
<1> DEFINE n == Committed(m, e, stalls)
           p == PositionIn(show)
<1>1. PICK a : a = [m EXCEPT !.stalling = @ \ {e}]
  OBVIOUS
<1>2. /\ a \in Engines
      /\ a.playing = m.playing /\ a.split = m.split
      /\ a.listening = m.listening /\ a.gestureBound = m.gestureBound
      /\ a.sound = m.sound /\ a.picture = m.picture
      /\ a.stalling = m.stalling \ {e} /\ a.buffering = m.buffering
      /\ a.anchor = m.anchor /\ a.anchorAt = m.anchorAt /\ a.caughtUp = m.caughtUp
  BY <1>1 DEF Engines
<1>3. PICK set : set = IF stalls THEN m.buffering \union {e} ELSE m.buffering \ {e}
  OBVIOUS
<1>4. set \in SUBSET Elements
  BY <1>3, EngineFields
<1>5. PICK told : told = [a EXCEPT !.buffering = set]
  OBVIOUS
<1>6. /\ told \in Engines /\ told.playing = m.playing /\ told.split = m.split
      /\ told.listening = m.listening /\ told.gestureBound = m.gestureBound
      /\ told.sound = m.sound /\ told.picture = m.picture
      /\ told.stalling = m.stalling \ {e} /\ told.buffering = set
      /\ told.anchor = m.anchor /\ told.anchorAt = m.anchorAt /\ told.caughtUp = m.caughtUp
  BY <1>2, <1>4, <1>5 DEF Engines
<1>7. n = IF e = "picture" \/ told.buffering = m.buffering THEN told
          ELSE IF stalls THEN DriveVideo(told) ELSE CatchUp(DriveVideo(told), p)
  <2>1. told = [m EXCEPT !.stalling = @ \ {e},
                         !.buffering = IF stalls THEN @ \union {e} ELSE @ \ {e}]
    BY <1>1, <1>2, <1>3, <1>5, Zenon
  <2> QED
    BY <2>1, Zenon DEF Committed
<1>8. CASE e = "picture" \/ told.buffering = m.buffering
  <2>1. n = told
    BY <1>7, <1>8
  <2> HIDE DEF n
  <2> QED
    BY <1>3, <1>6, <1>8, <2>1 DEF StallTold, n
<1>9. CASE e = "sound" /\ told.buffering # m.buffering
  <2>1. PICK d : d = DriveVideo(told)
    OBVIOUS
  <2>2. /\ d \in Engines /\ d.playing = m.playing /\ d.split = m.split
        /\ d.listening = m.listening /\ d.gestureBound = m.gestureBound
        /\ d.sound = m.sound /\ d.picture.at = m.picture.at
        /\ d.picture.starved = m.picture.starved
        /\ d.stalling = m.stalling \ {e} /\ d.buffering = set
        /\ d.anchor = m.anchor /\ d.anchorAt = m.anchorAt /\ d.caughtUp = m.caughtUp
        /\ d.split => d.picture.paused = (~d.playing \/ "sound" \in d.buffering)
    BY <1>6, <2>1, VideoDriven
  <2>3. n = IF stalls THEN d ELSE CatchUp(d, p)
    BY <1>7, <1>9, <2>1
  <2>4. CASE stalls
    BY <1>3, <1>6, <1>9, <2>2, <2>3, <2>4 DEF StallTold
  <2>5. CASE ~stalls
    <3>1. p \in Int
      BY PositionIsInt
    <3> HIDE DEF p
    <3>2. PICK c : c = CatchUp(d, p)
      OBVIOUS
    <3>3. /\ c \in Engines /\ SameTransport(d, c)
          /\ \/ c = d
             \/ c.anchor = p /\ c.anchorAt = clock /\ c.caughtUp # d.caughtUp
      BY <2>2, <3>1, <3>2, CaughtUp
    <3>4. n = c
      BY <2>3, <2>5, <3>2
    <3> HIDE DEF n
    <3> QED
      BY <1>3, <1>6, <1>9, <2>2, <2>5, <3>3, <3>4 DEF SameTransport, StallTold, n, p
  <2> QED
    BY <2>4, <2>5
<1> QED
  BY <1>8, <1>9 DEF Elements

-----------------------------------------------------------------------------
(* The steps, one at a time.                                               *)

PlayerInv == PlayerTypeOK /\ FollowsShow /\ Good(player, kicked) /\ Anchored

(* What NoChase says of one step.                                          *)
NoChaseStep ==
    (show' = show /\ clock' = clock /\ player'.picture.at # player.picture.at) =>
        \/ player'.picture.at = player.sound.at
        \/ seen # show
        \/ ~player.sound.loaded /\ player'.sound.loaded
        \/ "sound" \in player.buffering \ player'.buffering

(* The anchor of m is the one that was, or was set to the room clock.      *)
Moored(m) ==
    \/ m.anchor = player.anchor /\ m.anchorAt = player.anchorAt /\ seen' = seen
    \/ m.anchor = PositionIn(show) /\ m.anchorAt = clock /\ seen' = show

(* ... and not negative for a snapshot of the past.                        *)
LEMMA PositionIsNat ==
    ASSUME clock \in Nat, NEW s \in Snapshots, s.since <= clock PROVE PositionIn(s) \in Nat
  BY DEF PositionIn, Snapshots

(* An action that leaves clock and snapshot keeps the invariant if its     *)
(* engine agrees with its elements and its anchor holds.                   *)
LEMMA ActsKeep ==
    ASSUME PlayerInv, NEW m, Acts(m), m.playing = player.playing, m.split = player.split,
           kicked' \in BOOLEAN, Good(m, kicked'), Moored(m)
    PROVE  PlayerInv'
<1>1. player' = m /\ clock' = clock /\ show' = show /\ jumps' = jumps
  BY DEF Acts
<1>2. PlayerTypeOK'
  BY <1>1 DEF PlayerInv, PlayerTypeOK, Good, Moored
<1>3. FollowsShow'
  BY <1>1 DEF PlayerInv, FollowsShow, Good
<1>4. Good(player, kicked)'
  BY <1>1 DEF Good, Stalls
<1>5. Anchored'
  <2>1. CASE m.anchor = player.anchor /\ m.anchorAt = player.anchorAt /\ seen' = seen
    BY <1>1, <2>1 DEF PlayerInv, Anchored, PositionIn
  <2>2. CASE m.anchor = PositionIn(show) /\ m.anchorAt = clock /\ seen' = show
    <3>1. clock \in Nat /\ PositionIn(show) \in Nat
      BY PositionIsNat DEF PlayerInv, PlayerTypeOK
    <3>2. PositionIn(seen)' = PositionIn(show)
      BY <1>1, <2>2 DEF PositionIn
    <3> HIDE DEF PositionIn
    <3> QED
      BY <1>1, <2>2, <3>1, <3>2 DEF Anchored, Near, Unset
  <2> QED
    BY <2>1, <2>2 DEF Moored
<1> QED
  BY <1>2, <1>3, <1>4, <1>5 DEF PlayerInv

(* A seek ends.                                                            *)
LEMMA SeekedKeeps ==
    ASSUME PlayerInv, NEW e \in Elements, Seeked(e)
    PROVE  PlayerInv' /\ NoChaseStep
<1>1. player \in Engines /\ player.sound \in MediaElements /\ player.picture \in MediaElements
  BY EngineFields DEF PlayerInv, PlayerTypeOK
<1>2. PICK m : m = player'
  OBVIOUS
<1>3. Acts(m) /\ UNCHANGED <<seen, kicked>>
  BY <1>2 DEF Seeked, Acts
<1>4. CASE e = "sound"
  <2>1. m = [player EXCEPT !.sound.seeking = FALSE]
    BY <1>2, <1>4 DEF Seeked, Acts
  <2>2. m \in Engines
    BY <1>1, <2>1 DEF Engines, MediaElements
  <2>3. m.sound = [player.sound EXCEPT !.seeking = FALSE]
    BY <1>1, <2>1 DEF Engines
  <2>4. m.sound.paused = player.sound.paused /\ m.sound.starved = player.sound.starved
    BY <1>1, <2>3 DEF MediaElements
  <2>5. Good(m, kicked') /\ Moored(m) /\ m.playing = player.playing /\ m.split = player.split
    BY <1>1, <1>3, <2>1, <2>2, <2>4 DEF Engines, PlayerInv, Good, Stalls, Moored
  <2>6. m.picture = player.picture
    BY <1>1, <2>1 DEF Engines
  <2> QED
    BY <1>2, <1>3, <2>5, <2>6, ActsKeep DEF NoChaseStep, PlayerInv, PlayerTypeOK
<1>5. CASE e = "picture"
  <2>1. m = [player EXCEPT !.picture.seeking = FALSE]
    BY <1>2, <1>5 DEF Seeked, Acts
  <2>2. m \in Engines
    BY <1>1, <2>1 DEF Engines, MediaElements
  <2>3. m.picture = [player.picture EXCEPT !.seeking = FALSE]
    BY <1>1, <2>1 DEF Engines
  <2>4. /\ m.picture.paused = player.picture.paused /\ m.picture.starved = player.picture.starved
        /\ m.picture.at = player.picture.at
    BY <1>1, <2>3 DEF MediaElements
  <2>5. Good(m, kicked') /\ Moored(m) /\ m.playing = player.playing /\ m.split = player.split
    BY <1>1, <1>3, <2>1, <2>2, <2>4 DEF Engines, PlayerInv, Good, Stalls, Moored
  <2> QED
    BY <1>2, <1>3, <2>4, <2>5, ActsKeep DEF NoChaseStep, PlayerInv, PlayerTypeOK
<1> QED
  BY <1>4, <1>5 DEF Elements

(* The picture has loaded.                                                 *)
LEMMA PictureLoadsKeeps ==
    ASSUME PlayerInv, PictureLoads
    PROVE  PlayerInv' /\ NoChaseStep
<1>1. player \in Engines /\ player.picture \in MediaElements
  BY EngineFields DEF PlayerInv, PlayerTypeOK
<1>2. PICK m : m = [player EXCEPT !.picture.loaded = TRUE]
  OBVIOUS
<1>3. Acts(m) /\ UNCHANGED <<seen, kicked>>
  BY <1>2 DEF PictureLoads
<1>4. m \in Engines
  BY <1>1, <1>2 DEF Engines, MediaElements
<1>5. m.picture = [player.picture EXCEPT !.loaded = TRUE]
  BY <1>1, <1>2 DEF Engines
<1>6. /\ m.picture.paused = player.picture.paused /\ m.picture.starved = player.picture.starved
      /\ m.picture.at = player.picture.at
  BY <1>1, <1>5 DEF MediaElements
<1>7. Good(m, kicked') /\ Moored(m) /\ m.playing = player.playing /\ m.split = player.split
  BY <1>1, <1>2, <1>3, <1>4, <1>6 DEF Engines, PlayerInv, Good, Stalls, Moored
<1> QED
  BY <1>3, <1>6, <1>7, ActsKeep DEF NoChaseStep, PlayerInv, PlayerTypeOK, Acts

(* The picture is levelled with the sound.                                 *)
LEMMA AvLoopKeeps ==
    ASSUME PlayerInv, AvLoop
    PROVE  PlayerInv' /\ NoChaseStep
<1>1. player \in Engines /\ player.sound.at \in Int /\ clock \in Nat
  BY EngineFields DEF PlayerInv, PlayerTypeOK, MediaElements
<1>2. PICK m : m = PictureAt(player, player.sound.at)
  OBVIOUS
<1>3. Acts(m) /\ UNCHANGED <<seen, kicked>>
  BY <1>2 DEF AvLoop
<1>4. /\ m \in Engines /\ SameTransport(player, m) /\ m.anchor = player.anchor
      /\ m.anchorAt = player.anchorAt /\ m.picture.at = player.sound.at
  BY <1>1, <1>2, PictureMoved
<1>5. Good(m, kicked') /\ Moored(m) /\ m.playing = player.playing /\ m.split = player.split
  BY <1>3, <1>4 DEF SameTransport, PlayerInv, Good, Stalls, Moored
<1> QED
  BY <1>3, <1>4, <1>5, ActsKeep DEF NoChaseStep, PlayerInv, PlayerTypeOK, Acts

(* The sound is put back on the room clock.                                *)
LEMMA MasterLoopKeeps ==
    ASSUME PlayerInv, MasterLoop
    PROVE  PlayerInv' /\ NoChaseStep
<1> DEFINE p == PositionIn(show)
<1>1. player \in Engines /\ clock \in Nat /\ show \in Snapshots
  BY DEF PlayerInv, PlayerTypeOK
<1>2. p \in Int
  BY <1>1, PositionIsInt
<1>3. PICK a : a = SoundAt(player, p)
  OBVIOUS
<1>4. a \in Engines /\ SameTransport(player, a) /\ a.picture = player.picture
  BY <1>1, <1>2, <1>3, SoundMoved
<1>5. PICK m : m = SetAnchor(a, p)
  OBVIOUS
<1>6. /\ m \in Engines /\ SameTransport(a, m) /\ m.picture = a.picture
      /\ m.anchor = p /\ m.anchorAt = clock
  BY <1>1, <1>2, <1>4, <1>5, AnchorSet
<1>7. SameTransport(player, m)
  BY <1>4, <1>6, TransportAdds
<1>8. Acts(m) /\ seen' = show /\ UNCHANGED kicked
  BY <1>3, <1>5 DEF MasterLoop
<1> HIDE DEF p
<1>9. Good(m, kicked') /\ m.playing = player.playing /\ m.split = player.split
  BY <1>6, <1>7, <1>8 DEF SameTransport, PlayerInv, Good, Stalls
<1>10. Moored(m)
  BY <1>6, <1>8 DEF Moored, p
<1> QED
  BY <1>4, <1>6, <1>8, <1>9, <1>10, ActsKeep DEF NoChaseStep, PlayerInv, PlayerTypeOK, Acts

(* The sound has loaded and is put where the room is.                      *)
LEMMA SoundLoadsKeeps ==
    ASSUME PlayerInv, NEW allowed \in BOOLEAN, SoundLoads(allowed)
    PROVE  PlayerInv' /\ NoChaseStep
<1> DEFINE p == PositionIn(show)
<1>1. player \in Engines /\ player.sound \in MediaElements /\ clock \in Nat /\ show \in Snapshots
  BY EngineFields DEF PlayerInv, PlayerTypeOK
<1>2. p \in Int
  BY <1>1, PositionIsInt
<1>3. PICK a : a = [player EXCEPT !.sound.loaded = TRUE]
  OBVIOUS
<1>4. a \in Engines
  BY <1>1, <1>3 DEF Engines, MediaElements
<1>5. a.sound = [player.sound EXCEPT !.loaded = TRUE]
  BY <1>1, <1>3 DEF Engines
<1>6. a.sound.paused = player.sound.paused /\ a.sound.starved = player.sound.starved /\ a.sound.loaded
  BY <1>1, <1>5 DEF MediaElements
<1>7. Good(a, kicked) /\ a.playing = player.playing /\ a.split = player.split
  BY <1>1, <1>3, <1>4, <1>6 DEF Engines, PlayerInv, Good, Stalls
<1>8. PICK b : b = IF Level(a.sound.at, p) THEN a ELSE SoundAt(a, p)
  OBVIOUS
<1>9. b \in Engines /\ SameTransport(a, b)
  <2>1. CASE Level(a.sound.at, p)
    BY <1>4, <1>8, <2>1 DEF SameTransport
  <2>2. CASE ~Level(a.sound.at, p)
    BY <1>2, <1>4, <1>8, <2>2, SoundMoved
  <2> QED
    BY <2>1, <2>2
<1>10. PICK c : c = SetAnchor(b, p)
  OBVIOUS
<1>11. c \in Engines /\ SameTransport(b, c) /\ c.anchor = p /\ c.anchorAt = clock
  BY <1>1, <1>2, <1>9, <1>10, AnchorSet
<1>12. PICK d : d = SnapVideo(c, p)
  OBVIOUS
<1>13. d \in Engines /\ SameTransport(c, d) /\ d.anchor = p /\ d.anchorAt = clock
  BY <1>1, <1>2, <1>11, <1>12, VideoSnapped
<1>14. SameTransport(a, d)
  BY <1>9, <1>11, <1>13, TransportAdds
<1>15. PICK m : m = PlaySound(d, allowed)
  OBVIOUS
<1>16. ~player.sound.loaded /\ Acts(m) /\ seen' = show /\ UNCHANGED kicked
  BY <1>3, <1>8, <1>10, <1>12, <1>15 DEF SoundLoads
<1> HIDE DEF p
<1>17. d.listening = d.gestureBound
  BY <1>7, <1>14 DEF Good, SameTransport
<1>18. /\ m \in Engines /\ m.listening = m.gestureBound
       /\ m.split = d.split /\ m.playing = d.playing /\ m.picture = d.picture
       /\ m.sound.starved = d.sound.starved /\ m.sound.loaded = d.sound.loaded
       /\ m.buffering = d.buffering /\ m.stalling = d.stalling
       /\ m.anchor = d.anchor /\ m.anchorAt = d.anchorAt
       /\ m.playing /\ m.sound.paused => m.listening
  BY <1>13, <1>15, <1>17, SoundPlayed
<1>19. Good(m, kicked') /\ m.playing = player.playing /\ m.split = player.split
  BY <1>7, <1>14, <1>16, <1>18 DEF SameTransport, Good, Stalls
<1>20. Moored(m) /\ m.sound.loaded
  BY <1>6, <1>13, <1>14, <1>16, <1>18 DEF Moored, SameTransport, p
<1> QED
  BY <1>16, <1>19, <1>20, ActsKeep DEF NoChaseStep, PlayerInv, PlayerTypeOK, Acts

(* An element runs out of data.                                            *)
LEMMA StarvesKeeps ==
    ASSUME PlayerInv, NEW e \in Elements, Starves(e)
    PROVE  PlayerInv' /\ NoChaseStep
<1>1. /\ player \in Engines /\ player.sound \in MediaElements /\ player.picture \in MediaElements
      /\ player.stalling \in SUBSET Elements
  BY EngineFields DEF PlayerInv, PlayerTypeOK
<1>2. PICK m : m = player'
  OBVIOUS
<1>3. Acts(m) /\ UNCHANGED <<seen, kicked>>
  BY <1>2 DEF Starves, Acts
<1>4. PICK set : set = IF e \in player.buffering THEN player.stalling ELSE player.stalling \union {e}
  OBVIOUS
<1>5. set \in SUBSET Elements
  BY <1>1, <1>4
<1>6. PICK a : a = [player EXCEPT !.stalling = set]
  OBVIOUS
<1>7. /\ a \in Engines /\ a.stalling = set /\ a.buffering = player.buffering
      /\ a.sound = player.sound /\ a.picture = player.picture
      /\ a.playing = player.playing /\ a.split = player.split
      /\ a.listening = player.listening /\ a.gestureBound = player.gestureBound
      /\ a.anchor = player.anchor /\ a.anchorAt = player.anchorAt
  BY <1>1, <1>5, <1>6 DEF Engines
<1>8. CASE e = "sound"
  <2>1. m = [a EXCEPT !.sound.starved = TRUE]
    BY <1>2, <1>4, <1>6, <1>7, <1>8, Zenon DEF Starves, Acts
  <2>2. m \in Engines
    BY <1>7, <2>1 DEF Engines, MediaElements
  <2>3. m.sound = [player.sound EXCEPT !.starved = TRUE] /\ m.picture = player.picture
    BY <1>7, <2>1 DEF Engines
  <2>4. m.sound.paused = player.sound.paused /\ m.sound.starved
    BY <1>1, <2>3 DEF MediaElements
  <2>5. /\ m.stalling = set /\ m.buffering = player.buffering
        /\ m.playing = player.playing /\ m.split = player.split
        /\ m.listening = player.listening /\ m.gestureBound = player.gestureBound
        /\ m.anchor = player.anchor /\ m.anchorAt = player.anchorAt
    BY <1>7, <2>1 DEF Engines
  <2>6. Good(m, kicked') /\ Moored(m)
    BY <1>3, <1>4, <1>8, <2>2, <2>3, <2>4, <2>5 DEF PlayerInv, Good, Stalls, Moored
  <2> QED
    BY <1>2, <1>3, <2>3, <2>5, <2>6, ActsKeep DEF NoChaseStep, PlayerInv, PlayerTypeOK
<1>9. CASE e = "picture"
  <2>1. m = [a EXCEPT !.picture.starved = TRUE]
    BY <1>2, <1>4, <1>6, <1>7, <1>9, Zenon DEF Starves, Acts
  <2>2. m \in Engines
    BY <1>7, <2>1 DEF Engines, MediaElements
  <2>3. m.picture = [player.picture EXCEPT !.starved = TRUE] /\ m.sound = player.sound
    BY <1>7, <2>1 DEF Engines
  <2>4. /\ m.picture.paused = player.picture.paused /\ m.picture.starved
        /\ m.picture.at = player.picture.at
    BY <1>1, <2>3 DEF MediaElements
  <2>5. /\ m.stalling = set /\ m.buffering = player.buffering
        /\ m.playing = player.playing /\ m.split = player.split
        /\ m.listening = player.listening /\ m.gestureBound = player.gestureBound
        /\ m.anchor = player.anchor /\ m.anchorAt = player.anchorAt
    BY <1>7, <2>1 DEF Engines
  <2>6. Good(m, kicked') /\ Moored(m)
    BY <1>3, <1>4, <1>9, <2>2, <2>3, <2>4, <2>5 DEF PlayerInv, Good, Stalls, Moored
  <2> QED
    BY <1>2, <1>3, <2>4, <2>5, <2>6, ActsKeep DEF NoChaseStep, PlayerInv, PlayerTypeOK
<1> QED
  BY <1>8, <1>9 DEF Elements

(* An element has data again.                                              *)
LEMMA FlowsKeeps ==
    ASSUME PlayerInv, NEW e \in Elements, Flows(e)
    PROVE  PlayerInv' /\ NoChaseStep
<1>1. /\ player \in Engines /\ player.sound \in MediaElements /\ player.picture \in MediaElements
      /\ clock \in Nat /\ show \in Snapshots /\ seen \in Snapshots /\ kicked \in BOOLEAN
  BY EngineFields DEF PlayerInv, PlayerTypeOK
<1>2. PICK x : x = [player EXCEPT ![e].starved = FALSE]
  OBVIOUS
<1>3. /\ x \in Engines /\ x.playing = player.playing /\ x.split = player.split
      /\ x.listening = player.listening /\ x.gestureBound = player.gestureBound
      /\ x.stalling = player.stalling /\ x.buffering = player.buffering
      /\ x.anchor = player.anchor /\ x.anchorAt = player.anchorAt /\ x.caughtUp = player.caughtUp
      /\ x.sound.paused = player.sound.paused
      /\ x.picture.paused = player.picture.paused /\ x.picture.at = player.picture.at
      /\ e = "sound" => x.picture = player.picture
      /\ e = "picture" => x.sound = player.sound
  <2>1. CASE e = "sound"
    <3>1. x = [player EXCEPT !.sound.starved = FALSE]
      BY <1>2, <2>1
    <3>2. x \in Engines
      BY <1>1, <3>1 DEF Engines, MediaElements
    <3>3. x.sound = [player.sound EXCEPT !.starved = FALSE] /\ x.picture = player.picture
      BY <1>1, <3>1 DEF Engines
    <3>4. x.sound.paused = player.sound.paused
      BY <1>1, <3>3 DEF MediaElements
    <3> QED
      BY <1>1, <2>1, <3>1, <3>2, <3>3, <3>4 DEF Engines
  <2>2. CASE e = "picture"
    <3>1. x = [player EXCEPT !.picture.starved = FALSE]
      BY <1>2, <2>2
    <3>2. x \in Engines
      BY <1>1, <3>1 DEF Engines, MediaElements
    <3>3. x.picture = [player.picture EXCEPT !.starved = FALSE] /\ x.sound = player.sound
      BY <1>1, <3>1 DEF Engines
    <3>4. x.picture.paused = player.picture.paused /\ x.picture.at = player.picture.at
      BY <1>1, <3>3 DEF MediaElements
    <3> QED
      BY <1>1, <2>2, <3>1, <3>2, <3>3, <3>4 DEF Engines
  <2> QED
    BY <2>1, <2>2 DEF Elements
<1>4. PICK m : m = Committed(x, e, FALSE)
  OBVIOUS
<1> PICK stalls \in BOOLEAN : stalls = FALSE
  OBVIOUS
<1>0. m = Committed(x, e, stalls)
  BY <1>4, Zenon
<1>5. /\ Acts(m) /\ kicked' = (kicked /\ e # "sound")
      /\ seen' = IF m.caughtUp # player.caughtUp THEN show ELSE seen
  BY <1>2, <1>4 DEF Flows, Acts
<1>6. /\ m \in Engines /\ m.playing = x.playing /\ m.split = x.split
      /\ m.listening = x.listening /\ m.gestureBound = x.gestureBound
      /\ m.sound.paused = x.sound.paused /\ m.sound.starved = x.sound.starved
      /\ m.picture.starved = x.picture.starved
      /\ m.stalling = x.stalling \ {e} /\ m.buffering = x.buffering \ {e}
      /\ IF e = "sound" /\ m.buffering # x.buffering
         THEN m.split => m.picture.paused = (~m.playing \/ "sound" \in m.buffering)
         ELSE m.picture = x.picture
      /\ \/ m.anchor = x.anchor /\ m.anchorAt = x.anchorAt /\ m.caughtUp = x.caughtUp
         \/ m.anchor = PositionIn(show) /\ m.anchorAt = clock /\ m.caughtUp # x.caughtUp
  <2>1. StallTold(x, e, stalls, m)
    BY <1>1, <1>3, <1>0, StallCommitted, Zenon
  <2> QED
    BY <2>1 DEF StallTold
<1>7. Moored(m)
  BY <1>3, <1>5, <1>6 DEF Moored
<1>8. Stalls(m)
  BY <1>3, <1>6 DEF PlayerInv, Good, Stalls, Elements
<1>9. Good(m, kicked')
  BY <1>3, <1>5, <1>6, <1>8 DEF PlayerInv, Good, Elements
<1>10. NoChaseStep
  BY <1>3, <1>5, <1>6 DEF NoChaseStep, Acts
<1>11. kicked' \in BOOLEAN
  BY <1>1, <1>5
<1> QED
  BY <1>3, <1>5, <1>6, <1>7, <1>9, <1>10, <1>11, ActsKeep

(* A stall has lasted.                                                     *)
LEMMA StallCountsKeeps ==
    ASSUME PlayerInv, NEW e \in Elements, StallCounts(e)
    PROVE  PlayerInv' /\ NoChaseStep
<1>1. /\ player \in Engines /\ clock \in Nat /\ show \in Snapshots /\ kicked \in BOOLEAN
  BY DEF PlayerInv, PlayerTypeOK
<1>2. PICK m : m = Committed(player, e, TRUE)
  OBVIOUS
<1> PICK stalls \in BOOLEAN : stalls = TRUE
  OBVIOUS
<1>0. m = Committed(player, e, stalls)
  BY <1>2, Zenon
<1>3. e \in player.stalling /\ Acts(m) /\ UNCHANGED <<seen, kicked>>
  BY <1>2 DEF StallCounts
<1>4. /\ m \in Engines /\ m.playing = player.playing /\ m.split = player.split
      /\ m.listening = player.listening /\ m.gestureBound = player.gestureBound
      /\ m.sound.paused = player.sound.paused /\ m.sound.starved = player.sound.starved
      /\ m.picture.starved = player.picture.starved /\ m.picture.at = player.picture.at
      /\ m.stalling = player.stalling \ {e} /\ m.buffering = player.buffering \union {e}
      /\ IF e = "sound" /\ m.buffering # player.buffering
         THEN m.split => m.picture.paused = (~m.playing \/ "sound" \in m.buffering)
         ELSE m.picture = player.picture
      /\ m.anchor = player.anchor /\ m.anchorAt = player.anchorAt
  <2>1. StallTold(player, e, stalls, m)
    BY <1>1, <1>0, StallCommitted, Zenon
  <2> QED
    BY <2>1 DEF StallTold
<1>5. Moored(m)
  BY <1>3, <1>4 DEF Moored
<1>6. Stalls(m)
  BY <1>3, <1>4 DEF PlayerInv, Good, Stalls, Elements
<1>7. Good(m, kicked')
  BY <1>3, <1>4, <1>6 DEF PlayerInv, Good, Elements
<1> QED
  BY <1>1, <1>3, <1>4, <1>5, <1>7, ActsKeep DEF NoChaseStep, Acts

(* The gesture that was asked for.                                         *)
LEMMA GestureKeeps ==
    ASSUME PlayerInv, NEW allowed \in BOOLEAN, Gesture(allowed)
    PROVE  PlayerInv' /\ NoChaseStep
<1>1. player \in Engines /\ kicked \in BOOLEAN
  BY DEF PlayerInv, PlayerTypeOK
<1>2. PICK a : a = [player EXCEPT !.gestureBound = FALSE]
  OBVIOUS
<1>3. /\ a \in Engines /\ a.gestureBound = FALSE
      /\ a.playing = player.playing /\ a.split = player.split
      /\ a.stalling = player.stalling /\ a.buffering = player.buffering
      /\ a.anchor = player.anchor /\ a.anchorAt = player.anchorAt
      /\ a.sound = player.sound /\ a.picture = player.picture
  BY <1>1, <1>2 DEF Engines
<1>4. PICK b : b = [a EXCEPT !.listening = FALSE]
  OBVIOUS
<1>5. /\ b \in Engines /\ b.gestureBound = FALSE /\ b.listening = FALSE
      /\ b.playing = player.playing /\ b.split = player.split
      /\ b.stalling = player.stalling /\ b.buffering = player.buffering
      /\ b.anchor = player.anchor /\ b.anchorAt = player.anchorAt
      /\ b.sound = player.sound /\ b.picture = player.picture
  BY <1>3, <1>4 DEF Engines
<1>6. b = Resumed(player)
  BY <1>2, <1>4, Zenon DEF Resumed
<1>7. PICK c : c = PlaySound(b, allowed)
  OBVIOUS
<1>8. /\ c \in Engines /\ c.listening = c.gestureBound
      /\ c.split = player.split /\ c.playing = player.playing /\ c.picture = player.picture
      /\ c.sound.starved = player.sound.starved
      /\ c.buffering = player.buffering /\ c.stalling = player.stalling
      /\ c.anchor = player.anchor /\ c.anchorAt = player.anchorAt
      /\ c.playing /\ c.sound.paused => c.listening
  BY ZenonT(40), <1>5, <1>7, SoundPlayed
<1>9. PICK m : m = IF player.playing /\ player.split THEN [c EXCEPT !.picture.paused = FALSE] ELSE c
  OBVIOUS
<1>10. /\ Acts(m) /\ seen' = seen
       /\ kicked' = IF player.playing /\ player.split THEN kicked \/ "sound" \in player.buffering ELSE kicked
  <2>1. CASE player.playing /\ player.split
    BY <1>6, <1>7, <1>9, <2>1 DEF Gesture
  <2>2. CASE ~(player.playing /\ player.split)
    BY <1>6, <1>7, <1>9, <2>2 DEF Gesture
  <2> QED
    BY <2>1, <2>2
<1>11. /\ m \in Engines /\ m.listening = m.gestureBound
       /\ m.split = player.split /\ m.playing = player.playing
       /\ m.sound = c.sound
       /\ m.buffering = player.buffering /\ m.stalling = player.stalling
       /\ m.anchor = player.anchor /\ m.anchorAt = player.anchorAt
       /\ m.picture.at = player.picture.at /\ m.picture.starved = player.picture.starved
       /\ m.playing /\ m.sound.paused => m.listening
       /\ IF player.playing /\ player.split THEN m.picture.paused = FALSE ELSE m.picture = player.picture
  <2>1. CASE player.playing /\ player.split
    <3>1. m = [c EXCEPT !.picture.paused = FALSE]
      BY <1>9, <2>1
    <3>2. c.picture \in MediaElements
      BY <1>8, EngineFields
    <3>3. m \in Engines
      BY <1>8, <3>1 DEF Engines, MediaElements
    <3>4. m.picture = [c.picture EXCEPT !.paused = FALSE]
      BY <1>8, <3>1 DEF Engines
    <3>5. m.picture.at = c.picture.at /\ m.picture.starved = c.picture.starved /\ m.picture.paused = FALSE
      BY <3>2, <3>4 DEF MediaElements
    <3>6. /\ m.listening = c.listening /\ m.gestureBound = c.gestureBound
          /\ m.split = c.split /\ m.playing = c.playing /\ m.sound = c.sound
          /\ m.buffering = c.buffering /\ m.stalling = c.stalling
          /\ m.anchor = c.anchor /\ m.anchorAt = c.anchorAt
      BY <1>8, <3>1 DEF Engines
    <3> QED
      BY <1>8, <2>1, <3>3, <3>5, <3>6
  <2>2. CASE ~(player.playing /\ player.split)
    BY <1>8, <1>9, <2>2
  <2> QED
    BY <2>1, <2>2
<1>12. Moored(m)
  BY <1>10, <1>11 DEF Moored
<1>13. Stalls(m)
  BY <1>8, <1>11 DEF PlayerInv, Good, Stalls
<1>14. Good(m, kicked')
  BY <1>10, <1>11, <1>13 DEF PlayerInv, Good
<1>15. kicked' \in BOOLEAN
  BY <1>1, <1>10
<1> QED
  BY <1>10, <1>11, <1>12, <1>14, <1>15, ActsKeep DEF NoChaseStep, Acts

(* A second moves an element at most.                                      *)
LEMMA SecondKeepsElement ==
    ASSUME NEW x \in MediaElements
    PROVE  Second(x) \in MediaElements /\ Second(x).paused = x.paused /\ Second(x).starved = x.starved
  BY DEF Second, MediaElements

(* A second passes: room clock and anchor advance together.                *)
LEMMA SecondPassesKeeps ==
    ASSUME PlayerInv, SecondPasses
    PROVE  PlayerInv' /\ NoChaseStep
<1>1. /\ player \in Engines /\ player.sound \in MediaElements /\ player.picture \in MediaElements
      /\ clock \in Nat /\ show \in Snapshots /\ seen \in Snapshots /\ show.since <= clock
  BY EngineFields DEF PlayerInv, PlayerTypeOK
<1>2. PICK x : x = Second(player.sound)
  OBVIOUS
<1>3. PICK y : y = Second(player.picture)
  OBVIOUS
<1>4. /\ x \in MediaElements /\ x.paused = player.sound.paused /\ x.starved = player.sound.starved
      /\ y \in MediaElements /\ y.paused = player.picture.paused /\ y.starved = player.picture.starved
  BY <1>1, <1>2, <1>3, SecondKeepsElement
<1>5. PICK a : a = [player EXCEPT !.sound = x]
  OBVIOUS
<1>6. /\ a \in Engines /\ a.sound = x
      /\ a.playing = player.playing /\ a.split = player.split
      /\ a.listening = player.listening /\ a.gestureBound = player.gestureBound
      /\ a.stalling = player.stalling /\ a.buffering = player.buffering
      /\ a.anchor = player.anchor /\ a.anchorAt = player.anchorAt
  BY <1>1, <1>4, <1>5 DEF Engines
<1>7. player' = [a EXCEPT !.picture = y]
  BY <1>2, <1>3, <1>5, Zenon DEF SecondPasses
<1>8. /\ player' \in Engines /\ player'.sound = x /\ player'.picture = y
      /\ player'.playing = player.playing /\ player'.split = player.split
      /\ player'.listening = player.listening /\ player'.gestureBound = player.gestureBound
      /\ player'.stalling = player.stalling /\ player'.buffering = player.buffering
      /\ player'.anchor = player.anchor /\ player'.anchorAt = player.anchorAt
  BY <1>4, <1>6, <1>7 DEF Engines
<1>9. /\ clock' = clock + 1 /\ show' = show /\ seen' = seen /\ kicked' = kicked /\ jumps' = jumps
  BY DEF SecondPasses
<1>10. PlayerTypeOK'
  BY <1>1, <1>8, <1>9 DEF PlayerInv, PlayerTypeOK, Snapshots
<1>11. FollowsShow'
  BY <1>8, <1>9 DEF PlayerInv, FollowsShow
<1>12. Good(player, kicked)'
  BY <1>4, <1>8, <1>9 DEF PlayerInv, Good, Stalls
<1>13. Anchored'
  <2>1. player.anchor \in Int /\ player.anchorAt \in Int
    BY <1>1, EngineFields
  <2>2. seen.at \in Nat /\ seen.since \in Nat /\ seen.playing \in BOOLEAN
    BY <1>1 DEF Snapshots
  <2> QED
    BY <1>1, <1>8, <1>9, <2>1, <2>2 DEF PlayerInv, Anchored, PositionIn, Near
<1>14. NoChaseStep
  BY <1>1, <1>9 DEF NoChaseStep
<1> QED
  BY <1>10, <1>11, <1>12, <1>13, <1>14 DEF PlayerInv

(* What is attached, or was, before the sync of a render.                  *)
Facing(s) == IF <<s.track, s.split>> = <<show.track, show.split>> THEN player ELSE Attached(player, s.split)

(* A render syncs the engine, if need be to new elements.                  *)
LEMMA RendersKeep ==
    ASSUME PlayerInv, NEW allowed \in BOOLEAN, NEW s \in Snapshots, s.since <= clock,
           Renders(s, allowed), jumps' \in Nat
    PROVE  PlayerInv' /\ NoChaseStep
<1> DEFINE p == PositionIn(s)
<1>1. /\ player \in Engines /\ clock \in Nat /\ show \in Snapshots /\ seen \in Snapshots
      /\ player.listening = player.gestureBound /\ Stalls(player)
      /\ player.split = show.split /\ player.playing = show.playing
      /\ s.split \in BOOLEAN /\ s.playing \in BOOLEAN
  BY DEF PlayerInv, PlayerTypeOK, FollowsShow, Good, Snapshots
<1>2. p \in Nat
  BY <1>1, PositionIsNat
<1>3. PICK m : m = Facing(s)
  OBVIOUS
<1>4. /\ m \in Engines /\ m.listening = m.gestureBound /\ Stalls(m) /\ m.split = s.split
      /\ m = player \/ (m.anchor = Unset /\ ~m.sound.seeking)
      /\ s = show => m = player
  <2>1. CASE <<s.track, s.split>> = <<show.track, show.split>>
    BY <1>1, <1>3, <2>1 DEF Facing
  <2>2. CASE <<s.track, s.split>> # <<show.track, show.split>>
    <3>1. m = Attached(player, s.split)
      BY <1>3, <2>2, Zenon DEF Facing
    <3> QED
      BY <1>1, <2>2, <3>1, AttachedFresh
  <2> QED
    BY <2>1, <2>2
<1>5. PICK x : x = Told(m, s)
  OBVIOUS
<1>6. /\ x.playing = s.playing /\ x.anchor = m.anchor /\ x.anchorAt = m.anchorAt
  BY <1>1, <1>4, <1>5 DEF Told, Engines
<1>7. PICK n : n = Synced(m, s, allowed)
  OBVIOUS
<1>8. /\ Good(n, FALSE) /\ n.playing = s.playing /\ n.split = m.split
      /\ \/ n.anchor = p /\ n.anchorAt = clock /\ ~m.sound.seeking
         \/ n.anchor = m.anchor /\ n.anchorAt = m.anchorAt /\ (m.sound.seeking \/ ~Jumped(x, p))
      /\ ~Jumped(x, p) => n.picture.at = m.picture.at
  <2>1. SyncTold(m, s, n)
    BY <1>1, <1>4, <1>7, SyncedGood, Zenon
  <2> QED
    BY <1>5, <2>1 DEF SyncTold
<1>9. /\ show' = s /\ player' = n /\ kicked' = FALSE /\ clock' = clock
      /\ seen' = IF m.sound.seeking /\ Jumped(x, p) THEN seen ELSE s
  BY <1>3, <1>5, <1>7, Zenon DEF Renders, Facing, Told
<1> HIDE DEF p
<1>10. PlayerTypeOK'
  BY <1>1, <1>8, <1>9 DEF PlayerTypeOK, Good
<1>11. FollowsShow'
  BY <1>4, <1>8, <1>9 DEF FollowsShow, Good
<1>12. Good(player, kicked)'
  BY <1>8, <1>9 DEF Good, Stalls
<1>13. PositionIn(s)' = p
  BY <1>9 DEF PositionIn, p
<1>14. m.anchor \in Int /\ m.anchorAt \in Int
  BY <1>4, EngineFields
<1>15. ~Jumped(x, p) => /\ m.anchor # Unset
                        /\ Near(p, m.anchor + (IF s.playing THEN clock - m.anchorAt ELSE 0))
  BY <1>6 DEF Jumped, Expected
<1>16. Anchored'
  <2>1. CASE m.sound.seeking /\ Jumped(x, p)
    <3>1. m = player /\ seen' = seen /\ n.anchor = m.anchor /\ n.anchorAt = m.anchorAt
      BY <1>4, <1>8, <1>9, <2>1
    <3> QED
      BY <1>9, <3>1 DEF PlayerInv, Anchored, PositionIn
  <2>2. CASE ~(m.sound.seeking /\ Jumped(x, p))
    <3>1. seen' = s
      BY <1>9, <2>2
    <3>2. PositionIn(seen)' = p
      BY <1>13, <3>1
    <3>3. CASE n.anchor = p /\ n.anchorAt = clock
      <4>1. n.anchor # Unset
        BY <1>2, <3>3 DEF Unset
      <4>2. Near(p, n.anchor + (IF s.playing THEN clock - n.anchorAt ELSE 0))
        BY <1>1, <1>2, <3>3 DEF Near
      <4> HIDE DEF PositionIn, Near
      <4> QED
        BY <1>9, <3>1, <3>2, <4>1, <4>2 DEF Anchored
    <3>4. CASE n.anchor = m.anchor /\ n.anchorAt = m.anchorAt /\ ~Jumped(x, p)
      <4>1. n.anchor # Unset /\ Near(p, n.anchor + (IF s.playing THEN clock - n.anchorAt ELSE 0))
        BY <1>15, <3>4
      <4> HIDE DEF PositionIn, Near
      <4> QED
        BY <1>9, <3>1, <3>2, <4>1 DEF Anchored
    <3> QED
      BY <1>8, <2>2, <3>3, <3>4
  <2> QED
    BY <2>1, <2>2
<1>17. NoChaseStep
  <2>1. SUFFICES ASSUME s = show, seen = show, n.picture.at # player.picture.at
                 PROVE  FALSE
    BY <1>9 DEF NoChaseStep
  <2>2. m = player /\ Jumped(x, p)
    BY <1>4, <1>8, <2>1
  <2>3. x.anchor = player.anchor /\ x.anchorAt = player.anchorAt /\ x.playing = show.playing
    BY <1>6, <2>1, <2>2
  <2>4. /\ player.anchor # Unset
        /\ Near(p, player.anchor + (IF show.playing THEN clock - player.anchorAt ELSE 0))
    BY <2>1 DEF PlayerInv, Anchored, p
  <2> QED
    BY <2>2, <2>3, <2>4 DEF Jumped, Expected
<1> QED
  BY <1>10, <1>11, <1>12, <1>16, <1>17 DEF PlayerInv

(* A snapshot of a room as it was.                                         *)
LEMMA RefreshesKeep ==
    ASSUME PlayerInv, NEW allowed \in BOOLEAN, Refreshes(allowed)
    PROVE  PlayerInv' /\ NoChaseStep
<1>1. show \in Snapshots /\ show.since <= clock /\ Renders(show, allowed) /\ jumps' \in Nat
  BY DEF PlayerInv, PlayerTypeOK, Refreshes
<1> QED
  BY <1>1, RendersKeep

(* A snapshot of a room that changed.                                      *)
LEMMA ChangesKeep ==
    ASSUME PlayerInv, NEW allowed \in BOOLEAN, Changes(allowed)
    PROVE  PlayerInv' /\ NoChaseStep
<1>1. clock \in Nat /\ show \in Snapshots /\ show.since <= clock /\ jumps' \in Nat
  BY DEF PlayerInv, PlayerTypeOK, Changes
<1>2. PositionIn(show) \in Nat
  BY <1>1, PositionIsNat
<1>3. SUFFICES \E s \in Snapshots : s.since <= clock /\ Renders(s, allowed)
  BY <1>1, RendersKeep
<1>4. CASE \E p \in {0, SeekTo} : Renders([show EXCEPT !.at = p, !.since = clock], allowed)
  <2>1. PICK p \in {0, SeekTo} : Renders([show EXCEPT !.at = p, !.since = clock], allowed)
    BY <1>4
  <2>2. PICK a : a = [show EXCEPT !.at = p]
    OBVIOUS
  <2>3. PICK s : s = [a EXCEPT !.since = clock]
    OBVIOUS
  <2>4. a \in Snapshots
    BY <1>1, <2>2, PlayerAssumption DEF Snapshots
  <2>5. s \in Snapshots /\ s.since = clock
    BY <1>1, <2>3, <2>4 DEF Snapshots
  <2>6. Renders(s, allowed)
    BY <2>1, <2>2, <2>3, Zenon
  <2> QED
    BY <1>1, <2>5, <2>6
<1>5. CASE Renders([show EXCEPT !.at = PositionIn(show), !.since = clock, !.playing = ~@], allowed)
  <2>1. PICK q : q = PositionIn(show)
    OBVIOUS
  <2>2. PICK a : a = [show EXCEPT !.at = q]
    OBVIOUS
  <2>3. PICK b : b = [a EXCEPT !.since = clock]
    OBVIOUS
  <2>4. PICK s : s = [b EXCEPT !.playing = ~@]
    OBVIOUS
  <2>5. a \in Snapshots
    BY <1>1, <1>2, <2>1, <2>2 DEF Snapshots
  <2>6. b \in Snapshots /\ b.since = clock
    BY <1>1, <2>3, <2>5 DEF Snapshots
  <2>7. s \in Snapshots /\ s.since = clock
    BY <2>4, <2>6 DEF Snapshots
  <2>8. Renders(s, allowed)
    BY <1>5, <2>1, <2>2, <2>3, <2>4, Zenon
  <2> QED
    BY <1>1, <2>7, <2>8
<1>6. CASE \E split \in BOOLEAN :
             Renders([track |-> show.track + 1, split |-> split, at |-> 0, since |-> clock, playing |-> TRUE], allowed)
  <2>1. PICK split \in BOOLEAN :
          Renders([track |-> show.track + 1, split |-> split, at |-> 0, since |-> clock, playing |-> TRUE], allowed)
    BY <1>6
  <2>2. PICK s : s = [track |-> show.track + 1, split |-> split, at |-> 0, since |-> clock, playing |-> TRUE]
    OBVIOUS
  <2>3. s \in Snapshots /\ s.since = clock
    BY <1>1, <2>2 DEF Snapshots
  <2> QED
    BY <1>1, <2>1, <2>2, <2>3
<1>7. CASE Renders([show EXCEPT !.split = TRUE], allowed)
  <2>1. PICK s : s = [show EXCEPT !.split = TRUE]
    OBVIOUS
  <2>2. s \in Snapshots /\ s.since = show.since
    BY <1>1, <2>1 DEF Snapshots
  <2> QED
    BY <1>1, <1>7, <2>1, <2>2
<1> QED
  BY <1>4, <1>5, <1>6, <1>7 DEF Changes

(* A page opens with an engine that agrees with the room.                  *)
LEMMA PlayerStarts == PlayerInit => PlayerInv
<1> SUFFICES ASSUME PlayerInit PROVE PlayerInv
  OBVIOUS
<1>1. PICK split \in BOOLEAN, playing \in BOOLEAN, allowed \in BOOLEAN :
         /\ show = [track |-> 1, split |-> split, at |-> 0, since |-> 0, playing |-> playing]
         /\ player = Synced(Attached(NewEngine, split), show, allowed)
  BY DEF PlayerInit
<1>2. clock = 0 /\ jumps = 0 /\ seen = show /\ kicked = FALSE
  BY DEF PlayerInit
<1>3. /\ show \in Snapshots /\ show.since <= clock
      /\ show.split = split /\ show.playing \in BOOLEAN
  BY <1>1, <1>2 DEF Snapshots
<1>4. NewEngine \in Engines /\ NewEngine.listening = NewEngine.gestureBound
  BY DEF NewEngine, Engines, MediaElements, Built, Unset, Long
<1>5. PICK m : m = Attached(NewEngine, split)
  OBVIOUS
<1>6. /\ m \in Engines /\ m.listening = m.gestureBound /\ Stalls(m)
      /\ m.split = split /\ m.anchor = Unset /\ ~m.sound.seeking
  BY <1>4, <1>5, AttachedFresh
<1>7. SyncTold(m, show, player)
  BY <1>1, <1>2, <1>3, <1>5, <1>6, SyncedGood
<1>8. Told(m, show).anchor = Unset
  BY <1>6 DEF Told, Engines
<1>9. Good(player, FALSE) /\ player.playing = show.playing /\ player.split = split
  BY <1>6, <1>7 DEF SyncTold
<1>10. player.anchor = PositionIn(show) /\ player.anchorAt = clock
  BY <1>6, <1>7, <1>8 DEF SyncTold, Jumped
<1>11. PositionIn(show) \in Nat
  BY <1>2, <1>3, PositionIsNat
<1>12. PlayerTypeOK
  BY <1>2, <1>3, <1>9 DEF PlayerTypeOK, Good
<1>13. FollowsShow
  BY <1>2, <1>3, <1>9 DEF FollowsShow, Good
<1>14. Anchored
  BY <1>2, <1>10, <1>11 DEF Anchored, Near, Unset
<1> QED
  BY <1>2, <1>9, <1>12, <1>13, <1>14 DEF PlayerInv

(* No step of the player, the browser or the clock breaks the agreement,   *)
(* nor lets the picture chase the room clock.                              *)
LEMMA PlayerKeeps == PlayerInv /\ [PlayerNext]_playerVars => PlayerInv' /\ (NoChaseStep \/ UNCHANGED playerVars)
<1> SUFFICES ASSUME PlayerInv, [PlayerNext]_playerVars PROVE PlayerInv' /\ (NoChaseStep \/ UNCHANGED playerVars)
  OBVIOUS
<1>1. CASE UNCHANGED playerVars
  BY <1>1 DEF playerVars, PlayerInv, PlayerTypeOK, FollowsShow, Good, Stalls, Anchored, PositionIn
<1>2. CASE \E allowed \in BOOLEAN : Refreshes(allowed) \/ Changes(allowed) \/ SoundLoads(allowed) \/ Gesture(allowed)
  BY <1>2, RefreshesKeep, ChangesKeep, SoundLoadsKeeps, GestureKeeps
<1>3. CASE \E e \in Elements : Seeked(e) \/ Starves(e) \/ Flows(e) \/ StallCounts(e)
  BY <1>3, SeekedKeeps, StarvesKeeps, FlowsKeeps, StallCountsKeeps
<1>4. CASE PictureLoads \/ MasterLoop \/ AvLoop \/ SecondPasses
  BY <1>4, PictureLoadsKeeps, MasterLoopKeeps, AvLoopKeeps, SecondPassesKeeps
<1> QED
  BY <1>1, <1>2, <1>3, <1>4 DEF PlayerNext

-----------------------------------------------------------------------------
(* The inductive invariant: types, the engine's copy of the room, the      *)
(* agreement of elements and engine, and where the anchor is.              *)
THEOREM PlayerInvariant == PlayerSpec => []PlayerInv
<1>1. PlayerInv /\ [PlayerNext]_playerVars => PlayerInv'
  BY PlayerKeeps
<1> QED
  BY PlayerStarts, <1>1, PTL DEF PlayerSpec

(* The state of the page is well typed, and no snapshot is from the future. *)
THEOREM PlayerTypes == PlayerSpec => []PlayerTypeOK
<1>1. PlayerInv => PlayerTypeOK
  BY DEF PlayerInv
<1> QED
  BY PlayerInvariant, <1>1, PTL

(* The picture runs exactly while the room plays and the sound flows, and  *)
(* no stall of an element that is gone holds it.                           *)
THEOREM PlayerPictureWaits == PlayerSpec => []PictureWaitsForSound
<1>1. PlayerInv => PictureWaitsForSound
  <2> SUFFICES ASSUME PlayerInv PROVE PictureWaitsForSound
    OBVIOUS
  <2>1. /\ player.split => kicked \/ player.picture.paused = (~player.playing \/ "sound" \in player.buffering)
        /\ player.buffering \in SUBSET Elements /\ player.stalling \in SUBSET Elements
        /\ Stalls(player)
    BY EngineFields DEF PlayerInv, Good
  <2>2. ASSUME NEW e \in player.buffering \union player.stalling PROVE player[e].starved
    <3>1. e = "sound" \/ e = "picture"
      BY <2>1 DEF Elements
    <3> QED
      BY <2>1, <3>1 DEF Stalls
  <2> QED
    BY <2>1, <2>2 DEF PictureWaitsForSound
<1> QED
  BY PlayerInvariant, <1>1, PTL

(* A page on which a playing room is silent has a listener for a gesture.  *)
THEOREM PlayerIsHeard == PlayerSpec => []SilenceHasAWayOut
<1>1. PlayerInv => SilenceHasAWayOut
  BY DEF PlayerInv, Good, SilenceHasAWayOut
<1> QED
  BY PlayerInvariant, <1>1, PTL

(* The picture is not seeked after the room clock but for the jumps, loads *)
(* and stalls that NoChase names.                                          *)
THEOREM PlayerNeverChases == PlayerSpec => NoChase
<1>1. PlayerInv /\ [PlayerNext]_playerVars => [NoChaseStep]_playerVars
  BY PlayerKeeps DEF playerVars
<1> QED
  BY PlayerInvariant, <1>1, PTL DEF PlayerSpec, NoChase, NoChaseStep

=============================================================================
