------------------------------ MODULE Playlist ------------------------------
(***************************************************************************)
(* What a room promises about the order of its music, with no clock, no    *)
(* files and no promises under way.  Each request enters once, and is then *)
(* in the line, on, coming - taken off the line, and waited for - or out   *)
(* for good.  The line keeps its order: tracks leave it at the head or by  *)
(* name, and go to its head only when somebody takes their place.  What is *)
(* coming comes on, over whatever is on by then, or is given up for the    *)
(* head of the line.  RoomPlayback is shown to implement this.             *)
(***************************************************************************)
EXTENDS Integers, Sequences, SequencesExt

CONSTANTS Tracks, NoTrack

VARIABLES line, coming, on, entered

vars == <<line, coming, on, entered>>

Init ==
    /\ line = <<>> /\ coming = {} /\ on = NoTrack
    /\ entered = {}

(* The line when the track that is on has to make way, behind as it was.   *)
Interrupted(behind) == IF on = NoTrack THEN behind ELSE Cons(on, behind)

(* A new request comes on at once, before what it interrupts, or goes last.*)
Enter(t) ==
    /\ t \notin entered
    /\ entered' = entered \union {t}
    /\ \/ on' = t /\ line' = Interrupted(line)
       \/ on # NoTrack /\ line' = Append(line, t) /\ UNCHANGED on
    /\ UNCHANGED coming

PlayNow(i) ==
    /\ on' = line[i]
    /\ line' = Interrupted(RemoveAt(line, i))
    /\ UNCHANGED <<coming, entered>>

(* On to the next, while those in wait are still to come: the head of the  *)
(* line comes on or is sent for; with no line left the room falls silent.  *)
MoveOn(wait) ==
    /\ \/ /\ line # <<>>
          /\ on' = Head(line) /\ coming' = wait
          /\ line' = Tail(line)
       \/ /\ line # <<>>
          /\ coming' = wait \union {Head(line)} /\ UNCHANGED on
          /\ line' = Tail(line)
       \/ /\ line = <<>>
          /\ on' = NoTrack /\ coming' = wait
          /\ UNCHANGED line
    /\ UNCHANGED entered

Arrive(t) ==
    /\ t \in coming
    /\ coming' = coming \ {t}
    /\ on' = t
    /\ UNCHANGED <<line, entered>>

GiveUp(t) ==
    /\ t \in coming
    /\ MoveOn(coming \ {t})

Drop(i) ==
    /\ line' = RemoveAt(line, i)
    /\ UNCHANGED <<coming, on, entered>>

Clear ==
    /\ line' = <<>>
    /\ UNCHANGED <<coming, on, entered>>

Stop ==
    /\ line' = <<>> /\ on' = NoTrack
    /\ UNCHANGED <<coming, entered>>

Next ==
    \/ \E t \in Tracks : Enter(t) \/ Arrive(t) \/ GiveUp(t)
    \/ \E i \in 1..Len(line) : PlayNow(i) \/ Drop(i)
    \/ MoveOn(coming) \/ Clear \/ Stop

Spec == Init /\ [][Next]_vars
=============================================================================
