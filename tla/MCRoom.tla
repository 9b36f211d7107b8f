------------------------------- MODULE MCRoom -------------------------------
(* RoomPlayback for TLC.  Calls of advance() differ only in their names;   *)
(* so do tracks that are alike in Lazy and in Timed.                       *)
EXTENDS RoomPlayback

AdvanceSymmetry == Permutations(Advances)

KindSymmetry ==
    {p \in Permutations(Tracks) :
        \A t \in Tracks : (p[t] \in Lazy <=> t \in Lazy) /\ (p[t] \in Timed <=> t \in Timed)}

RoomSymmetry == AdvanceSymmetry \union KindSymmetry
=============================================================================
