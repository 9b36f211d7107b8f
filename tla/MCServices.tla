----------------------------- MODULE MCServices -----------------------------
(***************************************************************************)
(* What else has to come to an end: a page that catches up with its room,  *)
(* the AI's answers, the calls they make, and a broadcast.  The four share *)
(* no variable, so that a behaviour is one of any of them, and `focus`,    *)
(* which never changes, says which.  Nothing that fairness is owed to can  *)
(* happen in the initial states of the other three.                        *)
(***************************************************************************)
EXTENDS RoomSync, AiChat, AiKeys, Broadcast

VARIABLE focus

MCPages == {"a"}
MCRooms == {"g"}
MCUsers == {"u"}
MCRoomOf == [p \in MCPages |-> "g"]
MCUserOf == [p \in MCPages |-> "u"]

ServicesInit ==
    /\ Init /\ ChatInit /\ KeysInit /\ CastInit
    /\ focus \in {"page", "chat", "keys", "broadcast"}

ServicesNext ==
    /\ UNCHANGED focus
    /\ \/ focus = "page" /\ Next /\ UNCHANGED <<chatVars, keyVars, castVars>>
       \/ focus = "chat" /\ ChatNext /\ UNCHANGED <<vars, keyVars, castVars>>
       \/ focus = "keys" /\ KeysNext /\ UNCHANGED <<vars, chatVars, castVars>>
       \/ focus = "broadcast" /\ CastNext /\ UNCHANGED <<vars, chatVars, keyVars>>

ServicesSpec ==
    /\ ServicesInit
    /\ [][ServicesNext]_<<vars, chatVars, keyVars, castVars, focus>>
    /\ Fairness /\ ChatFairness /\ KeysFairness

=============================================================================
