------------------------------- MODULE MCSync -------------------------------
(***************************************************************************)
(* The faces of a room, its pages, their player and its cards, in one run: *)
(* they share no variable, so that a behaviour is one of any of them, and  *)
(* `focus`, which never changes, says which.                               *)
(*                                                                         *)
(* Two pages of one user are open in two rooms: opening the second takes   *)
(* the user out of the first, and a page that reconnects takes them back.  *)
(***************************************************************************)
EXTENDS RoomSync, RoomCards, MediaEngine

VARIABLE focus

MCPages == {"a", "b"}
MCRooms == {"g", "h"}
MCUsers == {"u"}
MCRoomOf == [p \in MCPages |-> IF p = "a" THEN "g" ELSE "h"]
MCUserOf == [p \in MCPages |-> "u"]

FacesInit ==
    /\ Init /\ CardsInit /\ PlayerInit
    /\ \/ focus \in {"pages", "cards"} /\ ~show.split /\ ~show.playing
       \/ focus = "player"

FacesNext ==
    /\ UNCHANGED focus
    /\ \/ focus = "pages" /\ Next /\ UNCHANGED <<cardVars, playerVars>>
       \/ focus = "cards" /\ CardsNext /\ UNCHANGED <<vars, playerVars>>
       \/ focus = "player" /\ PlayerNext /\ UNCHANGED <<vars, cardVars>>

FacesSpec == FacesInit /\ [][FacesNext]_<<vars, cardVars, playerVars, focus>>

=============================================================================
