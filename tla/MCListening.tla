---------------------------- MODULE MCListening -----------------------------
(***************************************************************************)
(* Listening, from the stopwatches of a room to the credit, and what the   *)
(* credits of one bot add up to.  The two share no variable: a behaviour   *)
(* is one of either, as `focus` says.                                      *)
(***************************************************************************)
EXTENDS ListenerCredit, Ranking

VARIABLE focus

\* "10" comes before "9".
MCMembers == {9, 10}
MCSpelled == [m \in MCMembers |-> IF m = 10 THEN 1 ELSE 2]
MCHistory == [m \in MCMembers |-> IF m = 9 THEN 1 ELSE 0]
MCListens == 1..3
MCLasts == [l \in MCListens |-> IF l = 1 THEN 1 ELSE 2]

ListeningInit == Init /\ RankInit /\ focus \in {"room", "ranking"}

ListeningNext ==
    /\ UNCHANGED focus
    /\ \/ focus = "room" /\ Next /\ UNCHANGED rankVars
       \/ focus = "ranking" /\ RankNext /\ UNCHANGED vars

ListeningSpec == ListeningInit /\ [][ListeningNext]_<<vars, rankVars, focus>>

=============================================================================
