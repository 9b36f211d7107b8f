------------------------------- MODULE MCMedia -------------------------------
(***************************************************************************)
(* The transfer gate, and the fetches that go through it.  They share no   *)
(* variable: `focus`, which never changes, says which of them a behaviour  *)
(* is of, and nothing fairness is owed to can happen in the initial state  *)
(* of the other.  Which fetches may meet in a behaviour is bounded: one    *)
(* with a picture has nothing more to share than one without, as its URL   *)
(* passes neither gate nor archive, and so it is fetched alone.            *)
(***************************************************************************)
EXTENDS TransferGate, MediaFiles

CONSTANTS Clip, NextClip, Song, Reply, Pick, NextPick

VARIABLE focus

MCFetches == {Clip, NextClip, Song, Reply, Pick, NextPick}
MCPreloads == {NextClip, Pick, NextPick}
MCReplies == {Reply}
MCSplits == {Clip, NextClip}
MCPlaylists == {Song}

Together == {{Clip}, {NextClip}, {Song, Reply}, {Song, Pick}, {Reply, Pick}, {Pick, NextPick}}

\* Two tracks, so that one pre-download may take the place of another.
MCTrackOf == [f \in Fetches |-> IF f = NextPick THEN "other" ELSE "song"]

GateAndFilesInit ==
    /\ Init /\ MediaInit
    /\ archived \in {{}, {"song"}}
    /\ focus \in {"gate", "files"}

GateAndFilesNext ==
    /\ UNCHANGED focus
    /\ \/ focus = "gate" /\ Next /\ UNCHANGED mediaVars
       \/ focus = "files" /\ MediaNext /\ UNCHANGED vars
          /\ \E F \in Together : \A f \in Fetches \ F : stage'[f] = "unasked"

GateAndFilesSpec ==
    /\ GateAndFilesInit /\ [][GateAndFilesNext]_<<vars, mediaVars, focus>>
    /\ \A t \in Transfers : WF_vars(Release(t))
    /\ MediaFairness

=============================================================================
