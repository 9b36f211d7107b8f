----------------------------- MODULE MediaFiles -----------------------------
(***************************************************************************)
(* Where a room gets its files from, and who removes them: acquireAudio()  *)
(* (services/media/acquire.ts) over the archive (mediaCache.ts,            *)
(* download.ts) and yt-dlp (ytdlp.ts), as playInRoom() (roomFlow.ts) and   *)
(* the autoplay of RoomManager.ts call it.                                 *)
(*                                                                         *)
(* A fetch is one such call, or the download of a file somebody replied    *)
(* to.  That of a request begins with the search for what was asked for,   *)
(* or the listing of a playlist (musicSource.ts, playlist.ts), and can be  *)
(* canceled while it runs; what autoplay fetches cannot.  The transfer     *)
(* gate appears as the pool of permits it was shown to implement.  There   *)
(* is a cookie jar to copy: without one there would be less to clean up.   *)
(* Removing a file works, as the code assumes.                             *)
(***************************************************************************)
EXTENDS Naturals, FiniteSets

CONSTANTS
    Fetches,    \* everything fetched for one room
    Preloads,   \* those that autoplay begins
    Replies,    \* those of a file in Telegram, with nothing to look up
    Splits,     \* those with a picture, streamed from a URL of its own
    Playlists,  \* requests of a playlist, of which the first track is fetched
    TrackOf,    \* the track of each fetch, which is what the archive goes by
    Attempts,   \* YTDLP_ATTEMPTS
    Slots       \* MAX_CONCURRENT of the transfer gate

ASSUME FilesAssumption ==
    /\ IsFiniteSet(Fetches)
    /\ Preloads \subseteq Fetches /\ Splits \subseteq Fetches
    /\ Replies \subseteq Fetches \ (Preloads \cup Splits)
    /\ Playlists \subseteq Fetches \ (Preloads \cup Splits \cup Replies)
    /\ Attempts \in Nat \ {0} /\ Slots \in Nat \ {0}

VARIABLES
    own,        \* who is to dispose of what the fetch brings
    stage,      \* where the search before it, and acquireAudio(), are
    ytdlp,      \* per fetch and purpose: its withRetry()
    storing,    \* where mediaCache.store() is
    onDisk,     \* fetches with a file or a directory in tmpDir
    archived,   \* tracks with a row in playbacks
    holders,    \* fetches whose transfer goes through the gate
    aborted,    \* fetches whose controller.abort() was called
    lost        \* fetches the code forgot before they were over (observer)

mediaVars == <<own, stage, ytdlp, storing, onDisk, archived, holders, aborted, lost>>

Gate == INSTANCE PermitPool WITH Clients <- Fetches, Permits <- Slots

\* The calls of yt-dlp: one for the sound, one for the URL of the picture.
Jobs == Fetches \X {"audio", "url"}
Sound(f) == <<f, "audio">>
Picture(f) == <<f, "url">>

NoJob == [pc |-> "idle", tries |-> 0, jar |-> FALSE, end |-> "none"]

MediaInit ==
    /\ own = [f \in Fetches |-> "nobody"]
    /\ stage = [f \in Fetches |-> "unasked"]
    /\ ytdlp = [j \in Jobs |-> NoJob]
    /\ storing = [f \in Fetches |-> "no"]
    /\ archived \in SUBSET {TrackOf[f] : f \in Fetches}
    /\ onDisk = {} /\ holders = {}
    /\ aborted = {} /\ lost = {}

ownVars == <<own, aborted, lost>>

-----------------------------------------------------------------------------
(* withRetry() around withCookies() around spawnYtdlp().                   *)

\* The next attempt of a job that has not been canceled.
Attempt(job, canceled) ==
    IF canceled THEN [job EXCEPT !.pc = "failed"]
    ELSE [job EXCEPT !.pc = "copying", !.tries = @ + 1, !.end = "none"]

Becomes(j, job) == ytdlp' = [ytdlp EXCEPT ![j] = job]

\* The promise of a job is settled: acquireAudio() goes on with that of the sound.
Concludes(j, job) ==
    /\ Becomes(j, job)
    /\ stage' = IF j # Sound(j[1]) THEN stage
                ELSE [stage EXCEPT ![j[1]] = CASE job.pc = "done" -> "got"
                                               [] job.pc = "failed" -> "failed"
                                               [] OTHER -> "downloading"]

\* An attempt is over without success: downloadTrack() removes what there is.
Rejected(j, job, end) ==
    [job EXCEPT !.pc = IF j = Sound(j[1]) THEN "disposing" ELSE "sweeping", !.end = end]

CopiesJar(j) ==
    /\ ytdlp[j].pc = "copying"
    /\ \/ Becomes(j, [ytdlp[j] EXCEPT !.pc = "starting", !.jar = TRUE]) /\ UNCHANGED stage
       \/ Concludes(j, [ytdlp[j] EXCEPT !.pc = "failed"])    \* cookies cannot be read
    /\ UNCHANGED <<ownVars, storing, onDisk, archived, holders>>

\* Slips: the signal is not asked before the process starts; the attempt cleans up nothing.
SpawnsAnyway(j) ==
    /\ ytdlp[j].pc = "starting"
    /\ onDisk' = IF j = Sound(j[1]) THEN onDisk \cup {j[1]} ELSE onDisk
    /\ Becomes(j, [ytdlp[j] EXCEPT !.pc = "running"])
    /\ UNCHANGED <<ownVars, stage, storing, archived, holders>>

LeavesPart(j) ==
    /\ ytdlp[j].pc = "disposing"
    /\ Becomes(j, [ytdlp[j] EXCEPT !.pc = "sweeping"])
    /\ UNCHANGED <<ownVars, stage, storing, onDisk, archived, holders>>

\* The directory is made, and the process started unless the signal is aborted.
Spawns(j) ==
    /\ ytdlp[j].pc = "starting"
    /\ \/ /\ onDisk' = IF j = Sound(j[1]) THEN onDisk \cup {j[1]} ELSE onDisk
          /\ Becomes(j, IF j[1] \in aborted THEN Rejected(j, ytdlp[j], "final")
                        ELSE [ytdlp[j] EXCEPT !.pc = "running"])
       \/ /\ j = Sound(j[1])    \* mkdir fails
          /\ Becomes(j, [ytdlp[j] EXCEPT !.pc = "sweeping", !.end = "final"])
          /\ UNCHANGED onDisk
    /\ UNCHANGED <<ownVars, stage, storing, archived, holders>>

\* It ends or is killed for its time: with what was wanted, with an error that
\* is RETRIABLE, or with another.
Exits(j) ==
    /\ ytdlp[j].pc = "running"
    /\ \/ Becomes(j, [ytdlp[j] EXCEPT !.pc = "sweeping", !.end = "ok"])
       \/ \E end \in {"again", "final"} : Becomes(j, Rejected(j, ytdlp[j], end))
    /\ UNCHANGED <<ownVars, stage, storing, onDisk, archived, holders>>

DisposesPart(j) ==
    /\ ytdlp[j].pc = "disposing"
    /\ onDisk' = onDisk \ {j[1]}
    /\ Becomes(j, [ytdlp[j] EXCEPT !.pc = "sweeping"])
    /\ UNCHANGED <<ownVars, stage, storing, archived, holders>>

\* finally: the copy of the jar goes.  A download that succeeded is also archived.
Sweeps(j) ==
    LET job == ytdlp[j] IN
    /\ job.pc = "sweeping"
    /\ Concludes(j, [job EXCEPT !.jar = FALSE, !.pc =
            CASE job.end = "ok" -> "done"
              [] job.end = "again" /\ job.tries < Attempts -> "pausing"
              [] OTHER -> "failed"])
    /\ storing' = IF j = Sound(j[1]) /\ job.end = "ok"
                  THEN [storing EXCEPT ![j[1]] = "checking"] ELSE storing
    /\ UNCHANGED <<ownVars, onDisk, archived, holders>>

Retries(j) ==
    /\ ytdlp[j].pc = "pausing"
    /\ Concludes(j, Attempt(ytdlp[j], j[1] \in aborted))
    /\ UNCHANGED <<ownVars, storing, onDisk, archived, holders>>

JobStep(j) == CopiesJar(j) \/ Spawns(j) \/ Exits(j) \/ DisposesPart(j) \/ Sweeps(j) \/ Retries(j)

-----------------------------------------------------------------------------
(* acquireAudio(): the archive first, which no abort() reaches.            *)

Downloads(f) == Concludes(Sound(f), Attempt(NoJob, f \in aborted))

LooksUp(f) ==
    /\ stage[f] = "looking"
    /\ \/ /\ TrackOf[f] \in archived
          /\ stage' = [stage EXCEPT ![f] = "asking"] /\ UNCHANGED ytdlp
       \/ Downloads(f)    \* no row, no answer, no archive
    /\ UNCHANGED <<ownVars, storing, onDisk, archived, holders>>

\* runMtprotoTransfer() lets one in: getMessages(), downloadToFile() or sendMedia().
GetsIn(f) ==
    /\ Gate!Take(f)
    /\ \/ /\ stage[f] = "asking"
          /\ stage' = [stage EXCEPT ![f] = "asked"] /\ UNCHANGED <<storing, onDisk>>
       \/ /\ stage[f] = "queued"
          /\ stage' = [stage EXCEPT ![f] = "loading"]
          /\ onDisk' = onDisk \cup {f} /\ UNCHANGED storing
       \/ /\ storing[f] = "waiting"
          /\ storing' = [storing EXCEPT ![f] = IF f \in onDisk THEN "sending" ELSE "failing"]
          /\ UNCHANGED <<stage, onDisk>>
    /\ UNCHANGED <<ownVars, ytdlp, archived>>

\* The message with the file, or none: then its row goes, if it can.
Answered(f) ==
    /\ stage[f] = "asked" /\ Gate!GiveBack(f)
    /\ \/ stage' = [stage EXCEPT ![f] = "queued"] /\ UNCHANGED <<ytdlp, archived>>
       \/ Downloads(f) /\ archived' \in {archived, archived \ {TrackOf[f]}}
    /\ UNCHANGED <<ownVars, storing, onDisk>>

\* A slip: a failure keeps its slot.
LoadedOnPaper(f) ==
    /\ stage[f] = "loading"
    /\ \/ Gate!GiveBack(f) /\ stage' = [stage EXCEPT ![f] = "got"] /\ UNCHANGED <<ytdlp, onDisk>>
       \/ /\ onDisk' = onDisk \ {f} /\ UNCHANGED holders
          /\ IF f \in Replies THEN stage' = [stage EXCEPT ![f] = "failed"] /\ UNCHANGED ytdlp
             ELSE Downloads(f)
    /\ UNCHANGED <<ownVars, storing, archived>>

Loaded(f) ==
    /\ stage[f] = "loading" /\ Gate!GiveBack(f)
    /\ \/ stage' = [stage EXCEPT ![f] = "got"] /\ UNCHANGED <<ytdlp, onDisk>>
       \/ /\ onDisk' = onDisk \ {f}
          /\ IF f \in Replies THEN stage' = [stage EXCEPT ![f] = "failed"] /\ UNCHANGED ytdlp
             ELSE Downloads(f)
    /\ UNCHANGED <<ownVars, storing, archived>>

(* mediaCache.store(), which nobody waits for.                             *)

Checks(f) ==
    /\ storing[f] = "checking"
    /\ \/ storing' = [storing EXCEPT ![f] = "over"]    \* there already, disabled, no answer
       \/ TrackOf[f] \notin archived /\ storing' = [storing EXCEPT ![f] = "waiting"]
    /\ UNCHANGED <<ownVars, stage, ytdlp, onDisk, archived, holders>>

Sent(f) ==
    /\ storing[f] \in {"sending", "failing"} /\ Gate!GiveBack(f)
    /\ storing' = [storing EXCEPT ![f] = "over"]
    /\ \/ storing[f] = "sending" /\ archived' = archived \cup {TrackOf[f]}
       \/ UNCHANGED archived
    /\ UNCHANGED <<ownVars, stage, ytdlp, onDisk>>

TransferStep(f) == LooksUp(f) \/ GetsIn(f) \/ Answered(f) \/ Loaded(f) \/ Checks(f) \/ Sent(f)

-----------------------------------------------------------------------------
(* Who asks, and what becomes of the file.                                 *)

Arrived(f) == stage[f] = "got" /\ (f \in Splits => ytdlp[Picture(f)].pc = "done")
Broken(f) == stage[f] = "failed" \/ ytdlp[Picture(f)].pc = "failed"

\* Nothing more will come of it: it failed, or was canceled before it could succeed.
Doomed(f) ==
    \/ stage[f] = "failed"
    \/ stage[f] = "downloading" /\ f \in aborted /\ ytdlp[Sound(f)].end # "ok"

\* acquireAudio(), beside getDirectVideoUrl() where there is a picture.
Acquires(f) ==
    /\ stage' = [stage EXCEPT ![f] = "looking"]
    /\ IF f \in Splits THEN Becomes(Picture(f), Attempt(NoJob, f \in aborted))
       ELSE UNCHANGED ytdlp

Begins(f) ==
    /\ stage[f] = "unasked" /\ Acquires(f)
    /\ UNCHANGED <<storing, onDisk, archived, holders>>

Goes(f, to) == own' = [own EXCEPT ![f] = to]

\* A request: playInRoom() registers its Cancel button, and looks for the track
\* unless it has the file.
Requests(f) ==
    /\ f \notin Preloads /\ stage[f] = "unasked"
    /\ stage' = [stage EXCEPT ![f] = IF f \in Replies THEN "queued" ELSE "resolving"]
    /\ Goes(f, "flow")
    /\ UNCHANGED <<aborted, lost, ytdlp, storing, onDisk, archived, holders>>

\* resolveTrack() and resolvePlaylist(): the site is asked, then yt-dlp for a playlist.
Resolves(f) ==
    /\ stage[f] = "resolving"
    /\ \/ Acquires(f)
       \/ /\ stage' = [stage EXCEPT ![f] = IF f \in Playlists \ aborted THEN "listing" ELSE "failed"]
          /\ UNCHANGED ytdlp
    /\ UNCHANGED <<ownVars, storing, onDisk, archived, holders>>

\* The process of ytdlpPlaylist() ends or is killed for its time.
Lists(f) ==
    /\ stage[f] = "listing"
    /\ \/ Acquires(f)
       \/ stage' = [stage EXCEPT ![f] = "failed"] /\ UNCHANGED ytdlp
    /\ UNCHANGED <<ownVars, storing, onDisk, archived, holders>>

\* The button: processes of attempts that run are killed.  That of a listing is
\* not: it asked for the signal before it was started and does not listen.
Cancels(f) ==
    /\ own[f] = "flow" /\ f \notin aborted
    /\ aborted' = aborted \cup {f}
    /\ ytdlp' = [j \in Jobs |-> IF j[1] = f /\ ytdlp[j].pc = "running"
                                THEN Rejected(j, ytdlp[j], "final") ELSE ytdlp[j]]
    /\ UNCHANGED <<own, lost, stage, storing, onDisk, archived, holders>>

\* Everything is there: the track is enqueued, unless it was canceled or the
\* queue is full, for a request, or the room is busy, for autoplay.  The room that
\* took the place of a rebooted one may be full: then autoplay drops what it has.
HandsOver(f) ==
    /\ own[f] \in {"flow", "radio"} /\ Arrived(f)
    /\ \/ f \notin aborted /\ Goes(f, "room") /\ UNCHANGED lost
       \/ Goes(f, "disposing") /\ UNCHANGED lost
       \/ own[f] = "radio" /\ Goes(f, "over") /\ lost' = lost \cup {f}
    /\ UNCHANGED <<aborted, stage, ytdlp, storing, onDisk, archived, holders>>

\* Promise.all() rejects with the first error, and what the other one brings
\* is in no variable.
GivesUp(f) ==
    /\ own[f] \in {"flow", "radio"} /\ Broken(f)
    /\ Goes(f, "over")
    /\ lost' = IF Doomed(f) THEN lost ELSE lost \cup {f}
    /\ UNCHANGED <<aborted, stage, ytdlp, storing, onDisk, archived, holders>>

\* dispose(): by the flow or by autoplay that gave way, and by the room.
Disposes(f) ==
    /\ own[f] = "disposing" \/ (own[f] = "dropped" /\ stage[f] = "got")
    /\ Goes(f, "over") /\ onDisk' = onDisk \ {f}
    /\ UNCHANGED <<aborted, lost, stage, ytdlp, storing, archived, holders>>

RoomDisposes(f) ==
    /\ own[f] = "room"
    /\ Goes(f, "over") /\ onDisk' = onDisk \ {f}
    /\ UNCHANGED <<aborted, lost, stage, ytdlp, storing, archived, holders>>

\* prefetchedMedia: one at a time; another in its place makes the room forget it.
Kept == {f \in Preloads : own[f] = "kept"}
Forget(S) == lost' = lost \cup {f \in S : ~Doomed(f)}

Prefetches(f) ==
    /\ f \in Preloads
    /\ \A g \in Kept : TrackOf[g] # TrackOf[f] \/ (g \in Splits) # (f \in Splits)
    /\ Begins(f) /\ Forget(Kept)
    /\ own' = [g \in Fetches |-> IF g = f THEN "kept" ELSE IF g \in Kept THEN "over" ELSE own[g]]
    /\ UNCHANGED aborted

\* advance() with a track to play, and triggerAutoplay() in the other mode, drop it;
\* triggerAutoplay() in its mode takes it.
AutoplayRests == \A f \in Preloads : own[f] \notin {"radio", "disposing"}

Drops(f) ==
    /\ f \in Kept
    /\ Goes(f, "dropped")
    /\ UNCHANGED <<aborted, lost, stage, ytdlp, storing, onDisk, archived, holders>>

Picks(f) ==
    /\ f \in Kept /\ AutoplayRests
    /\ Goes(f, "radio")
    /\ UNCHANGED <<aborted, lost, stage, ytdlp, storing, onDisk, archived, holders>>

\* Without one it begins a fetch, of which it knows nothing more if the room is busy by then.
Recommends(f) ==
    /\ f \in Preloads /\ AutoplayRests
    /\ Begins(f)
    /\ \/ Goes(f, "radio") /\ UNCHANGED lost
       \/ Goes(f, "over") /\ lost' = lost \cup {f}
    /\ UNCHANGED aborted

\* reboot() disposes of the tracks, and the rest goes with the room.
Reboots ==
    /\ Kept # {}
    /\ own' = [f \in Fetches |-> IF f \in Kept THEN "over" ELSE own[f]]
    /\ Forget(Kept)
    /\ UNCHANGED <<aborted, stage, ytdlp, storing, onDisk, archived, holders>>

\* What was dropped failed: there is nothing to dispose of.
DropFails(f) ==
    /\ own[f] = "dropped" /\ stage[f] = "failed"
    /\ Goes(f, "over")
    /\ UNCHANGED <<aborted, lost, stage, ytdlp, storing, onDisk, archived, holders>>

OwnerStep(f) == HandsOver(f) \/ GivesUp(f) \/ Disposes(f) \/ DropFails(f)

FetchStep(f) == Resolves(f) \/ Lists(f) \/ TransferStep(f) \/ OwnerStep(f) \/ \E j \in {Sound(f), Picture(f)} : JobStep(j)

MediaNext ==
    \/ Reboots
    \/ \E f \in Fetches :
        \/ FetchStep(f)
        \/ Requests(f) \/ Cancels(f) \/ RoomDisposes(f)
        \/ Prefetches(f) \/ Drops(f) \/ Picks(f) \/ Recommends(f)

\* Searches and processes end, by their timeout at the latest; Telegram settles a
\* transfer; timers fire.
\* It is enough that something under way goes on: all of it comes to an end.
MediaFairness == WF_mediaVars(\E f \in Fetches : FetchStep(f))

MediaSpec == MediaInit /\ [][MediaNext]_mediaVars /\ MediaFairness

-----------------------------------------------------------------------------

MediaTypeOK ==
    /\ own \in [Fetches -> {"nobody", "flow", "kept", "radio", "dropped", "room", "disposing", "over"}]
    /\ stage \in [Fetches -> {"unasked", "resolving", "listing", "looking", "asking", "asked", "queued", "loading",
                              "downloading", "got", "failed"}]
    /\ ytdlp \in [Jobs -> [pc : {"idle", "copying", "starting", "running", "disposing", "sweeping",
                                 "pausing", "done", "failed"},
                           tries : 0..Attempts, jar : BOOLEAN, end : {"none", "ok", "again", "final"}]]
    /\ storing \in [Fetches -> {"no", "checking", "waiting", "sending", "failing", "over"}]
    /\ onDisk \subseteq Fetches /\ holders \subseteq Fetches
    /\ aborted \subseteq Fetches /\ lost \subseteq Fetches

\* What is handed out is there, and what is there has somebody to remove it: the
\* owner of the fetch, or a failed attempt on its way out; except for what the
\* code forgets.  A copy of the cookies lives as long as its attempt.
FilesFollowOwners ==
    /\ \A f \in Fetches :
        /\ stage[f] = "got" /\ own[f] # "over" => f \in onDisk
        /\ own[f] = "room" => stage[f] = "got"
        /\ f \in onDisk /\ own[f] = "over" => f \in lost \/ ytdlp[Sound(f)].pc = "disposing"
    /\ \A j \in Jobs : ytdlp[j].jar => ytdlp[j].pc \in {"starting", "running", "disposing", "sweeping"}

\* Neither a download nor the lookup of a picture's URL runs for a request that was
\* canceled, though the button may be pressed before there is one, while cookies are
\* copied, or while a retry is waited for.  What may run on is the process that lists
\* a playlist: it is no attempt, and nobody kills it.
NoAttemptOnceCanceled ==
    \A j \in Jobs : j[1] \in aborted => ytdlp[j].pc # "running"

\* In the end whoever asked for a file has it or was told, autoplay is through with
\* what it picked, and what was dropped is gone: no slot stays taken for ever, and
\* no attempt goes on for ever.
FetchesEnd ==
    <>[](\A f \in Fetches : own[f] \notin {"flow", "radio", "dropped", "disposing"})

=============================================================================
