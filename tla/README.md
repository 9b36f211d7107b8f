# Playeon, specified

Playeon plays music and video in Telegram groups: a bot takes requests and keeps one *room* per chat,
and a web player shows the room over a WebSocket. This directory holds TLA+ modules for the parts of it
whose steps interleave, the TLC runs that check them on small instances, and proofs of what they promise
for every instance.

Paths below are relative to the repository (`playeon-bot/...`, `playeon-web/...`).

## 1. The system

Everything in the bot runs on one Node.js thread. A handler, a timer callback or the continuation of an
`await` runs to its next `await` without being disturbed, and anything may run in between. So a step of a
model is one call up to its first `await`, or one continuation.

| Component | State it keeps | Operations | What is hard about it |
| --- | --- | --- | --- |
| **Room playback**, `services/room/RoomManager.ts` | per room: queue, current track, clock, end timer, loop count, connections, autoplay, prefetches | enqueue, forcePlay, removeQueued, play, pause, seek, skip, setLoop, clearQueue, end, reboot, add/removeConnection; end timer; `advance()`, `triggerAutoplay()`, `prefetchNext()` | `advance()` waits for a download and for a disposal; several may overlap; the timer is re-armed from eight places |
| **Transfer gate**, `services/media/mtprotoGate.ts` | a counter, a queue of callers | acquire, release around each MTProto transfer | lost wake-ups, a leaked or doubled slot, starvation |
| **Connections**, `services/room/server.ts` | sockets, heartbeat marks, pending group info | upgrade, messages, close, heartbeat | an `await` between accepting a socket and listening for its close |
| **Room client**, `playeon-web/src/lib/room-store.ts` | newest snapshot and its `rev`, outbox, backoff | connect, receive, reconnect, send | late snapshots, replayed controls, rebooted rooms |
| **Player**, `playeon-web/src/lib/media-engine.ts` | anchor, stalls, corrections, two media elements | attach, sync, loops, gestures | two clocks, elements that load, stall and refuse to play on their own |
| **Listening credit**, `RoomManager` sessions | per track: listeners, time accumulated, credited | start, pause, resume, join, leave, finalise | time that runs while nothing plays, credit given twice or never |
| **Books of listening**, `lib/ranking.ts`, `lib/leveling.ts` | a row per chat, member and day; per chat and member; per user, with a level | recordTrackListen, resetAllRanking, leaderboard, ranks | three writes nothing ties together, several listens at a time, a rank in two reads |
| **AI keys and client**, `services/ai/aiKeyManager.ts`, `mistralClient.ts` | per key: cooldown, errors, window | select, report, rotate, retry | a key's state changes while a request that uses it waits |
| **AI chat**, `services/ai/aiChatFlow.ts`, `aiIndicator.ts` | per chat: the latest indicator; per run: its message, ticker, edit under way | ask, call tools, stream, finalize, retire | a run that a newer one retires; a late edit on top of an answer |
| **Broadcast**, `services/broadcast.ts` | the active broadcast | start, abort, deliver | check before an `await`, mark after it |
| **Cards**, `services/room/roomFlow.ts`, `roomCards.ts`, `queuedCards.ts` | the live card, one promise chain per message, which card offers which track | request, serialCardEdit, paint, promote, buttons | order of edits, messages deleted under an edit, what was read before a download |
| **Media**, `services/media/*.ts` | files in a temporary directory, a channel used as an archive, processes of yt-dlp | acquireAudio, store, dispose, cancel | attempts that fail, are retried and canceled, before there is a process as well; files that arrive when nobody wants them any more |
| Room flow, settings, links, commands, core, music sources, recommendations, relay, web server, 3D lounge, deployment | little or none of their own | requests that end in one of the calls above | mostly input, output and wording |

How they meet: commands, buttons and web controls call `RoomManager`; it calls `acquireMedia()` and `dispose()`
closures that the flows gave it (`services/media`), which pass through the transfer gate; it tells the cards through
`lifecycle` hooks and the clients through `broadcast()`; the server tells it of sockets that come and go.

What makes each correct, in a sentence: a **room** keeps every track in one place, plays none for ever but moves on
to the next, and keeps its timer, its pause and its files in step with what it plays; the **gate** never exceeds its limit
nor forgets a caller; a **connection** that has closed is gone from its room; a **client** shows the newest state it
was sent; a **player** keeps picture and sound together and is not silent for ever; a listener is **credited** once,
for having listened, and every board tells the same of it; a **key** in cooldown rests; one **broadcast** runs
at a time; a **card** ends up with the text written last.

`PROJECT.json` lists the hazards of this code at the lines where they bite, with the properties that watch them.

## 2. The modules

| Module | Models | State and actions |
| --- | --- | --- |
| `PermitPool` | what a concurrency gate promises (abstract) | `holders`; Take, GiveBack, HandOver |
| `TransferGate` | `mtprotoGate.ts` | `active` and `queue` are the module variables of the code; `phase` says where each call site is. `Enter` and `Park` are the two branches of `acquire()`, `Release` is `release()` with the wake-up it makes |
| `RoomPlayback` | one Room object of `RoomManager.ts` | below |
| `Playlist` | what a room promises about the order of its music (abstract) | `line`, `coming`, `on`, `entered`; below |
| `MediaFiles` | `acquire.ts`, `mediaCache.ts`, `download.ts`, `ytdlp.ts`, and their callers | below |
| `MediaProofs` | | proofs about `TransferGate` and `MediaFiles` |
| `MCMedia` | | gate and files in one run |
| `MCRoom` | | symmetry sets for TLC |
| `RoomPlaybackProofs` | | proofs about `RoomPlayback` |
| `ListenerCredit` | the listening sessions of `RoomManager.ts` | below |
| `ListenerCreditProofs` | | proofs about `ListenerCredit` |
| `Ranking` | `recordTrackListen()`, `resetAllRanking()`, boards and ranks of `ranking.ts`, `leveling.ts` | below |
| `RankingProofs` | | proofs about `Ranking` |
| `MCListening` | | sessions and books in one run |
| `RoomSync` | `room-store.ts` of the page, `server.ts` and the connections of `RoomManager.ts` | below |
| `RoomSyncProofs` | | proofs about `RoomSync` |
| `RoomCards` | `roomCards.ts`, the requests of `roomFlow.ts`, `roomCallbacks.ts`, `queuedCards.ts` | below |
| `RoomCardsProofs` | | proofs about `RoomCards` |
| `AiChat` | `handleAiChat()` and `StreamingIndicator` | below |
| `MediaEngine` | `media-engine.ts` and the effects of `player-screen.tsx` | below |
| `MediaEngineProofs` | | proofs about `MediaEngine` |
| `AiKeys` | `mistralClient.ts` over `aiKeyManager.ts` | below |
| `ServicesProofs` | | proofs about `AiChat`, `AiKeys` and `Broadcast` |
| `Broadcast` | `/broadcast`, `services/broadcast.ts` | below |
| `MCSync` | | pages, cards and player in one run |
| `MCServices` | | a page, the AI and a broadcast in one run, with fairness |

### RoomPlayback

The state is the `Room` record field by field, less what no property looks at: titles, cards, messages, video URLs,
poses, chat and lights. Five variables are not in the code and only watch it: `pausedBy`,
`requested`, `spilled`, `halted`, and `registered`, which says whether the `rooms` map still holds this object.

* **Time.** A unit of time is such that every track of known duration lasts `TrackLength` units. `position` is what
  `positionSec()` computes; it stops at `TrackLength`, because everything that reads it takes `max(0, duration - position)`.
  `forcePlay` and `seek` round to whole seconds; units are whole, so rounding does nothing here. `endTimer` is the
  time left of the one `setTimeout`, or `Off`. `Tick` passes one unit for a room that plays. When the timer is due the
  clock does not wait for its callback: any request may still come first, as in an event loop.
* **advance().** `advances[a]` is one call under way: `BeginAdvance` runs to `await next.acquireMedia()` or to
  `await finished.dispose()`; `AcquireDone` and `AcquireFail` are the two ways the first ends (a failure begins another
  advance, as the recursive call does); `FinishAdvance` is what comes after the second, with the head of
  `triggerAutoplay()`. Each remembers the `finished` and `next` it read before it waited.
* **Files.** `Lazy` tracks came with `acquireMedia()` and no file (the rest of a playlist, a tapped recommendation).
  `media` is "none", "ready" or "gone". `fetching` counts the downloads `prefetchNext()` has started, `spilled`
  collects tracks whose file was overwritten by a second download.
* **Autoplay.** `radio` is where `triggerAutoplay()` stands. `prefetchedMedia`, which decides whether it has to wait
  for recommendations, is left open: both ways are possible.
* **Everything else** is one action per public method: `Enqueue`, `ForcePlay`, `RemoveQueued`, `Play`, `Pause`, `Seek`,
  `Skip`, `SetLoop`, `ClearQueue`, `End`, `Reboot`, `Join` (addConnection), `Leave` (removeConnection, evictUser),
  `SetAutoplay` (with the stored setting that getOrCreate reads late). A call that returns early is a stutter, `queue_full` included.
* **Reboot** takes the object out of the map while its promises go on; the model follows the orphan, which no
  request reaches any more.

**Playlist** is the room with its clock, files, people and calls hidden: a line, the track that is on, those taken off the line and waited for (`coming`, the
`next` of every advance that waits), and those that ever entered. `MoveOn` is what `advance()` does before its first await, `Arrive` and `GiveUp` the two ends of
its wait, `Enter`, `PlayNow`, `Drop`, `Clear` and `Stop` the calls. `Stop` leaves `coming` alone: that an ended room plays again is what the code does (finding `end_resumes`).
`ImplementsPlaylist` says that `RoomPlayback` does nothing else to the order.

Inputs are restricted in one way: a `Lazy` track is never forced. Only single requests carry `force`, and only cards
of tracks that brought their file have the Play Now button.

### MediaFiles

A *fetch* is one call of `acquireAudio()`, or the download of a file somebody replied to; each is begun once. A request's starts with the search for its track
(`Resolves`: `resolveTrack()`, or the first site that `resolvePlaylist()` asks) and, for one of `Playlists` that the site does not know, with a process that lists it (`Lists`); its
Cancel button is up from the beginning (`roomFlow.ts:337`). `own[f]` says who is to
dispose of what it brings: the request ("flow"), the room's `prefetchedMedia` ("kept"), `triggerAutoplay()` ("radio"), a promise that was told
to dispose ("dropped"), or the room. `stage[f]` is where `acquireAudio()` waits, `ytdlp[j]` one `withRetry()`: `pc` goes through copying the
cookies, making the directory, the process, `dispose()` of a failed attempt, the `finally` of `withCookies()`, and the pause before the next; `end` is how the
attempt ended. A video has two jobs, for its sound and for the URL of its picture. `storing[f]` is the upload that nobody waits for, and
`holders` the gate, which appears as the pool of permits it implements (`Gate!Take`, `Gate!GiveBack`). `lost` only watches: the fetches that the code forgot
or threw away before they were over (`GivesUp`, `Recommends`, `Prefetches`, `Reboots`, `HandsOver`).

`Cancels` is `abort()`: it kills the attempts that run and leaves a mark that `Spawns`, `Retries` and `HandsOver` look at. The process that lists a playlist asked for the
mark before it was started and is not killed (`playlist.ts:163-193`): `Lists` goes on. Whether the archive answers, a process
succeeds, or its error is in `RETRIABLE`, is open. What happens to a file in the room is `RoomPlayback`. `archived`
begins as any set of tracks. Left out: progress, what is found by a search, and installations without cookies or archive, which clean up less.

### ListenerCredit

Every track that starts opens a `trackSession` with an entry per listener: `watch` says whether there is an entry and
whether `activeSince` is set, `heard` is what `checkAndCreditListeners` computes from `accumulatedMs` and `activeSince`,
`credited` its flag. `tabs` counts the connections of each user. Three variables only watch: `truly`, the time a user
was connected while the session's track played; `unearned`, who was credited without half of it; `missed`, who was owed
a credit by a session that was finalised.

The actions are the calls that touch a session. The queue and the clock of the room are left out: whether
`advance()` finds a track, has to fetch it or finds none is open, and a track can be over at any time, as a skip or a
seek can make it. `StartTrack` overwrites whatever session is open, as the code does; only `Advance` (also after a failed
download) and `RestartCurrent` finalise one. `Depart` is `removeConnection` and `evictUser`, with `onConnectionLeave` and the
pause of a room that empties; `Join` is `addConnection` with the resumption. A credit is given for half the duration;
durations below five seconds, for which the code gives none, count as unknown. What a credit adds to is `Ranking`.

### Ranking

`bucket`, `tally` and `user` are the collections `listenStats`, `memberListenStats` and `users`. One write is atomic; nothing else
is. `listen[l]` is a credit on its way: `Credited` sends the first two writes, `BucketLands` and `TallyLands` arrive in either order, `Counts`
is the `findOneAndUpdate` of the user's row, `Levels` the write of a level that changed, `Tells` the congratulation. `WriteFails` and
`CountFails` are writes that throw, or a bot killed there: nothing is tried again. Listens are numbered in the order they begin,
so that no two behaviours differ by their names only.

`Resets` sends the writes of `resetAllRanking()`, which land or fail one collection at a time. The code's `deleteMany` takes rows one by one; every
claim about a member speaks of that member's rows, so a collection may as well go at once. Week and month
are one period that began before the first midnight, today is one that begins with each. A rank is looked up in two
steps or three, `LooksUp` (with `LooksUpSeconds` where a card reads its tracks first) and `Ranks`. `Precedes` is the order
of ids, which the users' rows have as strings. `raced` and `overtaken` only watch. Left out: the expiry of daily rows after
sixty days, the limit of a board, the number of members listed beside a rank, and all rendering.

### RoomSync

Both ends of every socket of a room. `page[p]` is a `RoomStore`: its socket, `#rev`, what it shows, its reconnect timers,
its outbox. `sock[s]` holds what the browser and the server believe of one socket, whether the link between them lives,
and what travels on it, in order, in both directions. `roster` are the connections in the rooms, `userRoom` the map of that
name, `mints` the video URLs being made for a connection. Contents are one number, `ver`, which every `broadcast()` of a
changed room raises; `rev` is the counter of the code and starts over with each room object, so the two drift apart on
reboot and restart.

* **Page.** `Connect` drops the socket it has and resets `rev`. `ScheduleReconnect` sets a timer over one that may be
  pending, which `ClearTimer` then cannot reach: `timers` counts all, `handle` says whether the last is known. `Opens`
  sends the presence and flushes the outbox; `Closes` is `onclose`; `Receives` is `#receive` for snapshots, the
  end of the room and the close frame.
* **Server.** `Accept` is `onConnection` up to its `await` for a video URL, `Joins` what follows it (also at once, without
  one). Before that nobody listens: messages are lost, a close is not heard, and the heartbeat finds a live socket dead
  (`Terminate`). `AddConnection` evicts the user from other rooms first. `Hears` and `Notices` are the handlers of
  messages and of close.
* **World.** `Drop` cuts a link without telling either end; `Restart` is `shutdown()` or a kill; `Change`, `Reboot`.

### RoomCards

One chat and its messages. `hall` is the room as cards see it, `unfetched` the tracks of playlists that have no file, `advances` the calls of `advance()` that
wait for one, each with the `finished`, `next` and reason it goes on with; `card[c]` what a message says, `desk` the module
variables of `roomCards.ts` and `queuedCards.ts` together with the edits on their way: `chain[c]` holds the edits of
`serialCardEdit` in order, `loose` the ones that go around it, `sends` the messages being sent; the last two arrive in any order.
Telegram may refuse an edit or a message (counted with `MaxMoves`), and must when the message was deleted. An
action of the room (`TrackEnds`, `SkipCommand`, `Transport`, `Ends`, ...) does what `RoomManager` does to queue and current
track, calls the hooks it calls, and puts their edits on the desk. A request runs `AsksFor`, for a playlist `Plans`, which
reads the room before the download, and then `Enqueues`, `Fails` or `Cancels`.

`Advance` is `advance()` up to its first `await` on a download: the next track leaves the queue. If it has a file, the call goes on at once (`Follows`: it starts, and `onAdvance()`
is told); if not, it waits, and the old track is still the current one and its card the live one, which pauses repaint, Play Now replaces and another
advance may overtake. `Downloaded` is its continuation, which starts its track whatever plays by then and tells of the `finished` it read before; `NotDownloaded`
is the recursive call, from what is current by then. `Prefetched` is `prefetchNext()`, simplified: any queued track may get its file at any time, not the head alone, and a download
that fails is tried again when the track is next. Waiting for the disposal of a file (`RoomManager.ts:1762`) comes after the cards were told and is left out.

Where the code cannot keep a card right, `excused` and `crossed` say so, and the properties speak of the rest. A card is
excused after a refused edit that would have changed it, when its track was skipped on the web (no card is told),
when `/playing` had taken its place, when the download of a skip settles and the current or the live card claims to play with nothing under way to it (`StillClaims`; the same when a track was forced
in between), and when an edit about a track that is over arrives after the edit that should have been the
last; so is a card whose place another one takes for the same track, as when `promoteNext` sends a new message for a track that came back
without one. `crossed`: the last pause or resumption met a promotion on its way to another message, which will say that the room plays; or a
promotion was refused with more edits behind it.

### MediaEngine

A page of the player. `show` is the newest snapshot: which track, one element (download mode) or two (split), and the clock of the room;
`player` holds the engine's fields and its two elements. An action is one callback: `Renders` (React builds the elements of a snapshot, and its
effects attach and sync), `Refreshes` (a snapshot of the same track), `SoundLoads` and `PictureLoads`, `Seeked`, `Starves`, `Flows` and
`StallCounts` (the stall timer), `Gesture`, `MasterLoop` and `AvLoop` (the two intervals; when they fall is open), and
`SecondPasses`. Mounting an element and the effects that follow are one step, as in one commit. The elements are the browser's: they
load, seek, run dry and refuse to play without a gesture as they like, but do not pause by themselves.

Time is whole seconds: tolerances below a second are `Level`, those between one and two `Near`. `seen`, `kicked` and `jumps` only watch. Left
out: the end of a track, an idle room, the easing of the playback rate, the counting of stalls for the
quality menu, unmounting.

### AiChat

`run[r]` is one message the AI was asked: where `handleAiChat` is, the indicator's fields, the edit under way and what the
message in the chat shows. `PushDraft` leaves open whether the limits on time and text hold the push back. A push that is
held back because an edit is under way ends at once and takes that edit's place in `inFlightPush`: the edit is then
"untracked", and `finalize()` waits for nothing. `Retire` is what a newer run does to the one before it.

### AiKeys

`call[c]` is one call of the model: round, attempt, key. `until` are the cooldowns, shared by all calls; `clock` is `Date.now()` in units. `Selected`
is `selectKey()`, left open between healthy keys, with the wait of `withRotatedKey()` when none is. `FailsOver` is
`reportError()` and what follows: the next attempt, a further round of `callMistral()`, or the error. `refused` and `cut`
only watch: until when a refused key should rest, and whether the report of an overlapping call has shortened that.

### Broadcast

`active` is the module variable, `cast[b]` a command with its `BroadcastState`. `Commanded` looks at `active`, `Starts` looks
again after the answer was sent, `Collects` sets it after the targets were read; one target passes `Takes`, `Judges`,
`Tries`, and `FloodOver` and `Retries` after a short flood wait. `overlapped` only watches: two were collecting at a time,
which the code does not prevent.

The modules hold *slips*: definitions that are not part of any behaviour, each a plausible mistake in
a definition that follows, used to see that the properties notice it (`PROJECT.json`, "mutants").

## 3. The runs

| Run | Configuration | Shows |
| --- | --- | --- |
| `gate` | `TransferGate.cfg` on `MCMedia`, fairness: 5 callers, 2 slots; or fetches in pairs, 1 slot, 2 attempts | no idle slot, order, no starvation, refinement of `PermitPool`; files have owners, no download runs for a canceled request, every fetch ends |
| `room_eager` | `RoomEager.cfg`, 3 tracks with files, one of unknown duration, length 2 | the safety of a room whose requests bring their file; also that no file goes missing or astray |
| `room_lazy` | `RoomLazy.cfg`, two of 3 tracks still to be fetched, symmetry | the same room with downloads inside two overlapping calls of `advance()`: it plays in the order of a `Playlist`, and nothing that leaves keeps the file it held |
| `room_drains` | `RoomDrains.cfg`, 2 tracks, fairness | left alone, no room plays one timed track for ever; with autoplay off it falls silent, stays paused or comes to a live track |
| `credit` | `ListenerCredit.cfg` on `MCListening`: 2 users with 2 tabs, half a track is 2 units; or 3 listens of 2 members, 1 trouble | stopwatches tell the truth; credit is earned; finished tracks pay; books agree, milestones are one listen's to tell, ranks are places |
| `room_faces` | `RoomFaces.cfg` on `MCSync`: 2 pages of one user in 2 rooms, 2 sockets, 2 events; or 2 requests, one for a playlist with a track to be fetched, 3 cards, 2 moves; or a player for 3 seconds with 2 jumps | who is in which room, what is pressed and who is present survive sockets that die; cards say what plays; picture and sound stay together |
| `services` | `Services.cfg` on `MCServices`, fairness: 1 page with 3 sockets; 2 AI runs; 2 calls on 2 keys; 2 broadcasts to 2 targets | what must end ends, a page catches up, answers stay, targets are counted |
| `end_resumes` | `RoomEndMeansSilence.cfg` | **violated**: a room that was ended plays on when a download settles |
| `postponed_file` | `RoomQueuedFile.cfg` | **violated**: an interrupted track goes back into the queue and loses its file |
| `recommendation_no_file` | `RoomRecommendation.cfg` | **violated**: a recommendation tapped in an idle room starts without a file |
| `ended_credit` | `ListenerCreditEnded.cfg` | **violated**: leaving an ended room long enough after is credited as listening |
| `postponed_card` | `RoomCardsPostponed.cfg` | **violated**: a card put up by `/playing` goes on claiming a track that was pushed back |

**Properties of a room.** `OnePlace`: queue, current track and the tracks that advances wait for never overlap.
`ImplementsPlaylist`: each request enters once, nothing is overtaken but by Play Now, a download that settles changes the order by its own track alone, and a track that left never returns (`GoneForGood`,
which is proved of the room directly). `TimerMeetsTheEnd`: the timer is set only for a playing track of
known duration, for exactly the time left. `NeverStuck`: such a track has its timer, unless an advance is waiting to
replace it. `PauseKeepsItsCause`: `autoPaused` holds exactly when the room paused because it emptied, so who walks
in resumes nothing that a person paused. `MediaIsThere` and `NoStrayFile`: files of what is in the room exist, and no
others do. `LeavesNoFile`: a track that leaves takes the file it holds with it, also where tracks are fetched later. `LeftAloneItMovesOn`: if only
the room itself acts any more, it does not play one track of known duration for ever, and with autoplay off it ends with such tracks. With autoplay on it may play recommendations without
end, as `autoplay.ts:51-52` means it to: the second half says nothing then.

**Properties of the files.** `FilesFollowOwners`: what is handed out exists; what exists when its fetch is over is being removed, or is one the
code forgot; no copy of the cookies outlives its attempt. `NoAttemptOnceCanceled`: no download, and no lookup of a picture's URL, runs for a request that was canceled, though there is often no process to kill
when the button is pressed; the listing of a playlist is the exception and no part of the claim. `FetchesEnd`: in the end every request has its file or was told, and autoplay is through, with failed transfers in
between. Which files are forgotten is in `lost`, at the five places the Findings name, so the first property says that there are no others.

**Properties of the sessions.** `WatchesTellTheTime`: while its track is in the room, a watch runs for exactly those who
are connected while it plays, and shows the time they listened. `CreditIsEarned`: nobody is credited for such a track
without having heard half. `FinishedIsCredited`: whoever heard half of a track that was finalised is credited. An
interrupted track's session is overwritten and pays nobody, so the last says nothing of it.

**Properties of the books.** `BooksAgree`: no total counts a listen that the chats' rows do not, and where every write came through the three
collections tell the same. `MilestonesOnce`: each milestone that is reached is one listen's to tell, so nobody is congratulated
twice; it goes by untold when the level write of that very listen fails, since it throws and no later listen repeats it. `LevelFollows`: the stored level is
never more than was earned, and right after the newest listen came through, unless an older one stores its level later. `RankIsPlace`: a rank is the place the
leaderboard has, ties included, in every period and scope. Members for whom a listen and a reset were under way together are left out.

**Properties of the pages.** `OneRoomPerUser`: every connection in a room is of a user whom `userRoom` puts there. `RosterIsSockets`:
the roster is what the server listens to, but for sockets that closed unheard during the `await` of `onConnection`.
`ControlsInOrder`: a control pressed while the socket is down is applied once and in order. `PresenceAgrees`: a settled
connection's presence is the page's. `CatchesUp`: in the end a running page is in its room and shows it as it is. Three
exemptions are the code's own gaps: `doubled` (a page that opened a second socket while it had one), `missed` (presence
told before the server listened) and `Told` (no snapshot without a video URL).

**Properties of the cards.** Once everything has arrived, `CardsMoveOn`: a card that says Now Playing speaks of the current
track; `ButtonAgrees`: the live card's button offers what the room can do. Both also when pauses, Play Now, requests and skips fall into the wait of an `advance()`.

**Properties of the player.** `PictureWaitsForSound`: the picture of a split track runs exactly while the room plays and the sound flows, and no
stall of a former element holds it. `SilenceHasAWayOut`: where a playing room is silent, the page listens for a gesture. `NoChase`: the
picture moves to the sound, or where a jump, a sound that has loaded or the end of its stall puts it, and never after a clock that only went on.

**Properties of the services.** `AnswerStays`: an answer is not overwritten by the shimmer before it. `ChatQuiets`: every run ends,
and then nothing ticks or edits. `RevokedRests`: a refused key is left alone for its hour. `CallsEnd`. `Accounted`: each target is
counted once. `ActiveIsRunning`: `active` names the one broadcast that runs. `StopHolds`: after Stop, at most the target in hand.

**What they leave out.** `room_eager` has no playlist track, so that what `OnePlace` says of waiting advances is checked there vacuously and rests on its theorem; `ImplementsPlaylist`
is checked with two of them waiting. `NoStrayFile` does not see the file autoplay fetched for a room that got busy; `FilesFollowOwners` does. `LeavesNoFile` is about the file a track holds:
one that a second download overwrote, or that arrives after its track has left, stays and no property says otherwise. `CallsEnd` assumes that `fetch()` ends, and does
not see that the attempts after the first have no timeout. `ActiveIsRunning` excuses two broadcasts collecting at a time, `AnswerStays` the edit that is untracked, `RevokedRests` the report that
shortens a cooldown, `RosterIsSockets` the close nobody heard: in each case the code does that, and the property watches the rest.

**Bounds.** Two overlapping advances suffice for every interleaving of one with another; a third repeats the
same pair. Three tracks give a queue of two behind a current one, which reordering by `forcePlay` needs; `MaxQueue` 2
is reached, and passed through `force`. `TrackLength` 2 has a beginning, a middle and an end. One connection is enough
for "the first in" and "the last out". `MaxLoop` 1 has a loop taken and a loop spent. `MaxFetches` 1 in flight per
track, plus the one of `advance()`, gives the doubled download. A track is requested once in a behaviour; each
request makes a fresh `InternalTrack` in the code too. In `room_lazy` and `room_drains` the length is 1: the downloads multiply the
states, and the clock is covered by `room_eager`. `PROJECT.json` names each configuration's file.

For the sessions: two users are one who stays and one who comes and goes; two tabs make a close that is not a
departure; watches that stop at 3 are past the half of 2. One waiting `advance()` opens the window in which there is no session.

For the books: the third listen can overtake two others, or be the one after a failure. Members 9 and 10 tie and
change places when spelled. Levels cost two tracks each, instead of 3, 8 and 15, so that a listen may pass one and another
the next. One trouble is a failed write, a reset, a midnight or a look, in the middle of the three.

For the player: three seconds let a stall, its timer and a correction follow each other; two jumps are a seek and a pause, or two
tracks, in the middle of either.

For the files: two fetches meet at the one slot, in five kinds: a request, a reply, what autoplay picks, the pre-download that takes its
place, each with another (`Together`); videos go alone, as the URL of the picture passes neither gate nor archive. Two attempts are one that is retried and the last.

For the composed runs: the parts share no variable, so every behaviour is one of a single part, which `focus` picks in the initial state and no
step changes; the states add up and do not multiply. Two sockets are the one a page drops and the one it opens, or one per
page; three let a restart meet a second reconnect. Two events are a fault and a button, or a fault in the middle of an eviction.
Two requests and a track of autoplay are an interrupter, an interrupted and a next one; three cards are one each and
one that `/playing` or `promoteNext` puts up. The playlist has one track to be fetched, so that one `advance()` waits at a time; two moves are the skip that
begins the wait, or the end of the track, and what falls into it. The theorems are for any number. Two runs are one retired and one that retires it; two calls on two keys give
a key refused to one while the other uses it, and both cooling. An hour of 3 and a clock of 3 let a refused key come back.

**Deadlock** is not checked for rooms: a room that was rebooted, with nothing under way, is garbage and takes no step. Nor where the environment is bounded: pages, cards, players, listens, calls and broadcasts come to rest.

**Types.** The type invariants of gate, files, sessions, books, rooms, pages, AI, broadcast and player are proved for every instance and not run.

**Fairness.** The gate's `Spec` assumes every transfer settles (mtcute resolves or rejects). `FairSpec` of the room
assumes that timers fire, that time passes, and that every download, disposal, probe and recommendation settles one
way or the other, all weakly: the event loop runs what is due. Nothing is assumed of people, so `LeftAloneItMovesOn`
is conditional: *if* from some point on only the room itself acts.

`MediaFairness` asks only that something under way in one of the fetches goes on: a search or a listing ends, by its timeout at the latest (`playlist.ts:172`), archive, disk and Telegram answer, a process ends or is killed
after five minutes (`ytdlp.ts:91`), timers fire. Nothing is asked of people, the room or the button.

`Fairness` of the pages: sockets report what happened to them, the server handles what arrives, the heartbeat finds dead links, reconnect
timers fire, URLs come or fail; presses and faults are owed to nobody. `ChatFairness` and `KeysFairness`: calls of the model, of tools
and of Telegram return or throw, and timers fire. All weak, one per run, call, page or socket.

**Findings.** The five violated runs are disagreements between the code and what its own text says; `PROJECT.json`
quotes both. Others were met and have no run:

* `MAX_QUEUE_SIZE` is documented as the maximum of a room's queue (`README.md:125`), but a forced request bypasses the
  check (`RoomManager.ts:1245`) and the track it interrupts is put back into the queue as well.
* `ranking.ts:97-98` says that requesters are credited with tracks and others with time only; `tracksInc` is 1 for everybody and
  `isRequester` is read by nobody.
* A pause or resumption a second and a half after the last anchor differs from what the anchor expects, so `sync()` counts it as a jump and seeks
  (`media-engine.ts:18-21` says a jump is a seek, a track or a fresh connection).
* `attach()` empties `#buffering` without telling `onBuffering` (line 120), whose comment says it is told of every change (50-51).
* A gesture starts the picture while the sound is starved (366-376); `kicked` keeps the model's claim to the other cases.
* A request for a video whose URL cannot be made, or that is canceled while its sound comes from the archive, is over before the sound arrives; then nobody
  holds the file (`roomFlow.ts:538-543`). Autoplay forgets one likewise when it gives way (`RoomManager.ts:1815`), or when
  `enqueue()` throws `queue_full` (1853) in the full room that took the place of a rebooted one: the catch (1884) only logs. Pre-downloads forget another (1703), and so does a reboot.
* Cancel does not stop the process that lists a playlist: `ytdlpPlaylist()` looks at the signal once, before it spawns (`playlist.ts:163-193`), so it runs until it ends or its time is up.
* `/skip` onto a playlist track that has no file tells the old card "skipped" at once, while `advance()` waits (`RoomManager.ts:1741`) and the old track is still current. A pause or resumption in the
  meantime repaints that card Now Playing (`roomCards.ts:50-79`), and `onAdvance('skip')`, when the file is there, edits no card: it claims to play for ever.
* Play Now in that wait starts a track which the continuation replaces; `onAdvance()` tells the card of the track that was current before (`roomCards.ts:202`), so the forced one's card goes on claiming.
* `recordTrackListen()` throws when the write of the level fails (`ranking.ts:159`), after the listen was counted: the milestone it reached is never told.
* `abort()` does not reach the archive: a canceled request waits for a transfer it will throw away (`acquire.ts:37`).
* `spawnYtdlp()` never looks at the exit code (147-153): what a failed process left in the directory counts as the file, is played and archived.
* A rank looked up while the own row moves may count oneself ahead of oneself; a reset during a listen leaves the collections apart.
* `aiMemory.ts`: a first read that fails caches an empty list, and the next save writes it over what was stored.

## 4. The proofs

For every set of tracks, callers, users, messages, keys and targets, and every value of the bounds, from the named assumptions of
the modules only:

* `MediaProofs`, the gate. The inductive invariant is `GateInv`: the type, `CountsTransfers`, `QueueIsParked` and
  `NoIdleSlot` together. None of the four is inductive alone: handing over a slot keeps the count right only if the
  head of the queue is parked, the queue keeps its members distinct only if nobody parks twice, and a slot is never
  idle only if the count is what it seems. From it follow `GateTypeOK`, `GateCounts`, `GateQueue`, `GateNoIdleSlot`,
  the action property `GateStartsInOrder`, and `GateIsPool`: initial states map to initial states and each step to
  Take, GiveBack, HandOver or a stutter.
* `MediaProofs`, the files. `FilesInv` adds to the types what holds of every job (`Clean`) and of every fetch (`FileOK`): there is a directory exactly while the process
  may write to it and until it is removed, and what is over and not lost has failed, is doomed, or has no file. A doomed fetch is one that cannot succeed
  any more: a canceled job may be between two attempts, and it is the mark that keeps the next from starting. `JobGoesOn` reduces each step of a job to what the job has become. Theorems:
  `FilesTypes`, `FilesFollow`, `FilesCanceled`.
* `ListenerCreditProofs`. `CreditInv` joins the type, `WatchesTellTheTime`, `CreditIsEarned` and `FinishedIsCredited` with
  `TimeHasAnEntry`: time is counted only for users who have an entry, without which somebody owed a credit might not be
  looked at. The watches carry the other two: a credit compares `heard`, its justification `truly`, and they agree.
  Theorems: `CreditTypeOK`, `CreditWatches`, `CreditEarned`, `CreditFinished`.
* `RoomPlaybackProofs`, in layers. `TypeInv` adds to the type that an advance which waits for a download waits for a
  track. `PlaceInv` adds to `OnePlace` that whatever is in the room was requested, without which a fresh request could
  double a track; the same case analysis yields `Stays`, the body of `GoneForGood`. `TimerInv` joins `TimerMeetsTheEnd` with
  `NeverStuck`; its steps come down to one lemma, that `scheduleEnd` leaves the timer at `Scheduled`. The pause needs
  the type and its own statement only. Theorems: `RoomTypeOK`, `RoomOnePlace`, `RoomGoneForGood`,
  `RoomTimerMeetsTheEnd`, `RoomNeverStuck`, `RoomPauseKeepsItsCause`.
* `RoomIsPlaylist`, the refinement: initial states map to initial states and each step to one of `Playlist` or a stutter. What is coming is split into the wait of one call and
  the waits of the others (`ComingSplit`, `ComingAfter`): that a track which arrives, or is given up, was coming once and is coming no more needs `OnePlace`, as a set of
  tracks would hide a second call waiting for the same one. `ListStep` has one step per action.
* The files of a room, on top of those. `RoomLeavesNoFile` looks at each way out of a room. `RoomMediaIsThere` and `RoomNoStrayFile` are stated for
  `Lazy = {}`, as the code does lose and leave files otherwise: then no advance ever waits for a download, so what is disposed of is what was
  current.
* `MediaEngineProofs`. `PlayerInv` joins the type with `FollowsShow` (the engine plays and splits as the newest snapshot does), `Good`
  (the two invariants, and a listener for gestures on the page whenever the engine believes in one) and `Anchored`: the anchor is near the
  clock of the snapshot the engine acted on. Without the last `NoChase` cannot be shown: an anchor left behind by one callback makes
  a jump of the next snapshot. Theorems: `PlayerInvariant`, `PlayerTypes`,
  `PlayerPictureWaits`, `PlayerIsHeard`, `PlayerNeverChases`.
* `ServicesProofs`, the broadcast. `CastInv` adds to the types `Sums` (what was counted, what is in hand and what is left make up the targets) and `Activity` (unless `overlapped`, who runs
  is active, at most one is collecting, and none while another runs), since whoever has collected becomes active unasked.
  Theorems: `CastInvariant`, `CastAccounted`, `CastActive`, `CastStops`.
* `ServicesProofs`, the AI. `ChatInv`: an answer that is being put in place, or is, has no tracked edit beside it and a stopped indicator. `KeysInv`: the cooldown of a refused key lasts its
  hour out, unless it was cut. Theorems: `ChatAnswerStays`, `KeysRevokedRests`.

* `RoomSyncProofs`. `Inv` joins the type and the four invariants of the run with what makes them inductive. Of each socket, `SocketOK`: nothing comes up
  a dead link, and only who waited for a URL was given one at the start. Of a page and its sockets: `Holds`, that an undoubled page has no second socket in use, and a control
  on its way (`Carries`) can only be on the one it knows; for a page is sent a close frame only by a room that told it the reason before (`Warned`), so that
  it is stopped when the frame comes and does not reconnect while the old socket is still being heard. `InOrder` and `Stored`: applied, on their way, in the outbox, in this order and
  increasing. `Believed`: the last presence under way, or what the room has if there is none, is the page's; presence agrees once
  the channel is empty. A step of a page is cut into the methods it calls by `Shaped`, the invariant in the middle of a step; a step of the server
  into `Follows`, what a server may do to a socket (send down, close, take from its queue), and `Keeping`. Theorems: `SyncInvariant`, `SyncTypeOK`,
  `SyncOneRoomPerUser`, `SyncRosterIsSockets`, `SyncControlsInOrder`, `SyncPresenceAgrees`.
* `RoomCardsProofs`. The two invariants speak of the quiet after everything arrived, so `CardsInv` says what they will come to while edits are on their way.
  `Sound`: a track is in the room once and with one card, a chain makes its message the live one only if the message is the card of that
  track, and a message that is not sent yet is nobody's. `Moving`, for a request that is not excused: a card that claims a track which is over has an edit
  or an `/end` on its way (`Pending`); a track whose message is not its card any more is claimed by the live card only, and claims nothing while it is queued
  (`IsLive`, `IsQuiet`), since an interruption would tell nobody. `Agreeing`: the message that is the live one, *or is about to be*, will in the end
  (`Final`, the last edit of its chain) offer what the room can do. The order of a chain is what makes this inductive: what arrives never changes `Final`, what a transport event
  or an advance appends is the new `Final`. What the room does and what its desk is told are lemmas of their own (`TurnsGood`, `ToldGood`, `PaintedGood`), put together
  per action. A call that waits is sound, `CallsOK`: what it will start is a known track of a playlist, which has no card, and the card of the track it will tell of is a message that there is, or will be. `AdvanceIs` cuts
  `advance()` in two: either it only takes a track off the queue (`ShiftKeeps`), or it does what it does without a wait (`AtOnce`). `SettlesGood` is the continuation:
  it starts its track whatever is current, and a card that it does not tell is excused or has something under way to it. Theorems: `CardsInvariant`, `CardsTypes`, `CardsMove`, `CardsButton`.
* `RankingProofs`. `RankInv` adds to the types `Numbered` (the counts handed back to a member's listens are all
  the numbers from what the row had to what it has, each once: so one listen, and no other, is handed each milestone), `Spared` (a member whom no reset has raced was quiet throughout it) and `BooksKept`: a
  collection has what the user's row has and what is owed to that row by listens in the middle, and more only where one failed. `BooksAgree` itself says nothing while a listen
  is under way, and is not inductive for that reason. Sums over finite sets, the level that a count pays for and the sorted board are defined by `SumFunction` and `CHOOSE`; that they exist, and
  are what they should be, is induction, which is done from a minimal counterexample: `WFMin` of the library takes sets and no operator. `RankIsPlace` is an action
  property: `BoardExists` gives a sorted board, and a count of those ahead is its position on any. Theorems: `RankInvariant`, `RankTypes`, `RankMilestonesOnce`,
  `RankLevelFollows`, `RankBooksAgree`, `RankPlaces`.

Every safety property of a passing run is a theorem. Only model-checked: the liveness properties `ParkedGetsIn`, `FetchesEnd`, `LeftAloneItMovesOn`,
`CatchesUp`, `ChatQuiets` and `CallsEnd`; liveness under fairness is out of the prover's reach.

## 5. Not modelled

Of `RoomManager.ts`: poses, chat, lights, group info and `recentTrack*`; `prefetchedMedia` is in `MediaFiles`. Poses, chat, gestures and lights
are relayed as they come. External programs (yt-dlp, Telegram, MongoDB, the model API) are outcomes.

* **Memories of the AI** (`aiMemory.ts`). One list per user, cached and written by whoever comes last. What holds of it is what `sanitizeList` builds in;
  what would be worth stating fails (see Findings).
* **Music sources, recommendations, links, tokens, settings, the relay**: stateless queries, or one read or write of a stored
  value; no steps that race.
* **The 3D lounge, the pages, the wording of cards and messages**: presentation, by far the most lines of the
  repository. Nothing in it is stated as a property.

Components and reasons are listed in `PROJECT.json`.

## 6. The plan

Done: gate, files (with the search before them), rooms, sessions, pages (`RoomSync`), cards, the AI's answers and keys, broadcast, player, books; proofs about all of them. Left:

1. The rooms and their files in one model: `HandsOver` and `RoomDisposes` of `MediaFiles` are `Enqueue` and the disposals of `RoomPlayback`, which now meet on paper only.
