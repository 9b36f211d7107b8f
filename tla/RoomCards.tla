------------------------------ MODULE RoomCards -----------------------------
(***************************************************************************)
(* The messages of one chat that speak of what its room plays: roomCards   *)
(* and roomCallbacks, the requests of roomFlow.ts that put them up, and     *)
(* queuedCards.ts (playeon-bot/src/services/room).                         *)
(*                                                                         *)
(* A request has a card, the message that says how it stands.  The track   *)
(* remembers it as statusMessageId, and the module remembers which message *)
(* is the live card.  Edits of a message that go through serialCardEdit()  *)
(* arrive in order; others, and messages being sent, arrive when they do.  *)
(*                                                                         *)
(* The room is RoomManager's as far as cards are told of it, with the wait  *)
(* of advance() for the file of a playlist's track, in which the old track *)
(* is still the current one.  Positions, timers and pauses of its own, and *)
(* what is prefetched when, are the business of RoomPlayback.              *)
(***************************************************************************)
EXTENDS Integers, Sequences, FiniteSets, Bags, SequencesExt

CONSTANTS
    Requests,    \* the cards of requests, by message id, a set of 1..MaxCards
    Playlists,   \* requests for a playlist: two tracks, the second without a card
    MaxCards,    \* bound: messages, 1..MaxCards
    QueueLimit,  \* config.room.maxQueue
    MaxMoves     \* bound: what people and the room do after the requests, and
                 \* how often Telegram refuses what it could have done

ASSUME CardsAssumption ==
    /\ {MaxCards, QueueLimit, MaxMoves} \subseteq Nat
    /\ Requests \subseteq 1..MaxCards /\ Playlists \subseteq Requests

VARIABLES
    asked,     \* per request: how far it is, and what a playlist saw of the room
    hall,      \* the room: current track, queue, playing
    card,      \* per message: what it says, of which track, its play button
    unfetched, \* tracks of playlists that have no file yet
    advances,  \* the advance() calls that wait for one: what was current, and what comes
    desk,      \* what the modules remember, and what Telegram was asked to do
    \* what the code does not record
    excused,   \* messages that may speak of a track that is not playing any more
    crossed,   \* the last transport event met a promotion on its way to another message
    moves      \* how many of MaxMoves there were

cardVars == <<asked, hall, unfetched, advances, card, desk, excused, crossed, moves>>
fetchVars == <<unfetched, advances>>

Cards == 1..MaxCards
NoCard == 0
NoTrack == [id |-> 0, card |-> NoCard]
TrackOf(r, withCard) == [id |-> r, card |-> IF withCard THEN r ELSE NoCard]
RestOf(r) == [id |-> MaxCards + r, card |-> NoCard]
Radio(c) == [id |-> -1 - moves, card |-> c]   \* a track that autoplay adds, by its move

Says(text, track, on) == [text |-> text, track |-> track, on |-> on]
Reads(text) == Says(text, 0, FALSE)   \* of the rest, nothing but the text matters
Blank == Reads("none")
Stands(pc) == [pc |-> pc, starts |-> FALSE, tracks |-> 1]
NobodysCard == [card |-> NoCard, track |-> 0]

CardsInit ==
    /\ asked = [r \in Requests |-> Stands("no")]
    /\ hall = [cur |-> NoTrack, queue |-> <<>>, playing |-> FALSE]
    /\ unfetched = {RestOf(r).id : r \in Requests} /\ advances = {}
    /\ card = [c \in Cards |-> Blank]
    /\ desk = [live |-> NobodysCard,              \* liveByChat
               shown |-> NoCard,                  \* playingByChat
               offer |-> [c \in Cards |-> 0],     \* queuedCards: message to track
               chain |-> [c \in Cards |-> <<>>],  \* cardEditChain: edits in order
               loose |-> EmptyBag,                \* edits outside of it
               sends |-> EmptyBag,                \* messages being sent
               ending |-> {}]                     \* live cards of end() under way
    /\ excused = {} /\ crossed = FALSE /\ moves = 0

----------------------------------------------------------------------------
(* roomCards.ts                                                            *)

Edit(c, says, then) == [card |-> c, says |-> says, then |-> then]
Chained(d, c, edit) == [d EXCEPT !.chain[c] = Append(@, edit)]
Loosely(d, edit) == [d EXCEPT !.loose = @ (+) SetToBag({edit})]
Sending(d, edit) == [d EXCEPT !.sends = @ (+) SetToBag({edit})]
Stopped(d) == [d EXCEPT !.live = NobodysCard, !.shown = NoCard]

\* paintRoomCard()
Painted(d, h) ==
    LET c == IF d.live.card # NoCard THEN d.live.card
             ELSE IF h.cur.card # NoCard THEN h.cur.card ELSE d.shown
        t == IF d.live.card # NoCard THEN d.live.track ELSE h.cur.id
    IN  IF h.cur = NoTrack THEN Stopped(d)
        ELSE IF c = NoCard THEN d
        ELSE Chained([d EXCEPT !.live = [card |-> c, track |-> t]], c,
                     Edit(c, Says("now", t, h.playing), "rest"))

\* promoteNext(), to its first await.
Promoted(d, next) ==
    LET says == Says("now", next.id, TRUE) IN
    IF next.card # NoCard THEN Chained(d, next.card, Edit(next.card, says, "begin"))
    ELSE Sending(d, Edit(NoCard, says, "begin"))

\* A slip: only the end of a track is told on its card.
AdvancedNatural(d, finished, next, reason) ==
    LET c == IF finished.card # NoCard THEN finished.card ELSE d.live.card
        told == IF reason # "natural" \/ finished = NoTrack \/ c = NoCard THEN d
                ELSE Chained(d, c, Edit(c, Reads(reason), "rest"))
        idle == [told EXCEPT !.live = NobodysCard]
    IN  IF next = NoTrack THEN Stopped(idle) ELSE Promoted(idle, next)

\* onAdvance(), as far as it tells of the end of a track, which a skip does not.
ToldOf(d, finished, reason) ==
    LET c == IF finished.card # NoCard THEN finished.card ELSE d.live.card
    IN  IF reason = "skip" \/ finished = NoTrack \/ c = NoCard THEN d
        ELSE Chained(d, c, Edit(c, Reads(reason), "rest"))

\* onAdvance()
Advanced(d, finished, next, reason) ==
    LET idle == [ToldOf(d, finished, reason) EXCEPT !.live = NobodysCard]
    IN  IF next = NoTrack THEN Stopped(idle) ELSE Promoted(idle, next)

----------------------------------------------------------------------------
(* RoomManager.ts, as the cards see it.  A place is a room and a desk.     *)

Place == [hall |-> hall, desk |-> desk]
Starts(h, t) == [h EXCEPT !.cur = t, !.playing = TRUE]

\* How advance() ends: the next track starts, if any, and onAdvance() is told.
Follows(pl, finished, next, reason) ==
    [hall |-> IF next = NoTrack THEN [pl.hall EXCEPT !.cur = NoTrack, !.playing = FALSE]
              ELSE Starts(pl.hall, next),
     desk |-> Advanced(pl.desk, finished, next, reason)]

\* advance(), beside the calls that wait.  The next track leaves the queue; when it has
\* no file, the rest waits for its download.
AwaitsFile == hall.queue # <<>> /\ Head(hall.queue).id \in unfetched
Call(reason) == [finished |-> hall.cur, next |-> Head(hall.queue), reason |-> reason]
Advance(reason, beside) ==
    LET next == IF hall.queue = <<>> THEN NoTrack ELSE Head(hall.queue)
        rest == IF hall.queue = <<>> THEN <<>> ELSE Tail(hall.queue)
        shifted == [Place EXCEPT !.hall.queue = rest]
        pl == IF AwaitsFile THEN shifted ELSE Follows(shifted, hall.cur, next, reason)
    IN  [hall |-> pl.hall, desk |-> pl.desk,
         advances |-> IF AwaitsFile THEN beside \cup {Call(reason)} ELSE beside]

\* forcePlay() of a track that is not in the queue any more, or was put in front of it.
Interrupt(pl, t, queue) ==
    LET rest == IF pl.hall.cur = NoTrack THEN queue ELSE <<pl.hall.cur>> \o queue
    IN  [hall |-> [Starts(pl.hall, t) EXCEPT !.queue = rest],
         desk |-> Advanced(pl.desk, pl.hall.cur, t, "postponed")]

Goes(pl) == hall' = pl.hall /\ desk' = pl.desk
GoesOn(pl) == Goes(pl) /\ advances' = pl.advances /\ UNCHANGED unfetched

\* Messages and unchained edits on their way, whose order to the rest is open.
Adrift == {desk.loose, desk.sends} # {EmptyBag} \/ desk.ending # {}

\* What is under way to a message, in its chain or outside of it, or by an /end.
Loose(d) == BagToSet(d.loose)
Pending(c, d) ==
    d.chain[c] # <<>> \/ (\E e \in Loose(d) : e.card = c) \/ c \in d.ending

\* Edits that will make another message the live one, be they late or not.
PromotingBeside(c) ==
    \/ \E d \in Cards \ {c} : \E e \in ToSet(desk.chain[d]) : e.then = "begin"
    \/ \E e \in Loose(desk) : e.then = "begin"

Moves == moves < MaxMoves /\ moves' = moves + 1

----------------------------------------------------------------------------
(* A request: performRoomPlay() and runRoomPlayback().                     *)

UnderWay(r) == asked[r].pc \in {"under way", "planned"}

\* The status message is up, and the track is looked for.
AsksFor(r) ==
    /\ asked[r].pc = "no"
    /\ asked' = [asked EXCEPT ![r].pc = "under way"]
    /\ card' = [card EXCEPT ![r] = Reads("preparing")]
    /\ UNCHANGED <<fetchVars, hall, desk, excused, crossed, moves>>

\* A playlist is there: how much of it fits, and whether its first track starts at
\* once, is decided before that track is downloaded.
Plans(r) ==
    LET busy == hall.cur # NoTrack
        fits == QueueLimit - Len(hall.queue) + IF busy THEN 0 ELSE 1
    IN
    /\ r \in Playlists /\ asked[r].pc = "under way" /\ fits > 0
    /\ asked' = [asked EXCEPT ![r] = [pc |-> "planned", starts |-> ~busy,
                                     tracks |-> IF fits > 1 THEN 2 ELSE 1]]
    /\ UNCHANGED <<fetchVars, hall, card, desk, excused, crossed, moves>>

\* pb:cancel, in time: the card goes.
Cancels(r) ==
    /\ UnderWay(r)
    /\ asked' = [asked EXCEPT ![r] = Stands("over")]
    /\ card' = [card EXCEPT ![r] = Reads("deleted")]
    /\ UNCHANGED <<fetchVars, hall, desk, excused, crossed, moves>>

Errs(d, r) == Loosely(d, Edit(r, Reads("error"), "rest"))

\* The search, the download or the queue's limit fails it.
Fails(r) ==
    /\ UnderWay(r)
    /\ asked' = [asked EXCEPT ![r] = Stands("over")]
    /\ desk' = Errs(desk, r)
    /\ UNCHANGED <<fetchVars, hall, card, excused, crossed, moves>>

\* enqueue(), once per track, and the card that says what came of it.  A limit
\* met by the second call makes an error of the request.
Enqueues(r, force) ==
    LET now == hall.cur = NoTrack \/ force
        t == TrackOf(r, r \notin Playlists \/ asked[r].starts \/ force)
        first == IF hall.cur = NoTrack THEN [Place EXCEPT !.hall = Starts(@, t)]
                 ELSE IF force THEN Interrupt(Place, t, hall.queue)
                 ELSE [Place EXCEPT !.hall.queue = Append(@, t)]
        full == asked[r].tracks > 1 /\ Len(first.hall.queue) >= QueueLimit
        both == IF asked[r].tracks > 1 /\ ~full
                THEN [first EXCEPT !.hall.queue = Append(@, RestOf(r))] ELSE first
        told == IF full THEN Errs(both.desk, r)
                ELSE Loosely(both.desk,
                        IF now THEN Edit(r, Says("now", r, TRUE), "begin")
                        ELSE Edit(r, Reads("queued"), "remember"))
    IN
    /\ asked[r].pc = IF r \in Playlists THEN "planned" ELSE "under way"
    /\ now \/ Len(hall.queue) < QueueLimit
    /\ asked' = [asked EXCEPT ![r] = Stands("over")]
    /\ Goes([both EXCEPT !.desk = told])
    /\ excused' = IF full THEN excused \cup {r} ELSE excused
    /\ UNCHANGED <<fetchVars, card, crossed, moves>>

\* triggerAutoplay() ends: with a card that said "downloading", or without one.
Autoplays ==
    /\ hall.cur = NoTrack /\ hall.queue = <<>> /\ Moves
    /\ \E c \in {NoCard} \cup {d \in Cards \ Requests : card[d] = Blank} :
        /\ card' = IF c = NoCard THEN card ELSE [card EXCEPT ![c] = Reads("preparing")]
        /\ hall' = Starts(hall, Radio(c))
        /\ desk' = Advanced(desk, NoTrack, Radio(c), "natural")
    /\ UNCHANGED <<fetchVars, asked, excused, crossed>>

----------------------------------------------------------------------------
(* Telegram does what it was asked, or refuses.                            *)

Shows(c, says) == card' = [card EXCEPT ![c] = says]
IsUp(c) == card[c].text \notin {"none", "deleted"}
Late(e) == e.says.text = "now" /\ e.says.track # hall.cur.id
Begun(d, c, t) == [d EXCEPT !.live = [card |-> c, track |-> t]]

\* A refused edit spares a card that claims to play.
Spared(c) == IF card[c].text = "now" THEN {c} ELSE {}

\* What came too late may leave its card, and the one whose place it takes.  So may
\* a second card for the track of the live one: the first is not told of any more.
Strays(e, c) ==
    LET displaced == IF e.then = "begin" THEN Cards \cap {desk.live.card} ELSE {}
    IN  IF Late(e) THEN {c} \cup displaced
        ELSE IF desk.live.track = e.says.track THEN displaced \ {c} ELSE {}

\* Telegram refuses, be it that it has to.
Refused(able) == IF able THEN Moves ELSE UNCHANGED moves

\* A slip: the chain of a message is forgotten while edits of it are under way.
AnyTurn(edits) == DOMAIN edits

\* serialCardEdit(): which of the edits of a message is under way.
InTurn(edits) == IF edits = <<>> THEN {} ELSE {1}

\* It is done.  promoteNext() goes on from there: a card that cannot be edited is
\* replaced by a new one.
ChainMoves(c) ==
    /\ \E i \in InTurn(desk.chain[c]) :
        LET e == desk.chain[c][i]
            rest == [desk EXCEPT !.chain[c] = RemoveAt(@, i)]
        IN
        \/ /\ IsUp(c)
           /\ Shows(c, e.says)
           /\ desk' = IF e.then = "begin" THEN Begun(rest, c, e.says.track) ELSE rest
           /\ excused' = excused \cup (Strays(e, c) \ IF rest.chain[c] = <<>> THEN {} ELSE {c})
           /\ UNCHANGED <<crossed, moves>>
        \/ /\ Refused(IsUp(c))
           /\ desk' = IF e.then = "begin"
                      THEN Sending(rest, Edit(NoCard, e.says, "begin"))
                      ELSE rest
           /\ excused' = excused \cup Spared(c)
           /\ crossed' = (crossed \/ (e.then = "begin" /\ rest.chain[c] # <<>>))
           /\ UNCHANGED card
    /\ UNCHANGED <<fetchVars, asked, hall>>

\* An edit outside of the chain is done, and its request or button goes on.
LooseMoves(e) ==
    LET rest == [desk EXCEPT !.loose = @ (-) SetToBag({e})] IN
    /\ \/ /\ IsUp(e.card) /\ Shows(e.card, e.says) /\ UNCHANGED moves
          /\ excused' = excused \cup Strays(e, e.card)
       \/ /\ Refused(IsUp(e.card)) /\ UNCHANGED card
          /\ excused' = excused \cup Spared(e.card) \cup Strays(e, e.card)
    /\ desk' = CASE e.then = "begin" -> Begun(rest, e.card, e.says.track)
                 [] e.then = "remember" -> [rest EXCEPT !.offer[e.card] = e.card]
                 [] OTHER -> rest
    /\ UNCHANGED <<fetchVars, asked, hall, crossed>>

\* A message is sent: the new card of promoteNext(), or that of /playing, which
\* takes the place of the cards before it.
SendMoves(e) ==
    LET rest == [desk EXCEPT !.sends = @ (-) SetToBag({e})]
        free == {c \in Cards \ Requests : card[c] = Blank}
        stale == IF e.then = "begin" THEN {} ELSE {desk.shown, desk.live.card} \ {NoCard}
    IN
    /\ \/ \E c \in free :
            /\ card' = [d \in Cards |-> IF d = c THEN e.says
                                        ELSE IF d \in stale THEN Reads("deleted")
                                        ELSE card[d]]
            /\ desk' = Begun([rest EXCEPT !.shown = IF e.then = "begin" THEN @ ELSE c],
                             c, e.says.track)
            /\ excused' = excused \cup Strays(e, c) \cup IF e.says.on = hall.playing THEN {} ELSE {c}
            /\ UNCHANGED moves
       \/ Refused(free # {}) /\ desk' = rest /\ UNCHANGED <<card, excused>>
    /\ UNCHANGED <<fetchVars, asked, hall, crossed>>

----------------------------------------------------------------------------
(* What the room does, and the buttons and commands of the chat.           *)

\* The current track is over.
TrackEnds ==
    /\ hall.cur # NoTrack /\ hall.playing /\ Moves
    /\ GoesOn(Advance("natural", advances))
    /\ UNCHANGED <<asked, card, excused, crossed>>

\* The card of the track, when another is taken for the live one.
Untold == {hall.cur.card} \ {desk.live.card, NoCard}

\* The current card and the live one, if they say that they play and nothing is under way
\* to them: the end of their track is not told.
StillClaims(d) == {c \in Cards \cap {hall.cur.card, desk.live.card} : card[c].text = "now" /\ ~Pending(c, d)}

\* /skip, by message, inline or to the AI: the live card is told in its chain.
SkipCommand ==
    /\ hall.cur # NoTrack /\ Moves
    /\ LET old == desk.live.card
           pl == Advance("skip", advances)
       IN  GoesOn(IF old = NoCard THEN pl
                ELSE [pl EXCEPT !.desk = Chained(@, old, Edit(old, Reads("skipped"), "rest"))])
    /\ excused' = excused \cup Untold
    /\ UNCHANGED <<asked, card, crossed>>

\* pr:skip on the live card, which is told outside of its chain.
SkipButton ==
    /\ hall.cur # NoTrack /\ desk.live.card # NoCard /\ Moves
    /\ LET old == desk.live.card
           pl == Advance("skip", advances)
       IN  GoesOn([pl EXCEPT !.desk = Loosely(@, Edit(old, Reads("skipped"), "rest"))])
    /\ excused' = excused \cup Untold
    /\ UNCHANGED <<asked, card, crossed>>

\* The skip of the web player, which no card is told of.
SkipOnTheWeb ==
    /\ hall.cur # NoTrack /\ Moves
    /\ GoesOn(Advance("skip", advances))
    /\ excused' = excused \cup (Cards \cap {hall.cur.card, desk.live.card})
    /\ UNCHANGED <<asked, card, crossed>>

\* The download that an advance() waits for is there: its track starts, whatever the
\* room plays by now, and the end of the track that was current before is told.
Downloaded(w) ==
    LET pl == Follows(Place, w.finished, w.next, w.reason) IN
    /\ w \in advances
    /\ Goes(pl)
    /\ advances' = advances \ {w} /\ unfetched' = unfetched \ {w.next.id}
    /\ excused' = excused \cup IF w.reason = "natural" /\ w.finished = hall.cur THEN {}
                              ELSE StillClaims(ToldOf(desk, w.finished, w.reason))
    /\ UNCHANGED <<asked, card, crossed, moves>>

\* It fails: advance() starts again, from the track that is current by now.
NotDownloaded(w) ==
    LET pl == Advance(w.reason, advances \ {w}) IN
    /\ w \in advances
    /\ GoesOn(pl)
    /\ excused' = excused \cup IF w.reason = "natural" THEN {} ELSE StillClaims(desk)
    /\ UNCHANGED <<asked, card, crossed, moves>>

\* prefetchNext() has fetched a track of the queue.
Prefetched ==
    /\ \E t \in ToSet(hall.queue) :
        t.id \in unfetched /\ unfetched' = unfetched \ {t.id}
    /\ UNCHANGED <<asked, hall, advances, card, desk, excused, crossed, moves>>

\* play(), pause() and seek(), from wherever: onTransport() paints the card.
Transport ==
    /\ hall.cur # NoTrack /\ Moves
    /\ \E on \in BOOLEAN :
        LET h == [hall EXCEPT !.playing = on] IN Goes([hall |-> h, desk |-> Painted(desk, h)])
    /\ crossed' = PromotingBeside(desk'.live.card)
    /\ UNCHANGED <<fetchVars, asked, card, excused>>

\* A button of a card that is not the live one any more: the card goes.
StaleButton(c) ==
    /\ card[c].text = "now" /\ c # desk.live.card /\ Moves
    /\ Shows(c, Reads("deleted"))
    /\ UNCHANGED <<fetchVars, asked, hall, desk, excused, crossed>>

InQueue(t) == {i \in DOMAIN hall.queue : hall.queue[i].id = t}
Without(t) == IF InQueue(t) = {} THEN {hall.queue} ELSE {RemoveAt(hall.queue, i) : i \in InQueue(t)}
Forgotten(d, c) == [d EXCEPT !.offer[c] = 0]

\* pq:play
PlayNow(c) ==
    LET t == desk.offer[c] IN
    /\ card[c].text = "queued" /\ Moves
    /\ IF t # 0 /\ InQueue(t) # {}
       THEN /\ \E i \in InQueue(t) :
                LET pl == Interrupt(Place, hall.queue[i], RemoveAt(hall.queue, i))
                IN  Goes([pl EXCEPT !.desk = Forgotten(@, c)])
            /\ UNCHANGED card
       ELSE /\ desk' = Forgotten(desk, c)
            /\ Shows(c, Reads("deleted"))
            /\ UNCHANGED hall
    /\ UNCHANGED <<fetchVars, asked, excused, crossed>>

\* pq:del, whether the track is still queued or not.
DeleteQueued(c) ==
    /\ card[c].text = "queued" /\ Moves
    /\ \E queue \in Without(desk.offer[c]) : hall' = [hall EXCEPT !.queue = queue]
    /\ desk' = Forgotten(desk, c)
    /\ Shows(c, Reads("deleted"))
    /\ UNCHANGED <<fetchVars, asked, excused, crossed>>

\* clearQueue(): no card is told.
ClearsQueue ==
    /\ hall.queue # <<>> /\ Moves
    /\ hall' = [hall EXCEPT !.queue = <<>>]
    /\ UNCHANGED <<fetchVars, asked, card, desk, excused, crossed>>

\* /end, up to the disposal it waits for.
Ends ==
    /\ hall.cur # NoTrack /\ Moves
    /\ hall' = [cur |-> NoTrack, queue |-> <<>>, playing |-> FALSE]
    /\ desk' = [desk EXCEPT !.ending = @ \cup {desk.live.card}]
    /\ excused' = excused \cup Untold
    /\ UNCHANGED <<fetchVars, asked, card, crossed>>

\* performRoomEnd() goes on, whatever was started meanwhile.
Ended(c) ==
    /\ c \in desk.ending
    /\ LET d == Stopped([desk EXCEPT !.ending = @ \ {c}])
       IN  desk' = IF c = NoCard THEN d
                   ELSE Chained(d, c, Edit(c, Reads("ended"), "rest"))
    /\ excused' = excused \cup ({desk.live.card} \ {c, NoCard})
    /\ UNCHANGED <<fetchVars, asked, hall, card, crossed, moves>>

\* /playing
ShowsPlaying ==
    /\ hall.cur # NoTrack /\ Moves
    /\ LET t == IF desk.live.card # NoCard THEN desk.live.track ELSE hall.cur.id
       IN  desk' = Sending(desk, Edit(NoCard, Says("now", t, hall.playing), "show"))
    /\ UNCHANGED <<fetchVars, asked, hall, card, excused, crossed>>

CardsNext ==
    \/ \E r \in Requests : AsksFor(r) \/ Plans(r) \/ Cancels(r) \/ Fails(r) \/ \E force \in BOOLEAN : Enqueues(r, force)
    \/ Autoplays \/ TrackEnds \/ SkipCommand \/ SkipButton \/ SkipOnTheWeb \/ Transport
    \/ ClearsQueue \/ Ends \/ ShowsPlaying \/ Prefetched
    \/ \E w \in advances : Downloaded(w) \/ NotDownloaded(w)
    \/ \E c \in Cards : \/ ChainMoves(c) \/ StaleButton(c) \/ PlayNow(c) \/ DeleteQueued(c)
    \/ \E c \in {NoCard} \cup Cards : Ended(c)
    \/ \E e \in Loose(desk) : LooseMoves(e)
    \/ \E e \in BagToSet(desk.sends) : SendMoves(e)

CardsSpec == CardsInit /\ [][CardsNext]_cardVars

----------------------------------------------------------------------------

AllArrived == ~Adrift /\ \A c \in Cards : desk.chain[c] = <<>>

\* A card that says Now Playing speaks of the track that is playing.
CardsMoveOn ==
    AllArrived => \A c \in Requests \ excused : card[c].text = "now" => card[c].track = hall.cur.id

\* The button of the live card offers what the room can do.
ButtonAgrees ==
    LET c == desk.live.card IN
    (/\ AllArrived /\ ~crossed
     /\ c \notin {NoCard} \cup excused /\ desk.live.track = hall.cur.id /\ card[c].text = "now")
    => card[c].on = hall.playing

\* "A postponed track's card has to stop claiming it is playing", when nothing
\* was refused and nothing came late.
PostponedStopsClaiming ==
    AllArrived /\ excused = {} =>
        \A i \in DOMAIN hall.queue : \A c \in Cards :
            hall.queue[i].card # NoCard /\ card[c].text = "now"
                => card[c].track # hall.queue[i].id

=============================================================================
