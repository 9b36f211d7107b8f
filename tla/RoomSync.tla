------------------------------ MODULE RoomSync ------------------------------
(***************************************************************************)
(* How an open page follows a room: RoomStore of the web player            *)
(* (playeon-web/src/lib/room-store.ts) at one end of its sockets, the      *)
(* connections of services/room/server.ts and RoomManager at the other.    *)
(*                                                                         *)
(* A page opens sockets one after the other, and in the end one too many;  *)
(* the room has an entry per connection, and a user is in one room at a    *)
(* time.  Between the two run two channels per socket, in order, until the *)
(* link dies; each end learns of that by itself.                           *)
(*                                                                         *)
(* What a snapshot says is `ver`, which grows with every change the room   *)
(* tells of; `rev` is the counter the code numbers its snapshots with.  A  *)
(* track in "split" mode is played from a URL that every connection has to *)
(* be minted (config.room.perParticipantVideoUrl), without which it is     *)
(* sent no snapshot.                                                       *)
(***************************************************************************)
EXTENDS Integers, Sequences, FiniteSets, SequencesExt

CONSTANTS
    Pages,        \* open pages, each a RoomStore
    Rooms,
    Users,
    RoomOf,       \* the room a page was opened for
    UserOf,       \* the user who opened it
    MaxSockets,   \* bound: sockets that exist at a time, 1..MaxSockets
    MaxEvents     \* bound: changes, buttons, toggles and faults

ASSUME SyncAssumption ==
    /\ Pages # {} /\ RoomOf \in [Pages -> Rooms] /\ UserOf \in [Pages -> Users]
    /\ {MaxSockets, MaxEvents} \subseteq Nat
    /\ MaxSockets > 0

VARIABLES
    page,     \* per page: the fields of its RoomStore
    sock,     \* per socket: both ends, the link and what it carries
    roster,   \* sockets that are connections of their room
    room,     \* per room: rev, ver, and the split track that plays (or Plain)
    userRoom, \* RoomManager.userRoom
    mints,    \* refreshParticipantVideo() calls under way: <<socket, track>>
    \* what the code does not record
    applied,  \* controls in the order the rooms applied them
    spent     \* how many of MaxEvents there were

vars == <<page, sock, roster, room, userRoom, mints, applied, spent>>

Sockets == 1..MaxSockets
NoSocket == 0
Plain == 0                 \* nothing plays, or a track whose URL is everybody's
NoRoom == "none"

\* A socket nobody holds: the page's end, the server's end, the link between.
Unused(p) == [page |-> p, client |-> "closed", server |-> "closed", link |-> FALSE,
              down |-> <<>>, up |-> <<>>, preset |-> Plain, url |-> Plain, present |-> TRUE,
              missed |-> FALSE]   \* something was said before the server listened

Init ==
    /\ page = [p \in Pages |->
                [cur |-> NoSocket, state |-> "unstarted", rev |-> 0, shown |-> 0,
                 timers |-> 0, handle |-> FALSE, present |-> TRUE,
                 outbox |-> <<>>, late |-> 0,   \* how many of its entries are too old
                 doubled |-> FALSE]]   \* it opened a socket while it had one
    /\ sock = [s \in Sockets |-> Unused(CHOOSE p \in Pages : TRUE)]
    /\ roster = {} /\ mints = {}
    /\ room = [g \in Rooms |-> [rev |-> 0, ver |-> 1, track |-> Plain]]
    /\ userRoom = [u \in Users |-> NoRoom]
    /\ applied = <<>>
    /\ spent = 0

Home(s) == RoomOf[sock[s].page]
Owner(s) == UserOf[sock[s].page]
In(R, g) == {s \in R : Home(s) = g}
Of(R, u) == {s \in R : Owner(s) = u}

May == spent < MaxEvents
Spend == spent' = spent + 1

----------------------------------------------------------------------------
(* The page.  A store is a pair of its fields and the sockets, so that the *)
(* methods below can call each other.                                      *)

Closed(reason) == [type |-> "closed", reason |-> reason]
CloseFrame == [type |-> "close"]
Control(n) == [type |-> "control", id |-> n]
Presence(on) == [type |-> "presence", on |-> on]

Tell(sk, who, msg) ==
    [s \in Sockets |-> IF s \in who /\ sk[s].link
                       THEN [sk[s] EXCEPT !.down = Append(@, msg)] ELSE sk[s]]
Ask(sk, s, msg) == IF sk[s].link THEN [sk EXCEPT ![s].up = Append(@, msg)] ELSE sk
Hangs(sk, s) == [Ask(sk, s, CloseFrame) EXCEPT ![s].client = "closing"]   \* close()

\* Sockets that both ends are done with, so that their number may be used again.
Garbage(sk) == {s \in Sockets : /\ sk[s].client = "closed" /\ sk[s].server = "closed"
                                /\ s \notin roster /\ \A t \in mints : t[1] # s}

IsOpen(st) == st.pg.cur # NoSocket /\ st.sk[st.pg.cur].client = "open"
IsAlive(st) == st.pg.cur # NoSocket /\ st.sk[st.pg.cur].client \in {"open", "connecting"}

\* A slip: the rev of the last socket is kept.
ConnectKeepingRev(st, p) ==
    IF st.pg.state # "running" \/ Garbage(st.sk) = {} THEN st
    ELSE LET s == CHOOSE t \in Garbage(st.sk) : TRUE
         IN  [pg |-> [st.pg EXCEPT !.cur = s, !.doubled = @ \/ IsAlive(st)],
              sk |-> [st.sk EXCEPT ![s] = [Unused(p) EXCEPT !.client = "connecting",
                                                            !.link = TRUE]]]

\* #connect(): the socket the page had is dropped as it is, and rev starts over.
Connect(st, p) ==
    IF st.pg.state # "running" \/ Garbage(st.sk) = {} THEN st
    ELSE LET s == CHOOSE t \in Garbage(st.sk) : TRUE
         IN  [pg |-> [st.pg EXCEPT !.cur = s, !.rev = 0, !.doubled = @ \/ IsAlive(st)],
              sk |-> [st.sk EXCEPT ![s] = [Unused(p) EXCEPT !.client = "connecting",
                                                            !.link = TRUE]]]

\* #scheduleReconnect(): the timer that may be pending already is not cleared.
ScheduleReconnect(st) ==
    IF st.pg.state # "running" THEN st
    ELSE [st EXCEPT !.pg.timers = @ + 1, !.pg.handle = TRUE]

\* clearTimeout(#reconnectTimer), which forgets the timers set before it.
ClearTimer(st) ==
    IF st.pg.handle
    THEN [st EXCEPT !.pg.timers = @ - 1, !.pg.handle = FALSE] ELSE st

ReviveNow(st, p) ==
    IF st.pg.state # "running" \/ IsAlive(st) THEN st
    ELSE Connect(ClearTimer(st), p)

\* send(): only controls wait for a socket, the rest is lost without one.
Send(st, p, msg) ==
    IF IsOpen(st) THEN [st EXCEPT !.sk = Ask(@, st.pg.cur, msg)]
    ELSE IF msg.type = "control"
    THEN ReviveNow([st EXCEPT !.pg.outbox = Append(@, msg)], p)
    ELSE st

\* What flushOutbox() sends again, each message by send().
Fresh(st) == SubSeq(st.pg.outbox, st.pg.late + 1, Len(st.pg.outbox))
AskAll(sk, s, msgs) == IF sk[s].link THEN [sk EXCEPT ![s].up = @ \o msgs] ELSE sk

\* A slip: what was sent stays in the outbox.
FlushOutboxKept(st, p) ==
    IF IsOpen(st) THEN [st EXCEPT !.sk = AskAll(@, st.pg.cur, Fresh(st))] ELSE st

FlushOutbox(st, p) ==
    LET emptied == [st EXCEPT !.pg.outbox = <<>>, !.pg.late = 0]
        waiting == [st EXCEPT !.pg.outbox = Fresh(st), !.pg.late = 0]
    IN  IF Fresh(st) = <<>> THEN emptied
        ELSE IF IsOpen(st) THEN [emptied EXCEPT !.sk = AskAll(@, st.pg.cur, Fresh(st))]
        ELSE ReviveNow(waiting, p)

\* A socket that is closed at both ends is nobody's.
Swept(sk, connections) ==
    [s \in Sockets |-> IF /\ sk[s].client = "closed" /\ sk[s].server = "closed"
                          /\ s \notin connections
                       THEN Unused(CHOOSE p \in Pages : TRUE) ELSE sk[s]]

Store(p) == [pg |-> page[p], sk |-> sock]
Becomes(p, st) == page' = [page EXCEPT ![p] = st.pg] /\ sock' = Swept(st.sk, roster)

serverVars == <<roster, room, userRoom, mints, applied>>

\* start(), called once when the player is mounted.
Start(p) ==
    /\ page[p].state = "unstarted"
    /\ Garbage(sock) # {}
    /\ Becomes(p, Connect([Store(p) EXCEPT !.pg.state = "running"], p))
    /\ UNCHANGED <<serverVars, spent>>

\* The timeout of scheduleReconnect(), be it the one the page still knows.
TimerFires(p) ==
    /\ page[p].timers > 0 /\ Garbage(sock) # {}
    /\ \E known \in BOOLEAN :
        /\ IF known THEN page[p].handle ELSE page[p].timers > IF page[p].handle THEN 1 ELSE 0
        /\ Becomes(p, Connect([Store(p) EXCEPT !.pg.timers = @ - 1,
                                               !.pg.handle = @ /\ ~known], p))
    /\ UNCHANGED <<serverVars, spent>>

\* The server took the socket, whatever became of it there.
Accepted(s) == sock[s].server # "closed" \/ sock[s].down # <<>>

\* A slip: the presence is not told to a new socket.
OpensSilently(s) ==
    LET p == sock[s].page IN
    /\ sock[s].client = "connecting" /\ sock[s].link /\ Accepted(s)
    /\ Becomes(p, FlushOutbox([Store(p) EXCEPT !.sk[s].client = "open"], p))
    /\ UNCHANGED <<serverVars, spent>>

\* socket.onopen
Opens(s) ==
    LET p == sock[s].page IN
    /\ sock[s].client = "connecting" /\ sock[s].link /\ Accepted(s)
    /\ LET opened == [Store(p) EXCEPT !.sk[s].client = "open"]
       IN  Becomes(p, FlushOutbox(Send(opened, p, Presence(page[p].present)), p))
    /\ UNCHANGED <<serverVars, spent>>

\* #receive() of what arrived on an open socket: snapshots, and the end.
Receives(s) ==
    LET p == sock[s].page  msg == Head(sock[s].down)
        got == [Store(p) EXCEPT !.sk[s].down = Tail(@)]
    IN
    /\ sock[s].client = "open" /\ sock[s].down # <<>>
    /\ \/ /\ msg.type = "snapshot"
          /\ Becomes(p, IF msg.rev < page[p].rev THEN got
                        ELSE [got EXCEPT !.pg.rev = msg.rev, !.pg.shown = msg.ver])
       \/ /\ msg.type = "closed"
          /\ LET stopped == [ClearTimer(got) EXCEPT !.pg.state = "stopped"]
             IN  Becomes(p, IF ~IsAlive(stopped) THEN stopped
                            ELSE [stopped EXCEPT !.sk = Hangs(@, page[p].cur)])
       \/ \* the closing handshake begins: the socket is closing, its end not yet told
          /\ msg.type = "close"
          /\ Becomes(p, [got EXCEPT !.sk = Hangs(@, s)])
    /\ UNCHANGED <<serverVars, spent>>

\* socket.onclose: the link died, or the closing handshake is over.  A socket
\* that destroy() disowned has no handler left.
Closes(s) ==
    LET p == sock[s].page
        gone == [Store(p) EXCEPT !.sk[s].client = "closed", !.sk[s].down = <<>>,
                                 !.pg.cur = IF @ = s THEN NoSocket ELSE @]
    IN
    /\ \/ sock[s].client \in {"connecting", "open"} /\ ~sock[s].link
       \/ sock[s].client = "closing" /\ (~sock[s].link \/ sock[s].server = "closed")
    /\ Becomes(p, ScheduleReconnect(gone))
    /\ UNCHANGED <<serverVars, spent>>

\* control(): a button of the player.
Presses(p) ==
    /\ page[p].state = "running" /\ May /\ Spend
    /\ Becomes(p, Send(Store(p), p, Control(<<p, spent + 1>>)))
    /\ UNCHANGED serverVars

\* OUTBOX_TTL_MS pass for the entries that wait longest.
Ages(p) ==
    /\ \E n \in page[p].late + 1 .. Len(page[p].outbox) :
            page' = [page EXCEPT ![p].late = n]
    /\ UNCHANGED <<sock, serverVars, spent>>

\* setPresent(), called by visibilitychange.
SetPresent(p) ==
    /\ page[p].state = "running" /\ May /\ Spend
    /\ LET on == ~page[p].present
           revived == IF on THEN ReviveNow(Store(p), p) ELSE Store(p)
       IN  Becomes(p, Send([revived EXCEPT !.pg.present = on], p, Presence(on)))
    /\ UNCHANGED serverVars

\* destroy(), called when the player is left.  It closes the socket it knows.
Destroy(p) ==
    LET s == page[p].cur
        forgotten == [ClearTimer(Store(p)) EXCEPT !.pg.state = "stopped", !.pg.cur = NoSocket]
    IN
    /\ page[p].state \in {"running", "stopped"}
    /\ May /\ Spend
    /\ Becomes(p, IF s = NoSocket THEN forgotten
                  ELSE [forgotten EXCEPT !.sk = Hangs(@, s)])
    /\ UNCHANGED serverVars

----------------------------------------------------------------------------
(* The server.  `srv` carries what addConnection() and its like change, so *)
(* that they can call each other.                                          *)

Server == [sk |-> sock, rm |-> room, roster |-> roster, userRoom |-> userRoom]
Serves(srv) ==
    /\ sock' = Swept(srv.sk, srv.roster) /\ room' = srv.rm /\ roster' = srv.roster /\ userRoom' = srv.userRoom


Exists(srv, g) == srv.rm[g].rev > 0

\* snapshotPayloadFor(): nothing for a connection without its URL.
MayBeTold(srv, s) ==
    /\ srv.sk[s].server = "joined"
    /\ srv.rm[Home(s)].track \in {Plain, srv.sk[s].url}

\* buildSnapshot() of each of `rooms`, sent to those of `who` that may be told.
SendSnapshot(srv, rooms, who) ==
    LET numbered == [srv EXCEPT !.rm = [g \in Rooms |->
            IF g \in rooms THEN [srv.rm[g] EXCEPT !.rev = @ + 1] ELSE srv.rm[g]]]
        Snapshot(g) == [type |-> "snapshot", rev |-> numbered.rm[g].rev,
                        ver |-> numbered.rm[g].ver]
        Gets(s) == s \in who /\ MayBeTold(numbered, s) /\ srv.sk[s].link
    IN  [numbered EXCEPT !.sk = [s \in Sockets |->
            IF Gets(s) THEN [srv.sk[s] EXCEPT !.down = Append(@, Snapshot(Home(s)))]
            ELSE srv.sk[s]]]

\* broadcast(), called when something of a room changed.
Broadcast(srv, rooms) ==
    SendSnapshot([srv EXCEPT !.rm = [g \in Rooms |->
                     IF g \in rooms THEN [srv.rm[g] EXCEPT !.ver = @ + 1] ELSE srv.rm[g]]],
                 rooms, {s \in srv.roster : Home(s) \in rooms})

\* A slip: the user is forgotten though another connection of theirs is left.
RemoveUser(srv, s) ==
    IF s \notin srv.roster THEN srv
    ELSE Broadcast([srv EXCEPT !.roster = @ \ {s},
                               !.userRoom[Owner(s)] = NoRoom], {Home(s)})

RemoveConnection(srv, s) ==
    IF s \notin srv.roster THEN srv
    ELSE LET left == [srv EXCEPT !.roster = @ \ {s}]
             still == In(Of(left.roster, Owner(s)), Home(s))
         IN  Broadcast([left EXCEPT !.userRoom[Owner(s)] =
                           IF still = {} /\ @ = Home(s) THEN NoRoom ELSE @], {Home(s)})

\* ws.close() after a last message, to those whose socket is still there.
Dismiss(sk, who, reason) ==
    LET told == Tell(Tell(sk, who, Closed(reason)), who, CloseFrame)
    IN  [s \in Sockets |-> IF s \in who /\ told[s].server = "joined"
                           THEN [told[s] EXCEPT !.server = "closing"] ELSE told[s]]

\* evictUser(), of each of `rooms` that a connection of the user is in.
EvictUser(srv, rooms, u) ==
    LET gone == {s \in Of(srv.roster, u) : Home(s) \in rooms}
    IN  IF gone = {} THEN srv
        ELSE Broadcast([srv EXCEPT !.roster = @ \ gone,
                                   !.sk = Dismiss(@, gone, "joined_elsewhere")],
                       {Home(s) : s \in gone})

\* addConnection(), which takes a user out of every other room first.
AddConnection(srv, s) ==
    LET moved == EvictUser(srv, Rooms \ {Home(s)}, Owner(s))
    IN  Broadcast([moved EXCEPT !.userRoom[Owner(s)] = Home(s),
                                !.roster = @ \cup {s}], {Home(s)})

\* onConnection() once it has its URL or needs none: the connection is added
\* and sent its first snapshot.  A socket that closed meanwhile is added too.
Joins(s, minted) ==
    LET now == room[Home(s)].track
        usable == minted /\ sock[s].preset = now
        here == [sock EXCEPT ![s].server = IF @ = "lost" THEN "closed" ELSE "joined",
                             ![s].url = IF usable THEN now ELSE Plain]
        added == AddConnection([Server EXCEPT !.sk = here], s)
    IN  /\ Serves(SendSnapshot(added, {Home(s)}, {s}))
        /\ mints' = IF now = Plain \/ usable THEN mints ELSE mints \cup {<<s, now>>}
        /\ UNCHANGED <<page, applied, spent>>

\* The upgrade, and onConnection() up to its await if there is one.
Accept(s) ==
    LET now == room[Home(s)].track IN
    /\ sock[s].client = "connecting" /\ sock[s].link /\ ~Accepted(s)
    /\ \/ now = Plain /\ Joins(s, FALSE)
       \/ /\ now # Plain
          /\ sock' = [sock EXCEPT ![s].server = "waiting", ![s].preset = now]
          /\ UNCHANGED <<page, serverVars, spent>>

PresetDone(s) ==
    /\ sock[s].server \in {"waiting", "lost"}
    /\ \E minted \in BOOLEAN : Joins(s, minted)

\* refreshParticipantVideo(), when the URL is there or cannot be had.
MintDone(t) ==
    LET s == t[1] IN
    /\ t \in mints /\ mints' = mints \ {t}
    /\ \E minted \in BOOLEAN :
        IF minted /\ s \in roster /\ room[Home(s)].track = t[2]
        THEN Serves(SendSnapshot([Server EXCEPT !.sk[s].url = t[2]], {Home(s)}, {s}))
        ELSE UNCHANGED <<sock, room, roster, userRoom>>
    /\ UNCHANGED <<page, applied, spent>>

\* A slip: the close of a socket does not reach the room.
CloseUnheard(srv, s) ==
    [srv EXCEPT !.sk[s].up = <<>>,
                !.sk[s].server = IF @ \in {"waiting", "lost"} THEN "lost" ELSE "closed"]

\* The close event of a connection the server listens to, and of one it does not yet.
CloseOf(srv, s) ==
    LET was == srv.sk[s].server
        shut == [srv EXCEPT !.sk[s].up = <<>>,
                   !.sk[s].server = IF @ \in {"waiting", "lost"} THEN "lost" ELSE "closed"]
    IN  IF was = "joined" THEN RemoveConnection(shut, s) ELSE shut

\* ws.on('message') and ws.on('close').  Before the handlers are there, a
\* message is lost; after evictUser() a control still reaches the room.
Hears(s) ==
    LET msg == Head(sock[s].up)
        taken == [Server EXCEPT !.sk[s].up = Tail(@)]
        listening == sock[s].server \in {"joined", "closing"}
    IN
    /\ sock[s].server \in {"waiting", "joined", "closing"} /\ sock[s].up # <<>>
    /\ \/ msg.type = "close" /\ Serves(CloseOf(taken, s)) /\ UNCHANGED <<applied>>
       \/ /\ msg.type # "close" /\ ~listening
          /\ Serves([taken EXCEPT !.sk[s].missed = TRUE]) /\ UNCHANGED applied
       \/ /\ msg.type = "control" /\ listening 
          /\ IF Exists(Server, Home(s))
             THEN Serves(Broadcast(taken, {Home(s)})) /\ applied' = Append(applied, msg.id)
             ELSE Serves(taken) /\ UNCHANGED applied
       \/ /\ msg.type = "presence" /\ listening
          /\ IF s \in roster /\ sock[s].present # msg.on
             THEN Serves(Broadcast([taken EXCEPT !.sk[s].present = msg.on], {Home(s)}))
             ELSE Serves(taken)
          /\ UNCHANGED <<applied>>
    /\ UNCHANGED <<page, mints, spent>>

\* A dead link shows as the close event of the transport, or as a ping that
\* is not answered before the next heartbeat.
Notices(s) ==
    /\ ~sock[s].link /\ sock[s].server \in {"waiting", "joined", "closing"}
    /\ Serves(CloseOf(Server, s))
    /\ UNCHANGED <<page, mints, applied, spent>>

\* While onConnection() waits nobody hears the answers to the pings: when it
\* waits for two of them the heartbeat terminates a socket that is well.
Terminate(s) ==
    /\ sock[s].link /\ sock[s].server = "waiting" /\ May /\ Spend
    /\ Serves(CloseOf([Server EXCEPT !.sk[s].link = FALSE, !.sk[s].down = <<>>], s))
    /\ UNCHANGED <<page, mints, applied>>

----------------------------------------------------------------------------
(* What others do to the rooms, and what goes wrong.                       *)

\* Anything that ends in broadcast(); a track that starts forgets the URLs.
Change(g) ==
    /\ May /\ Spend
    /\ \/ Serves(Broadcast(Server, {g})) /\ UNCHANGED mints
       \/ \E split \in BOOLEAN :
            LET next == IF split THEN room[g].ver + 1 ELSE Plain
                fresh == [sk |-> [s \in Sockets |-> IF s \in In(roster, g)
                                    THEN [sock[s] EXCEPT !.url = Plain] ELSE sock[s]],
                          rm |-> [room EXCEPT ![g].track = next],
                          roster |-> roster, userRoom |-> userRoom]
            IN  /\ Serves(Broadcast(fresh, {g}))
                /\ mints' = mints \cup (IF split THEN In(roster, g) \X {next} ELSE {})
    /\ UNCHANGED <<page, applied>>

\* The network loses a link, or the server could not be reached.
Drop(s) ==
    /\ sock[s].link /\ sock[s].client # "closed" /\ May
    /\ sock' = [sock EXCEPT ![s].link = FALSE, ![s].down = <<>>, ![s].up = <<>>]
    /\ Spend
    /\ UNCHANGED <<page, serverVars>>

\* reboot(): everybody is sent away and the room forgotten.
Reboot(g) ==
    /\ Exists(Server, g) /\ May /\ Spend
    /\ Serves([sk |-> Dismiss(sock, In(roster, g), "rebooted"), userRoom |-> userRoom,
               rm |-> [room EXCEPT ![g] = [rev |-> 0, ver |-> @.ver + 1, track |-> Plain]],
               roster |-> roster \ In(roster, g)])
    /\ UNCHANGED <<page, mints, applied>>

\* The bot restarts, by shutdown() with a close frame to everybody, or killed.
Restart(graceful) ==
    /\ May /\ Spend
    /\ LET heard == IF graceful THEN Tell(sock, roster, CloseFrame) ELSE sock
           lost == IF graceful THEN Sockets \ roster ELSE Sockets
       IN  sock' = Swept([s \in Sockets |->
                    [heard[s] EXCEPT !.server = "closed", !.up = <<>>,
                                     !.link = @ /\ s \notin lost,
                                     !.down = IF s \in lost THEN <<>> ELSE @]], {})
    /\ roster' = {} /\ mints' = {} 
    /\ room' = [g \in Rooms |-> [rev |-> 0, ver |-> room[g].ver + 1, track |-> Plain]]
    /\ userRoom' = [u \in Users |-> NoRoom]
    /\ UNCHANGED <<page, applied>>

PageStep(p) == Start(p) \/ TimerFires(p) \/ Presses(p) \/ Ages(p) \/ SetPresent(p) \/ Destroy(p)
BrowserStep(s) == Opens(s) \/ Receives(s) \/ Closes(s)
ServerStep(s) == Accept(s) \/ PresetDone(s) \/ Hears(s) \/ Notices(s)

Next ==
    \/ \E p \in Pages : PageStep(p)
    \/ \E s \in Sockets : BrowserStep(s) \/ ServerStep(s) \/ Terminate(s) \/ Drop(s)
    \/ \E t \in mints : MintDone(t)
    \/ \E g \in Rooms : Change(g) \/ Reboot(g)
    \/ \E graceful \in BOOLEAN : Restart(graceful)

Spec == Init /\ [][Next]_vars

\* Links deliver, timers fire, promises settle, and a heartbeat finds dead links.  What
\* people and faults do is not owed to anybody.
Fairness ==
    /\ \A p \in Pages : WF_vars(TimerFires(p))
    /\ \A s \in Sockets : WF_vars(BrowserStep(s)) /\ WF_vars(ServerStep(s))
    /\ WF_vars(\E t \in mints : MintDone(t))

----------------------------------------------------------------------------

Controls == [type : {"control"}, id : Pages \X (1..MaxEvents)]
Upward == {CloseFrame} \cup Controls \cup [type : {"presence"}, on : BOOLEAN]
Downward == {CloseFrame} \cup [type : {"closed"}, reason : {"joined_elsewhere", "rebooted"}]
                \cup [type : {"snapshot"}, rev : Nat, ver : Nat]

PageType ==
    [cur : {NoSocket} \cup Sockets, state : {"unstarted", "running", "stopped"}, rev : Nat,
     shown : Nat, timers : Nat, handle : BOOLEAN, present : BOOLEAN, outbox : Seq(Controls),
     late : Nat, doubled : BOOLEAN]

SocketType ==
    [page : Pages, client : {"connecting", "open", "closing", "closed"},
     server : {"waiting", "lost", "joined", "closing", "closed"}, link : BOOLEAN,
     down : Seq(Downward), up : Seq(Upward), preset : Nat, url : Nat, present : BOOLEAN,
     missed : BOOLEAN]

\* The types, and that a page holds a socket of its own that is not closed, a
\* timer if it has the handle of one, and no more old entries than entries.
TypeOK ==
    /\ page \in [Pages -> PageType] /\ sock \in [Sockets -> SocketType]
    /\ \A p \in Pages :
        /\ page[p].cur # NoSocket
              => sock[page[p].cur].page = p /\ sock[page[p].cur].client # "closed"
        /\ page[p].handle => page[p].timers > 0
        /\ page[p].late <= Len(page[p].outbox)
    /\ roster \subseteq Sockets
    /\ mints \subseteq Sockets \X Nat
    /\ room \in [Rooms -> [rev : Nat, ver : Nat, track : Nat]]
    /\ userRoom \in [Users -> Rooms \cup {NoRoom}]
    /\ applied \in Seq(Pages \X (1..MaxEvents))
    /\ spent \in 0..MaxEvents

\* A user is in one room at a time, the one userRoom names: the connection they
\* opened last wins, also when it waited for its URL while another came and went.
OneRoomPerUser ==
    \A s \in roster : userRoom[Owner(s)] = Home(s)

\* The connections of the rooms are the sockets the server listens to, whatever
\* close, eviction, reboot or restart came in between.  The one exception is a
\* socket that closed while onConnection() waited for its URL: nobody heard it.
RosterIsSockets ==
    /\ \A s \in roster : sock[s].server = "joined" \/ sock[s].preset # Plain
    /\ {s \in Sockets : sock[s].server = "joined"} \subseteq roster

\* The outbox is replayed without doubling or overtaking: what one page pressed
\* is applied at most once and in the order it was pressed, over any number of
\* sockets, as long as the page did not have two of them open.
ControlsInOrder ==
    \A i, j \in DOMAIN applied :
        i < j /\ applied[i][1] = applied[j][1] /\ ~page[applied[i][1]].doubled
            => applied[i][2] < applied[j][2]

Settled(p) ==
    LET s == page[p].cur IN
    /\ s # NoSocket /\ sock[s].link /\ sock[s].client = "open" /\ sock[s].server = "joined"
    /\ ~\E m \in ToSet(sock[s].up) : m.type = "presence"

\* What the room believes of a page's presence is what the page is, once nothing
\* about it is under way: changes made while the socket was down are told by the
\* next onopen.  Lost is what was said while the server did not listen yet.
PresenceAgrees ==
    \A p \in Pages : Settled(p) /\ ~sock[page[p].cur].missed
                        => sock[page[p].cur].present = page[p].present

\* The page's connection may be told what the room is doing.
Told(p) == page[p].cur # NoSocket /\ room[RoomOf[p]].track \in {Plain, sock[page[p].cur].url}

\* Whatever was lost, a page that was not sent away ends up a connection of its
\* room, and shows the room as it is unless its URL could not be had.
CatchesUp ==
    \A p \in Pages :
        <>[](page[p].state = "running" =>
                /\ page[p].cur \in roster
                /\ ~page[p].doubled /\ Told(p) => page[p].shown = room[RoomOf[p]].ver)

=============================================================================
