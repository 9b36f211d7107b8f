--------------------------- MODULE RoomSyncProofs ---------------------------
(***************************************************************************)
(* The pages and their rooms for any number of pages, users, rooms and     *)
(* sockets: types, one room per user, the roster against the sockets, the  *)
(* presence a room believes in, and the order of what is pressed.          *)
(***************************************************************************)
EXTENDS RoomSync, SequenceTheorems, TLAPS

\* The server still reads what comes up the socket, or will.
Hearing == {"waiting", "joined", "closing"}

\* A control is on its way and will be heard.
Carries(so) == so.server \in Hearing /\ \E i \in DOMAIN so.up : so.up[i].type = "control"

\* Nobody is sent a close frame by a room without having been told why.
Warned(so) ==
    \A j \in DOMAIN so.down : so.down[j].type = "close"
        => \E i \in DOMAIN so.down : i < j /\ so.down[i].type = "closed"

\* What the room will believe once it has heard what is on its way.
Believes(so, on) ==
    \/ so.present = on /\ \A i \in DOMAIN so.up : so.up[i].type # "presence"
    \/ \E i \in DOMAIN so.up :
        /\ so.up[i].type = "presence" /\ so.up[i].on = on
        /\ \A j \in DOMAIN so.up : j > i => so.up[j].type # "presence"

\* A socket by itself.
SocketOK(so) ==
    /\ ~so.link => so.up = <<>>
    /\ so.client = "connecting" => so.up = <<>>
    /\ so.server \in {"waiting", "lost"} => so.preset # Plain

\* A page and a socket s of its.
Holds(pg, so, s) ==
    /\ ~pg.doubled /\ so.client \in {"connecting", "open"} => pg.cur = s /\ pg.state = "running"
    /\ pg.state = "unstarted"
        => so.client = "closed" /\ so.server \notin Hearing /\ so.up = <<>>
    /\ pg.state = "running" /\ so.client = "closing" => so.server \notin Hearing
    /\ pg.state = "running" /\ so.server \in Hearing => Warned(so)
    /\ ~pg.doubled /\ pg.state = "running" /\ Carries(so) => pg.cur = s

\* What a page said of its presence.
Believed(pg, so) ==
    so.client = "open" /\ so.link /\ so.server \in {"waiting", "joined"} /\ ~so.missed
        => Believes(so, pg.present)

Increasing(msgs) ==
    \A i, j \in DOMAIN msgs : i < j /\ msgs[i].type = "control" /\ msgs[j].type = "control"
                                => msgs[i].id[2] < msgs[j].id[2]
\* All controls of the one sequence are older than all of the other.
Older(msgs, others) ==
    \A i \in DOMAIN msgs, j \in DOMAIN others :
        msgs[i].type = "control" /\ others[j].type = "control" => msgs[i].id[2] < others[j].id[2]
Done(done, p, msgs) ==
    \A i \in DOMAIN done, j \in DOMAIN msgs :
        done[i][1] = p /\ msgs[j].type = "control" => done[i][2] < msgs[j].id[2]
Signed(msgs, p, last) ==
    \A i \in DOMAIN msgs : msgs[i].type = "control" => msgs[i].id[1] = p /\ msgs[i].id[2] <= last

\* The controls of a page: applied, on their way by socket s, in the outbox.
InOrder(pg, so, p, done, last) ==
    /\ Signed(so.up, p, last)
    /\ ~pg.doubled /\ Carries(so) =>
        /\ Increasing(so.up) /\ Older(so.up, pg.outbox) /\ Done(done, p, so.up)

\* What a page has pressed and not sent, and who may carry what it sent.
Stored(pg, sk, p, done, last) ==
    /\ Signed(pg.outbox, p, last) /\ Increasing(pg.outbox)
    /\ pg.state = "unstarted" => pg.cur = NoSocket /\ pg.outbox = <<>>
    /\ ~pg.doubled => Done(done, p, pg.outbox)
    /\ \A s, t \in Sockets :
        ~pg.doubled /\ sk[s].page = p /\ sk[t].page = p /\ Carries(sk[s]) /\ Carries(sk[t]) => s = t

\* An open socket leaves nothing in the outbox.
Quiet(pg, sk) ==
    ~pg.doubled /\ pg.cur # NoSocket /\ sk[pg.cur].client = "open" => pg.outbox = <<>>

\* The socket of a page knows of its presence, or will.
Heard(pg, sk) == pg.cur # NoSocket => Believed(pg, sk[pg.cur])

Kept(pg, sk, p, done, last) == Stored(pg, sk, p, done, last) /\ Quiet(pg, sk) /\ Heard(pg, sk)

PagesOK == \A p \in Pages : Kept(page[p], sock, p, applied, spent)
SocketsOK ==
    \A s \in Sockets : /\ SocketOK(sock[s]) /\ Holds(page[sock[s].page], sock[s], s)
                       /\ InOrder(page[sock[s].page], sock[s], sock[s].page, applied, spent)
AppliedOK == \A i \in DOMAIN applied : applied[i][2] <= spent

RosterOK(sk, connections, rooms) ==
    /\ \A s \in connections :
        /\ sk[s].server = "joined" \/ sk[s].preset # Plain
        /\ rooms[UserOf[sk[s].page]] = RoomOf[sk[s].page]
    /\ \A s \in Sockets : sk[s].server = "joined" => s \in connections

Inv ==
    /\ TypeOK /\ PagesOK /\ SocketsOK /\ AppliedOK /\ ControlsInOrder
    /\ RosterOK(sock, roster, userRoom)

----------------------------------------------------------------------------
(* Sockets.                                                                *)

\* A socket nobody holds is a socket, and satisfies what is asked of one.
LEMMA UnusedOK ==
    ASSUME NEW p \in Pages, NEW pg, NEW s, NEW done, NEW last
    PROVE  /\ Unused(p) \in SocketType /\ Unused(p).page = p /\ ~Carries(Unused(p))
           /\ SocketOK(Unused(p)) /\ Holds(pg, Unused(p), s)
           /\ InOrder(pg, Unused(p), p, done, last)
           /\ Unused(p).client = "closed" /\ Unused(p).server = "closed"
<1>1. Unused(p) \in SocketType
  BY DEF Unused, SocketType, Plain
<1>2. /\ Unused(p).page = p /\ Unused(p).client = "closed" /\ Unused(p).server = "closed"
      /\ Unused(p).up = <<>>
  BY DEF Unused
<1>3. ~Carries(Unused(p)) /\ SocketOK(Unused(p))
  BY <1>2 DEF Carries, SocketOK, Hearing
<1>4. Holds(pg, Unused(p), s)
  BY <1>2, <1>3 DEF Holds, Hearing
<1>5. InOrder(pg, Unused(p), p, done, last)
  BY <1>2, <1>3 DEF InOrder, Signed
<1>. QED
  BY <1>1, <1>2, <1>3, <1>4, <1>5

\* A fresh one of a page that connects.
Opening(p) == [Unused(p) EXCEPT !.client = "connecting", !.link = TRUE]

\* What a sweep leaves of the sockets.
LEMMA SweptOK ==
    ASSUME SyncAssumption, NEW sk \in [Sockets -> SocketType], NEW connections
    PROVE  /\ Swept(sk, connections) \in [Sockets -> SocketType]
           /\ \A s \in Sockets :
                \/ Swept(sk, connections)[s] = sk[s]
                \/ /\ sk[s].client = "closed" /\ sk[s].server = "closed" /\ s \notin connections
                   /\ \E c \in Pages : Swept(sk, connections)[s] = Unused(c)
<1>1. (CHOOSE p \in Pages : TRUE) \in Pages
  BY SyncAssumption DEF SyncAssumption
<1>2. Unused(CHOOSE p \in Pages : TRUE) \in SocketType
  BY <1>1, UnusedOK
<1>. QED
  BY <1>1, <1>2 DEF Swept

----------------------------------------------------------------------------
(* What a step of the server may do to a socket.                           *)

ServerType ==
    [sk : [Sockets -> SocketType], rm : [Rooms -> [rev : Nat, ver : Nat, track : Nat]],
     roster : SUBSET Sockets, userRoom : [Users -> Rooms \cup {NoRoom}]]

\* The socket b is the socket a, with more to read.
Informed(a, b) == b \in SocketType /\ b = [a EXCEPT !.down = b.down] /\ (Warned(a) => Warned(b))

\* The socket b is what is left of a after a step of the server or of the network.
Follows(a, b) ==
    /\ b.page = a.page /\ b.client = a.client
    /\ b.link => a.link
    /\ ~b.link => b.up = <<>>
    /\ b.up = a.up \/ b.up = <<>> \/ (a.up # <<>> /\ b.up = Tail(a.up))
    /\ b.server \in Hearing => a.server \in Hearing \/ a.client = "connecting"
    /\ b.server \in Hearing /\ (a.server \in Hearing => Warned(a)) => Warned(b)
    /\ b.server \in {"waiting", "lost"} => b.preset # Plain
    /\ a.client = "open" /\ b.link /\ b.server \in {"waiting", "joined"} /\ ~b.missed
        => /\ a.server \in {"waiting", "joined"} /\ ~a.missed
           /\ \A on \in BOOLEAN : Believes(a, on) => Believes(b, on)

\* Nothing follows more closely than the socket itself.
LEMMA FollowsSelf ==
    ASSUME NEW a \in SocketType, SocketOK(a)
    PROVE  Follows(a, a)
BY DEF Follows, SocketOK, SocketType

\* A snapshot changes nothing of what is said of a socket.
LEMMA ToldSnapshot ==
    ASSUME NEW a \in SocketType, NEW rev \in Nat, NEW ver \in Nat,
           NEW msg, msg = [type |-> "snapshot", rev |-> rev, ver |-> ver]
    PROVE  Informed(a, [a EXCEPT !.down = Append(@, msg)])
<1>. DEFINE b == [a EXCEPT !.down = Append(@, msg)]
<1>1. msg \in Downward /\ msg.type = "snapshot"
  BY DEF Downward
<1>2. a.down \in Seq(Downward)
  BY DEF SocketType
<1>3. b \in SocketType
  <2>1. Append(a.down, msg) \in Seq(Downward)
    BY <1>1, <1>2
  <2>. QED
    BY <2>1 DEF SocketType
<1>4. b.down = Append(a.down, msg) /\ b = [a EXCEPT !.down = b.down]
  BY DEF SocketType
<1>5. ASSUME Warned(a) PROVE Warned(b)
  BY SMTT(30), <1>1, <1>2, <1>4, <1>5 DEF Warned
<1>. QED
  BY <1>3, <1>4, <1>5 DEF Informed

\* Whoever follows may be told more.
LEMMA FollowsTold ==
    ASSUME NEW x \in SocketType, NEW a \in SocketType, NEW b, Follows(x, a), Informed(a, b)
    PROVE  Follows(x, b)
<1>1. /\ b.page = a.page /\ b.client = a.client /\ b.server = a.server /\ b.link = a.link
      /\ b.up = a.up /\ b.preset = a.preset /\ b.present = a.present /\ b.missed = a.missed
  BY DEF Informed, SocketType
<1>2. \A on \in BOOLEAN : Believes(a, on) <=> Believes(b, on)
  BY <1>1 DEF Believes
<1>3. Warned(a) => Warned(b)
  BY DEF Informed
<1>. QED
  BY <1>1, <1>2, <1>3 DEF Follows

\* To be told is to be told again.
LEMMA ToldTold ==
    ASSUME NEW a \in SocketType, NEW b, NEW c, Informed(a, b), Informed(b, c)
    PROVE  Informed(a, c)
BY DEF Informed, SocketType

\* A socket is told what it knows.
LEMMA ToldSelf == ASSUME NEW a \in SocketType PROVE Informed(a, a)
BY DEF Informed, SocketType

\* A server that is told things of changes its rooms and what is to be read.
LEMMA SnapshotTells ==
    ASSUME NEW srv \in ServerType, NEW rooms, NEW who, SyncAssumption,
           \A s \in Sockets : Home(s) \in Rooms
    PROVE  /\ SendSnapshot(srv, rooms, who) \in ServerType
           /\ SendSnapshot(srv, rooms, who).roster = srv.roster
           /\ SendSnapshot(srv, rooms, who).userRoom = srv.userRoom
           /\ \A s \in Sockets : Informed(srv.sk[s], SendSnapshot(srv, rooms, who).sk[s])
<1>. DEFINE rm == [g \in Rooms |-> IF g \in rooms THEN [srv.rm[g] EXCEPT !.rev = @ + 1]
                                   ELSE srv.rm[g]]
            Snapshot(g) == [type |-> "snapshot", rev |-> rm[g].rev, ver |-> rm[g].ver]
            numbered == [srv EXCEPT !.rm = rm]
            Gets(s) == s \in who /\ MayBeTold(numbered, s) /\ srv.sk[s].link
            sk == [s \in Sockets |-> IF Gets(s)
                     THEN [srv.sk[s] EXCEPT !.down = Append(@, Snapshot(Home(s)))] ELSE srv.sk[s]]
            sent == SendSnapshot(srv, rooms, who)
<1>1. rm \in [Rooms -> [rev : Nat, ver : Nat, track : Nat]]
  BY DEF ServerType
<1>2. numbered \in ServerType /\ numbered.sk = srv.sk /\ numbered.rm = rm
      /\ numbered.roster = srv.roster /\ numbered.userRoom = srv.userRoom
  BY <1>1 DEF ServerType
<1>3. srv.rm = [g \in Rooms |-> srv.rm[g]] /\ srv.sk \in [Sockets -> SocketType]
  BY DEF ServerType
<1>4. sent = [numbered EXCEPT !.sk = sk]
  BY <1>2 DEF SendSnapshot
<1>5. \A s \in Sockets : Informed(srv.sk[s], sk[s])
  <2>. SUFFICES ASSUME NEW s \in Sockets PROVE Informed(srv.sk[s], sk[s])
    OBVIOUS
  <2>1. CASE Gets(s)
    <3>1. sk[s] = [srv.sk[s] EXCEPT !.down = Append(@, Snapshot(Home(s)))]
      BY <2>1
    <3>2. rm[Home(s)].rev \in Nat /\ rm[Home(s)].ver \in Nat
      BY <1>1
    <3>3. srv.sk[s] \in SocketType
      BY <1>3
    <3>4. Informed(srv.sk[s], [srv.sk[s] EXCEPT !.down = Append(@, Snapshot(Home(s)))])
      <4>. HIDE DEF rm
      <4>. QED
        BY <3>2, <3>3, ToldSnapshot
    <3>. HIDE DEF sk, Snapshot
    <3>. QED
      BY <3>1, <3>4
  <2>2. CASE ~Gets(s)
    BY <1>3, <2>2, ToldSelf
  <2>. QED
    BY <2>1, <2>2
<1>6. sk \in [Sockets -> SocketType]
  BY <1>5 DEF Informed
<1>. HIDE DEF rm, numbered, sk, sent
<1>7. sent \in ServerType /\ sent.sk = sk /\ sent.roster = srv.roster
      /\ sent.userRoom = srv.userRoom
  BY <1>2, <1>4, <1>6 DEF ServerType
<1>. QED
  BY <1>5, <1>7 DEF sent

\* The same of broadcast().
LEMMA BroadcastTells ==
    ASSUME NEW srv \in ServerType, NEW rooms, SyncAssumption,
           \A s \in Sockets : Home(s) \in Rooms
    PROVE  /\ Broadcast(srv, rooms) \in ServerType
           /\ Broadcast(srv, rooms).roster = srv.roster
           /\ Broadcast(srv, rooms).userRoom = srv.userRoom
           /\ \A s \in Sockets : Informed(srv.sk[s], Broadcast(srv, rooms).sk[s])
<1>. DEFINE rm == [g \in Rooms |-> IF g \in rooms THEN [srv.rm[g] EXCEPT !.ver = @ + 1]
                                   ELSE srv.rm[g]]
            changed == [srv EXCEPT !.rm = rm]
            who == {s \in srv.roster : Home(s) \in rooms}
<1>1. rm \in [Rooms -> [rev : Nat, ver : Nat, track : Nat]]
  BY DEF ServerType
<1>2. changed \in ServerType /\ changed.sk = srv.sk
      /\ changed.roster = srv.roster /\ changed.userRoom = srv.userRoom
  BY <1>1 DEF ServerType
<1>3. srv.rm = [g \in Rooms |-> srv.rm[g]]
  BY DEF ServerType
<1>4. Broadcast(srv, rooms) = SendSnapshot(changed, rooms, who)
  BY <1>3 DEF Broadcast
<1>. HIDE DEF changed, who
<1>. QED
  BY <1>2, <1>4, SnapshotTells


----------------------------------------------------------------------------
(* What follows a socket keeps its promises.                               *)

\* What is said up a socket under the name of a control is one.
LEMMA UpwardControl ==
    ASSUME NEW msg \in Upward, msg.type = "control"
    PROVE  /\ msg \in Controls /\ msg.id \in Pages \X (1..MaxEvents)
           /\ msg.id[1] \in Pages /\ msg.id[2] \in 1..MaxEvents /\ msg.id[2] \in Int
<1>1. msg \in Controls
  <2>1. CASE msg = CloseFrame
    BY <2>1 DEF CloseFrame
  <2>2. CASE msg \in [type : {"presence"}, on : BOOLEAN]
    BY <2>2
  <2>. QED
    BY <2>1, <2>2 DEF Upward
<1>. QED
  BY <1>1 DEF Controls

\* An outbox holds controls.
LEMMA OutboxControls ==
    ASSUME NEW m \in Seq(Controls), NEW i \in DOMAIN m
    PROVE  /\ m[i] \in Controls /\ m[i] \in Upward /\ m[i].type = "control"
           /\ m[i].id \in Pages \X (1..MaxEvents)
           /\ m[i].id[1] \in Pages /\ m[i].id[2] \in 1..MaxEvents /\ m[i].id[2] \in Int
<1>1. m[i] \in Controls
  OBVIOUS
<1>2. m[i].type = "control" /\ m[i] \in Upward
  BY <1>1 DEF Controls, Upward
<1>. QED
  BY <1>1, <1>2, UpwardControl

\* A suffix of a channel is found in it, in the same order.
LEMMA SuffixOf ==
    ASSUME NEW m \in Seq(Upward), NEW n, n = m \/ n = <<>> \/ (m # <<>> /\ n = Tail(m))
    PROVE  \E k \in Nat : \A j \in DOMAIN n : j + k \in DOMAIN m /\ n[j] = m[j + k] /\ j \in Nat
<1>1. CASE n = m
  <2>1. \A j \in DOMAIN n : j + 0 \in DOMAIN m /\ n[j] = m[j + 0] /\ j \in Nat
    BY <1>1
  <2>. QED
    BY <2>1
<1>2. CASE n = <<>>
  <2>1. \A j \in DOMAIN n : j + 0 \in DOMAIN m /\ n[j] = m[j + 0] /\ j \in Nat
    BY <1>2
  <2>. QED
    BY <2>1
<1>3. CASE m # <<>> /\ n = Tail(m)
  <2>1. \A j \in DOMAIN n : j + 1 \in DOMAIN m /\ n[j] = m[j + 1] /\ j \in Nat
    BY <1>3
  <2>. QED
    BY <2>1
<1>. QED
  BY <1>1, <1>2, <1>3

\* Orders hold of a suffix as well.
LEMMA SuffixInOrder ==
    ASSUME NEW m \in Seq(Upward), NEW n, n = m \/ n = <<>> \/ (m # <<>> /\ n = Tail(m)),
           NEW p, NEW last \in Nat, NEW more \in Nat, last <= more, Signed(m, p, last)
    PROVE  /\ Signed(n, p, more)
           /\ Increasing(m) => Increasing(n)
           /\ \A others : Older(m, others) => Older(n, others)
           /\ \A done : Done(done, p, m) => Done(done, p, n)
           /\ (\E j \in DOMAIN n : n[j].type = "control")
                => \E i \in DOMAIN m : m[i].type = "control"
<1>1. PICK k \in Nat : \A j \in DOMAIN n : j + k \in DOMAIN m /\ n[j] = m[j + k] /\ j \in Nat
  BY SuffixOf
<1>2. Signed(n, p, more)
  <2>. SUFFICES ASSUME NEW j \in DOMAIN n, n[j].type = "control"
                PROVE  n[j].id[1] = p /\ n[j].id[2] <= more
    BY DEF Signed
  <2>1. n[j].id[1] = p /\ n[j].id[2] <= last
    BY <1>1 DEF Signed
  <2>2. n[j] \in Upward
    <3>1. j + k \in 1..Len(m) /\ n[j] = m[j + k]
      BY <1>1
    <3>. QED
      BY <3>1
  <2>3. n[j].id[2] \in Int
    BY <2>2, UpwardControl
  <2>4. last \in Int /\ more \in Int
    OBVIOUS
  <2>. HIDE DEF Signed
  <2>. QED
    BY <2>1, <2>3, <2>4
<1>3. Increasing(m) => Increasing(n)
  <2>. SUFFICES ASSUME Increasing(m), NEW i \in DOMAIN n, NEW j \in DOMAIN n, i < j,
                       n[i].type = "control", n[j].type = "control"
                PROVE  n[i].id[2] < n[j].id[2]
    BY DEF Increasing
  <2>1. /\ i + k \in DOMAIN m /\ n[i] = m[i + k] /\ i \in Nat
        /\ j + k \in DOMAIN m /\ n[j] = m[j + k] /\ j \in Nat
    BY <1>1
  <2>2. i + k < j + k
    BY <2>1
  <2>. QED
    BY <2>1, <2>2 DEF Increasing
<1>4. \A others : Older(m, others) => Older(n, others)
  BY <1>1 DEF Older
<1>5. \A done : Done(done, p, m) => Done(done, p, n)
  BY <1>1 DEF Done
<1>6. (\E j \in DOMAIN n : n[j].type = "control") => \E i \in DOMAIN m : m[i].type = "control"
  BY <1>1
<1>. QED
  BY <1>2, <1>3, <1>4, <1>5, <1>6

\* What a socket promises of itself, its page and its controls is kept.
LEMMA FollowsKeeps ==
    ASSUME NEW pg \in PageType, NEW a \in SocketType, NEW b \in SocketType, NEW s, NEW p,
           NEW done, NEW last \in Nat, NEW more \in Nat, last <= more,
           SocketOK(a), Holds(pg, a, s), InOrder(pg, a, p, done, last), Follows(a, b)
    PROVE  /\ SocketOK(b) /\ Holds(pg, b, s) /\ InOrder(pg, b, p, done, more)
           /\ Believed(pg, a) => Believed(pg, b)
           /\ Carries(b) => Carries(a)
<1>1. a.up \in Seq(Upward) /\ (b.up = a.up \/ b.up = <<>> \/ (a.up # <<>> /\ b.up = Tail(a.up)))
      /\ Signed(a.up, p, last)
  BY DEF Follows, SocketType, InOrder
<1>2. /\ Signed(b.up, p, more)
      /\ Increasing(a.up) => Increasing(b.up)
      /\ Older(a.up, pg.outbox) => Older(b.up, pg.outbox)
      /\ Done(done, p, a.up) => Done(done, p, b.up)
      /\ (\E j \in DOMAIN b.up : b.up[j].type = "control")
           => \E i \in DOMAIN a.up : a.up[i].type = "control"
  BY <1>1, SuffixInOrder
<1>3. SocketOK(b)
  BY DEF SocketOK, Follows
<1>4. Carries(b) => Carries(a)
  BY <1>2 DEF Carries, Follows, SocketOK
<1>5. InOrder(pg, b, p, done, more)
  BY <1>2, <1>4 DEF InOrder
<1>6. Holds(pg, b, s)
  <2>1. b.client = a.client /\ (a.up = <<>> => b.up = <<>>)
        /\ (b.server \in Hearing => a.server \in Hearing \/ a.client = "connecting")
        /\ (b.server \in Hearing /\ (a.server \in Hearing => Warned(a)) => Warned(b))
    BY DEF Follows
  <2>. QED
    BY <1>4, <2>1, Zenon DEF Holds
<1>7. ASSUME Believed(pg, a) PROVE Believed(pg, b)
  <2>1. pg.present \in BOOLEAN
    BY DEF PageType
  <2>. QED
    BY <1>7, <2>1 DEF Believed, Follows
<1>. QED
  BY <1>3, <1>4, <1>5, <1>6, <1>7


\* What a sweep leaves of the connections.
LEMMA SweptRoster ==
    ASSUME SyncAssumption, NEW sk \in [Sockets -> SocketType], NEW connections,
           connections \subseteq Sockets, NEW rooms, RosterOK(sk, connections, rooms)
    PROVE  RosterOK(Swept(sk, connections), connections, rooms)
<1>1. \A s \in connections : Swept(sk, connections)[s] = sk[s]
  BY SweptOK
<1>2. \A s \in Sockets : Swept(sk, connections)[s].server = "joined" => sk[s].server = "joined"
  <2>. SUFFICES ASSUME NEW s \in Sockets, Swept(sk, connections)[s].server = "joined"
                PROVE  sk[s].server = "joined"
    OBVIOUS
  <2>1. \A c \in Pages : Unused(c).server # "joined"
    BY DEF Unused
  <2>. QED
    BY <2>1, SweptOK
<1>. QED
  BY <1>1, <1>2 DEF RosterOK

\* Sockets that were swept after a step of the server or of the network, under
\* the same pages.
Keeping(sk, swept, last) ==
    /\ swept \in [Sockets -> SocketType]
    /\ \A p \in Pages :
        /\ Kept(page[p], swept, p, applied, last)
        /\ page[p].cur # NoSocket => swept[page[p].cur].page = p
                                     /\ swept[page[p].cur].client # "closed"
    /\ \A s \in Sockets :
        /\ SocketOK(swept[s]) /\ Holds(page[swept[s].page], swept[s], s)
        /\ InOrder(page[swept[s].page], swept[s], swept[s].page, applied, last)
        /\ Carries(swept[s]) => /\ swept[s] = sk[s] /\ Carries(sock[s])
                                /\ swept[s].page = sock[s].page

\* Pages keep what they have when sockets are followed and swept.
LEMMA ServerKeeps ==
    ASSUME SyncAssumption, Inv, NEW sk \in [Sockets -> SocketType], NEW connections,
           \A s \in Sockets : Follows(sock[s], sk[s]), NEW last \in Nat, spent <= last,
           NEW swept, swept = Swept(sk, connections)
    PROVE  Keeping(sk, swept, last)
<1>1. /\ swept \in [Sockets -> SocketType]
      /\ \A s \in Sockets :
            \/ swept[s] = sk[s]
            \/ /\ sk[s].client = "closed" /\ sk[s].server = "closed" /\ s \notin connections
               /\ \E c \in Pages : swept[s] = Unused(c)
  BY SweptOK
<1>2. sock \in [Sockets -> SocketType] /\ page \in [Pages -> PageType] /\ spent \in Nat
  BY DEF Inv, TypeOK
<1>3. \A s \in Sockets :
        /\ SocketOK(sk[s]) /\ Holds(page[sk[s].page], sk[s], s)
        /\ InOrder(page[sk[s].page], sk[s], sk[s].page, applied, last)
        /\ Believed(page[sk[s].page], sock[s]) => Believed(page[sk[s].page], sk[s])
        /\ Carries(sk[s]) => Carries(sock[s])
        /\ sk[s].page = sock[s].page /\ sk[s].client = sock[s].client
  <2>. SUFFICES ASSUME NEW s \in Sockets
                PROVE  /\ SocketOK(sk[s]) /\ Holds(page[sk[s].page], sk[s], s)
                       /\ InOrder(page[sk[s].page], sk[s], sk[s].page, applied, last)
                       /\ Believed(page[sk[s].page], sock[s]) => Believed(page[sk[s].page], sk[s])
                       /\ Carries(sk[s]) => Carries(sock[s])
                       /\ sk[s].page = sock[s].page /\ sk[s].client = sock[s].client
    OBVIOUS
  <2>1. sk[s].page = sock[s].page /\ sk[s].client = sock[s].client
    BY DEF Follows
  <2>2. sock[s] \in SocketType /\ sk[s] \in SocketType /\ page[sock[s].page] \in PageType
    BY <1>2 DEF SocketType
  <2>3. SocketOK(sock[s]) /\ Holds(page[sock[s].page], sock[s], s)
        /\ InOrder(page[sock[s].page], sock[s], sock[s].page, applied, spent)
    BY DEF Inv, SocketsOK
  <2>. QED
    BY <1>2, <2>1, <2>2, <2>3, FollowsKeeps
<1>4. \A s \in Sockets :
        /\ SocketOK(swept[s]) /\ Holds(page[swept[s].page], swept[s], s)
        /\ InOrder(page[swept[s].page], swept[s], swept[s].page, applied, last)
  <2>. SUFFICES ASSUME NEW s \in Sockets
                PROVE  /\ SocketOK(swept[s]) /\ Holds(page[swept[s].page], swept[s], s)
                       /\ InOrder(page[swept[s].page], swept[s], swept[s].page, applied, last)
    OBVIOUS
  <2>1. CASE swept[s] = sk[s]
    BY <1>3, <2>1
  <2>2. ASSUME NEW c \in Pages, swept[s] = Unused(c)
        PROVE  /\ SocketOK(swept[s]) /\ Holds(page[swept[s].page], swept[s], s)
               /\ InOrder(page[swept[s].page], swept[s], swept[s].page, applied, last)
    BY <2>2, UnusedOK
  <2>. QED
    BY <1>1, <2>1, <2>2
<1>5. \A s \in Sockets : Carries(swept[s]) => swept[s] = sk[s] /\ Carries(sock[s])
  <2>. SUFFICES ASSUME NEW s \in Sockets, Carries(swept[s])
                PROVE  swept[s] = sk[s] /\ Carries(sock[s])
    OBVIOUS
  <2>1. \A c \in Pages : swept[s] # Unused(c)
    BY UnusedOK
  <2>. QED
    BY <1>1, <1>3, <2>1
<1>6. ASSUME NEW p \in Pages, page[p].cur # NoSocket
      PROVE  /\ page[p].cur \in Sockets /\ swept[page[p].cur] = sk[page[p].cur]
             /\ sk[page[p].cur].page = p /\ sk[page[p].cur].client = sock[page[p].cur].client
             /\ sk[page[p].cur].client # "closed"
  <2>1. page[p].cur \in Sockets /\ sock[page[p].cur].page = p
        /\ sock[page[p].cur].client # "closed"
    BY <1>6 DEF Inv, TypeOK, PageType
  <2>. QED
    BY <1>1, <1>3, <2>1
<1>7. ASSUME NEW p \in Pages PROVE Kept(page[p], swept, p, applied, last)
  <2>1. Kept(page[p], sock, p, applied, spent)
    BY DEF Inv, PagesOK
  <2>2. Signed(page[p].outbox, p, last)
    <3>1. page[p].outbox \in Seq(Controls)
      BY <1>2 DEF PageType
    <3>2. \A i \in DOMAIN page[p].outbox : page[p].outbox[i].id[2] \in Int
      BY <3>1, OutboxControls
    <3>3. Signed(page[p].outbox, p, spent)
      BY <2>1 DEF Kept, Stored, Quiet, Heard
    <3>. QED
      BY <1>2, <3>2, <3>3 DEF Signed
  <2>3. page[p].cur # NoSocket => Believed(page[p], swept[page[p].cur])
    BY <1>3, <1>6, <2>1 DEF Kept, Stored, Quiet, Heard
  <2>4. \A s, t \in Sockets :
          ~page[p].doubled /\ swept[s].page = p /\ swept[t].page = p
             /\ Carries(swept[s]) /\ Carries(swept[t]) => s = t
    BY <1>3, <1>5, <2>1 DEF Kept, Stored, Quiet, Heard
  <2>5. ~page[p].doubled /\ page[p].cur # NoSocket /\ swept[page[p].cur].client = "open"
          => page[p].outbox = <<>>
    BY <1>6, <2>1 DEF Kept, Stored, Quiet, Heard
  <2>. QED
    BY <2>1, <2>2, <2>3, <2>4, <2>5 DEF Kept, Stored, Quiet, Heard
<1>. QED
  BY <1>1, <1>3, <1>4, <1>5, <1>6, <1>7 DEF Keeping

\* A step of the server that applies no control.
LEMMA ServerStepKeeps ==
    ASSUME SyncAssumption, Inv, NEW srv \in ServerType,
           \A s \in Sockets : Follows(sock[s], srv.sk[s]),
           RosterOK(srv.sk, srv.roster, srv.userRoom), Serves(srv),
           UNCHANGED <<page, applied>>, mints' \subseteq Sockets \X Nat,
           spent' \in 0..MaxEvents, spent <= spent'
    PROVE  Inv'
<1>1. /\ srv.sk \in [Sockets -> SocketType] /\ srv.roster \subseteq Sockets
      /\ srv.rm \in [Rooms -> [rev : Nat, ver : Nat, track : Nat]]
      /\ srv.userRoom \in [Users -> Rooms \cup {NoRoom}]
  BY DEF ServerType
<1>2. /\ sock' = Swept(srv.sk, srv.roster) /\ roster' = srv.roster
      /\ room' = srv.rm /\ userRoom' = srv.userRoom
  BY DEF Serves
<1>3. spent \in Nat /\ spent' \in Nat
  BY SyncAssumption DEF Inv, TypeOK, SyncAssumption
<1>4. /\ sock' \in [Sockets -> SocketType]
      /\ \A p \in Pages :
           /\ Kept(page[p], sock', p, applied, spent')
           /\ page[p].cur # NoSocket => sock'[page[p].cur].page = p
                                        /\ sock'[page[p].cur].client # "closed"
      /\ \A s \in Sockets :
           /\ SocketOK(sock'[s]) /\ Holds(page[sock'[s].page], sock'[s], s)
           /\ InOrder(page[sock'[s].page], sock'[s], sock'[s].page, applied, spent')
  <2>1. Keeping(srv.sk, sock', spent')
    BY <1>1, <1>2, <1>3, ServerKeeps
  <2>. QED
    BY <2>1 DEF Keeping
<1>5. TypeOK'
  BY <1>1, <1>2, <1>4 DEF Inv, TypeOK
<1>6. PagesOK' /\ SocketsOK'
  BY <1>4 DEF PagesOK, SocketsOK
<1>7. AppliedOK'
  <2>1. \A i \in DOMAIN applied : applied[i][2] \in Int
    BY DEF Inv, TypeOK
  <2>. QED
    BY <1>3, <2>1 DEF Inv, AppliedOK
<1>8. ControlsInOrder'
  BY DEF Inv, ControlsInOrder
<1>9. RosterOK(sock', roster', userRoom')
  BY <1>1, <1>2, SweptRoster
<1>. QED
  BY <1>5, <1>6, <1>7, <1>8, <1>9 DEF Inv


\* A step of the network, or one after which nothing is swept.
LEMMA NetworkStepKeeps ==
    ASSUME SyncAssumption, Inv, NEW sk \in [Sockets -> SocketType], sock' = sk,
           \A s \in Sockets : Follows(sock[s], sk[s]), RosterOK(sk, roster, userRoom),
           UNCHANGED <<page, applied, roster, room, userRoom>>, mints' \subseteq Sockets \X Nat,
           spent' \in 0..MaxEvents, spent <= spent'
    PROVE  Inv'
<1>1. sk = Swept(sk, Sockets)
  BY DEF Swept
<1>2. spent \in Nat /\ spent' \in Nat
  BY SyncAssumption DEF Inv, TypeOK, SyncAssumption
<1>3. /\ sock' \in [Sockets -> SocketType]
      /\ \A p \in Pages :
           /\ Kept(page[p], sock', p, applied, spent')
           /\ page[p].cur # NoSocket => sock'[page[p].cur].page = p
                                        /\ sock'[page[p].cur].client # "closed"
      /\ \A s \in Sockets :
           /\ SocketOK(sock'[s]) /\ Holds(page[sock'[s].page], sock'[s], s)
           /\ InOrder(page[sock'[s].page], sock'[s], sock'[s].page, applied, spent')
  <2>1. Keeping(sk, sock', spent')
    BY <1>1, <1>2, ServerKeeps
  <2>. QED
    BY <2>1 DEF Keeping
<1>4. TypeOK'
  BY <1>3 DEF Inv, TypeOK
<1>5. PagesOK' /\ SocketsOK'
  BY <1>3 DEF PagesOK, SocketsOK
<1>6. AppliedOK'
  <2>1. \A i \in DOMAIN applied : applied[i][2] \in Int
    BY DEF Inv, TypeOK
  <2>. QED
    BY <1>2, <2>1 DEF Inv, AppliedOK
<1>7. ControlsInOrder'
  BY DEF Inv, ControlsInOrder
<1>. QED
  BY <1>4, <1>5, <1>6, <1>7 DEF Inv

----------------------------------------------------------------------------
(* The steps of the server.                                                *)

\* What the proofs below keep needing of a state.
LEMMA Facts ==
    ASSUME SyncAssumption, Inv
    PROVE  /\ sock \in [Sockets -> SocketType] /\ page \in [Pages -> PageType]
           /\ roster \subseteq Sockets /\ mints \subseteq Sockets \X Nat
           /\ room \in [Rooms -> [rev : Nat, ver : Nat, track : Nat]]
           /\ userRoom \in [Users -> Rooms \cup {NoRoom}]
           /\ spent \in Nat /\ spent \in 0..MaxEvents /\ MaxEvents \in Nat
           /\ Server \in ServerType
           /\ Server.sk = sock /\ Server.rm = room /\ Server.roster = roster
           /\ Server.userRoom = userRoom
           /\ \A s \in Sockets : /\ sock[s] \in SocketType /\ sock[s].page \in Pages
                                 /\ Home(s) \in Rooms /\ Owner(s) \in Users
                                 /\ SocketOK(sock[s]) /\ Follows(sock[s], sock[s])
                                 /\ Home(s) = RoomOf[sock[s].page]
                                 /\ Owner(s) = UserOf[sock[s].page]
           /\ RosterOK(sock, roster, userRoom)
<1>1. /\ sock \in [Sockets -> SocketType] /\ page \in [Pages -> PageType]
      /\ roster \subseteq Sockets /\ mints \subseteq Sockets \X Nat
      /\ room \in [Rooms -> [rev : Nat, ver : Nat, track : Nat]]
      /\ userRoom \in [Users -> Rooms \cup {NoRoom}]
      /\ spent \in Nat /\ spent \in 0..MaxEvents /\ MaxEvents \in Nat
  BY DEF Inv, TypeOK, SyncAssumption
<1>2. Server \in ServerType /\ Server.sk = sock /\ Server.rm = room /\ Server.roster = roster
      /\ Server.userRoom = userRoom
  BY <1>1 DEF Server, ServerType
<1>3. \A s \in Sockets : sock[s] \in SocketType /\ sock[s].page \in Pages
  BY <1>1 DEF SocketType
<1>4. \A s \in Sockets : Home(s) \in Rooms /\ Owner(s) \in Users
                         /\ Home(s) = RoomOf[sock[s].page] /\ Owner(s) = UserOf[sock[s].page]
  BY <1>3 DEF SyncAssumption, Home, Owner
<1>5. \A s \in Sockets : SocketOK(sock[s]) /\ Follows(sock[s], sock[s])
  BY <1>3, FollowsSelf DEF Inv, SocketsOK
<1>6. RosterOK(sock, roster, userRoom)
  BY DEF Inv
<1>. QED
  BY <1>1, <1>2, <1>3, <1>4, <1>5, <1>6

\* ws.close() after a last message: those told do not count as joined any more.
LEMMA DismissOK ==
    ASSUME NEW sk \in [Sockets -> SocketType], NEW who,
           NEW reason \in {"joined_elsewhere", "rebooted"}
    PROVE  /\ Dismiss(sk, who, reason) \in [Sockets -> SocketType]
           /\ \A s \in Sockets :
                /\ s \notin who => Dismiss(sk, who, reason)[s] = sk[s]
                /\ s \in who => Dismiss(sk, who, reason)[s].server # "joined"
                /\ Dismiss(sk, who, reason)[s].page = sk[s].page
                /\ Dismiss(sk, who, reason)[s].preset = sk[s].preset
                /\ \A x \in SocketType :
                     Follows(x, sk[s]) => Follows(x, Dismiss(sk, who, reason)[s])
<1>. DEFINE first == Tell(sk, who, Closed(reason))
            told == Tell(first, who, CloseFrame)
            D == Dismiss(sk, who, reason)
<1>1. Closed(reason) \in Downward /\ Closed(reason).type = "closed"
      /\ CloseFrame \in Downward /\ CloseFrame.type = "close"
  BY DEF Closed, CloseFrame, Downward
<1>2. \A s \in Sockets :
        /\ sk[s] \in SocketType /\ sk[s].down \in Seq(Downward)
        /\ s \in who /\ sk[s].link =>
             first[s] = [sk[s] EXCEPT !.down = Append(@, Closed(reason))]
        /\ ~(s \in who /\ sk[s].link) => first[s] = sk[s]
  <2>1. \A s \in Sockets : sk[s] \in SocketType /\ sk[s].down \in Seq(Downward)
    BY DEF SocketType
  <2>. QED
    BY <2>1 DEF Tell
<1>. DEFINE Ending(s) == Append(Append(sk[s].down, Closed(reason)), CloseFrame)
<1>3. \A s \in Sockets :
        /\ s \in who /\ sk[s].link => told[s] = [sk[s] EXCEPT !.down = Ending(s)]
        /\ ~(s \in who /\ sk[s].link) => told[s] = sk[s]
  <2>. SUFFICES ASSUME NEW s \in Sockets
                PROVE  /\ s \in who /\ sk[s].link => told[s] = [sk[s] EXCEPT !.down = Ending(s)]
                       /\ ~(s \in who /\ sk[s].link) => told[s] = sk[s]
    OBVIOUS
  <2>1. ASSUME s \in who, sk[s].link PROVE told[s] = [sk[s] EXCEPT !.down = Ending(s)]
    <3>1. first[s] = [sk[s] EXCEPT !.down = Append(@, Closed(reason))]
      BY <1>2, <2>1
    <3>2. first[s].link /\ first[s].down = Append(sk[s].down, Closed(reason))
      BY <1>2, <2>1, <3>1 DEF SocketType
    <3>3. told[s] = [first[s] EXCEPT !.down = Append(@, CloseFrame)]
      BY <2>1, <3>2 DEF Tell
    <3>. HIDE DEF first, told
    <3>. QED
      BY ZenonT(40), <1>2, <3>1, <3>2, <3>3 DEF SocketType
  <2>2. ASSUME ~(s \in who /\ sk[s].link) PROVE told[s] = sk[s]
    BY <1>2, <2>2 DEF Tell
  <2>. QED
    BY <2>1, <2>2
<1>4. \A s \in Sockets : Ending(s) \in Seq(Downward)
  <2>. SUFFICES ASSUME NEW s \in Sockets PROVE Ending(s) \in Seq(Downward)
    OBVIOUS
  <2>1. sk[s].down \in Seq(Downward)
    BY <1>2
  <2>2. Append(sk[s].down, Closed(reason)) \in Seq(Downward)
    BY <1>1, <2>1
  <2>. QED
    BY <1>1, <2>2
<1>5. \A s \in Sockets :
        /\ told[s] \in SocketType /\ told[s] = [sk[s] EXCEPT !.down = told[s].down]
        /\ Warned(sk[s]) => Warned(told[s])
  <2>. SUFFICES ASSUME NEW s \in Sockets
                PROVE  /\ told[s] \in SocketType /\ told[s] = [sk[s] EXCEPT !.down = told[s].down]
                       /\ Warned(sk[s]) => Warned(told[s])
    OBVIOUS
  <2>1. CASE s \in who /\ sk[s].link
    <3>1. told[s] = [sk[s] EXCEPT !.down = Ending(s)]
      BY <1>3, <2>1
    <3>. HIDE DEF told, first
    <3>2. told[s] \in SocketType /\ told[s].down = Ending(s)
      <4>1. Ending(s) \in Seq(Downward) /\ sk[s] \in SocketType
        BY <1>2, <1>4
      <4>. HIDE DEF Ending
      <4>. QED
        BY ZenonT(40), <3>1, <4>1 DEF SocketType
    <3>3. ASSUME Warned(sk[s]) PROVE Warned(told[s])
      <4>. SUFFICES ASSUME NEW j \in DOMAIN Ending(s), Ending(s)[j].type = "close"
                    PROVE  \E i \in DOMAIN Ending(s) : i < j /\ Ending(s)[i].type = "closed"
        BY <3>2 DEF Warned
      <4>. DEFINE n == Len(sk[s].down)
      <4>1. /\ n \in Nat /\ DOMAIN Ending(s) = 1..n + 2 /\ DOMAIN sk[s].down = 1..n
            /\ \A i \in 1..n : Ending(s)[i] = sk[s].down[i]
            /\ Ending(s)[n + 1] = Closed(reason)
        BY <1>1, <1>2
      <4>2. CASE j = n + 2
        BY <1>1, <4>1, <4>2
      <4>3. CASE j = n + 1
        BY <1>1, <4>1, <4>3
      <4>4. CASE j \in 1..n
        <5>1. PICK i \in 1..n : i < j /\ sk[s].down[i].type = "closed"
          BY <3>3, <4>1, <4>4 DEF Warned
        <5>. QED
          BY <4>1, <5>1
      <4>. QED
        BY SMTT(30), <4>1, <4>2, <4>3, <4>4
    <3>. QED
      BY <3>1, <3>2, <3>3
  <2>2. CASE ~(s \in who /\ sk[s].link)
    <3>1. told[s] = sk[s]
      BY <1>3, <2>2
    <3>. HIDE DEF told, first
    <3>. QED
      BY <1>2, <3>1 DEF SocketType
  <2>. QED
    BY <2>1, <2>2
<1>6. \A s \in Sockets :
        /\ s \in who /\ told[s].server = "joined"
             => D[s] = [told[s] EXCEPT !.server = "closing"]
        /\ ~(s \in who /\ told[s].server = "joined") => D[s] = told[s]
        /\ s \notin who => D[s] = sk[s]
  BY <1>3 DEF Dismiss
<1>. HIDE DEF told, first, Ending
<1>7. ASSUME NEW s \in Sockets
      PROVE  /\ D[s] \in SocketType /\ Informed(sk[s], told[s])
             /\ s \in who => D[s].server # "joined"
             /\ D[s].page = sk[s].page /\ D[s].preset = sk[s].preset
  <2>1. CASE s \in who /\ told[s].server = "joined"
    <3>1. D[s] = [told[s] EXCEPT !.server = "closing"]
      BY <1>6, <2>1
    <3>2. told[s] \in SocketType /\ sk[s] \in SocketType
          /\ told[s] = [sk[s] EXCEPT !.down = told[s].down]
      BY <1>2, <1>5
    <3>3. D[s] \in SocketType /\ D[s].server # "joined"
      BY <3>1, <3>2 DEF SocketType
    <3>4. D[s].page = told[s].page /\ D[s].preset = told[s].preset
      BY <3>1, <3>2 DEF SocketType
    <3>5. told[s].page = sk[s].page /\ told[s].preset = sk[s].preset
      BY <3>2 DEF SocketType
    <3>. QED
      BY <1>5, <3>3, <3>4, <3>5 DEF Informed
  <2>2. CASE ~(s \in who /\ told[s].server = "joined")
    <3>1. D[s] = told[s]
      BY <1>6, <2>2
    <3>. QED
      BY <1>2, <1>5, <2>2, <3>1 DEF SocketType, Informed
  <2>. QED
    BY <2>1, <2>2
<1>8. ASSUME NEW s \in Sockets, NEW x \in SocketType, Follows(x, sk[s]) PROVE Follows(x, D[s])
  <2>1. Follows(x, told[s])
    BY <1>2, <1>7, <1>8, FollowsTold
  <2>2. CASE s \in who /\ told[s].server = "joined"
    <3>1. D[s] = [told[s] EXCEPT !.server = "closing"] /\ told[s] \in SocketType
      BY <1>5, <1>6, <2>2
    <3>2. /\ D[s].page = told[s].page /\ D[s].client = told[s].client /\ D[s].link = told[s].link
          /\ D[s].up = told[s].up /\ D[s].server = "closing" /\ D[s].down = told[s].down
      BY <3>1 DEF SocketType
    <3>3. (Warned(told[s]) => Warned(D[s])) /\ told[s].server \in Hearing
      BY <2>2, <3>2 DEF Warned, Hearing
    <3>. QED
      BY <2>1, <3>2, <3>3 DEF Follows
  <2>3. CASE ~(s \in who /\ told[s].server = "joined")
    BY <1>6, <2>1, <2>3
  <2>. QED
    BY <2>2, <2>3
<1>9. D \in [Sockets -> SocketType]
  <2>1. D = [s \in Sockets |-> D[s]]
    BY DEF Dismiss
  <2>. QED
    BY <1>7, <2>1
<1>. QED
  BY <1>6, <1>7, <1>8, <1>9


\* What addConnection() and its like pass to each other.
Serving(srv) ==
    /\ srv \in ServerType
    /\ \A x \in Sockets : Follows(sock[x], srv.sk[x])
    /\ RosterOK(srv.sk, srv.roster, srv.userRoom)

\* A server that tells of its rooms stays what it is.
LEMMA TellingKeeps ==
    ASSUME SyncAssumption, Inv, NEW srv, Serving(srv), NEW rooms, NEW who
    PROVE  Serving(Broadcast(srv, rooms)) /\ Serving(SendSnapshot(srv, rooms, who))
<1>1. \A s \in Sockets : Home(s) \in Rooms /\ sock[s] \in SocketType
  BY Facts
<1>2. srv \in ServerType /\ \A s \in Sockets : srv.sk[s] \in SocketType
  BY DEF Serving, ServerType
<1>3. ASSUME NEW sent \in ServerType, sent.roster = srv.roster, sent.userRoom = srv.userRoom,
             \A s \in Sockets : Informed(srv.sk[s], sent.sk[s])
      PROVE  Serving(sent)
  <2>1. \A s \in Sockets : Follows(sock[s], sent.sk[s])
    BY <1>1, <1>2, <1>3, FollowsTold DEF Serving
  <2>2. \A s \in Sockets : /\ sent.sk[s].server = srv.sk[s].server
                           /\ sent.sk[s].page = srv.sk[s].page
                           /\ sent.sk[s].preset = srv.sk[s].preset
    BY ZenonT(40), <1>2, <1>3 DEF Informed, SocketType
  <2>3. srv.roster \subseteq Sockets
    BY <1>2 DEF ServerType
  <2>4. RosterOK(sent.sk, sent.roster, sent.userRoom)
    BY <1>3, <2>2, <2>3 DEF Serving, RosterOK
  <2>. QED
    BY <1>3, <2>1, <2>4 DEF Serving
<1>4. Serving(Broadcast(srv, rooms))
  BY <1>1, <1>2, <1>3, BroadcastTells
<1>5. Serving(SendSnapshot(srv, rooms, who))
  BY <1>1, <1>2, <1>3, SnapshotTells
<1>. QED
  BY <1>4, <1>5

\* A server step, by what is served.
LEMMA ServesKeeps ==
    ASSUME SyncAssumption, Inv, NEW srv, Serving(srv), Serves(srv),
           UNCHANGED <<page, applied>>, mints' \subseteq Sockets \X Nat,
           spent' \in 0..MaxEvents, spent <= spent'
    PROVE  Inv'
BY ServerStepKeeps DEF Serving

\* removeConnection() of a socket that is closed.
LEMMA RemoveKeeps ==
    ASSUME SyncAssumption, Inv, NEW srv \in ServerType, NEW s \in Sockets,
           srv.roster = roster, srv.userRoom = userRoom,
           \A x \in Sockets : Follows(sock[x], srv.sk[x]),
           \A x \in roster \ {s} : srv.sk[x].server = "joined" \/ srv.sk[x].preset # Plain,
           \A x \in Sockets : srv.sk[x].server = "joined" => x \in roster \ {s}
    PROVE  Serving(RemoveConnection(srv, s))
<1>. DEFINE left == [srv EXCEPT !.roster = @ \ {s}]
            still == In(Of(left.roster, Owner(s)), Home(s))
            moved == [left EXCEPT !.userRoom[Owner(s)] =
                        IF still = {} /\ @ = Home(s) THEN NoRoom ELSE @]
<1>1. /\ roster \subseteq Sockets /\ userRoom \in [Users -> Rooms \cup {NoRoom}]
      /\ \A x \in Sockets : /\ sock[x].page \in Pages /\ Home(x) = RoomOf[sock[x].page]
                            /\ Owner(x) = UserOf[sock[x].page]
                            /\ Owner(x) \in Users /\ Home(x) \in Rooms
                            /\ srv.sk[x].page = sock[x].page
      /\ RosterOK(sock, roster, userRoom)
  BY Facts DEF Follows
<1>2. \A x \in roster : userRoom[Owner(x)] = Home(x)
  BY <1>1 DEF RosterOK
<1>3. CASE s \notin roster
  <2>1. RosterOK(srv.sk, srv.roster, srv.userRoom)
    BY <1>1, <1>2, <1>3 DEF RosterOK
  <2>2. RemoveConnection(srv, s) = srv
    BY <1>3 DEF RemoveConnection
  <2>. QED
    BY <2>1, <2>2 DEF Serving
<1>4. CASE s \in roster
  <2>1. left \in ServerType /\ left.roster = roster \ {s} /\ left.sk = srv.sk
        /\ left.userRoom = userRoom
    BY DEF ServerType
  <2>2. moved \in ServerType /\ moved.roster = roster \ {s} /\ moved.sk = srv.sk
        /\ moved.userRoom = [userRoom EXCEPT ![Owner(s)] =
                               IF still = {} /\ @ = Home(s) THEN NoRoom ELSE @]
    <3>. DEFINE now == [userRoom EXCEPT ![Owner(s)] =
                               IF still = {} /\ @ = Home(s) THEN NoRoom ELSE @]
    <3>1. now \in [Users -> Rooms \cup {NoRoom}]
      BY <1>1
    <3>2. moved = [left EXCEPT !.userRoom = now]
      BY <2>1
    <3>. HIDE DEF moved, now, left
    <3>3. moved \in ServerType /\ moved.roster = left.roster /\ moved.sk = left.sk
          /\ moved.userRoom = now
      BY <2>1, <3>1, <3>2 DEF ServerType
    <3>. QED
      BY <2>1, <3>3 DEF now
  <2>3. ASSUME NEW x \in roster \ {s} PROVE moved.userRoom[Owner(x)] = Home(x)
    <3>1. userRoom[Owner(x)] = Home(x) /\ x \in Sockets /\ Owner(x) \in Users
      BY <1>1, <1>2
    <3>2. CASE Owner(x) = Owner(s) /\ Home(x) = Home(s)
      <4>1. x \in still
        BY <2>1, <3>2 DEF In, Of
      <4>. QED
        BY <2>2, <3>1, <4>1
    <3>3. CASE Owner(x) = Owner(s) /\ Home(x) # Home(s)
      BY <2>2, <3>1, <3>3
    <3>4. CASE Owner(x) # Owner(s)
      <4>. HIDE DEF still, moved
      <4>. QED
        BY <1>1, <2>2, <3>1, <3>4
    <3>. QED
      BY <3>2, <3>3, <3>4
  <2>. HIDE DEF moved
  <2>4. RosterOK(moved.sk, moved.roster, moved.userRoom)
    <3>1. moved.roster = roster \ {s} /\ moved.sk = srv.sk
      BY <2>2
    <3>2. \A x \in roster \ {s} : moved.userRoom[UserOf[srv.sk[x].page]] = RoomOf[srv.sk[x].page]
      <4>1. \A x \in roster \ {s} : /\ Owner(x) = UserOf[srv.sk[x].page]
                                    /\ Home(x) = RoomOf[srv.sk[x].page]
        BY <1>1
      <4>. QED
        BY <2>3, <4>1
    <3>. QED
      BY <3>1, <3>2 DEF RosterOK
  <2>5. Serving(moved)
    BY <2>2, <2>4 DEF Serving
  <2>6. RemoveConnection(srv, s) = Broadcast(moved, {Home(s)})
    <3>1. srv.roster = roster
      OBVIOUS
    <3>. QED
      BY <1>4, <3>1 DEF RemoveConnection, moved
  <2>. QED
    BY <2>5, <2>6, TellingKeeps
<1>. QED
  BY <1>3, <1>4


\* The close event of a socket, be it heard, noticed or forced.
LEMMA CloseKeeps ==
    ASSUME SyncAssumption, Inv, NEW srv \in ServerType, NEW s \in Sockets,
           srv.roster = roster, srv.userRoom = userRoom,
           \A x \in Sockets \ {s} : srv.sk[x] = sock[x],
           srv.sk[s].page = sock[s].page, srv.sk[s].client = sock[s].client,
           srv.sk[s].server = sock[s].server, srv.sk[s].preset = sock[s].preset,
           srv.sk[s].link => sock[s].link
    PROVE  Serving(CloseOf(srv, s))
<1>. DEFINE shut == [srv EXCEPT !.sk[s].up = <<>>,
                       !.sk[s].server = IF @ \in {"waiting", "lost"} THEN "lost" ELSE "closed"]
<1>1. /\ \A x \in Sockets : /\ sock[x] \in SocketType /\ SocketOK(sock[x])
                            /\ Follows(sock[x], sock[x])
                            /\ Home(x) = RoomOf[sock[x].page] /\ Owner(x) = UserOf[sock[x].page]
      /\ RosterOK(sock, roster, userRoom) /\ roster \subseteq Sockets
  BY Facts
<1>2. srv.sk \in [Sockets -> SocketType] /\ srv.sk[s] \in SocketType
  BY DEF ServerType
<1>. DEFINE gone == [srv.sk[s] EXCEPT !.up = <<>>,
                       !.server = IF @ \in {"waiting", "lost"} THEN "lost" ELSE "closed"]
<1>3. gone \in SocketType
  <2>1. <<>> \in Seq(Upward)
    OBVIOUS
  <2>. QED
    BY <1>2, <2>1 DEF SocketType
<1>4. /\ gone.up = <<>> /\ gone.page = sock[s].page /\ gone.client = sock[s].client
      /\ gone.preset = sock[s].preset /\ (gone.link => sock[s].link)
      /\ gone.server = IF sock[s].server \in {"waiting", "lost"} THEN "lost" ELSE "closed"
  BY <1>2 DEF SocketType
<1>5. shut.sk = [srv.sk EXCEPT ![s] = gone] /\ shut.roster = roster /\ shut.userRoom = userRoom
      /\ shut.rm = srv.rm
  BY <1>2 DEF ServerType
<1>6. shut \in ServerType
  <2>1. shut = [srv EXCEPT !.sk = shut.sk]
    BY DEF ServerType
  <2>2. shut.sk \in [Sockets -> SocketType]
    BY <1>2, <1>3, <1>5
  <2>. HIDE DEF shut
  <2>. QED
    BY <2>1, <2>2 DEF ServerType
<1>. HIDE DEF shut, gone
<1>7. Follows(sock[s], gone)
  <2>1. gone.server \notin Hearing /\ gone.server # "joined" /\ gone.server # "waiting"
    BY <1>4 DEF Hearing
  <2>2. gone.server \in {"waiting", "lost"} => gone.preset # Plain
    BY <1>1, <1>4 DEF SocketOK
  <2>. QED
    BY <1>4, <2>1, <2>2 DEF Follows
<1>8. \A x \in Sockets : Follows(sock[x], shut.sk[x])
  BY <1>1, <1>2, <1>5, <1>7
<1>9. /\ \A x \in Sockets \ {s} : shut.sk[x] = sock[x]
      /\ shut.sk[s].server # "joined" /\ shut.sk[s].page = sock[s].page
      /\ shut.sk[s].preset = sock[s].preset
  BY <1>2, <1>4, <1>5
<1>10. \A x \in Sockets : shut.sk[x].server = "joined" => x \in roster \ {s}
  BY <1>1, <1>9 DEF RosterOK
<1>11. CASE sock[s].server = "joined"
  <2>1. \A x \in roster \ {s} : shut.sk[x].server = "joined" \/ shut.sk[x].preset # Plain
    BY <1>1, <1>9 DEF RosterOK
  <2>2. CloseOf(srv, s) = RemoveConnection(shut, s)
    BY <1>11 DEF CloseOf, shut
  <2>. QED
    BY <1>5, <1>6, <1>8, <1>10, <2>1, <2>2, RemoveKeeps
<1>12. CASE sock[s].server # "joined"
  <2>1. RosterOK(shut.sk, shut.roster, shut.userRoom)
    <3>1. \A x \in roster : /\ shut.sk[x].page = sock[x].page
                            /\ shut.sk[x].server = "joined" \/ shut.sk[x].preset # Plain
      BY <1>1, <1>9, <1>12 DEF RosterOK
    <3>. QED
      BY SMTT(30), <1>1, <1>5, <1>10, <3>1 DEF RosterOK
  <2>2. CloseOf(srv, s) = shut
    BY <1>12 DEF CloseOf, shut
  <2>. QED
    BY <1>6, <1>8, <2>1, <2>2 DEF Serving
<1>. QED
  BY <1>11, <1>12

\* addConnection() after the user left the other rooms, with the first snapshot.
LEMMA JoinsKeeps ==
    ASSUME SyncAssumption, Inv, NEW s \in Sockets, NEW minted \in BOOLEAN, Joins(s, minted),
           \/ sock[s].server \in {"waiting", "lost"}
           \/ sock[s].server = "closed" /\ sock[s].client = "connecting" /\ sock[s].down = <<>>
    PROVE  Inv'
<1>. DEFINE now == room[Home(s)].track
            usable == minted /\ sock[s].preset = now
            joined == [sock[s] EXCEPT !.server = IF @ = "lost" THEN "closed" ELSE "joined",
                                      !.url = IF usable THEN now ELSE Plain]
            here == [sock EXCEPT ![s].server = IF @ = "lost" THEN "closed" ELSE "joined",
                                 ![s].url = IF usable THEN now ELSE Plain]
            start == [Server EXCEPT !.sk = here]
            others == Rooms \ {Home(s)}
            gone == {x \in Of(roster, Owner(s)) : Home(x) \in others}
            sent == [start EXCEPT !.roster = @ \ gone,
                                  !.sk = Dismiss(@, gone, "joined_elsewhere")]
            moved == EvictUser(start, others, Owner(s))
            entered == [moved EXCEPT !.userRoom[Owner(s)] = Home(s), !.roster = @ \cup {s}]
            added == AddConnection(start, s)
<1>1. /\ sock \in [Sockets -> SocketType] /\ roster \subseteq Sockets
      /\ userRoom \in [Users -> Rooms \cup {NoRoom}]
      /\ Server \in ServerType /\ Server.sk = sock /\ Server.roster = roster
      /\ Server.userRoom = userRoom
      /\ \A x \in Sockets : /\ sock[x] \in SocketType /\ SocketOK(sock[x])
                            /\ Follows(sock[x], sock[x])
                            /\ Home(x) \in Rooms /\ Owner(x) \in Users
                            /\ Home(x) = RoomOf[sock[x].page] /\ Owner(x) = UserOf[sock[x].page]
      /\ RosterOK(sock, roster, userRoom)
      /\ now \in Nat /\ mints \subseteq Sockets \X Nat /\ spent \in 0..MaxEvents
  BY Facts
<1>2. \A x \in roster : userRoom[Owner(x)] = Home(x)
  BY <1>1 DEF RosterOK
<1>3. /\ joined \in SocketType /\ joined.page = sock[s].page /\ joined.client = sock[s].client
      /\ joined.preset = sock[s].preset /\ joined.link = sock[s].link /\ joined.up = sock[s].up
      /\ joined.down = sock[s].down /\ joined.present = sock[s].present
      /\ joined.missed = sock[s].missed
      /\ joined.server = IF sock[s].server = "lost" THEN "closed" ELSE "joined"
  <2>1. sock[s] \in SocketType /\ now \in Nat /\ Plain \in Nat
    BY <1>1 DEF Plain
  <2>. HIDE DEF now, usable
  <2>. QED
    BY <2>1 DEF SocketType
<1>4. here = [sock EXCEPT ![s] = joined] /\ here \in [Sockets -> SocketType]
  BY <1>1, <1>3
<1>5. start \in ServerType /\ start.sk = here /\ start.roster = roster
      /\ start.userRoom = userRoom
  BY <1>1, <1>4 DEF ServerType
<1>. HIDE DEF joined, here, now
<1>6. Follows(sock[s], joined)
  <2>1. joined.server \notin {"waiting", "lost"}
    BY <1>3
  <2>2. \A on \in BOOLEAN : Believes(sock[s], on) => Believes(joined, on)
    BY <1>3 DEF Believes
  <2>3. (sock[s].server \in Hearing => Warned(sock[s])) /\ joined.server \in Hearing
          => Warned(joined)
    BY <1>3 DEF Warned, Hearing
  <2>4. joined.server \in Hearing => sock[s].server \in Hearing \/ sock[s].client = "connecting"
    BY <1>3 DEF Hearing
  <2>5. ~sock[s].link => joined.up = <<>>
    BY <1>1, <1>3 DEF SocketOK
  <2>6. joined.server = "joined" /\ sock[s].client = "open" => sock[s].server = "waiting"
    BY <1>3
  <2>. QED
    BY <1>3, <2>1, <2>2, <2>3, <2>4, <2>5, <2>6 DEF Follows
<1>7. \A x \in Sockets : Follows(sock[x], here[x])
  BY <1>1, <1>4, <1>6
<1>8. /\ moved \in ServerType /\ moved.roster = roster \ gone /\ moved.userRoom = userRoom
      /\ \A x \in Sockets : /\ Follows(sock[x], moved.sk[x])
                            /\ moved.sk[x].preset = here[x].preset
                            /\ x \notin gone => moved.sk[x].server = here[x].server
                            /\ x \in gone => moved.sk[x].server # "joined"
  <2>1. CASE gone = {}
    <3>1. moved = start
      BY <1>5, <2>1 DEF EvictUser
    <3>. QED
      BY <1>5, <1>7, <2>1, <3>1
  <2>2. CASE gone # {}
    <3>1. /\ Dismiss(here, gone, "joined_elsewhere") \in [Sockets -> SocketType]
          /\ \A x \in Sockets :
               /\ x \notin gone => Dismiss(here, gone, "joined_elsewhere")[x] = here[x]
               /\ x \in gone => Dismiss(here, gone, "joined_elsewhere")[x].server # "joined"
               /\ Dismiss(here, gone, "joined_elsewhere")[x].preset = here[x].preset
               /\ Follows(sock[x], Dismiss(here, gone, "joined_elsewhere")[x])
      <4>. HIDE DEF gone, others, start, sent, moved, entered, added, usable
      <4>. DEFINE D == Dismiss(here, gone, "joined_elsewhere")
      <4>1. /\ D \in [Sockets -> SocketType]
            /\ \A x \in Sockets :
                 /\ x \notin gone => D[x] = here[x]
                 /\ x \in gone => D[x].server # "joined"
                 /\ D[x].page = here[x].page /\ D[x].preset = here[x].preset
                 /\ \A y \in SocketType : Follows(y, here[x]) => Follows(y, D[x])
        <5>1. here \in [Sockets -> SocketType]
          BY <1>4
        <5>2. "joined_elsewhere" \in {"joined_elsewhere", "rebooted"}
          OBVIOUS
        <5>. QED
          BY <5>1, <5>2, DismissOK
      <4>. HIDE DEF D
      <4>2. \A x \in Sockets : Follows(sock[x], D[x])
        BY <1>1, <1>7, <4>1
      <4>3. D = Dismiss(here, gone, "joined_elsewhere")
        BY DEF D
      <4>. QED
        BY <4>1, <4>2, <4>3
    <3>2. sent \in ServerType /\ sent.sk = Dismiss(here, gone, "joined_elsewhere")
          /\ sent.roster = roster \ gone /\ sent.userRoom = userRoom
      BY <1>5, <3>1 DEF ServerType
    <3>3. moved = Broadcast(sent, {Home(x) : x \in gone})
      BY <1>5, <2>2 DEF EvictUser
    <3>. HIDE DEF sent, moved, gone
    <3>4. /\ moved \in ServerType /\ moved.roster = sent.roster /\ moved.userRoom = sent.userRoom
          /\ \A x \in Sockets : Informed(sent.sk[x], moved.sk[x])
      BY <1>1, <3>2, <3>3, BroadcastTells
    <3>5. \A x \in Sockets : sent.sk[x] \in SocketType
      BY <3>1, <3>2
    <3>6. \A x \in Sockets : /\ moved.sk[x].server = sent.sk[x].server
                             /\ moved.sk[x].preset = sent.sk[x].preset
      BY ZenonT(40), <3>4, <3>5 DEF Informed, SocketType
    <3>7. \A x \in Sockets : Follows(sock[x], moved.sk[x])
      BY <1>1, <3>1, <3>2, <3>4, <3>5, FollowsTold
    <3>. QED
      BY <3>1, <3>2, <3>4, <3>6, <3>7
  <2>. QED
    BY <2>1, <2>2
<1>. HIDE DEF moved
<1>9. /\ entered \in ServerType /\ entered.sk = moved.sk
      /\ entered.roster = (roster \ gone) \cup {s}
      /\ entered.userRoom = [userRoom EXCEPT ![Owner(s)] = Home(s)]
  <2>. DEFINE next == [userRoom EXCEPT ![Owner(s)] = Home(s)]
  <2>1. next \in [Users -> Rooms \cup {NoRoom}]
    BY <1>1
  <2>2. entered = [moved EXCEPT !.userRoom = next, !.roster = (roster \ gone) \cup {s}]
    BY <1>8
  <2>3. (roster \ gone) \cup {s} \subseteq Sockets
    BY <1>1
  <2>. HIDE DEF next, entered, gone
  <2>4. /\ entered \in ServerType /\ entered.sk = moved.sk
        /\ entered.roster = (roster \ gone) \cup {s} /\ entered.userRoom = next
    BY <1>8, <2>1, <2>2, <2>3 DEF ServerType
  <2>. QED
    BY <2>4 DEF next
<1>. HIDE DEF entered
<1>10. ASSUME NEW x \in entered.roster
       PROVE  /\ entered.sk[x].server = "joined" \/ entered.sk[x].preset # Plain
              /\ entered.userRoom[UserOf[entered.sk[x].page]] = RoomOf[entered.sk[x].page]
  <2>1. x \in Sockets /\ entered.sk[x].page = sock[x].page
    BY <1>1, <1>8, <1>9 DEF Follows
  <2>2. entered.sk[x].server = "joined" \/ entered.sk[x].preset # Plain
    <3>1. CASE x = s
      <4>1. sock[s].server = "lost" => sock[s].preset # Plain
        BY <1>1 DEF SocketOK
      <4>2. s \notin gone
        BY DEF gone
      <4>. HIDE DEF gone
      <4>. QED
        BY <1>1, <1>3, <1>4, <1>8, <1>9, <3>1, <4>1, <4>2
    <3>2. CASE x # s
      <4>1. here[x] = sock[x] /\ x \in roster /\ x \notin gone
        BY <1>1, <1>4, <1>9, <2>1, <3>2
      <4>. HIDE DEF gone
      <4>. QED
        BY <1>1, <1>8, <1>9, <2>1, <4>1 DEF RosterOK
    <3>. QED
      BY <3>1, <3>2
  <2>3. entered.userRoom[Owner(x)] = Home(x)
    <3>1. CASE Owner(x) = Owner(s)
      <4>1. Home(x) = Home(s)
        BY <1>1, <1>9, <2>1, <3>1 DEF Of
      <4>. HIDE DEF gone
      <4>2. Owner(s) \in Users /\ userRoom \in [Users -> Rooms \cup {NoRoom}]
        BY <1>1
      <4>3. entered.userRoom[Owner(s)] = Home(s)
        BY <1>9, <4>2
      <4>. QED
        BY <3>1, <4>1, <4>3
    <3>2. CASE Owner(x) # Owner(s)
      <4>1. x \in roster
        BY <1>9, <3>2
      <4>. HIDE DEF gone
      <4>. QED
        BY <1>1, <1>2, <1>9, <2>1, <3>2, <4>1
    <3>. QED
      BY <3>1, <3>2
  <2>. QED
    BY <1>1, <2>1, <2>2, <2>3
<1>11. \A x \in Sockets : entered.sk[x].server = "joined" => x \in entered.roster
  <2>. SUFFICES ASSUME NEW x \in Sockets, entered.sk[x].server = "joined", x # s
                PROVE  x \in entered.roster
    BY <1>9
  <2>1. x \notin gone /\ here[x] = sock[x]
    BY <1>1, <1>4, <1>8, <1>9
  <2>2. sock[x].server = "joined"
    BY <1>8, <1>9, <2>1
  <2>. HIDE DEF gone
  <2>. QED
    BY <1>1, <1>9, <2>1, <2>2 DEF RosterOK
<1>12. Serving(entered)
  <2>. HIDE DEF gone
  <2>. QED
    BY <1>8, <1>9, <1>10, <1>11 DEF Serving, RosterOK
<1>13. added = Broadcast(entered, {Home(s)})
  BY DEF AddConnection, entered, moved
<1>14. Serving(SendSnapshot(added, {Home(s)}, {s}))
  BY <1>12, <1>13, TellingKeeps
<1>15. Serves(SendSnapshot(added, {Home(s)}, {s})) /\ UNCHANGED <<page, applied, spent>>
  BY DEF Joins, here, now
<1>16. mints' \subseteq Sockets \X Nat
  <2>1. mints' = mints \/ mints' = mints \cup {<<s, now>>}
    BY DEF Joins, now
  <2>. QED
    BY <1>1, <2>1
<1>. HIDE DEF added
<1>17. spent \in Nat /\ spent' \in 0..MaxEvents /\ spent <= spent'
  BY <1>1, <1>15
<1>. QED
  BY <1>14, <1>15, <1>16, <1>17, ServesKeeps


\* Accept(s): a connection at once, or after its URL.
LEMMA AcceptKeeps ==
    ASSUME SyncAssumption, Inv, NEW s \in Sockets, Accept(s)
    PROVE  Inv'
<1>. DEFINE now == room[Home(s)].track
<1>1. sock[s].server = "closed" /\ sock[s].client = "connecting" /\ sock[s].down = <<>>
  BY DEF Accept, Accepted
<1>2. CASE Joins(s, FALSE)
  BY <1>1, <1>2, JoinsKeeps
<1>3. CASE /\ now # Plain
           /\ sock' = [sock EXCEPT ![s].server = "waiting", ![s].preset = now]
           /\ UNCHANGED <<page, serverVars, spent>>
  <2>. DEFINE waits == [sock[s] EXCEPT !.server = "waiting", !.preset = now]
              sk == [sock EXCEPT ![s] = waits]
  <2>1. /\ sock \in [Sockets -> SocketType] /\ roster \subseteq Sockets
        /\ \A x \in Sockets : sock[x] \in SocketType /\ SocketOK(sock[x])
                              /\ Follows(sock[x], sock[x])
        /\ RosterOK(sock, roster, userRoom) /\ Home(s) \in Rooms /\ now \in Nat
        /\ mints \subseteq Sockets \X Nat /\ spent \in Nat /\ spent \in 0..MaxEvents
    BY Facts
  <2>2. /\ waits \in SocketType /\ waits.page = sock[s].page /\ waits.client = "connecting"
        /\ waits.link = sock[s].link /\ waits.up = <<>> /\ waits.down = <<>>
        /\ waits.server = "waiting" /\ waits.preset = now
    <3>1. sock[s] \in SocketType /\ sock[s].up = <<>>
      BY <1>1, <2>1 DEF SocketOK
    <3>. HIDE DEF now
    <3>. QED
      BY <1>1, <2>1, <3>1 DEF SocketType
  <2>3. Follows(sock[s], waits)
    <3>1. Warned(waits) /\ sock[s].up = <<>>
      BY <1>1, <2>1, <2>2 DEF Warned, SocketOK
    <3>. HIDE DEF waits, now
    <3>. QED
      BY <1>1, <1>3, <2>2, <3>1 DEF Follows
  <2>4. sock' = sk
    BY <1>3, <2>1
  <2>. HIDE DEF waits, now
  <2>5. sk \in [Sockets -> SocketType] /\ \A x \in Sockets : Follows(sock[x], sk[x])
    BY <2>1, <2>2, <2>3
  <2>6. RosterOK(sk, roster, userRoom)
    <3>1. \A x \in Sockets : /\ sk[x].page = sock[x].page
                             /\ x # s => sk[x] = sock[x]
                             /\ x = s => sk[x].preset # Plain /\ sk[x].server = "waiting"
      BY <1>3, <2>1, <2>2
    <3>. HIDE DEF sk
    <3>. QED
      BY <2>1, <3>1 DEF RosterOK
  <2>7. UNCHANGED <<page, applied, roster, room, userRoom, mints, spent>>
    BY <1>3 DEF serverVars
  <2>. HIDE DEF sk
  <2>. QED
    BY <2>1, <2>4, <2>5, <2>6, <2>7, NetworkStepKeeps
<1>. QED
  BY <1>2, <1>3 DEF Accept

\* PresetDone(s): a connection after its URL.
LEMMA PresetDoneKeeps ==
    ASSUME SyncAssumption, Inv, NEW s \in Sockets, PresetDone(s)
    PROVE  Inv'
BY JoinsKeeps DEF PresetDone

\* MintDone(t): the URL arrives late, in time, or not at all.
LEMMA MintDoneKeeps ==
    ASSUME SyncAssumption, Inv, NEW t \in mints, MintDone(t)
    PROVE  Inv'
<1>. DEFINE s == t[1]
            minted == [sock[s] EXCEPT !.url = t[2]]
            srv == [Server EXCEPT !.sk[s].url = t[2]]
<1>1. /\ sock \in [Sockets -> SocketType] /\ roster \subseteq Sockets
      /\ \A x \in Sockets : sock[x] \in SocketType /\ Follows(sock[x], sock[x])
      /\ RosterOK(sock, roster, userRoom) /\ s \in Sockets /\ t[2] \in Nat
      /\ mints \subseteq Sockets \X Nat /\ spent \in Nat /\ spent \in 0..MaxEvents
      /\ Server \in ServerType /\ Server.sk = sock /\ Server.roster = roster
      /\ Server.userRoom = userRoom
  BY Facts
<1>2. mints' \subseteq Sockets \X Nat /\ UNCHANGED <<page, applied, spent>>
  BY <1>1 DEF MintDone
<1>3. /\ minted \in SocketType /\ minted.page = sock[s].page /\ minted.client = sock[s].client
      /\ minted.link = sock[s].link /\ minted.up = sock[s].up /\ minted.down = sock[s].down
      /\ minted.server = sock[s].server /\ minted.preset = sock[s].preset
      /\ minted.present = sock[s].present /\ minted.missed = sock[s].missed
  <2>1. sock[s] \in SocketType
    BY <1>1
  <2>. HIDE DEF s
  <2>. QED
    BY <1>1, <2>1 DEF SocketType
<1>4. Follows(sock[s], minted)
  <2>1. Follows(sock[s], sock[s])
    BY <1>1
  <2>2. (Warned(sock[s]) <=> Warned(minted))
        /\ \A on \in BOOLEAN : Believes(sock[s], on) <=> Believes(minted, on)
    BY SMTT(30), <1>3 DEF Warned, Believes
  <2>. HIDE DEF minted, s
  <2>. QED
    BY <1>3, <2>1, <2>2 DEF Follows
<1>5. srv \in ServerType /\ srv.sk = [sock EXCEPT ![s] = minted] /\ srv.roster = roster
      /\ srv.userRoom = userRoom
  <2>. DEFINE sk == [sock EXCEPT ![s] = minted]
  <2>1. sk \in [Sockets -> SocketType]
    BY <1>1, <1>3
  <2>2. srv = [Server EXCEPT !.sk = sk]
    BY <1>1 DEF ServerType
  <2>. HIDE DEF sk, srv, minted, s
  <2>3. srv \in ServerType /\ srv.sk = sk /\ srv.roster = roster /\ srv.userRoom = userRoom
    BY <1>1, <2>1, <2>2 DEF ServerType
  <2>. QED
    BY <2>3 DEF sk
<1>6. Serving(srv)
  <2>. HIDE DEF srv, minted, s
  <2>1. \A x \in Sockets : Follows(sock[x], srv.sk[x]) /\ srv.sk[x].page = sock[x].page
                /\ srv.sk[x].server = sock[x].server /\ srv.sk[x].preset = sock[x].preset
    BY <1>1, <1>3, <1>4, <1>5
  <2>2. RosterOK(srv.sk, srv.roster, srv.userRoom)
    BY <1>1, <1>5, <2>1 DEF RosterOK
  <2>. QED
    BY <1>5, <2>1, <2>2 DEF Serving
<1>7. CASE Serves(SendSnapshot(srv, {Home(s)}, {s}))
  <2>. HIDE DEF srv, minted, s
  <2>. QED
    BY <1>1, <1>2, <1>6, <1>7, TellingKeeps, ServesKeeps
<1>8. CASE UNCHANGED <<sock, room, roster, userRoom>>
  BY <1>1, <1>2, <1>8, NetworkStepKeeps
<1>. QED
  BY <1>7, <1>8 DEF MintDone

\* Notices(s): a dead link shows.
LEMMA NoticesKeeps ==
    ASSUME SyncAssumption, Inv, NEW s \in Sockets, Notices(s)
    PROVE  Inv'
<1>1. /\ Server \in ServerType /\ Server.sk = sock /\ Server.roster = roster
      /\ Server.userRoom = userRoom /\ mints \subseteq Sockets \X Nat
      /\ spent \in Nat /\ spent \in 0..MaxEvents
  BY Facts
<1>2. Serving(CloseOf(Server, s))
  BY <1>1, CloseKeeps
<1>3. Serves(CloseOf(Server, s)) /\ UNCHANGED <<page, mints, applied, spent>>
  BY DEF Notices
<1>. QED
  BY <1>1, <1>2, <1>3, ServesKeeps

\* Terminate(s): the heartbeat takes a waiting socket for a dead one.
LEMMA TerminateKeeps ==
    ASSUME SyncAssumption, Inv, NEW s \in Sockets, Terminate(s)
    PROVE  Inv'
<1>. DEFINE cut == [sock[s] EXCEPT !.link = FALSE, !.down = <<>>]
            srv == [Server EXCEPT !.sk[s].link = FALSE, !.sk[s].down = <<>>]
<1>1. /\ Server \in ServerType /\ Server.sk = sock /\ Server.roster = roster
      /\ Server.userRoom = userRoom /\ mints \subseteq Sockets \X Nat
      /\ spent \in Nat /\ spent \in 0..MaxEvents /\ MaxEvents \in Nat
      /\ sock[s] \in SocketType /\ sock \in [Sockets -> SocketType]
  BY Facts
<1>2. cut \in SocketType /\ cut.page = sock[s].page /\ cut.client = sock[s].client
      /\ cut.server = sock[s].server /\ cut.preset = sock[s].preset /\ cut.link = FALSE
  <2>1. <<>> \in Seq(Downward) /\ sock[s] \in SocketType
    BY <1>1
  <2>. QED
    BY <2>1 DEF SocketType
<1>3. srv \in ServerType /\ srv.sk = [sock EXCEPT ![s] = cut] /\ srv.roster = roster
      /\ srv.userRoom = userRoom
  <2>. DEFINE sk == [sock EXCEPT ![s] = cut]
  <2>1. sk \in [Sockets -> SocketType]
    BY <1>1, <1>2
  <2>2. srv = [Server EXCEPT !.sk = sk]
    BY <1>1 DEF ServerType
  <2>. HIDE DEF sk, srv
  <2>3. srv \in ServerType /\ srv.sk = sk /\ srv.roster = roster /\ srv.userRoom = userRoom
    BY <1>1, <2>1, <2>2 DEF ServerType
  <2>. QED
    BY <2>3 DEF sk
<1>4. /\ Serves(CloseOf(srv, s)) /\ UNCHANGED <<page, mints, applied>>
      /\ spent' = spent + 1 /\ spent < MaxEvents
  BY DEF Terminate, May, Spend
<1>. HIDE DEF srv, cut
<1>5. srv.sk[s] = cut /\ \A x \in Sockets \ {s} : srv.sk[x] = sock[x]
  BY <1>1, <1>3
<1>6. Serving(CloseOf(srv, s))
  BY <1>2, <1>3, <1>5, CloseKeeps
<1>. QED
  BY <1>1, <1>4, <1>6, ServesKeeps

\* Drop(s): the network loses a link with all that is on it.
LEMMA DropKeeps ==
    ASSUME SyncAssumption, Inv, NEW s \in Sockets, Drop(s)
    PROVE  Inv'
<1>. DEFINE cut == [sock[s] EXCEPT !.link = FALSE, !.down = <<>>, !.up = <<>>]
            sk == [sock EXCEPT ![s] = cut]
<1>1. /\ sock \in [Sockets -> SocketType] /\ roster \subseteq Sockets
      /\ \A x \in Sockets : sock[x] \in SocketType /\ SocketOK(sock[x])
                            /\ Follows(sock[x], sock[x])
      /\ RosterOK(sock, roster, userRoom) /\ mints \subseteq Sockets \X Nat
      /\ spent \in Nat /\ spent \in 0..MaxEvents /\ MaxEvents \in Nat
  BY Facts
<1>2. /\ cut \in SocketType /\ cut.page = sock[s].page /\ cut.client = sock[s].client
      /\ cut.server = sock[s].server /\ cut.preset = sock[s].preset /\ cut.link = FALSE
      /\ cut.up = <<>> /\ cut.down = <<>>
  <2>1. <<>> \in Seq(Upward) /\ <<>> \in Seq(Downward) /\ sock[s] \in SocketType
    BY <1>1
  <2>. QED
    BY <2>1 DEF SocketType
<1>3. /\ sock' = sk /\ UNCHANGED <<page, applied, roster, room, userRoom, mints>>
      /\ spent' = spent + 1 /\ spent < MaxEvents
  <2>1. sock' = [sock EXCEPT ![s].link = FALSE, ![s].down = <<>>, ![s].up = <<>>]
        /\ UNCHANGED <<page, applied, roster, room, userRoom, mints>>
        /\ spent' = spent + 1 /\ spent < MaxEvents
    BY DEF Drop, Spend, May, serverVars
  <2>. QED
    BY <1>1, <2>1
<1>. HIDE DEF cut
<1>4. Follows(sock[s], cut)
  <2>1. Warned(cut)
    BY <1>2 DEF Warned
  <2>. QED
    BY <1>1, <1>2, <2>1 DEF Follows, SocketOK
<1>5. sk \in [Sockets -> SocketType] /\ \A x \in Sockets : Follows(sock[x], sk[x])
  BY <1>1, <1>2, <1>4
<1>6. \A x \in Sockets : sk[x].page = sock[x].page /\ sk[x].server = sock[x].server
                         /\ sk[x].preset = sock[x].preset
  <2>1. sk[s] = cut /\ \A x \in Sockets : x # s => sk[x] = sock[x]
    BY <1>1
  <2>. QED
    BY <1>2, <2>1
<1>. HIDE DEF sk
<1>7. RosterOK(sk, roster, userRoom)
  BY <1>1, <1>6 DEF RosterOK
<1>. QED
  BY <1>1, <1>3, <1>5, <1>7, NetworkStepKeeps


\* Change(g): something of a room changes, or a track starts.
LEMMA ChangeKeeps ==
    ASSUME SyncAssumption, Inv, NEW g \in Rooms, Change(g)
    PROVE  Inv'
<1>1. /\ Server \in ServerType /\ Server.sk = sock /\ Server.roster = roster
      /\ Server.userRoom = userRoom /\ Server.rm = room /\ mints \subseteq Sockets \X Nat
      /\ spent \in Nat /\ spent \in 0..MaxEvents /\ MaxEvents \in Nat
      /\ \A x \in Sockets : sock[x] \in SocketType /\ Follows(sock[x], sock[x])
      /\ RosterOK(sock, roster, userRoom) /\ roster \subseteq Sockets
      /\ sock \in [Sockets -> SocketType]
      /\ userRoom \in [Users -> Rooms \cup {NoRoom}]
      /\ room \in [Rooms -> [rev : Nat, ver : Nat, track : Nat]]
  BY Facts
<1>2. UNCHANGED <<page, applied>> /\ spent' = spent + 1 /\ spent < MaxEvents
  BY DEF Change, May, Spend
<1>3. CASE Serves(Broadcast(Server, {g})) /\ UNCHANGED mints
  <2>1. Serving(Server)
    BY <1>1 DEF Serving
  <2>2. Serving(Broadcast(Server, {g}))
    BY <2>1, TellingKeeps
  <2>. QED
    BY <1>1, <1>2, <1>3, <2>2, ServesKeeps
<1>4. ASSUME NEW split \in BOOLEAN,
             LET next == IF split THEN room[g].ver + 1 ELSE Plain
                 fresh == [sk |-> [s \in Sockets |-> IF s \in In(roster, g)
                                     THEN [sock[s] EXCEPT !.url = Plain] ELSE sock[s]],
                           rm |-> [room EXCEPT ![g].track = next],
                           roster |-> roster, userRoom |-> userRoom]
             IN  /\ Serves(Broadcast(fresh, {g}))
                 /\ mints' = mints \cup (IF split THEN In(roster, g) \X {next} ELSE {})
      PROVE  Inv'
  <2>. DEFINE next == IF split THEN room[g].ver + 1 ELSE Plain
              sk == [s \in Sockets |-> IF s \in In(roster, g)
                                         THEN [sock[s] EXCEPT !.url = Plain] ELSE sock[s]]
              rm == [room EXCEPT ![g].track = next]
              fresh == [sk |-> sk, rm |-> rm, roster |-> roster, userRoom |-> userRoom]
  <2>1. next \in Nat
    BY <1>1 DEF Plain
  <2>2. Serves(Broadcast(fresh, {g}))
        /\ mints' = mints \cup (IF split THEN In(roster, g) \X {next} ELSE {})
    BY <1>4
  <2>. HIDE DEF next
  <2>3. mints' \subseteq Sockets \X Nat
    <3>1. In(roster, g) \subseteq Sockets
      BY <1>1 DEF In
    <3>. QED
      BY <1>1, <2>1, <2>2, <3>1
  <2>4. rm \in [Rooms -> [rev : Nat, ver : Nat, track : Nat]]
    BY <1>1, <2>1
  <2>5. ASSUME NEW x \in Sockets
        PROVE  /\ sk[x] \in SocketType /\ Follows(sock[x], sk[x])
               /\ sk[x].page = sock[x].page /\ sk[x].server = sock[x].server
               /\ sk[x].preset = sock[x].preset
    <3>1. CASE x \in In(roster, g)
      <4>. DEFINE bare == [sock[x] EXCEPT !.url = Plain]
      <4>1. sk[x] = bare
        BY <3>1
      <4>2. /\ bare \in SocketType /\ bare.page = sock[x].page /\ bare.client = sock[x].client
            /\ bare.link = sock[x].link /\ bare.up = sock[x].up /\ bare.down = sock[x].down
            /\ bare.server = sock[x].server /\ bare.preset = sock[x].preset
            /\ bare.present = sock[x].present /\ bare.missed = sock[x].missed
        BY ZenonT(40), <1>1 DEF SocketType, Plain
      <4>. HIDE DEF bare
      <4>3. (Warned(sock[x]) <=> Warned(bare))
            /\ \A on \in BOOLEAN : Believes(sock[x], on) <=> Believes(bare, on)
        BY <4>2 DEF Warned, Believes
      <4>4. Follows(sock[x], sock[x])
        BY <1>1
      <4>5. Follows(sock[x], bare)
        BY <4>2, <4>3, <4>4 DEF Follows
      <4>. HIDE DEF sk
      <4>. QED
        BY <4>1, <4>2, <4>5
    <3>2. CASE x \notin In(roster, g)
      BY <1>1, <3>2
    <3>. QED
      BY <3>1, <3>2
  <2>6. sk \in [Sockets -> SocketType]
    BY <2>5
  <2>. HIDE DEF sk, rm
  <2>7. fresh \in ServerType /\ fresh.sk = sk /\ fresh.roster = roster
        /\ fresh.userRoom = userRoom
    BY <1>1, <2>4, <2>6 DEF ServerType
  <2>. HIDE DEF fresh
  <2>8. RosterOK(fresh.sk, fresh.roster, fresh.userRoom)
    BY <1>1, <2>5, <2>7 DEF RosterOK
  <2>9. Serving(fresh)
    BY <2>5, <2>7, <2>8 DEF Serving
  <2>10. Serving(Broadcast(fresh, {g}))
    BY <2>9, TellingKeeps
  <2>. QED
    BY <1>1, <1>2, <2>2, <2>3, <2>10, ServesKeeps
<1>. QED
  BY <1>3, <1>4 DEF Change

\* Reboot(g): everybody is sent away.
LEMMA RebootKeeps ==
    ASSUME SyncAssumption, Inv, NEW g \in Rooms, Reboot(g)
    PROVE  Inv'
<1>. DEFINE gone == In(roster, g)
            sk == Dismiss(sock, gone, "rebooted")
            rm == [room EXCEPT ![g] = [rev |-> 0, ver |-> @.ver + 1, track |-> Plain]]
            srv == [sk |-> sk, userRoom |-> userRoom, rm |-> rm, roster |-> roster \ gone]
<1>1. /\ mints \subseteq Sockets \X Nat
      /\ spent \in Nat /\ spent \in 0..MaxEvents /\ MaxEvents \in Nat
      /\ \A x \in Sockets : sock[x] \in SocketType /\ Follows(sock[x], sock[x])
      /\ RosterOK(sock, roster, userRoom) /\ roster \subseteq Sockets
      /\ userRoom \in [Users -> Rooms \cup {NoRoom}]
      /\ room \in [Rooms -> [rev : Nat, ver : Nat, track : Nat]]
  BY Facts
<1>2. sock \in [Sockets -> SocketType]
  BY Facts
<1>3. rm \in [Rooms -> [rev : Nat, ver : Nat, track : Nat]]
  BY <1>1 DEF Plain
<1>4. "rebooted" \in {"joined_elsewhere", "rebooted"}
  OBVIOUS
<1>. HIDE DEF gone
<1>5. /\ sk \in [Sockets -> SocketType]
      /\ \A x \in Sockets :
           /\ x \notin gone => sk[x] = sock[x]
           /\ x \in gone => sk[x].server # "joined"
           /\ sk[x].page = sock[x].page /\ sk[x].preset = sock[x].preset
           /\ \A y \in SocketType : Follows(y, sock[x]) => Follows(y, sk[x])
  BY <1>2, <1>4, DismissOK
<1>. HIDE DEF sk, rm
<1>6. srv \in ServerType /\ srv.sk = sk /\ srv.roster = roster \ gone
      /\ srv.userRoom = userRoom
  BY <1>1, <1>3, <1>5 DEF ServerType
<1>7. Serves(srv) /\ UNCHANGED <<page, mints, applied>> /\ spent' = spent + 1
      /\ spent < MaxEvents
  BY DEF Reboot, May, Spend, sk, rm, gone
<1>. HIDE DEF srv
<1>8. RosterOK(srv.sk, srv.roster, srv.userRoom)
  BY SMTT(30), <1>1, <1>5, <1>6 DEF RosterOK
<1>9. \A x \in Sockets : Follows(sock[x], srv.sk[x])
  BY <1>1, <1>5, <1>6
<1>10. Serving(srv)
  BY <1>6, <1>8, <1>9 DEF Serving
<1>. QED
  BY <1>1, <1>7, <1>10, ServesKeeps

\* Restart(graceful): the bot comes back empty.
LEMMA RestartKeeps ==
    ASSUME SyncAssumption, Inv, NEW graceful \in BOOLEAN, Restart(graceful)
    PROVE  Inv'
<1>. DEFINE heard == IF graceful THEN Tell(sock, roster, CloseFrame) ELSE sock
            lost == IF graceful THEN Sockets \ roster ELSE Sockets
            Left(s) == [heard[s] EXCEPT !.server = "closed", !.up = <<>>,
                                        !.link = @ /\ s \notin lost,
                                        !.down = IF s \in lost THEN <<>> ELSE @]
            sk == [s \in Sockets |-> Left(s)]
            rm == [g \in Rooms |-> [rev |-> 0, ver |-> room[g].ver + 1, track |-> Plain]]
            users == [u \in Users |-> NoRoom]
            srv == [sk |-> sk, rm |-> rm, roster |-> {}, userRoom |-> users]
<1>1. /\ spent \in Nat /\ spent \in 0..MaxEvents /\ MaxEvents \in Nat
      /\ \A x \in Sockets : sock[x] \in SocketType /\ Follows(sock[x], sock[x])
      /\ room \in [Rooms -> [rev : Nat, ver : Nat, track : Nat]]
  BY Facts
<1>2. \A x \in Sockets :
        /\ heard[x] \in SocketType /\ heard[x].page = sock[x].page
        /\ heard[x].client = sock[x].client /\ heard[x].link = sock[x].link
  <2>. SUFFICES ASSUME NEW x \in Sockets
                PROVE  /\ heard[x] \in SocketType /\ heard[x].page = sock[x].page
                       /\ heard[x].client = sock[x].client /\ heard[x].link = sock[x].link
    OBVIOUS
  <2>1. sock[x] \in SocketType /\ sock[x].down \in Seq(Downward) /\ CloseFrame \in Downward
    BY <1>1 DEF SocketType, Downward
  <2>2. Append(sock[x].down, CloseFrame) \in Seq(Downward)
    BY <2>1
  <2>3. heard[x] = sock[x] \/ heard[x] = [sock[x] EXCEPT !.down = Append(@, CloseFrame)]
    BY DEF Tell
  <2>. HIDE DEF heard
  <2>. QED
    BY <2>1, <2>2, <2>3 DEF SocketType
<1>. HIDE DEF heard, lost
<1>3. ASSUME NEW x \in Sockets
      PROVE  /\ Left(x) \in SocketType /\ Follows(sock[x], Left(x))
             /\ Left(x).server = "closed"
  <2>1. heard[x] \in SocketType /\ <<>> \in Seq(Upward) /\ <<>> \in Seq(Downward)
    BY <1>2
  <2>2. /\ Left(x).page = heard[x].page /\ Left(x).client = heard[x].client
        /\ Left(x).server = "closed" /\ Left(x).up = <<>>
        /\ Left(x).link = (heard[x].link /\ x \notin lost)
    BY <2>1 DEF SocketType
  <2>3. Left(x) \in SocketType
    <3>1. CASE x \in lost
      <4>1. Left(x) = [heard[x] EXCEPT !.server = "closed", !.up = <<>>, !.link = FALSE,
                                       !.down = <<>>]
        BY <3>1
      <4>. HIDE DEF Left
      <4>. QED
        BY <2>1, <4>1 DEF SocketType
    <3>2. CASE x \notin lost
      <4>1. Left(x) = [heard[x] EXCEPT !.server = "closed", !.up = <<>>]
        BY <2>1, <3>2 DEF SocketType
      <4>. HIDE DEF Left
      <4>. QED
        BY <2>1, <4>1 DEF SocketType
    <3>. QED
      BY <3>1, <3>2
  <2>. HIDE DEF Left
  <2>4. Left(x).server \notin Hearing
    BY <2>2 DEF Hearing
  <2>5. Follows(sock[x], Left(x))
    BY <1>2, <2>2, <2>4 DEF Follows
  <2>. QED
    BY <2>2, <2>3, <2>5
<1>4. rm \in [Rooms -> [rev : Nat, ver : Nat, track : Nat]] /\ users \in [Users -> Rooms \cup {NoRoom}]
  BY <1>1 DEF Plain
<1>5. Serves(srv) /\ mints' = {} /\ UNCHANGED <<page, applied>> /\ spent' = spent + 1
      /\ spent < MaxEvents
  BY DEF Restart, May, Spend, Serves, heard, lost
<1>. HIDE DEF Left
<1>6. sk \in [Sockets -> SocketType] /\ \A x \in Sockets : sk[x] = Left(x)
  BY <1>3
<1>. HIDE DEF sk, rm, users
<1>7. srv \in ServerType /\ srv.sk = sk /\ srv.roster = {} /\ srv.userRoom = users
  BY <1>4, <1>6 DEF ServerType
<1>. HIDE DEF srv
<1>8. RosterOK(srv.sk, srv.roster, srv.userRoom)
  BY <1>3, <1>6, <1>7 DEF RosterOK
<1>9. Serving(srv)
  BY <1>3, <1>6, <1>7, <1>8 DEF Serving
<1>. QED
  BY <1>1, <1>5, <1>9, ServesKeeps


\* A control that is applied was pressed after all that were applied before,
\* and before all that are still on their way.
LEMMA AppliesKeeps ==
    ASSUME SyncAssumption, Inv, NEW srv, Serving(srv), Serves(srv),
           UNCHANGED <<page, mints, spent>>, NEW s \in Sockets,
           sock[s].server \in {"joined", "closing"}, sock[s].up # <<>>,
           Head(sock[s].up).type = "control", srv.sk[s].up = Tail(sock[s].up),
           applied' = Append(applied, Head(sock[s].up).id)
    PROVE  Inv'
<1>. DEFINE msg == Head(sock[s].up)
            p == sock[s].page
            n == Len(applied)
<1>1. /\ sock \in [Sockets -> SocketType] /\ page \in [Pages -> PageType]
      /\ mints \subseteq Sockets \X Nat
      /\ spent \in Nat /\ spent \in 0..MaxEvents /\ MaxEvents \in Nat
      /\ \A x \in Sockets : sock[x] \in SocketType /\ sock[x].page \in Pages
  BY Facts
<1>2. applied \in Seq(Pages \X (1..MaxEvents)) /\ n \in Nat
  BY DEF Inv, TypeOK
<1>3. /\ sock[s].up \in Seq(Upward) /\ 1 \in DOMAIN sock[s].up /\ msg = sock[s].up[1]
      /\ msg \in Upward
  BY <1>1 DEF SocketType
<1>4. msg.id \in Pages \X (1..MaxEvents) /\ msg.id[2] \in Int
  BY <1>3, UpwardControl
<1>5. Carries(sock[s])
  BY <1>3 DEF Carries, Hearing
<1>6. /\ applied' \in Seq(Pages \X (1..MaxEvents)) /\ DOMAIN applied' = 1..n + 1
      /\ DOMAIN applied = 1..n
      /\ \A i \in 1..n : applied'[i] = applied[i]
      /\ applied'[n + 1] = msg.id
  BY <1>2, <1>4
<1>7. /\ p \in Pages /\ Kept(page[p], sock, p, applied, spent)
      /\ InOrder(page[p], sock[s], p, applied, spent)
  BY <1>1 DEF Inv, PagesOK, SocketsOK
<1>8. msg.id[1] = p /\ msg.id[2] <= spent
  BY <1>3, <1>7 DEF InOrder, Signed
<1>9. ~page[p].doubled => /\ Increasing(sock[s].up) /\ Older(sock[s].up, page[p].outbox)
                          /\ Done(applied, p, sock[s].up)
  BY <1>5, <1>7 DEF InOrder
<1>10. /\ srv.sk \in [Sockets -> SocketType] /\ srv.roster \subseteq Sockets
       /\ srv.rm \in [Rooms -> [rev : Nat, ver : Nat, track : Nat]]
       /\ srv.userRoom \in [Users -> Rooms \cup {NoRoom}]
       /\ \A x \in Sockets : Follows(sock[x], srv.sk[x])
       /\ RosterOK(srv.sk, srv.roster, srv.userRoom)
  BY DEF ServerType, Serving
<1>11. /\ sock' = Swept(srv.sk, srv.roster) /\ roster' = srv.roster
       /\ room' = srv.rm /\ userRoom' = srv.userRoom
  BY DEF Serves
<1>12. /\ sock' \in [Sockets -> SocketType]
       /\ \A q \in Pages :
            /\ Kept(page[q], sock', q, applied, spent)
            /\ page[q].cur # NoSocket => sock'[page[q].cur].page = q
                                         /\ sock'[page[q].cur].client # "closed"
       /\ \A x \in Sockets :
            /\ SocketOK(sock'[x]) /\ Holds(page[sock'[x].page], sock'[x], x)
            /\ InOrder(page[sock'[x].page], sock'[x], sock'[x].page, applied, spent)
            /\ Carries(sock'[x]) => /\ sock'[x] = srv.sk[x] /\ Carries(sock[x])
                                    /\ sock'[x].page = sock[x].page
  <2>1. spent <= spent
    BY <1>1
  <2>2. Keeping(srv.sk, sock', spent)
    BY <1>1, <1>10, <1>11, <2>1, ServerKeeps
  <2>. QED
    BY <2>2 DEF Keeping
<1>. HIDE DEF msg, n
<1>13. ASSUME NEW q \in Pages, NEW m, Done(applied, q, m),
              q = p => \A j \in DOMAIN m : m[j].type = "control" => msg.id[2] < m[j].id[2]
       PROVE  Done(applied', q, m)
  <2>. SUFFICES ASSUME NEW i \in DOMAIN applied', NEW j \in DOMAIN m, applied'[i][1] = q,
                       m[j].type = "control"
                PROVE  applied'[i][2] < m[j].id[2]
    BY DEF Done
  <2>1. CASE i \in 1..n
    <3>1. i \in DOMAIN applied /\ applied'[i] = applied[i] /\ applied[i][1] = q
      BY <1>6, <2>1
    <3>2. applied[i][2] < m[j].id[2]
      BY <1>13, <3>1 DEF Done
    <3>. QED
      BY <3>1, <3>2
  <2>2. CASE i = n + 1
    BY <1>6, <1>8, <1>13, <2>2
  <2>. QED
    BY <1>2, <1>6, <2>1, <2>2
<1>14. ASSUME NEW q \in Pages PROVE Kept(page[q], sock', q, applied', spent)
  <2>1. ASSUME ~page[q].doubled PROVE Done(applied', q, page[q].outbox)
    <3>1. Done(applied, q, page[q].outbox)
      BY <1>12, <2>1 DEF Kept, Stored, Quiet, Heard
    <3>2. q = p => \A j \in DOMAIN page[q].outbox :
                     page[q].outbox[j].type = "control" => msg.id[2] < page[q].outbox[j].id[2]
      BY <1>3, <1>9, <2>1 DEF Older, msg
    <3>. QED
      BY <1>13, <3>1, <3>2
  <2>2. Kept(page[q], sock', q, applied, spent)
    BY <1>12
  <2>. QED
    BY <2>1, <2>2 DEF Kept, Stored, Quiet, Heard
<1>15. ASSUME NEW x \in Sockets
       PROVE  InOrder(page[sock'[x].page], sock'[x], sock'[x].page, applied', spent)
  <2>. DEFINE q == sock'[x].page
  <2>1. InOrder(page[q], sock'[x], q, applied, spent) /\ q \in Pages
    BY <1>12 DEF SocketType
  <2>2. ASSUME ~page[q].doubled, Carries(sock'[x]) PROVE Done(applied', q, sock'[x].up)
    <3>1. Done(applied, q, sock'[x].up)
      BY <2>1, <2>2 DEF InOrder
    <3>2. ASSUME q = p, NEW j \in DOMAIN sock'[x].up, sock'[x].up[j].type = "control"
          PROVE  msg.id[2] < sock'[x].up[j].id[2]
      <4>1. sock'[x] = srv.sk[x] /\ Carries(sock[x]) /\ sock[x].page = p
        BY <1>12, <2>2, <3>2
      <4>2. x = s
        <5>1. ~page[p].doubled
          BY <2>2, <3>2
        <5>. HIDE DEF p, q
        <5>2. sock[s].page = p
          BY DEF p
        <5>. QED
          BY <1>5, <1>7, <4>1, <5>1, <5>2 DEF Kept, Stored, Quiet, Heard
      <4>3. sock'[x].up = Tail(sock[s].up)
        BY <4>1, <4>2
      <4>4. j \in Nat /\ j + 1 \in DOMAIN sock[s].up /\ sock'[x].up[j] = sock[s].up[j + 1] /\ 1 < j + 1
        BY <1>3, <3>2, <4>3
      <4>5. Increasing(sock[s].up) /\ msg.type = "control"
        BY <1>9, <2>2, <3>2 DEF msg
      <4>. QED
        BY <1>3, <3>2, <4>4, <4>5 DEF Increasing
    <3>. QED
      BY <1>13, <2>1, <3>1, <3>2
  <2>. QED
    BY <2>1, <2>2 DEF InOrder
<1>16. TypeOK'
  BY <1>1, <1>6, <1>10, <1>11, <1>12 DEF Inv, TypeOK
<1>17. PagesOK' /\ SocketsOK'
  BY <1>12, <1>14, <1>15 DEF PagesOK, SocketsOK
<1>18. AppliedOK'
  <2>. SUFFICES ASSUME NEW i \in 1..n + 1 PROVE applied'[i][2] <= spent
    BY <1>6 DEF AppliedOK
  <2>1. CASE i \in 1..n
    <3>1. i \in DOMAIN applied /\ applied'[i] = applied[i]
      BY <1>6, <2>1
    <3>. QED
      BY <3>1 DEF Inv, AppliedOK
  <2>2. CASE i = n + 1
    BY <1>6, <1>8, <2>2
  <2>3. i \in 1..n \/ i = n + 1
    BY <1>2
  <2>. QED
    BY <2>1, <2>2, <2>3
<1>19. ControlsInOrder'
  <2>. SUFFICES ASSUME NEW i \in 1..n + 1, NEW j \in 1..n + 1, i < j,
                       applied'[i][1] = applied'[j][1], ~page[applied'[i][1]].doubled
                PROVE  applied'[i][2] < applied'[j][2]
    BY <1>6 DEF ControlsInOrder
  <2>1. CASE j \in 1..n
    <3>1. i \in 1..n
      BY <1>2, <2>1
    <3>. QED
      BY <1>6, <2>1, <3>1 DEF Inv, ControlsInOrder
  <2>2. CASE j = n + 1
    <3>1. i \in 1..n /\ applied[i][1] = p /\ ~page[p].doubled
      BY <1>2, <1>6, <1>8, <2>2
    <3>2. msg.type = "control"
      BY DEF msg
    <3>. QED
      BY <1>3, <1>6, <1>9, <2>2, <3>1, <3>2 DEF Done
  <2>3. j \in 1..n \/ j = n + 1
    BY <1>2
  <2>. QED
    BY <2>1, <2>2, <2>3
<1>20. RosterOK(sock', roster', userRoom')
  BY <1>10, <1>11, SweptRoster
<1>. QED
  BY <1>16, <1>17, <1>18, <1>19, <1>20 DEF Inv



\* What a page said of its presence is not forgotten by hearing some of it.
LEMMA HeardBelieves ==
    ASSUME NEW a \in SocketType, NEW b \in SocketType, a.up # <<>>, b.up = Tail(a.up),
           b.present = IF Head(a.up).type = "presence" THEN Head(a.up).on ELSE a.present,
           NEW on, Believes(a, on)
    PROVE  Believes(b, on)
<1>1. /\ a.up \in Seq(Upward) /\ DOMAIN a.up = 1..Len(a.up) /\ 1 \in DOMAIN a.up
      /\ Len(a.up) \in Nat /\ Head(a.up) = a.up[1]
      /\ DOMAIN b.up = 1..Len(a.up) - 1 /\ \A j \in DOMAIN b.up : b.up[j] = a.up[j + 1]
  BY DEF SocketType
<1>2. \A j \in DOMAIN b.up : j \in Nat /\ j + 1 \in DOMAIN a.up /\ j + 1 > 1
  BY <1>1
<1>3. CASE a.present = on /\ \A i \in DOMAIN a.up : a.up[i].type # "presence"
  <2>1. b.present = on
    BY <1>1, <1>3
  <2>2. \A j \in DOMAIN b.up : b.up[j].type # "presence"
    BY <1>1, <1>2, <1>3
  <2>. QED
    BY <2>1, <2>2 DEF Believes
<1>4. ASSUME NEW i \in DOMAIN a.up, a.up[i].type = "presence", a.up[i].on = on,
             \A j \in DOMAIN a.up : j > i => a.up[j].type # "presence"
      PROVE  Believes(b, on)
  <2>1. CASE i = 1
    <3>1. b.present = on
      BY <1>1, <1>4, <2>1
    <3>2. \A j \in DOMAIN b.up : b.up[j].type # "presence"
      BY <1>1, <1>2, <1>4, <2>1
    <3>. QED
      BY <3>1, <3>2 DEF Believes
  <2>2. CASE i # 1
    <3>1. i - 1 \in DOMAIN b.up /\ b.up[i - 1] = a.up[i]
      BY <1>1, <2>2
    <3>2. \A j \in DOMAIN b.up : j > i - 1 => b.up[j].type # "presence"
      BY <1>1, <1>2, <1>4
    <3>. QED
      BY <1>4, <3>1, <3>2 DEF Believes
  <2>. QED
    BY <2>1, <2>2
<1>. QED
  BY <1>3, <1>4 DEF Believes

\* A message is heard: a presence by what the room believes, unless the server
\* did not listen yet, or listens no more.
LEMMA HeardFollows ==
    ASSUME NEW a \in SocketType, NEW b \in SocketType, SocketOK(a), a.up # <<>>,
           b.up = Tail(a.up), b.page = a.page, b.client = a.client, b.server = a.server,
           b.link = a.link, b.down = a.down, b.preset = a.preset,
           \/ b.missed
           \/ b.server = "closing"
           \/ /\ b.missed = a.missed
              /\ b.present = IF Head(a.up).type = "presence" THEN Head(a.up).on ELSE a.present
    PROVE  Follows(a, b)
<1>1. a.link
  BY DEF SocketOK, SocketType
<1>2. Warned(a) => Warned(b)
  BY DEF Warned
<1>3. ASSUME b.server \in {"waiting", "joined"}, ~b.missed
      PROVE  ~a.missed /\ \A on \in BOOLEAN : Believes(a, on) => Believes(b, on)
  BY <1>3, HeardBelieves
<1>. QED
  BY <1>1, <1>2, <1>3 DEF Follows, SocketOK

\* Hears(s): ws.on('message') and ws.on('close').
LEMMA HearsKeeps ==
    ASSUME SyncAssumption, Inv, NEW s \in Sockets, Hears(s)
    PROVE  Inv'
<1>. DEFINE msg == Head(sock[s].up)
            taken == [Server EXCEPT !.sk[s].up = Tail(@)]
            listening == sock[s].server \in {"joined", "closing"}
<1>1. /\ \A x \in Sockets : /\ sock[x] \in SocketType /\ Follows(sock[x], sock[x])
                            /\ SocketOK(sock[x])
      /\ Server \in ServerType /\ Server.sk = sock /\ Server.roster = roster
      /\ Server.userRoom = userRoom /\ mints \subseteq Sockets \X Nat
      /\ spent \in Nat /\ spent \in 0..MaxEvents /\ RosterOK(sock, roster, userRoom)
      /\ sock \in [Sockets -> SocketType]
  BY Facts
<1>2. sock[s].up # <<>> /\ sock[s].up \in Seq(Upward) /\ Tail(sock[s].up) \in Seq(Upward)
      /\ msg \in Upward /\ UNCHANGED <<page, mints, spent>>
  BY <1>1 DEF SocketType, Hears
<1>3. ASSUME NEW b \in SocketType, b.up = Tail(sock[s].up), b.page = sock[s].page,
             b.client = sock[s].client, b.server = sock[s].server, b.link = sock[s].link,
             b.down = sock[s].down, b.preset = sock[s].preset,
             \/ b.missed
             \/ b.server = "closing"
             \/ /\ b.missed = sock[s].missed
                /\ b.present = IF msg.type = "presence" THEN msg.on ELSE sock[s].present,
             NEW srv, srv = [Server EXCEPT !.sk = [sock EXCEPT ![s] = b]]
      PROVE  Serving(srv) /\ srv.sk[s] = b
  <2>. DEFINE sk == [sock EXCEPT ![s] = b]
  <2>1. sk \in [Sockets -> SocketType] /\ sk[s] = b /\ \A x \in Sockets \ {s} : sk[x] = sock[x]
    BY <1>1, <1>3
  <2>. HIDE DEF sk
  <2>2. srv \in ServerType /\ srv.sk = sk /\ srv.roster = roster /\ srv.userRoom = userRoom
    BY <1>1, <1>3, <2>1 DEF ServerType, sk
  <2>3. Follows(sock[s], b)
    BY <1>1, <1>2, <1>3, HeardFollows
  <2>4. \A x \in Sockets : Follows(sock[x], srv.sk[x])
    BY <1>1, <2>1, <2>2, <2>3
  <2>5. \A x \in Sockets : srv.sk[x].server = sock[x].server /\ srv.sk[x].page = sock[x].page
                           /\ srv.sk[x].preset = sock[x].preset
    BY <1>3, <2>1, <2>2
  <2>6. RosterOK(srv.sk, srv.roster, srv.userRoom)
    BY ZenonT(40), <1>1, <2>2, <2>5 DEF RosterOK, ServerType
  <2>. QED
    BY <2>1, <2>2, <2>4, <2>6 DEF Serving
<1>. DEFINE heard == [sock[s] EXCEPT !.up = Tail(sock[s].up)]
<1>4. /\ heard \in SocketType /\ heard.up = Tail(sock[s].up) /\ heard.page = sock[s].page
      /\ heard.client = sock[s].client /\ heard.server = sock[s].server
      /\ heard.link = sock[s].link /\ heard.down = sock[s].down /\ heard.preset = sock[s].preset
      /\ heard.missed = sock[s].missed /\ heard.present = sock[s].present
  BY ZenonT(40), <1>1, <1>2 DEF SocketType
<1>5. taken = [Server EXCEPT !.sk = [sock EXCEPT ![s] = heard]]
  BY <1>1
<1>. HIDE DEF heard
<1>6. taken \in ServerType /\ taken.roster = roster /\ taken.userRoom = userRoom
      /\ taken.sk = [sock EXCEPT ![s] = heard] /\ taken.sk[s] = heard
      /\ \A x \in Sockets \ {s} : taken.sk[x] = sock[x]
  <2>. DEFINE sk == [sock EXCEPT ![s] = heard]
  <2>1. sk \in [Sockets -> SocketType] /\ sk[s] = heard /\ \A x \in Sockets \ {s} : sk[x] = sock[x]
    BY <1>1, <1>4
  <2>. HIDE DEF sk
  <2>. QED
    BY <1>1, <1>5, <2>1 DEF ServerType, sk
<1>7. CASE msg.type = "close" /\ Serves(CloseOf(taken, s)) /\ UNCHANGED applied
  <2>1. Serving(CloseOf(taken, s))
    <3>. HIDE DEF taken
    <3>. QED
      BY <1>4, <1>6, CloseKeeps
  <2>. QED
    BY <1>1, <1>2, <1>7, <2>1, ServesKeeps
<1>8. CASE ~listening /\ Serves([taken EXCEPT !.sk[s].missed = TRUE]) /\ UNCHANGED applied
  <2>. DEFINE b == [heard EXCEPT !.missed = TRUE]
              srv == [taken EXCEPT !.sk[s].missed = TRUE]
  <2>1. /\ b \in SocketType /\ b.up = Tail(sock[s].up) /\ b.page = sock[s].page
        /\ b.client = sock[s].client /\ b.server = sock[s].server
        /\ b.link = sock[s].link /\ b.down = sock[s].down /\ b.preset = sock[s].preset /\ b.missed
    BY <1>4 DEF SocketType
  <2>2. srv = [Server EXCEPT !.sk = [sock EXCEPT ![s] = b]]
    <3>1. srv = [taken EXCEPT !.sk = [taken.sk EXCEPT ![s] = [taken.sk[s] EXCEPT !.missed = TRUE]]]
      BY <1>6
    <3>2. taken.sk = [sock EXCEPT ![s] = heard] /\ taken.sk[s] = heard
      BY <1>6
    <3>3. srv = [taken EXCEPT !.sk = [[sock EXCEPT ![s] = heard] EXCEPT ![s] = b]]
      BY <3>1, <3>2
    <3>4. [[sock EXCEPT ![s] = heard] EXCEPT ![s] = b] = [sock EXCEPT ![s] = b]
      BY <1>1
    <3>. HIDE DEF srv, b, taken
    <3>5. srv = [taken EXCEPT !.sk = [sock EXCEPT ![s] = b]]
      BY <3>3, <3>4
    <3>. QED
      BY <1>5, <3>5, <1>6, <1>1 DEF ServerType
  <2>. HIDE DEF srv, b, taken
  <2>3. Serving(srv)
    BY <1>3, <2>1, <2>2
  <2>4. Serves(srv) /\ UNCHANGED applied
    BY <1>8 DEF srv
  <2>. QED
    BY <1>1, <1>2, <2>3, <2>4, ServesKeeps
<1>9. CASE msg.type = "control" /\ listening
           /\ IF Exists(Server, Home(s))
              THEN Serves(Broadcast(taken, {Home(s)})) /\ applied' = Append(applied, msg.id)
              ELSE Serves(taken) /\ UNCHANGED applied
  <2>1. Serving(taken) /\ taken.sk[s] = heard
    <3>1. heard.missed = sock[s].missed
          /\ heard.present = IF msg.type = "presence" THEN msg.on ELSE sock[s].present
      BY <1>4, <1>9
    <3>. HIDE DEF msg, taken
    <3>. QED
      BY <1>3, <1>4, <1>5, <3>1
  <2>. DEFINE srv == Broadcast(taken, {Home(s)})
  <2>2. CASE Exists(Server, Home(s))
    <3>1. Serving(srv)
      <4>. HIDE DEF taken
      <4>. QED
        BY <2>1, TellingKeeps
    <3>2. srv.sk[s].up = Tail(sock[s].up)
      <4>. HIDE DEF taken
      <4>1. taken \in ServerType /\ \A x \in Sockets : Home(x) \in Rooms
        BY <1>6, Facts
      <4>2. Informed(taken.sk[s], srv.sk[s])
        BY <4>1, BroadcastTells
      <4>. HIDE DEF srv
      <4>3. srv.sk[s].up = heard.up
        BY <1>4, <2>1, <4>2 DEF Informed, SocketType
      <4>. QED
        BY <1>4, <4>3
    <3>3. Serves(srv) /\ applied' = Append(applied, msg.id)
      BY <1>9, <2>2
    <3>. HIDE DEF srv
    <3>. QED
      BY <1>2, <1>9, <3>1, <3>2, <3>3, AppliesKeeps
  <2>3. CASE ~Exists(Server, Home(s))
    <3>1. Serves(taken) /\ UNCHANGED applied
      BY <1>9, <2>3
    <3>. HIDE DEF taken
    <3>. QED
      BY <1>1, <1>2, <2>1, <3>1, ServesKeeps
  <2>. QED
    BY <2>2, <2>3
<1>10. CASE msg.type = "presence" /\ listening /\ UNCHANGED applied
            /\ IF s \in roster /\ sock[s].present # msg.on
               THEN Serves(Broadcast([taken EXCEPT !.sk[s].present = msg.on], {Home(s)}))
               ELSE Serves(taken)
  <2>1. msg.on \in BOOLEAN
    <3>1. msg # CloseFrame
      BY <1>10 DEF CloseFrame
    <3>2. msg \notin Controls
      BY <1>10 DEF Controls
    <3>3. msg \in [type : {"presence"}, on : BOOLEAN]
      BY <1>2, <3>1, <3>2 DEF Upward
    <3>. QED
      BY <3>3
  <2>2. s \notin roster => sock[s].server = "closing"
    BY <1>1, <1>10 DEF RosterOK
  <2>. DEFINE b == [heard EXCEPT !.present = msg.on]
              srv == [taken EXCEPT !.sk[s].present = msg.on]
  <2>3. CASE s \in roster /\ sock[s].present # msg.on
    <3>. HIDE DEF msg
    <3>1. /\ b \in SocketType /\ b.up = Tail(sock[s].up) /\ b.page = sock[s].page
          /\ b.client = sock[s].client /\ b.server = sock[s].server
          /\ b.link = sock[s].link /\ b.down = sock[s].down /\ b.preset = sock[s].preset
          /\ b.missed = sock[s].missed
          /\ b.present = msg.on
      BY <1>4, <2>1 DEF SocketType
    <3>2. srv = [Server EXCEPT !.sk = [sock EXCEPT ![s] = b]]
      <4>1. srv = [taken EXCEPT !.sk = [taken.sk EXCEPT ![s] = [taken.sk[s] EXCEPT !.present = msg.on]]]
        BY <1>6
      <4>2. taken.sk = [sock EXCEPT ![s] = heard] /\ taken.sk[s] = heard
        BY <1>6
      <4>3. srv = [taken EXCEPT !.sk = [[sock EXCEPT ![s] = heard] EXCEPT ![s] = b]]
        BY <4>1, <4>2
      <4>4. [[sock EXCEPT ![s] = heard] EXCEPT ![s] = b] = [sock EXCEPT ![s] = b]
        BY <1>1
      <4>. HIDE DEF srv, b, taken
      <4>5. srv = [taken EXCEPT !.sk = [sock EXCEPT ![s] = b]]
        BY <4>3, <4>4
      <4>. QED
        BY <1>5, <4>5, <1>6, <1>1 DEF ServerType
    <3>3. b.present = IF msg.type = "presence" THEN msg.on ELSE sock[s].present
      BY <1>10, <3>1
    <3>4. Serves(Broadcast(srv, {Home(s)}))
      BY <1>10, <2>3
    <3>. HIDE DEF srv, b, taken
    <3>5. Serving(srv)
      BY <1>3, <3>1, <3>2, <3>3
    <3>6. Serving(Broadcast(srv, {Home(s)}))
      BY <3>5, TellingKeeps
    <3>7. UNCHANGED applied
      BY <1>10
    <3>. QED
      BY <1>1, <1>2, <3>4, <3>6, <3>7, ServesKeeps
  <2>4. CASE ~(s \in roster /\ sock[s].present # msg.on)
    <3>1. \/ heard.server = "closing"
          \/ /\ heard.missed = sock[s].missed
             /\ heard.present = IF msg.type = "presence" THEN msg.on ELSE sock[s].present
      BY <1>4, <1>10, <2>2, <2>4
    <3>2. Serves(taken) /\ UNCHANGED applied
      BY <1>10, <2>4
    <3>. HIDE DEF msg, taken
    <3>3. Serving(taken)
      BY <1>3, <1>4, <1>5, <3>1
    <3>. QED
      BY <1>1, <1>2, <3>2, <3>3, ServesKeeps
  <2>. QED
    BY <2>3, <2>4
<1>. QED
  <2>. HIDE DEF msg, taken
  <2>. QED
    BY <1>7, <1>8, <1>9, <1>10 DEF Hears, msg, taken


----------------------------------------------------------------------------
(* The steps of a page.                                                    *)

StoreType == [pg : PageType, sk : [Sockets -> SocketType]]

\* A page leaves the sockets of others alone, but for those nobody holds, and
\* what the server knows of its own.
Framed(st, p) ==
    \A s \in Sockets :
        \/ st.sk[s] = sock[s]
        \/ /\ st.sk[s].page = p /\ st.sk[s].server = sock[s].server
           /\ s \in roster => st.sk[s].preset = sock[s].preset
           /\ sock[s].page # p
                => sock[s].client = "closed" /\ sock[s].server = "closed" /\ s \notin roster

\* What holds of a store in the middle of a step as well.
Shaped(st, p, last) ==
    /\ st \in StoreType /\ Framed(st, p)
    /\ page[p].doubled => st.pg.doubled
    /\ st.pg.cur # NoSocket => st.sk[st.pg.cur].page = p /\ st.sk[st.pg.cur].client # "closed"
    /\ st.pg.handle => st.pg.timers > 0
    /\ st.pg.late <= Len(st.pg.outbox)
    /\ Stored(st.pg, st.sk, p, applied, last)
    /\ \A s \in Sockets : st.sk[s].page = p =>
        /\ SocketOK(st.sk[s]) /\ Holds(st.pg, st.sk[s], s)
        /\ InOrder(st.pg, st.sk[s], p, applied, last)

StoreOK(st, p, last) == Shaped(st, p, last) /\ Quiet(st.pg, st.sk) /\ Heard(st.pg, st.sk)

\* A step of a page, by what it makes of its store.
LEMMA PageStepKeeps ==
    ASSUME SyncAssumption, Inv, NEW p \in Pages, NEW st, StoreOK(st, p, spent'),
           Becomes(p, st), UNCHANGED serverVars, spent' \in 0..MaxEvents, spent <= spent'
    PROVE  Inv'
<1>1. /\ sock \in [Sockets -> SocketType] /\ page \in [Pages -> PageType]
      /\ roster \subseteq Sockets /\ MaxEvents \in Nat /\ spent \in Nat
      /\ \A s \in Sockets : Follows(sock[s], sock[s]) /\ sock[s].page \in Pages
      /\ RosterOK(sock, roster, userRoom)
  BY Facts
<1>2. /\ st.pg \in PageType /\ st.sk \in [Sockets -> SocketType]
      /\ Framed(st, p) /\ Stored(st.pg, st.sk, p, applied, spent')
      /\ Quiet(st.pg, st.sk) /\ Heard(st.pg, st.sk)
      /\ \A s \in Sockets : st.sk[s].page = p =>
           /\ SocketOK(st.sk[s]) /\ Holds(st.pg, st.sk[s], s)
           /\ InOrder(st.pg, st.sk[s], p, applied, spent')
      /\ st.pg.cur # NoSocket => st.sk[st.pg.cur].page = p /\ st.sk[st.pg.cur].client # "closed"
      /\ st.pg.handle => st.pg.timers > 0
      /\ st.pg.late <= Len(st.pg.outbox)
      /\ page[p].doubled => st.pg.doubled
      /\ spent' \in Nat
  BY <1>1 DEF StoreOK, Shaped, StoreType
<1>3. Keeping(sock, sock, spent')
  <2>1. sock = Swept(sock, Sockets)
    BY <1>1 DEF Swept
  <2>. QED
    BY <1>1, <1>2, <2>1, ServerKeeps
<1>4. /\ page' = [page EXCEPT ![p] = st.pg] /\ page'[p] = st.pg
      /\ \A q \in Pages : q # p => page'[q] = page[q]
      /\ sock' = Swept(st.sk, roster) /\ UNCHANGED <<roster, room, userRoom, mints, applied>>
  BY <1>1 DEF Becomes, serverVars
<1>5. /\ sock' \in [Sockets -> SocketType]
      /\ \A s \in Sockets :
            \/ sock'[s] = st.sk[s]
            \/ /\ st.sk[s].client = "closed" /\ st.sk[s].server = "closed" /\ s \notin roster
               /\ \E c \in Pages : sock'[s] = Unused(c)
  BY <1>2, <1>4, SweptOK
<1>6. \A s \in Sockets : st.sk[s].page # p => st.sk[s] = sock[s]
  BY <1>2 DEF Framed
<1>7. \A s \in Sockets : Carries(sock'[s]) => sock'[s] = st.sk[s]
  <2>1. \A c \in Pages : ~Carries(Unused(c))
    BY UnusedOK
  <2>. QED
    BY <1>5, <2>1
<1>8. ASSUME NEW s \in Sockets
      PROVE  /\ SocketOK(sock'[s]) /\ Holds(page'[sock'[s].page], sock'[s], s)
             /\ InOrder(page'[sock'[s].page], sock'[s], sock'[s].page, applied, spent')
  <2>1. CASE sock'[s] = st.sk[s] /\ st.sk[s].page = p
    BY <1>2, <1>4, <2>1
  <2>2. CASE sock'[s] = st.sk[s] /\ st.sk[s].page # p
    <3>1. sock'[s] = sock[s] /\ page'[sock[s].page] = page[sock[s].page]
      BY <1>1, <1>4, <1>6, <2>2
    <3>. QED
      BY <1>3, <3>1 DEF Keeping
  <2>3. ASSUME NEW c \in Pages, sock'[s] = Unused(c)
        PROVE  /\ SocketOK(sock'[s]) /\ Holds(page'[sock'[s].page], sock'[s], s)
               /\ InOrder(page'[sock'[s].page], sock'[s], sock'[s].page, applied, spent')
    BY <2>3, UnusedOK
  <2>. QED
    BY <1>5, <2>1, <2>2, <2>3
<1>9. ASSUME st.pg.cur # NoSocket
      PROVE  sock'[st.pg.cur] = st.sk[st.pg.cur] /\ st.pg.cur \in Sockets
  BY <1>2, <1>5, <1>9 DEF PageType
<1>10. ASSUME NEW q \in Pages, q # p, page[q].cur # NoSocket
       PROVE  /\ page[q].cur \in Sockets /\ sock'[page[q].cur] = sock[page[q].cur]
              /\ sock[page[q].cur].page = q /\ sock[page[q].cur].client # "closed"
  <2>1. page[q].cur \in Sockets /\ sock[page[q].cur].page = q /\ sock[page[q].cur].client # "closed"
    BY <1>1, <1>3, <1>10 DEF Keeping, PageType
  <2>2. st.sk[page[q].cur] = sock[page[q].cur]
    BY <1>2, <1>10, <2>1 DEF Framed
  <2>. QED
    BY <1>5, <2>1, <2>2
<1>11. Kept(page'[p], sock', p, applied, spent')
  <2>1. Stored(st.pg, sock', p, applied, spent')
    BY <1>2, <1>7 DEF Stored
  <2>2. Quiet(st.pg, sock') /\ Heard(st.pg, sock')
    BY <1>2, <1>9 DEF Quiet, Heard
  <2>. QED
    BY <1>4, <2>1, <2>2 DEF Kept
<1>12. ASSUME NEW q \in Pages, q # p PROVE Kept(page'[q], sock', q, applied, spent')
  <2>1. Kept(page[q], sock, q, applied, spent') /\ page'[q] = page[q]
    BY <1>3, <1>4, <1>12 DEF Keeping
  <2>2. \A s \in Sockets : Carries(sock'[s]) /\ sock'[s].page = q => sock'[s] = sock[s]
    BY <1>6, <1>7, <1>12
  <2>3. Stored(page[q], sock', q, applied, spent')
    <3>1. Stored(page[q], sock, q, applied, spent')
      BY <2>1 DEF Kept
    <3>. QED
      BY <2>2, <3>1 DEF Stored
  <2>4. Quiet(page[q], sock') /\ Heard(page[q], sock')
    BY <1>10, <1>12, <2>1 DEF Kept, Quiet, Heard
  <2>. QED
    BY <2>1, <2>3, <2>4 DEF Kept
<1>13. PagesOK' /\ SocketsOK'
  <2>1. PagesOK'
    BY <1>4, <1>11, <1>12 DEF PagesOK
  <2>2. SocketsOK'
    BY <1>4, <1>8 DEF SocketsOK
  <2>. QED
    BY <2>1, <2>2
<1>14. TypeOK'
  <2>1. page' \in [Pages -> PageType]
    BY <1>1, <1>2, <1>4
  <2>2. ASSUME NEW q \in Pages
        PROVE  /\ page'[q].cur # NoSocket
                    => sock'[page'[q].cur].page = q /\ sock'[page'[q].cur].client # "closed"
               /\ page'[q].handle => page'[q].timers > 0
               /\ page'[q].late <= Len(page'[q].outbox)
    <3>1. CASE q = p
      BY <1>2, <1>4, <1>9, <3>1
    <3>2. CASE q # p
      BY SMTT(30), <1>4, <1>10, <3>2 DEF Inv, TypeOK
    <3>. QED
      BY <3>1, <3>2
  <2>. QED
    BY <1>4, <1>5, <2>1, <2>2 DEF Inv, TypeOK
<1>15. AppliedOK' /\ ControlsInOrder'
  <2>1. \A i \in DOMAIN applied : applied[i][2] \in Int /\ applied[i][1] \in Pages
    <3>1. applied \in Seq(Pages \X (1..MaxEvents))
      BY DEF Inv, TypeOK
    <3>2. \A i \in DOMAIN applied : applied[i] \in Pages \X (1..MaxEvents)
      BY <3>1
    <3>. QED
      BY <3>2
  <2>2. AppliedOK'
    BY <1>1, <1>2, <1>4, <2>1 DEF Inv, AppliedOK
  <2>3. \A q \in Pages : page[q].doubled => page'[q].doubled
    BY <1>2, <1>4
  <2>4. ControlsInOrder'
    BY <1>4, <2>1, <2>3 DEF Inv, ControlsInOrder
  <2>. QED
    BY <2>2, <2>4
<1>16. RosterOK(sock', roster', userRoom')
  <2>1. \A s \in roster : /\ st.sk[s].page = sock[s].page /\ st.sk[s].server = sock[s].server
                          /\ st.sk[s].preset = sock[s].preset
    BY <1>1, <1>2 DEF Framed
  <2>2. \A s \in Sockets : st.sk[s].server = sock[s].server
    BY <1>2 DEF Framed
  <2>3. RosterOK(st.sk, roster, userRoom)
    BY <1>1, <2>1, <2>2 DEF RosterOK
  <2>. QED
    BY <1>1, <1>2, <1>4, <2>3, SweptRoster
<1>. QED
  BY <1>13, <1>14, <1>15, <1>16 DEF Inv

\* The store of a page, with whatever events are still to come.
LEMMA StoreIs ==
    ASSUME SyncAssumption, Inv, NEW p \in Pages, NEW last \in Nat, spent <= last
    PROVE  /\ StoreOK(Store(p), p, last) /\ Store(p) = [pg |-> page[p], sk |-> sock]
           /\ Store(p).pg = page[p] /\ Store(p).sk = sock
<1>1. /\ sock \in [Sockets -> SocketType] /\ page \in [Pages -> PageType]
      /\ \A s \in Sockets : Follows(sock[s], sock[s]) /\ sock[s].page \in Pages
  BY Facts
<1>2. Keeping(sock, sock, last)
  <2>1. sock = Swept(sock, Sockets)
    BY <1>1 DEF Swept
  <2>. QED
    BY <1>1, <2>1, ServerKeeps
<1>3. Store(p) = [pg |-> page[p], sk |-> sock] /\ Store(p).pg = page[p] /\ Store(p).sk = sock
  BY DEF Store
<1>4. Kept(page[p], sock, p, applied, last)
  BY <1>2 DEF Keeping
<1>5. Store(p) \in StoreType /\ Framed(Store(p), p)
  BY <1>1, <1>3 DEF StoreType, Framed
<1>6. /\ page[p].cur # NoSocket => sock[page[p].cur].page = p /\ sock[page[p].cur].client # "closed"
      /\ page[p].handle => page[p].timers > 0
      /\ page[p].late <= Len(page[p].outbox)
  BY DEF Inv, TypeOK
<1>7. \A s \in Sockets : sock[s].page = p =>
        SocketOK(sock[s]) /\ Holds(page[p], sock[s], s) /\ InOrder(page[p], sock[s], p, applied, last)
  BY <1>2 DEF Keeping
<1>. QED
  BY <1>3, <1>4, <1>5, <1>6, <1>7 DEF StoreOK, Shaped, Kept

\* Fields that say nothing of sockets or of what was pressed.
LEMMA FieldsOK ==
    ASSUME NEW st, NEW p, NEW last, Shaped(st, p, last), NEW pg \in PageType,
           pg.cur = st.pg.cur, pg.state = st.pg.state, pg.outbox = st.pg.outbox,
           pg.doubled = st.pg.doubled, pg.handle => pg.timers > 0, pg.late <= Len(pg.outbox),
           NEW now, now = [pg |-> pg, sk |-> st.sk]
    PROVE  /\ Shaped(now, p, last) /\ now.pg = pg /\ now.sk = st.sk
           /\ Quiet(st.pg, st.sk) => Quiet(now.pg, now.sk)
           /\ pg.present = st.pg.present /\ Heard(st.pg, st.sk) => Heard(now.pg, now.sk)
<1>1. now.pg = pg /\ now.sk = st.sk /\ now \in StoreType
  BY DEF Shaped, StoreType
<1>2. \A s \in Sockets : st.sk[s].page = p =>
        /\ SocketOK(st.sk[s]) /\ Holds(pg, st.sk[s], s)
        /\ InOrder(pg, st.sk[s], p, applied, last)
  BY DEF Shaped, Holds, InOrder
<1>3. Stored(pg, st.sk, p, applied, last)
  BY DEF Shaped, Stored
<1>4. Shaped(now, p, last)
  BY <1>1, <1>2, <1>3 DEF Shaped, Framed
<1>5. Quiet(st.pg, st.sk) => Quiet(now.pg, now.sk)
  BY <1>1 DEF Quiet
<1>6. pg.present = st.pg.present /\ Heard(st.pg, st.sk) => Heard(now.pg, now.sk)
  BY <1>1 DEF Heard, Believed
<1>. QED
  BY <1>1, <1>4, <1>5, <1>6


\* A store is made of its fields and the sockets.
LEMMA StoreFields ==
    ASSUME NEW pg \in PageType, NEW sk \in [Sockets -> SocketType],
           NEW now, now = [pg |-> pg, sk |-> sk]
    PROVE  now.pg = pg /\ now.sk = sk /\ now \in StoreType
BY DEF StoreType

\* A socket b that may take the place of s, and fields pg that go with it.
Fits(st, p, last, s, b, pg) ==
    /\ Shaped(st, p, last) /\ s \in Sockets /\ st.sk[s].page = p
    /\ b \in SocketType /\ b.page = p /\ b.server = st.sk[s].server
    /\ b.preset = st.sk[s].preset /\ SocketOK(b)
    /\ pg \in PageType /\ pg.doubled = st.pg.doubled /\ pg.outbox = st.pg.outbox
    /\ pg.cur \in {NoSocket, st.pg.cur}
    /\ pg.state = "unstarted" => st.pg.state = "unstarted"
    /\ pg.handle => pg.timers > 0
    /\ pg.late <= Len(pg.outbox)
    /\ pg.cur = s => b.client # "closed"
    /\ Holds(pg, b, s) /\ InOrder(pg, b, p, applied, last)
    /\ \A t \in Sockets \ {s} : st.sk[t].page = p => Holds(pg, st.sk[t], t)
    /\ \/ Carries(b) => Carries(st.sk[s])
       \/ \A t \in Sockets \ {s} :
            ~pg.doubled /\ st.sk[t].page = p => ~Carries(st.sk[t])

Put(st, pg, s, b) == [pg |-> pg, sk |-> [st.sk EXCEPT ![s] = b]]

\* One socket of a page changes, and what the page says of it.
LEMMA ReplacesOK ==
    ASSUME NEW st, NEW p, NEW last, NEW s, NEW b, NEW pg, Fits(st, p, last, s, b, pg),
           NEW now, now = Put(st, pg, s, b)
    PROVE  /\ Shaped(now, p, last) /\ now.pg = pg /\ now.sk[s] = b
           /\ \A t \in Sockets \ {s} : now.sk[t] = st.sk[t]
<1>0. /\ Shaped(st, p, last) /\ s \in Sockets /\ st.sk[s].page = p
      /\ b \in SocketType /\ b.page = p /\ b.server = st.sk[s].server
      /\ b.preset = st.sk[s].preset /\ SocketOK(b)
      /\ pg \in PageType /\ pg.doubled = st.pg.doubled /\ pg.outbox = st.pg.outbox
      /\ pg.cur \in {NoSocket, st.pg.cur}
      /\ pg.state = "unstarted" => st.pg.state = "unstarted"
      /\ pg.handle => pg.timers > 0
      /\ pg.late <= Len(pg.outbox)
      /\ pg.cur = s => b.client # "closed"
      /\ Holds(pg, b, s) /\ InOrder(pg, b, p, applied, last)
      /\ \A t \in Sockets \ {s} : st.sk[t].page = p => Holds(pg, st.sk[t], t)
      /\ \/ Carries(b) => Carries(st.sk[s])
         \/ \A t \in Sockets \ {s} :
              ~pg.doubled /\ st.sk[t].page = p => ~Carries(st.sk[t])
  BY DEF Fits
<1>1. /\ st.sk \in [Sockets -> SocketType] /\ Framed(st, p)
      /\ Stored(st.pg, st.sk, p, applied, last)
  BY <1>0 DEF Shaped, StoreType
<1>. DEFINE sk == [st.sk EXCEPT ![s] = b]
<1>2. /\ sk \in [Sockets -> SocketType] /\ sk[s] = b
      /\ \A t \in Sockets \ {s} : sk[t] = st.sk[t]
  BY <1>0, <1>1
<1>3. now = [pg |-> pg, sk |-> sk]
  BY DEF Put
<1>. HIDE DEF sk
<1>4. now.pg = pg /\ now.sk = sk /\ now \in StoreType
  BY <1>0, <1>2, <1>3, StoreFields
<1>5. Framed(now, p)
  BY <1>0, <1>1, <1>2, <1>4 DEF Framed
<1>6. Stored(pg, sk, p, applied, last)
  <2>1. \A t, u \in Sockets :
          ~pg.doubled /\ sk[t].page = p /\ sk[u].page = p /\ Carries(sk[t]) /\ Carries(sk[u])
            => t = u
    BY <1>0, <1>1, <1>2 DEF Stored
  <2>2. pg.state = "unstarted" => pg.cur = NoSocket /\ pg.outbox = <<>>
    BY <1>0, <1>1 DEF Stored
  <2>. QED
    BY <1>0, <1>1, <2>1, <2>2 DEF Stored
<1>7. \A t \in Sockets : sk[t].page = p =>
        SocketOK(sk[t]) /\ Holds(pg, sk[t], t) /\ InOrder(pg, sk[t], p, applied, last)
  <2>. SUFFICES ASSUME NEW t \in Sockets, sk[t].page = p
                PROVE  SocketOK(sk[t]) /\ Holds(pg, sk[t], t)
                       /\ InOrder(pg, sk[t], p, applied, last)
    OBVIOUS
  <2>1. CASE t = s
    BY <1>0, <1>2, <2>1
  <2>2. CASE t # s
    <3>1. sk[t] = st.sk[t]
      BY <1>0, <1>2, <2>2
    <3>2. SocketOK(st.sk[t]) /\ InOrder(st.pg, st.sk[t], p, applied, last)
      BY <1>0, <3>1 DEF Shaped
    <3>. QED
      BY <1>0, <2>2, <3>1, <3>2 DEF InOrder
  <2>. QED
    BY <1>0, <2>1, <2>2
<1>8. pg.cur # NoSocket => sk[pg.cur].page = p /\ sk[pg.cur].client # "closed"
  <2>1. pg.cur # NoSocket => pg.cur \in Sockets /\ pg.cur = st.pg.cur
    BY <1>0 DEF PageType
  <2>2. st.pg.cur # NoSocket => st.sk[st.pg.cur].page = p /\ st.sk[st.pg.cur].client # "closed"
    BY <1>0 DEF Shaped
  <2>. QED
    BY <1>0, <1>2, <2>1, <2>2
<1>9. Shaped(now, p, last)
  <2>1. page[p].doubled => pg.doubled
    BY <1>0 DEF Shaped
  <2>. QED
    BY <1>0, <1>4, <1>5, <1>6, <1>7, <1>8, <2>1 DEF Shaped
<1>. QED
  BY <1>0, <1>2, <1>4, <1>9

Refilled(st, out, late) == [pg |-> [st.pg EXCEPT !.outbox = out, !.late = late], sk |-> st.sk]

\* What the page keeps is one field of its, and how much of it is old another.
LEMMA RefillIs ==
    ASSUME NEW st \in StoreType, NEW out, NEW late
    PROVE  /\ [st EXCEPT !.pg.outbox = out, !.pg.late = late] = Refilled(st, out, late)
           /\ [st EXCEPT !.pg.outbox = out] = Refilled(st, out, st.pg.late)
<1>1. st = [pg |-> st.pg, sk |-> st.sk] /\ st.pg \in PageType
  BY DEF StoreType
<1>2. [st.pg EXCEPT !.outbox = out] = [st.pg EXCEPT !.outbox = out, !.late = st.pg.late]
  BY <1>1 DEF PageType
<1>3. [st EXCEPT !.pg.outbox = out] = [pg |-> [st.pg EXCEPT !.outbox = out], sk |-> st.sk]
  BY DEF StoreType
<1>4. [st EXCEPT !.pg.outbox = out, !.pg.late = late]
        = [pg |-> [st.pg EXCEPT !.outbox = out, !.late = late], sk |-> st.sk]
  <2>. DEFINE half == [st EXCEPT !.pg.outbox = out]
  <2>1. [st EXCEPT !.pg.outbox = out, !.pg.late = late] = [half EXCEPT !.pg.late = late]
    OBVIOUS
  <2>. HIDE DEF half
  <2>2. half = [pg |-> [st.pg EXCEPT !.outbox = out], sk |-> st.sk]
    BY <1>3 DEF half
  <2>3. [half EXCEPT !.pg.late = late]
          = [pg |-> [half.pg EXCEPT !.late = late], sk |-> half.sk]
    BY <2>2
  <2>4. [half.pg EXCEPT !.late = late] = [st.pg EXCEPT !.outbox = out, !.late = late]
    BY <1>1, <2>2 DEF PageType
  <2>. QED
    BY <2>1, <2>2, <2>3, <2>4
<1>. QED
  BY <1>2, <1>3, <1>4 DEF Refilled

\* The outbox changes.
LEMMA OutboxOK ==
    ASSUME NEW st, NEW p, NEW last, Shaped(st, p, last),
           NEW out \in Seq(Controls), NEW late \in Nat, late <= Len(out),
           Signed(out, p, last), Increasing(out), st.pg.state = "unstarted" => out = <<>>,
           ~st.pg.doubled => Done(applied, p, out),
           \A t \in Sockets : ~st.pg.doubled /\ st.sk[t].page = p /\ Carries(st.sk[t])
                                => Older(st.sk[t].up, out),
           NEW now, now = Refilled(st, out, late)
    PROVE  /\ Shaped(now, p, last) /\ now.sk = st.sk /\ now.pg.outbox = out
           /\ now.pg.cur = st.pg.cur /\ now.pg.state = st.pg.state
           /\ now.pg.present = st.pg.present /\ now.pg.doubled = st.pg.doubled
<1>. DEFINE pg == [st.pg EXCEPT !.outbox = out, !.late = late]
<1>1. st.pg \in PageType /\ st.sk \in [Sockets -> SocketType]
  BY DEF Shaped, StoreType
<1>2. /\ pg \in PageType /\ pg.cur = st.pg.cur /\ pg.state = st.pg.state /\ pg.outbox = out
      /\ pg.late = late /\ pg.doubled = st.pg.doubled /\ pg.present = st.pg.present
      /\ pg.handle = st.pg.handle /\ pg.timers = st.pg.timers
  BY <1>1 DEF PageType
<1>3. now = [pg |-> pg, sk |-> st.sk]
  BY DEF Refilled
<1>. HIDE DEF pg
<1>4. now.pg = pg /\ now.sk = st.sk /\ now \in StoreType
  BY <1>1, <1>2, <1>3 DEF StoreType
<1>5. Framed(now, p)
  BY <1>4 DEF Shaped, Framed
<1>6. Stored(pg, st.sk, p, applied, last)
  BY <1>2 DEF Shaped, Stored
<1>7. \A s \in Sockets : st.sk[s].page = p =>
        /\ SocketOK(st.sk[s]) /\ Holds(pg, st.sk[s], s)
        /\ InOrder(pg, st.sk[s], p, applied, last)
  BY <1>2 DEF Shaped, Holds, InOrder
<1>8. Shaped(now, p, last)
  BY <1>2, <1>4, <1>5, <1>6, <1>7 DEF Shaped
<1>. QED
  BY <1>2, <1>4, <1>8

\* A page that connects without a live socket takes one that nobody holds; what
\* its last one carried is not on its way any more.
LEMMA ConnectOK ==
    ASSUME SyncAssumption, Inv, NEW p \in Pages, NEW st, NEW last, StoreOK(st, p, last)
    PROVE  /\ StoreOK(Connect(st, p), p, last)
           /\ Connect(st, p).pg.present = st.pg.present /\ Connect(st, p).pg.state = st.pg.state
<1>. DEFINE now == Connect(st, p)
            s == CHOOSE t \in Garbage(st.sk) : TRUE
            pg == [st.pg EXCEPT !.cur = s, !.rev = 0, !.doubled = @ \/ IsAlive(st)]
            sk == [st.sk EXCEPT ![s] = Opening(p)]
<1>1. /\ st.pg \in PageType /\ st.sk \in [Sockets -> SocketType] /\ Framed(st, p)
      /\ Stored(st.pg, st.sk, p, applied, last)
      /\ \A t \in Sockets : st.sk[t].page = p =>
           /\ SocketOK(st.sk[t]) /\ Holds(st.pg, st.sk[t], t)
           /\ InOrder(st.pg, st.sk[t], p, applied, last)
      /\ st.pg.cur # NoSocket => st.sk[st.pg.cur].page = p /\ st.sk[st.pg.cur].client # "closed"
  BY DEF StoreOK, Shaped, StoreType
<1>2. CASE st.pg.state # "running" \/ Garbage(st.sk) = {}
  BY <1>2 DEF Connect
<1>3. CASE st.pg.state = "running" /\ Garbage(st.sk) # {}
  <2>1. /\ s \in Sockets /\ st.sk[s].client = "closed" /\ st.sk[s].server = "closed"
        /\ s \notin roster
    <3>. DEFINE G == Garbage(st.sk)
    <3>. HIDE DEF G
    <3>1. (CHOOSE t \in G : TRUE) \in G
      BY <1>3 DEF G
    <3>. QED
      BY <3>1 DEF G, Garbage
  <2>2. /\ Opening(p) \in SocketType /\ Opening(p).page = p /\ Opening(p).client = "connecting"
        /\ Opening(p).server = "closed" /\ Opening(p).up = <<>> /\ Opening(p).link
    <3>1. Unused(p) \in SocketType /\ Unused(p).page = p
          /\ Unused(p).server = "closed" /\ Unused(p).up = <<>>
      BY UnusedOK DEF Unused
    <3>. QED
      BY <3>1 DEF Opening, SocketType
  <2>3. now = [pg |-> pg, sk |-> sk]
    BY <1>3 DEF Connect, Opening
  <2>. HIDE DEF s
  <2>4. IsAlive(st) \in BOOLEAN
    BY DEF IsAlive
  <2>5. /\ pg \in PageType /\ pg.cur = s /\ pg.state = "running" /\ pg.outbox = st.pg.outbox
        /\ pg.doubled = (st.pg.doubled \/ IsAlive(st)) /\ pg.present = st.pg.present
        /\ pg.handle = st.pg.handle /\ pg.timers = st.pg.timers /\ pg.late = st.pg.late
    <3>1. s \in {NoSocket} \cup Sockets /\ (st.pg.doubled \/ IsAlive(st)) \in BOOLEAN
      BY <2>1, <2>4
    <3>. QED
      BY <1>1, <1>3, <3>1 DEF PageType
  <2>6. /\ sk \in [Sockets -> SocketType] /\ sk[s] = Opening(p)
        /\ \A t \in Sockets \ {s} : sk[t] = st.sk[t]
    BY <1>1, <2>1, <2>2
  <2>. HIDE DEF pg, sk, now
  <2>7. now.pg = pg /\ now.sk = sk /\ now \in StoreType
    BY <2>3, <2>5, <2>6 DEF StoreType
  <2>8. Framed(now, p)
    BY <1>1, <2>1, <2>2, <2>6, <2>7 DEF Framed
  <2>9. ~Carries(Opening(p)) /\ SocketOK(Opening(p)) /\ Holds(pg, Opening(p), s)
        /\ InOrder(pg, Opening(p), p, applied, last)
    BY <2>2, <2>5 DEF Carries, SocketOK, Holds, InOrder, Signed, Hearing
  <2>10. ASSUME NEW t \in Sockets, t # s, sk[t].page = p
         PROVE  /\ SocketOK(sk[t]) /\ Holds(pg, sk[t], t) /\ InOrder(pg, sk[t], p, applied, last)
    <3>1. /\ sk[t] = st.sk[t] /\ SocketOK(st.sk[t]) /\ Holds(st.pg, st.sk[t], t)
          /\ InOrder(st.pg, st.sk[t], p, applied, last)
      BY <1>1, <2>6, <2>10
    <3>2. InOrder(pg, st.sk[t], p, applied, last)
      BY <2>5, <3>1 DEF InOrder
    <3>3. ASSUME ~pg.doubled PROVE ~(st.sk[t].client \in {"connecting", "open"})
      <4>. SUFFICES ASSUME st.sk[t].client \in {"connecting", "open"} PROVE FALSE
        OBVIOUS
      <4>1. ~st.pg.doubled /\ ~IsAlive(st)
        BY <2>4, <2>5, <3>3
      <4>2. st.pg.cur = t
        BY <3>1, <4>1 DEF Holds
      <4>3. t # NoSocket
        BY DEF NoSocket, Sockets
      <4>. QED
        BY <4>1, <4>2, <4>3 DEF IsAlive
    <3>4. ASSUME ~pg.doubled, Carries(st.sk[t]) PROVE FALSE
      <4>1. st.pg.cur = t /\ ~IsAlive(st)
        BY <1>3, <2>5, <3>1, <3>4 DEF Holds
      <4>2. st.pg.cur # NoSocket
        BY <4>1 DEF NoSocket, Sockets
      <4>3. st.sk[t].client = "closing"
        BY <1>1, <4>1, <4>2 DEF IsAlive, SocketType
      <4>. QED
        BY <1>3, <3>1, <3>4, <4>3 DEF Holds, Carries
    <3>5. Holds(pg, st.sk[t], t)
      BY <1>3, <2>5, <3>1, <3>3, <3>4 DEF Holds
    <3>. QED
      BY <3>1, <3>2, <3>5
  <2>11. Stored(pg, sk, p, applied, last)
    <3>1. \A t, u \in Sockets :
            ~pg.doubled /\ sk[t].page = p /\ sk[u].page = p /\ Carries(sk[t]) /\ Carries(sk[u])
              => t = u
      BY ZenonT(40), <1>1, <2>5, <2>6, <2>9 DEF Stored
    <3>. QED
      BY <1>1, <2>5, <3>1 DEF Stored
  <2>12. /\ page[p].doubled => pg.doubled
         /\ pg.handle => pg.timers > 0
         /\ pg.late <= Len(pg.outbox)
    BY <2>5 DEF StoreOK, Shaped
  <2>13. Shaped(now, p, last)
    <3>1. pg.cur # NoSocket => sk[pg.cur].page = p /\ sk[pg.cur].client # "closed"
      BY <2>2, <2>5, <2>6
    <3>2. \A t \in Sockets : sk[t].page = p =>
            SocketOK(sk[t]) /\ Holds(pg, sk[t], t) /\ InOrder(pg, sk[t], p, applied, last)
      BY <2>6, <2>9, <2>10
    <3>. QED
      BY <2>7, <2>8, <2>11, <2>12, <3>1, <3>2 DEF Shaped
  <2>14. Quiet(pg, sk) /\ Heard(pg, sk)
    BY <2>2, <2>5, <2>6 DEF Quiet, Heard, Believed
  <2>. QED
    BY <1>3, <2>5, <2>7, <2>13, <2>14 DEF StoreOK, now
<1>. QED
  BY <1>2, <1>3

\* A timer is cleared.
LEMMA ClearOK ==
    ASSUME NEW st, NEW p, NEW last, StoreOK(st, p, last)
    PROVE  /\ StoreOK(ClearTimer(st), p, last) /\ ClearTimer(st).sk = st.sk
           /\ ClearTimer(st).pg.cur = st.pg.cur /\ ClearTimer(st).pg.state = st.pg.state
           /\ ClearTimer(st).pg.present = st.pg.present
           /\ ClearTimer(st).pg.outbox = st.pg.outbox /\ ClearTimer(st).pg.doubled = st.pg.doubled
           /\ ClearTimer(st).pg.late = st.pg.late
<1>. DEFINE pg == [st.pg EXCEPT !.timers = @ - 1, !.handle = FALSE]
            now == [pg |-> pg, sk |-> st.sk]
<1>1. /\ Shaped(st, p, last) /\ st \in StoreType /\ st.pg \in PageType
      /\ st.pg.handle => st.pg.timers > 0
      /\ st.pg.late <= Len(st.pg.outbox)
  BY DEF StoreOK, Shaped, StoreType
<1>2. CASE ~st.pg.handle
  BY <1>2 DEF ClearTimer
<1>3. CASE st.pg.handle
  <2>1. ClearTimer(st) = now
    BY <1>1, <1>3 DEF ClearTimer, StoreType
  <2>2. /\ pg \in PageType /\ pg.cur = st.pg.cur /\ pg.state = st.pg.state
        /\ pg.outbox = st.pg.outbox /\ pg.doubled = st.pg.doubled /\ pg.present = st.pg.present
        /\ ~pg.handle /\ pg.late = st.pg.late
    <3>1. st.pg.timers - 1 \in Nat
      BY <1>1, <1>3 DEF PageType
    <3>. QED
      BY <1>1, <3>1 DEF PageType
  <2>. HIDE DEF pg
  <2>3. Shaped(now, p, last) /\ now.pg = pg /\ now.sk = st.sk
        /\ (Quiet(st.pg, st.sk) => Quiet(now.pg, now.sk))
        /\ (Heard(st.pg, st.sk) => Heard(now.pg, now.sk))
    <3>. HIDE DEF now
    <3>1. pg.late <= Len(pg.outbox) /\ now = [pg |-> pg, sk |-> st.sk]
      BY <1>1, <2>2 DEF now
    <3>. QED
      BY <1>1, <2>2, <3>1, FieldsOK
  <2>. QED
    BY <2>1, <2>2, <2>3 DEF StoreOK
<1>. QED
  BY <1>2, <1>3

\* reviveNow()
LEMMA ReviveOK ==
    ASSUME SyncAssumption, Inv, NEW p \in Pages, NEW st, NEW last, StoreOK(st, p, last)
    PROVE  /\ StoreOK(ReviveNow(st, p), p, last)
           /\ ReviveNow(st, p).pg.present = st.pg.present
           /\ ReviveNow(st, p).pg.state = st.pg.state
<1>1. CASE st.pg.state # "running" \/ IsAlive(st)
  BY <1>1 DEF ReviveNow
<1>2. CASE ~(st.pg.state # "running" \/ IsAlive(st))
  <2>1. ReviveNow(st, p) = Connect(ClearTimer(st), p)
    BY <1>2 DEF ReviveNow
  <2>. QED
    BY <2>1, ClearOK, ConnectOK
<1>. QED
  BY <1>1, <1>2


----------------------------------------------------------------------------
(* What a page says.                                                       *)

\* A message at the end of a channel.
LEMMA AppendIs ==
    ASSUME NEW S, NEW m \in Seq(S), NEW e \in S
    PROVE  /\ Append(m, e) = m \o <<e>> /\ <<e>> \in Seq(S)
           /\ DOMAIN <<e>> = {1} /\ <<e>>[1] = e /\ Len(<<e>>) = 1
OBVIOUS

\* What a channel is with a message at its end.
LEMMA EndOf ==
    ASSUME NEW S, NEW m \in Seq(S), NEW e \in S
    PROVE  /\ DOMAIN (m \o <<e>>) = 1..Len(m) + 1 /\ Len(m) \in Nat
           /\ (m \o <<e>>)[Len(m) + 1] = e
           /\ Len(m) + 1 \in DOMAIN (m \o <<e>>)
           /\ \A i \in DOMAIN (m \o <<e>>) :
                /\ i \in Nat /\ i <= Len(m) + 1
                /\ (i \in DOMAIN m /\ (m \o <<e>>)[i] = m[i]) \/ (m \o <<e>>)[i] = e
<1>1. m \o <<e>> = Append(m, e)
  BY AppendIs
<1>. DEFINE r == Append(m, e)
<1>2. /\ DOMAIN r = 1..Len(m) + 1 /\ Len(m) \in Nat /\ r[Len(m) + 1] = e
      /\ \A i \in 1..Len(m) : r[i] = m[i]
      /\ DOMAIN m = 1..Len(m)
  OBVIOUS
<1>. HIDE DEF r
<1>3. Len(m) + 1 \in DOMAIN r
  BY <1>2
<1>4. \A i \in DOMAIN r : i \in Nat /\ i <= Len(m) + 1 /\ (i \in 1..Len(m) \/ i = Len(m) + 1)
  BY <1>2
<1>. QED
  BY <1>1, <1>2, <1>3, <1>4 DEF r

\* What is at either end of two channels in a row.
LEMMA RowOf ==
    ASSUME NEW m \in Seq(Upward), NEW n \in Seq(Upward)
    PROVE  /\ m \o n \in Seq(Upward)
           /\ \A i \in DOMAIN (m \o n) :
                \/ i \in DOMAIN m /\ (m \o n)[i] = m[i]
                \/ /\ i - Len(m) \in DOMAIN n /\ (m \o n)[i] = n[i - Len(m)]
                   /\ i \in Nat /\ i > Len(m) /\ i \notin DOMAIN m
           /\ \A i \in DOMAIN m : i \in DOMAIN (m \o n) /\ i \in Nat /\ i <= Len(m)
           /\ \A i \in DOMAIN n : i + Len(m) \in DOMAIN (m \o n)
                                  /\ (m \o n)[i + Len(m)] = n[i] /\ i \in Nat
           /\ Len(m) \in Nat
<1>1. /\ DOMAIN m = 1..Len(m) /\ Len(m) \in Nat
      /\ DOMAIN n = 1..Len(n) /\ Len(n) \in Nat
  OBVIOUS
<1>2. m \o n \in Seq(Upward) /\ DOMAIN (m \o n) = 1..Len(m) + Len(n)
  OBVIOUS
<1>3. \A i \in 1..Len(m) + Len(n) : (m \o n)[i] = IF i <= Len(m) THEN m[i] ELSE n[i - Len(m)]
  OBVIOUS
<1>. DEFINE r == m \o n
<1>. HIDE DEF r
<1>4. \A i \in DOMAIN r : \/ i \in DOMAIN m /\ r[i] = m[i]
                         \/ /\ i - Len(m) \in DOMAIN n /\ r[i] = n[i - Len(m)]
                            /\ i \in Nat /\ i > Len(m) /\ i \notin DOMAIN m
  BY <1>1, <1>2, <1>3 DEF r
<1>5. \A i \in DOMAIN m : i \in DOMAIN r /\ i \in Nat /\ i <= Len(m)
  BY <1>1, <1>2 DEF r
<1>6. \A i \in DOMAIN n : i + Len(m) \in DOMAIN r /\ r[i + Len(m)] = n[i] /\ i \in Nat
  BY <1>1, <1>2, <1>3 DEF r
<1>. QED
  BY <1>1, <1>2, <1>4, <1>5, <1>6 DEF r

\* Controls that are said after all that were said before stay in order.
LEMMA AddsInOrder ==
    ASSUME NEW a \in SocketType, NEW b \in SocketType, NEW msgs \in Seq(Upward),
           b.up = a.up \o msgs, b.server = a.server,
           NEW pg, NEW p, NEW done, NEW last, InOrder(pg, a, p, done, last),
           Signed(msgs, p, last),
           ~pg.doubled => /\ Increasing(msgs) /\ Older(msgs, pg.outbox)
                          /\ Done(done, p, msgs) /\ Older(a.up, msgs)
    PROVE  InOrder(pg, b, p, done, last)
<1>. DEFINE m == a.up
            k == Len(m)
            r == m \o msgs
<1>1. m \in Seq(Upward)
  BY DEF SocketType
<1>2. /\ \A i \in DOMAIN r :
           \/ i \in DOMAIN m /\ r[i] = m[i]
           \/ /\ i - k \in DOMAIN msgs /\ r[i] = msgs[i - k]
              /\ i \in Nat /\ i > k /\ i \notin DOMAIN m
      /\ \A i \in DOMAIN m : i \in Nat /\ i <= k
      /\ k \in Nat
  BY <1>1, RowOf
<1>3. Signed(m, p, last) /\ (~pg.doubled /\ Carries(a)
        => Increasing(m) /\ Older(m, pg.outbox) /\ Done(done, p, m))
  BY DEF InOrder
<1>. HIDE DEF r, k
<1>4. Signed(r, p, last)
  BY <1>2, <1>3 DEF Signed
<1>5. ASSUME ~pg.doubled, Carries(b)
      PROVE  Increasing(r) /\ Older(r, pg.outbox) /\ Done(done, p, r)
  <2>1. \A i \in DOMAIN m : m[i].type = "control"
          => Increasing(m) /\ Older(m, pg.outbox) /\ Done(done, p, m)
    BY <1>3, <1>5 DEF Carries
  <2>. HIDE DEF m
  <2>2. Increasing(r)
    <3>. SUFFICES ASSUME NEW i \in DOMAIN r, NEW j \in DOMAIN r, i < j,
                         r[i].type = "control", r[j].type = "control"
                  PROVE  r[i].id[2] < r[j].id[2]
      BY DEF Increasing
    <3>1. CASE i \in DOMAIN m /\ j \in DOMAIN m
      <4>1. r[i] = m[i] /\ r[j] = m[j]
        BY <1>2, <3>1
      <4>. QED
        BY <2>1, <3>1, <4>1 DEF Increasing
    <3>2. CASE i \in DOMAIN m /\ j \notin DOMAIN m
      <4>1. r[i] = m[i] /\ j - k \in DOMAIN msgs /\ r[j] = msgs[j - k]
        BY <1>2, <3>2
      <4>. QED
        BY <1>5, <3>2, <4>1 DEF Older, m
    <3>3. CASE i \notin DOMAIN m
      <4>1. i - k \in DOMAIN msgs /\ r[i] = msgs[i - k] /\ i \in Nat /\ i > k
        BY <1>2, <3>3
      <4>2. j - k \in DOMAIN msgs /\ r[j] = msgs[j - k] /\ j \in Nat
        BY <1>2, <4>1
      <4>3. i - k < j - k
        BY <1>2, <4>1, <4>2
      <4>. QED
        BY <1>5, <4>1, <4>2, <4>3 DEF Increasing
    <3>. QED
      BY <3>1, <3>2, <3>3
  <2>3. Older(r, pg.outbox)
    BY <1>2, <1>5, <2>1 DEF Older
  <2>4. Done(done, p, r)
    BY <1>2, <1>5, <2>1 DEF Done
  <2>. QED
    BY <2>2, <2>3, <2>4
<1>. QED
  BY <1>4, <1>5 DEF InOrder, r, m

\* What says nothing of controls disturbs no order.
LEMMA NoControls ==
    ASSUME NEW msgs, \A i \in DOMAIN msgs : msgs[i].type # "control"
    PROVE  /\ \A p, last : Signed(msgs, p, last)
           /\ Increasing(msgs) /\ \A others : Older(msgs, others) /\ Older(others, msgs)
           /\ \A done, p : Done(done, p, msgs)
BY DEF Signed, Increasing, Older, Done

\* To be warned is about what is to be read.
LEMMA SameDown ==
    ASSUME NEW a, NEW b, b.down = a.down
    PROVE  Warned(a) => Warned(b)
BY DEF Warned

Saying(a, up) == [a EXCEPT !.up = up]

\* An open page says something up its socket.
LEMMA SaysOK ==
    ASSUME NEW st, NEW p, NEW last, Shaped(st, p, last), IsOpen(st),
           NEW s, s = st.pg.cur, NEW a, a = st.sk[s], a.link,
           NEW up \in Seq(Upward), NEW b, b = Saying(a, up),
           InOrder(st.pg, b, p, applied, last)
    PROVE  /\ s \in Sockets /\ a \in SocketType /\ b \in SocketType
           /\ b.up = up /\ b.client = "open" /\ b.server = a.server
           /\ b.link /\ b.present = a.present /\ b.missed = a.missed
           /\ Shaped(Put(st, st.pg, s, b), p, last) /\ Put(st, st.pg, s, b).pg = st.pg
           /\ Put(st, st.pg, s, b).sk[s] = b
           /\ \A t \in Sockets \ {s} : Put(st, st.pg, s, b).sk[t] = st.sk[t]
<1>1. /\ st.pg \in PageType /\ st.sk \in [Sockets -> SocketType]
      /\ s # NoSocket => st.sk[s].page = p
  BY DEF Shaped, StoreType
<1>2. s \in Sockets /\ s # NoSocket /\ a.client = "open" /\ a.page = p
  BY <1>1 DEF IsOpen, PageType
<1>3. /\ a \in SocketType /\ a.up \in Seq(Upward)
      /\ SocketOK(a) /\ Holds(st.pg, a, s)
  <2>1. a \in SocketType
    BY <1>1, <1>2
  <2>2. a.up \in Seq(Upward)
    BY <2>1 DEF SocketType
  <2>3. SocketOK(a) /\ Holds(st.pg, a, s)
    BY <1>2 DEF Shaped
  <2>. QED
    BY <2>1, <2>2, <2>3
<1>4. /\ b \in SocketType /\ b.up = up /\ b.page = p /\ b.client = "open"
      /\ b.server = a.server /\ b.preset = a.preset /\ b.link /\ b.down = a.down
      /\ b.present = a.present /\ b.missed = a.missed
  BY <1>2, <1>3 DEF SocketType, Saying
<1>5. SocketOK(b)
  BY <1>3, <1>4 DEF SocketOK
<1>7. Holds(st.pg, b, s)
  <2>1. b.down = a.down
    BY <1>4
  <2>2. Warned(a) => Warned(b)
    BY <2>1, SameDown
  <2>. QED
    BY <1>2, <1>3, <1>4, <2>2 DEF Holds
<1>8. \A t \in Sockets \ {s} : ~st.pg.doubled /\ st.sk[t].page = p => ~Carries(st.sk[t])
  <2>. SUFFICES ASSUME NEW t \in Sockets \ {s}, ~st.pg.doubled, st.sk[t].page = p,
                       Carries(st.sk[t])
                PROVE  FALSE
    OBVIOUS
  <2>1. st.pg.state = "running"
    BY <1>2, <1>3 DEF Holds
  <2>2. Holds(st.pg, st.sk[t], t)
    BY DEF Shaped
  <2>. QED
    BY <2>1, <2>2 DEF Holds
<1>9. /\ st.pg.handle => st.pg.timers > 0
      /\ st.pg.late <= Len(st.pg.outbox)
      /\ \A t \in Sockets \ {s} : st.sk[t].page = p => Holds(st.pg, st.sk[t], t)
  BY DEF Shaped
<1>10. Fits(st, p, last, s, b, st.pg)
  <2>1. /\ b.server = st.sk[s].server /\ b.preset = st.sk[s].preset /\ st.sk[s].page = p
        /\ st.pg.cur \in {NoSocket, st.pg.cur} /\ b.client # "closed"
    BY <1>2, <1>4
  <2>2. b.page = p /\ b \in SocketType /\ s \in Sockets
    BY <1>2, <1>4
  <2>. QED
    BY <1>1, <1>5, <1>7, <1>8, <1>9, <2>1, <2>2 DEF Fits
<1>. QED
  <2>. DEFINE now == Put(st, st.pg, s, b)
  <2>. HIDE DEF now
  <2>1. /\ Shaped(now, p, last) /\ now.pg = st.pg /\ now.sk[s] = b
        /\ \A t \in Sockets \ {s} : now.sk[t] = st.sk[t]
    <3>1. now = Put(st, st.pg, s, b)
      BY DEF now
    <3>. DEFINE pg == st.pg
    <3>2. Fits(st, p, last, s, b, pg) /\ now = Put(st, pg, s, b)
      BY <1>10, <3>1
    <3>. HIDE DEF pg
    <3>3. /\ Shaped(now, p, last) /\ now.pg = pg /\ now.sk[s] = b
          /\ \A t \in Sockets \ {s} : now.sk[t] = st.sk[t]
      BY SMTT(60), <3>2, ReplacesOK
    <3>. QED
      BY <3>3 DEF pg
  <2>2. /\ s \in Sockets /\ a \in SocketType /\ b \in SocketType
        /\ b.up = up /\ b.client = "open" /\ b.server = a.server
        /\ b.link /\ b.present = a.present /\ b.missed = a.missed
    BY <1>2, <1>3, <1>4
  <2>3. /\ Shaped(Put(st, st.pg, s, b), p, last) /\ Put(st, st.pg, s, b).pg = st.pg
        /\ Put(st, st.pg, s, b).sk[s] = b
        /\ \A t \in Sockets \ {s} : Put(st, st.pg, s, b).sk[t] = st.sk[t]
    BY <2>1 DEF now
  <2>. QED
    BY <2>2, <2>3

\* A message up the socket of a page.
LEMMA SendIs ==
    ASSUME NEW st \in StoreType, NEW s \in Sockets, st.sk[s].link, NEW msg \in Upward
    PROVE  /\ st.sk[s].up \in Seq(Upward) /\ st.sk[s].up \o <<msg>> \in Seq(Upward)
           /\ [st EXCEPT !.sk = Ask(@, s, msg)]
                = Put(st, st.pg, s, Saying(st.sk[s], st.sk[s].up \o <<msg>>))
<1>1. st.sk[s].up \in Seq(Upward)
  BY DEF StoreType, SocketType
<1>2. Append(st.sk[s].up, msg) = st.sk[s].up \o <<msg>> /\ <<msg>> \in Seq(Upward)
  BY SMTT(30), <1>1, AppendIs
<1>3. st.sk[s].up \o <<msg>> \in Seq(Upward)
  BY <1>1, <1>2, RowOf
<1>4. Ask(st.sk, s, msg) = [st.sk EXCEPT ![s] = Saying(st.sk[s], Append(st.sk[s].up, msg))]
  BY DEF Ask, Saying
<1>. DEFINE sk == Ask(st.sk, s, msg)
<1>5. [st EXCEPT !.sk = Ask(@, s, msg)] = [st EXCEPT !.sk = sk]
  OBVIOUS
<1>. HIDE DEF sk
<1>6. [st EXCEPT !.sk = sk] = [pg |-> st.pg, sk |-> sk]
  BY DEF StoreType
<1>. QED
  BY <1>1, <1>2, <1>3, <1>4, <1>5, <1>6 DEF Put, sk

Uncontrolled(so) == \A i \in DOMAIN so.up : so.up[i].type # "control"

\* A page that tells what it is has told it.
LEMMA SendPresenceOK ==
    ASSUME NEW st, NEW p, NEW last, Shaped(st, p, last), NEW on \in BOOLEAN,
           st.pg.present = on
    PROVE  LET now == Send(st, p, Presence(on)) IN
           /\ Shaped(now, p, last) /\ now.pg = st.pg /\ Heard(now.pg, now.sk)
           /\ \A t \in Sockets :
                /\ now.sk[t].client = st.sk[t].client
                /\ Uncontrolled(st.sk[t]) => Uncontrolled(now.sk[t])
<1>. DEFINE now == Send(st, p, Presence(on))
            msg == Presence(on)
            s == st.pg.cur
            a == st.sk[s]
<1>1. st \in StoreType /\ st.pg \in PageType /\ st.sk \in [Sockets -> SocketType]
  BY DEF Shaped, StoreType
<1>2. msg \in Upward /\ msg.type = "presence" /\ msg.on = on
  BY DEF Presence, Upward
<1>. HIDE DEF msg
<1>3. CASE ~IsOpen(st)
  <2>1. now = st
    BY <1>2, <1>3 DEF Send, msg
  <2>2. Heard(st.pg, st.sk)
    BY <1>3 DEF Heard, Believed, IsOpen
  <2>. HIDE DEF now
  <2>3. /\ Shaped(now, p, last) /\ now.pg = st.pg /\ Heard(now.pg, now.sk) /\ now.sk = st.sk
    BY <2>1, <2>2
  <2>. QED
    BY <2>3 DEF now
<1>4. CASE IsOpen(st) /\ ~a.link
  <2>1. now = st
    <3>1. now = [st EXCEPT !.sk = st.sk]
      BY <1>2, <1>4 DEF Send, Ask, msg
    <3>. QED
      BY <1>1, <3>1 DEF StoreType
  <2>2. Heard(st.pg, st.sk)
    BY <1>4 DEF Heard, Believed
  <2>. HIDE DEF now
  <2>3. /\ Shaped(now, p, last) /\ now.pg = st.pg /\ Heard(now.pg, now.sk) /\ now.sk = st.sk
    BY <2>1, <2>2
  <2>. QED
    BY <2>3 DEF now
<1>5. CASE IsOpen(st) /\ a.link
  <2>. DEFINE up == a.up \o <<msg>>
              b == Saying(a, up)
  <2>1. s \in Sockets /\ a \in SocketType /\ a.page = p
    BY <1>1, <1>5 DEF IsOpen, PageType, Shaped
  <2>2. a.up \in Seq(Upward) /\ up \in Seq(Upward) /\ now = Put(st, st.pg, s, b)
    <3>1. now = [st EXCEPT !.sk = Ask(@, s, msg)]
      BY <1>5 DEF Send, msg
    <3>2. a.link
      BY <1>5
    <3>. HIDE DEF now
    <3>. QED
      BY <1>1, <1>2, <2>1, <3>1, <3>2, SendIs
  <2>3. /\ <<msg>> \in Seq(Upward) /\ Len(<<msg>>) = 1 /\ DOMAIN <<msg>> = {1}
        /\ <<msg>>[1] = msg
    BY <1>2
  <2>4. \A i \in DOMAIN <<msg>> : <<msg>>[i].type # "control"
    BY <1>2, <2>3
  <2>. DEFINE msgs == <<msg>>
  <2>. HIDE DEF msgs
  <2>5. /\ Signed(msgs, p, last) /\ Increasing(msgs) /\ Older(msgs, st.pg.outbox)
        /\ Done(applied, p, msgs) /\ Older(a.up, msgs)
    BY <2>4, NoControls DEF msgs
  <2>6. InOrder(st.pg, a, p, applied, last)
    BY <2>1 DEF Shaped
  <2>7. b.up = up /\ b.server = a.server /\ b \in SocketType
    BY <2>1, <2>2 DEF Saying, SocketType
  <2>. HIDE DEF b
  <2>8. InOrder(st.pg, b, p, applied, last)
    <3>1. b.up = a.up \o msgs /\ msgs \in Seq(Upward)
      BY <2>3, <2>7 DEF msgs
    <3>. HIDE DEF a
    <3>. QED
      BY <2>1, <2>5, <2>6, <2>7, <3>1, AddsInOrder
  <2>9. /\ b.client = "open" /\ Shaped(Put(st, st.pg, s, b), p, last)
        /\ Put(st, st.pg, s, b).pg = st.pg /\ Put(st, st.pg, s, b).sk[s] = b
        /\ \A t \in Sockets \ {s} : Put(st, st.pg, s, b).sk[t] = st.sk[t]
    <3>1. b = Saying(a, up) /\ a = st.sk[s] /\ a.link /\ s = st.pg.cur /\ IsOpen(st)
      BY <1>5 DEF b
    <3>. HIDE DEF a, up, s
    <3>. QED
      BY SMTT(30), <2>2, <2>8, <3>1, SaysOK
  <2>10. Believes(b, on)
    <3>. DEFINE n == Len(a.up) + 1
    <3>1. n \in DOMAIN up /\ up[n] = msg /\ n \in Nat /\ \A j \in DOMAIN up : j \in Nat /\ j <= n
      <4>1. a.up \in Seq(Upward) /\ msg \in Upward
        BY <1>2, <2>2
      <4>2. Len(a.up) \in Nat /\ n \in Nat
        BY <4>1
      <4>. HIDE DEF a, now, s
      <4>. QED
        BY <4>1, <4>2, EndOf
    <3>2. \A j \in DOMAIN up : ~(j > n)
      BY <3>1
    <3>. HIDE DEF n, up
    <3>. QED
      BY <1>2, <2>7, <3>1, <3>2 DEF Believes
  <2>11. \A i \in DOMAIN up : (\A j \in DOMAIN a.up : a.up[j].type # "control")
                                => up[i].type # "control"
    <3>1. \A i \in DOMAIN up : \/ i \in DOMAIN a.up /\ up[i] = a.up[i]
                               \/ up[i] = msg
      BY SMTT(30), <1>2, <2>2, EndOf
    <3>. QED
      BY <1>2, <3>1
  <2>. HIDE DEF now
  <2>12. now.pg = st.pg /\ now.sk[s] = b /\ Shaped(now, p, last)
         /\ \A t \in Sockets \ {s} : now.sk[t] = st.sk[t]
    BY <2>2, <2>9
  <2>13. Heard(now.pg, now.sk)
    BY <2>10, <2>12 DEF Heard, Believed
  <2>14. ASSUME NEW t \in Sockets
         PROVE  /\ now.sk[t].client = st.sk[t].client
                /\ Uncontrolled(st.sk[t]) => Uncontrolled(now.sk[t])
    <3>1. CASE t # s
      BY <2>12, <3>1
    <3>2. CASE t = s
      <4>1. a.client = "open"
        BY <1>5 DEF IsOpen
      <4>. HIDE DEF up
      <4>. QED
        BY <2>7, <2>9, <2>11, <2>12, <3>2, <4>1 DEF Uncontrolled
    <3>. QED
      BY <3>1, <3>2
  <2>. QED
    BY <2>12, <2>13, <2>14 DEF now
<1>. QED
  BY <1>3, <1>4, <1>5

\* Controls that are said do not change what is believed.
LEMMA AddsBelieves ==
    ASSUME NEW a \in SocketType, NEW b \in SocketType, NEW msgs \in Seq(Upward),
           b.up = a.up \o msgs, b.present = a.present,
           \A i \in DOMAIN msgs : msgs[i].type # "presence", NEW on, Believes(a, on)
    PROVE  Believes(b, on)
<1>. DEFINE m == a.up
            k == Len(m)
            r == m \o msgs
<1>1. m \in Seq(Upward)
  BY DEF SocketType
<1>2. /\ \A i \in DOMAIN r : \/ i \in DOMAIN m /\ r[i] = m[i]
                             \/ r[i].type # "presence" /\ i \notin DOMAIN m
      /\ \A i \in DOMAIN m : i \in DOMAIN r
  BY <1>1, RowOf
<1>. HIDE DEF r
<1>3. CASE a.present = on /\ \A i \in DOMAIN m : m[i].type # "presence"
  <2>1. \A i \in DOMAIN r : r[i].type # "presence"
    BY <1>2, <1>3
  <2>. QED
    BY <1>3, <2>1 DEF Believes, r
<1>4. ASSUME NEW i \in DOMAIN m, m[i].type = "presence", m[i].on = on,
             \A j \in DOMAIN m : j > i => m[j].type # "presence"
      PROVE  Believes(b, on)
  <2>1. i \in DOMAIN r /\ r[i] = m[i]
    BY <1>1, <1>2, RowOf DEF r
  <2>2. \A j \in DOMAIN r : j > i => r[j].type # "presence"
    BY <1>2, <1>4
  <2>. QED
    BY <1>4, <2>1, <2>2 DEF Believes, r
<1>. QED
  BY <1>3, <1>4 DEF Believes


\* Controls are things to say.
LEMMA ControlsAreUpward ==
    ASSUME NEW m \in Seq(Controls)
    PROVE  m \in Seq(Upward) /\ \A i \in DOMAIN m : m[i].type = "control"
<1>1. \A i \in DOMAIN m : m[i] \in Upward /\ m[i].type = "control"
  BY OutboxControls
<1>2. m \in [1..Len(m) -> Upward] /\ Len(m) \in Nat
  BY <1>1
<1>. QED
  BY <1>1, <1>2

\* An open page that says controls has said them all, in order.
LEMMA SaysControlsOK ==
    ASSUME NEW st, NEW p, NEW last, Shaped(st, p, last), IsOpen(st), st.sk[st.pg.cur].link,
           NEW msgs \in Seq(Controls), Signed(msgs, p, last),
           ~st.pg.doubled => /\ Increasing(msgs) /\ st.pg.outbox = <<>>
                             /\ Done(applied, p, msgs) /\ Older(st.sk[st.pg.cur].up, msgs),
           Heard(st.pg, st.sk)
    PROVE  StoreOK(Put(st, st.pg, st.pg.cur,
                       Saying(st.sk[st.pg.cur], st.sk[st.pg.cur].up \o msgs)), p, last)
<1>. DEFINE s == st.pg.cur
            a == st.sk[s]
            up == a.up \o msgs
            b == Saying(a, up)
            now == Put(st, st.pg, s, b)
<1>1. /\ st.pg \in PageType /\ st.sk \in [Sockets -> SocketType] /\ s # NoSocket
      /\ s \in Sockets /\ a \in SocketType /\ a.page = p /\ a.client = "open"
  BY DEF Shaped, StoreType, IsOpen, PageType
<1>2. msgs \in Seq(Upward) /\ \A i \in DOMAIN msgs : msgs[i].type = "control"
  BY ControlsAreUpward
<1>3. a.up \in Seq(Upward) /\ up \in Seq(Upward)
  <2>1. a.up \in Seq(Upward)
    BY <1>1 DEF SocketType
  <2>. QED
    BY <1>2, <2>1, RowOf
<1>. HIDE DEF up
<1>4. /\ b \in SocketType /\ b.up = up /\ b.server = a.server /\ b.present = a.present
      /\ b.missed = a.missed /\ b.link = a.link
  BY <1>1, <1>3 DEF Saying, SocketType
<1>5. InOrder(st.pg, a, p, applied, last)
  BY <1>1 DEF Shaped
<1>6. ~st.pg.doubled => Older(msgs, st.pg.outbox)
  BY DEF Older
<1>. HIDE DEF b
<1>7. InOrder(st.pg, b, p, applied, last)
  <2>1. b.up = a.up \o msgs
    BY <1>4 DEF up
  <2>2. ~st.pg.doubled => /\ Increasing(msgs) /\ Older(msgs, st.pg.outbox)
                          /\ Done(applied, p, msgs) /\ Older(a.up, msgs)
    BY <1>6
  <2>. HIDE DEF a, s
  <2>. QED
    BY <1>1, <1>2, <1>4, <1>5, <2>1, <2>2, AddsInOrder
<1>8. /\ b.client = "open" /\ Shaped(now, p, last) /\ now.pg = st.pg /\ now.sk[s] = b
      /\ \A t \in Sockets \ {s} : now.sk[t] = st.sk[t]
  <2>1. b = Saying(a, up) /\ a = st.sk[s] /\ s = st.pg.cur /\ a.link
    BY DEF b
  <2>. HIDE DEF a, s
  <2>. QED
    BY SMTT(30), <1>3, <1>7, <2>1, SaysOK
<1>9. ASSUME NEW on, Believes(a, on) PROVE Believes(b, on)
  <2>1. b.up = a.up \o msgs /\ \A i \in DOMAIN msgs : msgs[i].type # "presence"
    BY <1>2, <1>4 DEF up
  <2>. HIDE DEF a, s
  <2>. QED
    BY <1>1, <1>2, <1>4, <1>9, <2>1, AddsBelieves
<1>10. Heard(st.pg, now.sk)
  <2>1. Believed(st.pg, a)
    BY <1>1 DEF Heard
  <2>2. Believed(st.pg, b)
    <3>. HIDE DEF a
    <3>. QED
      BY <1>1, <1>4, <1>9, <2>1 DEF Believed
  <2>. HIDE DEF now
  <2>. QED
    BY <1>8, <2>2 DEF Heard
<1>11. Quiet(st.pg, now.sk)
  BY DEF Quiet
<1>12. StoreOK(now, p, last)
  <2>. HIDE DEF now
  <2>. QED
    BY <1>8, <1>10, <1>11 DEF StoreOK
<1>. QED
  BY <1>12 DEF b, up

\* A button: its control is younger than all, and sent or kept.
LEMMA SendControlOK ==
    ASSUME SyncAssumption, Inv, NEW p \in Pages, spent < MaxEvents, page[p].state = "running"
    PROVE  StoreOK(Send(Store(p), p, Control(<<p, spent + 1>>)), p, spent + 1)
<1>. DEFINE st == Store(p)
            msg == Control(<<p, spent + 1>>)
            last == spent + 1
            now == Send(st, p, msg)
<1>1. /\ spent \in Nat /\ MaxEvents \in Nat /\ last \in Nat /\ spent <= last /\ spent <= spent
      /\ last \in 1..MaxEvents
  <2>1. spent \in Nat /\ MaxEvents \in Nat
    BY Facts
  <2>. QED
    BY <2>1
<1>2. msg \in Controls /\ msg \in Upward /\ msg.type = "control" /\ msg.id[1] = p
      /\ msg.id[2] = last
  BY <1>1 DEF Control, Controls, Upward
<1>3. /\ StoreOK(st, p, spent) /\ StoreOK(st, p, last)
      /\ st.pg = page[p] /\ st.sk = sock
  BY <1>1, StoreIs
<1>. HIDE DEF st, msg, last
<1>4. /\ Shaped(st, p, last) /\ Shaped(st, p, spent) /\ Quiet(st.pg, st.sk) /\ Heard(st.pg, st.sk)
      /\ st \in StoreType /\ st.pg \in PageType /\ st.sk \in [Sockets -> SocketType]
      /\ st.pg.outbox \in Seq(Controls) /\ st.pg.state = "running"
  BY <1>3 DEF StoreOK, Shaped, StoreType, PageType
<1>5. \A m \in Seq(Upward) : Signed(m, p, spent)
         => \A i \in DOMAIN m : m[i].type = "control" => m[i].id[2] < last
  <2>. SUFFICES ASSUME NEW m \in Seq(Upward), Signed(m, p, spent), NEW i \in DOMAIN m,
                       m[i].type = "control"
                PROVE  m[i].id[2] < last
    OBVIOUS
  <2>1. m[i].id[2] \in Int
    BY UpwardControl
  <2>. QED
    BY <1>1, <2>1 DEF Signed, last
<1>6. \A i \in DOMAIN applied : applied[i][2] < last
  <2>1. applied \in Seq(Pages \X (1..MaxEvents))
    BY DEF Inv, TypeOK
  <2>2. \A i \in DOMAIN applied : applied[i] \in Pages \X (1..MaxEvents)
    BY <2>1
  <2>3. \A i \in DOMAIN applied : applied[i][2] \in Int /\ applied[i][2] <= spent
    BY <2>2 DEF Inv, AppliedOK
  <2>. QED
    BY <1>1, <2>3 DEF last
<1>7. CASE IsOpen(st)
  <2>. DEFINE s == st.pg.cur
              a == st.sk[s]
  <2>1. s \in Sockets /\ a \in SocketType /\ a.page = p
    BY <1>4, <1>7 DEF IsOpen, PageType, Shaped
  <2>2. CASE ~a.link
    <3>1. now = [st EXCEPT !.sk = st.sk]
      BY <1>7, <2>2 DEF Send, Ask
    <3>2. now = st
      BY <1>4, <3>1 DEF StoreType
    <3>. QED
      BY <1>3, <3>2 DEF st, msg, last
  <2>3. CASE a.link
    <3>. DEFINE msgs == <<msg>>
    <3>1. /\ msgs \in Seq(Controls) /\ DOMAIN msgs = {1} /\ msgs[1] = msg
      BY <1>2
    <3>2. /\ a.up \in Seq(Upward) /\ now = Put(st, st.pg, s, Saying(a, a.up \o msgs))
      <4>1. now = [st EXCEPT !.sk = Ask(@, s, msg)]
        BY <1>7 DEF Send
      <4>2. a.link
        BY <2>3
      <4>. HIDE DEF now
      <4>. QED
        BY <1>2, <1>4, <2>1, <4>1, <4>2, SendIs
    <3>3. Signed(a.up, p, spent)
      BY <1>4, <2>1 DEF Shaped, InOrder
    <3>. HIDE DEF msgs
    <3>4. Signed(msgs, p, last)
      BY <1>1, <1>2, <3>1 DEF Signed
    <3>5. Increasing(msgs)
      BY <3>1 DEF Increasing
    <3>6. Older(a.up, msgs)
      BY <1>2, <1>5, <3>1, <3>2, <3>3 DEF Older
    <3>7. Done(applied, p, msgs)
      BY <1>2, <1>6, <3>1 DEF Done
    <3>8. ~st.pg.doubled => st.pg.outbox = <<>>
      BY <1>4, <1>7 DEF Quiet, IsOpen
    <3>9. StoreOK(Put(st, st.pg, s, Saying(a, a.up \o msgs)), p, last)
      <4>1. st.sk[st.pg.cur].link
        BY <2>3
      <4>2. ~st.pg.doubled => /\ Increasing(msgs) /\ st.pg.outbox = <<>>
                              /\ Done(applied, p, msgs) /\ Older(st.sk[st.pg.cur].up, msgs)
        BY <3>5, <3>6, <3>7, <3>8
      <4>. QED
        BY <1>4, <1>7, <3>1, <3>4, <4>1, <4>2, SaysControlsOK
    <3>. QED
      BY <3>2, <3>9 DEF st, msg, last
  <2>. QED
    BY <2>2, <2>3
<1>8. CASE ~IsOpen(st)
  <2>. DEFINE out == Append(st.pg.outbox, msg)
              kept == Refilled(st, out, st.pg.late)
              n == Len(st.pg.outbox)
  <2>1. now = ReviveNow(kept, p)
    <3>1. now = ReviveNow([st EXCEPT !.pg.outbox = Append(@, msg)], p)
      BY <1>2, <1>8 DEF Send
    <3>2. [st EXCEPT !.pg.outbox = Append(@, msg)] = [st EXCEPT !.pg.outbox = out]
      OBVIOUS
    <3>. HIDE DEF out
    <3>3. [st EXCEPT !.pg.outbox = out] = kept
      BY <1>4, RefillIs
    <3>. QED
      BY <3>1, <3>2, <3>3
  <2>2. /\ out \in Seq(Controls) /\ DOMAIN out = 1..n + 1 /\ n \in Nat /\ Len(out) = n + 1
        /\ DOMAIN st.pg.outbox = 1..n
        /\ \A i \in 1..n : out[i] = st.pg.outbox[i]
        /\ out[n + 1] = msg
    BY <1>2, <1>4
  <2>. HIDE DEF out
  <2>3. \A i \in DOMAIN out :
          \/ /\ i \in DOMAIN st.pg.outbox /\ out[i] = st.pg.outbox[i]
             /\ i \in Nat /\ i < n + 1
          \/ i = n + 1 /\ out[i] = msg
    <3>. HIDE DEF kept, now, n
    <3>1. \A i \in 1..n + 1 : i \in 1..n \/ i = n + 1
      BY <2>2
    <3>. QED
      BY <2>2, <3>1
  <2>4. Signed(st.pg.outbox, p, spent) /\ Signed(st.pg.outbox, p, last)
        /\ Increasing(st.pg.outbox) /\ (~st.pg.doubled => Done(applied, p, st.pg.outbox))
    BY <1>4 DEF Shaped, Stored
  <2>5. st.pg.outbox \in Seq(Upward) /\ out \in Seq(Upward)
    BY <1>4, <2>2, ControlsAreUpward
  <2>6. Signed(out, p, last)
    BY <1>1, <1>2, <2>3, <2>4 DEF Signed
  <2>7. Increasing(out)
    <3>. SUFFICES ASSUME NEW i \in DOMAIN out, NEW j \in DOMAIN out, i < j,
                         out[i].type = "control", out[j].type = "control"
                  PROVE  out[i].id[2] < out[j].id[2]
      BY DEF Increasing
    <3>1. i \in DOMAIN st.pg.outbox /\ out[i] = st.pg.outbox[i]
      BY <2>2, <2>3
    <3>2. CASE j = n + 1
      <4>1. out[i].id[2] < last
        BY <1>5, <2>4, <2>5, <3>1
      <4>. QED
        BY <1>2, <2>2, <3>2, <4>1
    <3>3. CASE j \in DOMAIN st.pg.outbox /\ out[j] = st.pg.outbox[j]
      BY <2>4, <3>1, <3>3 DEF Increasing
    <3>. QED
      BY <2>3, <3>2, <3>3
  <2>8. ~st.pg.doubled => Done(applied, p, out)
    BY <1>2, <1>6, <2>3, <2>4 DEF Done
  <2>9. ASSUME NEW t \in Sockets, ~st.pg.doubled, st.sk[t].page = p, Carries(st.sk[t])
        PROVE  Older(st.sk[t].up, out)
    <3>1. InOrder(st.pg, st.sk[t], p, applied, spent) /\ st.sk[t].up \in Seq(Upward)
      BY <1>4, <2>9 DEF Shaped, SocketType
    <3>2. Signed(st.sk[t].up, p, spent) /\ Older(st.sk[t].up, st.pg.outbox)
      BY <2>9, <3>1 DEF InOrder
    <3>. QED
      BY <1>2, <1>5, <2>3, <3>1, <3>2 DEF Older
  <2>10. /\ Shaped(kept, p, last) /\ kept.sk = st.sk /\ kept.pg.outbox = out
         /\ kept.pg.cur = st.pg.cur /\ kept.pg.state = st.pg.state
         /\ kept.pg.present = st.pg.present /\ kept.pg.doubled = st.pg.doubled
    <3>1. st.pg.late \in Nat /\ st.pg.late <= Len(out)
      <4>1. st.pg.late <= Len(st.pg.outbox) /\ st.pg.late \in Nat
        BY <1>4 DEF Shaped, PageType
      <4>. QED
        BY <2>2, <4>1
    <3>2. st.pg.state = "unstarted" => out = <<>>
      BY <1>4
    <3>. QED
      BY <1>4, <2>2, <2>6, <2>7, <2>8, <2>9, <3>1, <3>2, OutboxOK
  <2>. HIDE DEF kept, now
  <2>11. StoreOK(kept, p, last)
    BY <1>8, <2>10 DEF StoreOK, Quiet, Heard, Believed, IsOpen
  <2>12. StoreOK(now, p, last)
    BY <2>1, <2>11, ReviveOK
  <2>. QED
    BY <2>12 DEF now, st, msg, last
<1>. QED
  BY <1>7, <1>8


\* What is fresh in an outbox is its end.
LEMMA FreshOf ==
    ASSUME NEW st, NEW p, NEW last, Shaped(st, p, last)
    PROVE  /\ Fresh(st) \in Seq(Controls)
           /\ Signed(Fresh(st), p, last) /\ Increasing(Fresh(st))
           /\ ~st.pg.doubled => Done(applied, p, Fresh(st))
           /\ \A m : Older(m, st.pg.outbox) => Older(m, Fresh(st))
<1>. DEFINE out == st.pg.outbox
            late == st.pg.late
            fresh == Fresh(st)
<1>1. /\ out \in Seq(Controls) /\ late \in Nat /\ late <= Len(out) /\ Len(out) \in Nat
      /\ DOMAIN out = 1..Len(out)
  <2>1. out \in Seq(Controls) /\ late \in Nat /\ late <= Len(out)
    BY DEF Shaped, StoreType, PageType
  <2>. QED
    BY <2>1
<1>2. Signed(out, p, last) /\ Increasing(out) /\ (~st.pg.doubled => Done(applied, p, out))
  BY DEF Shaped, Stored
<1>3. fresh = SubSeq(out, late + 1, Len(out))
  BY DEF Fresh
<1>. HIDE DEF out, late, fresh
<1>4. /\ fresh \in Seq(Controls) /\ Len(fresh) = Len(out) - late
      /\ \A j \in 1..Len(out) - late : fresh[j] = out[j + late]
  <2>1. \A i \in late + 1..Len(out) : out[i] \in Controls
    BY <1>1
  <2>2. late + 1 \in Int /\ Len(out) \in Int
    BY <1>1
  <2>3. /\ fresh \in Seq(Controls)
        /\ Len(fresh) = IF late + 1 <= Len(out) THEN Len(out) - (late + 1) + 1 ELSE 0
        /\ \A i \in 1..Len(out) - (late + 1) + 1 : fresh[i] = out[late + 1 + i - 1]
    BY <1>3, <2>1, <2>2, SubSeqProperties
  <2>4. /\ Len(out) - (late + 1) + 1 = Len(out) - late
        /\ ~(late + 1 <= Len(out)) => Len(out) - late = 0
    <3>1. \A n, m \in Nat : m <= n => /\ n - (m + 1) + 1 = n - m
                                       /\ ~(m + 1 <= n) => n - m = 0
      OBVIOUS
    <3>2. Len(out) \in Nat /\ late \in Nat /\ late <= Len(out)
      BY <1>1
    <3>. QED
      BY <3>1, <3>2
  <2>5. \A j \in 1..Len(out) - late : fresh[j] = out[j + late]
    <3>. SUFFICES ASSUME NEW j \in 1..Len(out) - late PROVE fresh[j] = out[j + late]
      OBVIOUS
    <3>1. fresh[j] = out[late + 1 + j - 1]
      BY <2>3, <2>4
    <3>2. late + 1 + j - 1 = j + late
      BY <1>1
    <3>. QED
      BY <3>1, <3>2
  <2>. QED
    BY <2>3, <2>4, <2>5
<1>5. \A j \in DOMAIN fresh : j + late \in DOMAIN out /\ fresh[j] = out[j + late] /\ j \in Nat
  <2>1. DOMAIN fresh = 1..Len(out) - late
    BY <1>4
  <2>. QED
    BY <1>1, <1>4, <2>1
<1>6. Signed(fresh, p, last)
  BY <1>2, <1>5 DEF Signed
<1>7. Increasing(fresh)
  <2>1. \A i, j \in DOMAIN fresh : i < j => i + late < j + late
    BY <1>1, <1>5
  <2>. QED
    BY <1>2, <1>5, <2>1 DEF Increasing
<1>8. ~st.pg.doubled => Done(applied, p, fresh)
  BY <1>2, <1>5 DEF Done
<1>9. \A m : Older(m, out) => Older(m, fresh)
  BY <1>5 DEF Older
<1>. QED
  BY <1>4, <1>6, <1>7, <1>8, <1>9 DEF out, fresh

\* flushOutbox(), of a page whose socket carries no control yet.
LEMMA FlushOK ==
    ASSUME SyncAssumption, Inv, NEW p \in Pages, NEW st, NEW last, Shaped(st, p, last),
           Heard(st.pg, st.sk),
           ~st.pg.doubled /\ IsOpen(st) =>
             \A i \in DOMAIN st.sk[st.pg.cur].up : st.sk[st.pg.cur].up[i].type # "control"
    PROVE  StoreOK(FlushOutbox(st, p), p, last)
<1>. DEFINE fresh == Fresh(st)
            emptied == Refilled(st, <<>>, 0)
            waiting == Refilled(st, fresh, 0)
            now == FlushOutbox(st, p)
<1>1. /\ st \in StoreType /\ st.pg \in PageType /\ st.sk \in [Sockets -> SocketType]
      /\ Stored(st.pg, st.sk, p, applied, last)
      /\ \A s \in Sockets : st.sk[s].page = p => InOrder(st.pg, st.sk[s], p, applied, last)
  BY DEF Shaped, StoreType
<1>2. /\ fresh \in Seq(Controls) /\ Signed(fresh, p, last) /\ Increasing(fresh)
      /\ ~st.pg.doubled => Done(applied, p, fresh)
      /\ \A m : Older(m, st.pg.outbox) => Older(m, fresh)
  BY FreshOf
<1>3. st.pg.state = "unstarted" => fresh = <<>>
  <2>1. st.pg.state = "unstarted" => st.pg.outbox = <<>>
    BY <1>1 DEF Stored
  <2>2. ASSUME st.pg.outbox = <<>> PROVE fresh = <<>>
    <3>1. st.pg.late = 0
      BY <1>1, <2>2 DEF Shaped, PageType
    <3>. QED
      BY <2>2, <3>1 DEF Fresh
  <2>. QED
    BY <2>1, <2>2
<1>. HIDE DEF fresh
<1>4. /\ Shaped(emptied, p, last) /\ emptied.sk = st.sk /\ emptied.pg.outbox = <<>>
      /\ emptied.pg.cur = st.pg.cur /\ emptied.pg.present = st.pg.present
      /\ emptied.pg.doubled = st.pg.doubled
  <2>. DEFINE none == <<>>
  <2>1. /\ none \in Seq(Controls) /\ 0 \in Nat /\ 0 <= Len(none)
        /\ Signed(none, p, last) /\ Increasing(none) /\ Done(applied, p, none)
        /\ \A m : Older(m, none)
    BY DEF Signed, Increasing, Done, Older
  <2>2. none = <<>>
    OBVIOUS
  <2>. HIDE DEF none
  <2>3. /\ Shaped(Refilled(st, none, 0), p, last) /\ Refilled(st, none, 0).sk = st.sk
        /\ Refilled(st, none, 0).pg.outbox = none
        /\ Refilled(st, none, 0).pg.cur = st.pg.cur
        /\ Refilled(st, none, 0).pg.present = st.pg.present
        /\ Refilled(st, none, 0).pg.doubled = st.pg.doubled
    <3>1. \A u \in Sockets : ~st.pg.doubled /\ st.sk[u].page = p /\ Carries(st.sk[u])
                               => Older(st.sk[u].up, none)
      BY <2>1
    <3>2. st.pg.state = "unstarted" => none = <<>>
      BY <2>2
    <3>. HIDE DEF now
    <3>. QED
      BY <2>1, <3>1, <3>2, OutboxOK
  <2>. QED
    BY <2>2, <2>3
<1>5. /\ Shaped(waiting, p, last) /\ waiting.sk = st.sk
      /\ waiting.pg.cur = st.pg.cur /\ waiting.pg.present = st.pg.present
      /\ waiting.pg.doubled = st.pg.doubled
  <2>1. 0 \in Nat /\ 0 <= Len(fresh)
    BY <1>2
  <2>2. \A t \in Sockets : ~st.pg.doubled /\ st.sk[t].page = p /\ Carries(st.sk[t])
                             => Older(st.sk[t].up, fresh)
    BY <1>1, <1>2 DEF InOrder
  <2>. QED
    BY <1>2, <1>3, <2>1, <2>2, OutboxOK
<1>. HIDE DEF emptied, waiting
<1>6. /\ [st EXCEPT !.pg.outbox = <<>>, !.pg.late = 0] = emptied
      /\ [st EXCEPT !.pg.outbox = Fresh(st), !.pg.late = 0] = waiting
  <2>1. \A out : [st EXCEPT !.pg.outbox = out, !.pg.late = 0] = Refilled(st, out, 0)
    BY ZenonT(40), <1>1, RefillIs
  <2>2. [st EXCEPT !.pg.outbox = <<>>, !.pg.late = 0] = emptied
    BY <2>1 DEF emptied
  <2>3. [st EXCEPT !.pg.outbox = fresh, !.pg.late = 0] = waiting
    BY <2>1 DEF waiting
  <2>. QED
    BY <2>2, <2>3 DEF fresh
<1>7. Heard(emptied.pg, emptied.sk) /\ Heard(waiting.pg, waiting.sk)
  BY <1>4, <1>5 DEF Heard, Believed
<1>8. Quiet(emptied.pg, emptied.sk)
  BY <1>4 DEF Quiet
<1>9. CASE fresh = <<>>
  <2>1. now = emptied
    BY <1>6, <1>9 DEF FlushOutbox, fresh
  <2>. QED
    BY <1>4, <1>7, <1>8, <2>1 DEF StoreOK
<1>10. CASE fresh # <<>> /\ ~IsOpen(st)
  <2>1. now = ReviveNow(waiting, p)
    BY <1>6, <1>10 DEF FlushOutbox, fresh
  <2>2. Quiet(waiting.pg, waiting.sk)
    BY <1>5, <1>10 DEF Quiet, IsOpen
  <2>3. StoreOK(waiting, p, last)
    BY <1>5, <1>7, <2>2 DEF StoreOK
  <2>. HIDE DEF now
  <2>4. StoreOK(now, p, last)
    BY <2>1, <2>3, ReviveOK
  <2>. QED
    BY <2>4 DEF now
<1>11. CASE fresh # <<>> /\ IsOpen(st)
  <2>. DEFINE s == st.pg.cur
              a == st.sk[s]
  <2>1. now = [emptied EXCEPT !.sk = AskAll(@, s, fresh)]
    BY <1>6, <1>11 DEF FlushOutbox, fresh
  <2>2. /\ s \in Sockets /\ a \in SocketType /\ emptied \in StoreType
        /\ emptied.pg \in PageType /\ emptied.sk \in [Sockets -> SocketType]
    BY <1>1, <1>4, <1>11 DEF IsOpen, PageType, Shaped, StoreType
  <2>3. CASE ~a.link
    <3>. HIDE DEF now
    <3>1. now = [emptied EXCEPT !.sk = emptied.sk]
      BY <1>4, <2>1, <2>3 DEF AskAll
    <3>2. now = emptied
      BY <2>2, <3>1 DEF StoreType
    <3>3. StoreOK(now, p, last)
      BY <1>4, <1>7, <1>8, <3>2 DEF StoreOK
    <3>. QED
      BY <3>3 DEF now
  <2>4. CASE a.link
    <3>. HIDE DEF now
    <3>1. AskAll(emptied.sk, s, fresh) = [emptied.sk EXCEPT ![s] = Saying(a, a.up \o fresh)]
      BY <1>4, <2>4 DEF AskAll, Saying
    <3>2. now = Put(emptied, emptied.pg, s, Saying(a, a.up \o fresh))
      <4>. DEFINE sk == AskAll(emptied.sk, s, fresh)
      <4>1. now = [emptied EXCEPT !.sk = sk]
        BY <2>1
      <4>. HIDE DEF sk
      <4>2. now = [pg |-> emptied.pg, sk |-> sk]
        BY <2>2, <4>1 DEF StoreType
      <4>. QED
        BY <3>1, <4>2 DEF Put, sk
    <3>3. ~emptied.pg.doubled => Older(a.up, fresh)
      BY <1>4, <1>11 DEF Older
    <3>4. IsOpen(emptied) /\ emptied.sk[emptied.pg.cur].link /\ emptied.pg.cur = s
          /\ emptied.sk[emptied.pg.cur] = a
      BY <1>4, <1>11, <2>4 DEF IsOpen
    <3>5. ~emptied.pg.doubled =>
             /\ Increasing(fresh) /\ emptied.pg.outbox = <<>>
             /\ Done(applied, p, fresh) /\ Older(emptied.sk[emptied.pg.cur].up, fresh)
      BY <1>2, <1>4, <3>3, <3>4
    <3>6. StoreOK(Put(emptied, emptied.pg, emptied.pg.cur,
                      Saying(emptied.sk[emptied.pg.cur], emptied.sk[emptied.pg.cur].up \o fresh)),
                  p, last)
      BY <1>2, <1>4, <1>7, <3>4, <3>5, SaysControlsOK
    <3>7. StoreOK(now, p, last)
      <4>. HIDE DEF a, s
      <4>. QED
        BY <3>2, <3>4, <3>6
    <3>. QED
      BY <3>7 DEF now
  <2>. QED
    BY <2>3, <2>4
<1>. QED
  BY <1>9, <1>10, <1>11



----------------------------------------------------------------------------
(* A page closes a socket.                                                 *)

Hung(a) == [a EXCEPT !.up = IF a.link THEN a.up \o <<CloseFrame>> ELSE a.up,
                     !.client = "closing"]

\* close() adds a frame, if it can be sent, and the handshake is under way.
LEMMA HungIs ==
    ASSUME NEW sk \in [Sockets -> SocketType], NEW s \in Sockets, NEW a, a = sk[s]
    PROVE  /\ Hangs(sk, s) = [sk EXCEPT ![s] = Hung(a)]
           /\ Hung(a) \in SocketType /\ Hung(a).client = "closing"
           /\ Hung(a).up = IF a.link THEN a.up \o <<CloseFrame>> ELSE a.up
           /\ Hung(a).page = a.page /\ Hung(a).server = a.server /\ Hung(a).link = a.link
           /\ Hung(a).preset = a.preset /\ Hung(a).down = a.down
<1>1. a \in SocketType /\ a.up \in Seq(Upward)
  BY DEF SocketType
<1>2. CloseFrame \in Upward
  BY DEF Upward
<1>3. Append(a.up, CloseFrame) = a.up \o <<CloseFrame>> /\ a.up \o <<CloseFrame>> \in Seq(Upward)
  <2>1. Append(a.up, CloseFrame) = a.up \o <<CloseFrame>> /\ <<CloseFrame>> \in Seq(Upward)
    BY <1>1, <1>2, AppendIs
  <2>. QED
    BY <1>1, <2>1, RowOf
<1>. DEFINE up == IF a.link THEN a.up \o <<CloseFrame>> ELSE a.up
<1>4. up \in Seq(Upward)
  BY <1>1, <1>3
<1>5. Ask(sk, s, CloseFrame) = [sk EXCEPT ![s] = Saying(a, up)]
  <2>1. CASE a.link
    <3>1. [a EXCEPT !.up = Append(@, CloseFrame)] = Saying(a, up)
      BY <1>3, <2>1 DEF Saying
    <3>. HIDE DEF up
    <3>2. Ask(sk, s, CloseFrame) = [sk EXCEPT ![s] = [a EXCEPT !.up = Append(@, CloseFrame)]]
      BY <2>1 DEF Ask
    <3>. QED
      BY <3>1, <3>2
  <2>2. CASE ~a.link
    <3>1. Saying(a, up) = a
      BY <1>1, <2>2 DEF Saying, SocketType
    <3>. HIDE DEF up
    <3>. QED
      BY <2>2, <3>1 DEF Ask
  <2>. QED
    BY <1>1, <2>1, <2>2 DEF SocketType
<1>6. Hung(a) = [a EXCEPT !.up = up, !.client = "closing"]
  BY DEF Hung
<1>. HIDE DEF up
<1>. DEFINE b == Saying(a, up)
<1>7. b \in SocketType /\ [b EXCEPT !.client = "closing"] = Hung(a)
  BY <1>1, <1>4, <1>6 DEF Saying, SocketType
<1>8. Hangs(sk, s) = [sk EXCEPT ![s] = Hung(a)]
  <2>. HIDE DEF b
  <2>1. Hangs(sk, s) = [[sk EXCEPT ![s] = b] EXCEPT ![s].client = "closing"]
    BY <1>5 DEF Hangs, b
  <2>2. Hangs(sk, s) = [sk EXCEPT ![s] = [b EXCEPT !.client = "closing"]]
    BY <2>1
  <2>. QED
    BY <1>7, <2>2
<1>9. /\ Hung(a) \in SocketType /\ Hung(a).client = "closing" /\ Hung(a).up = up
      /\ Hung(a).page = a.page /\ Hung(a).server = a.server /\ Hung(a).link = a.link
      /\ Hung(a).preset = a.preset /\ Hung(a).down = a.down
  BY <1>1, <1>4, <1>6 DEF SocketType
<1>. QED
  BY <1>8, <1>9 DEF up

\* A page that may close s, and what it then says of itself.
Leaves(st, p, last, s, pg) ==
    /\ StoreOK(st, p, last) /\ s \in Sockets /\ st.sk[s].page = p
    /\ st.sk[s].client # "closed"
    /\ pg \in PageType /\ pg.doubled = st.pg.doubled /\ pg.outbox = st.pg.outbox
    /\ pg.present = st.pg.present
    /\ pg.cur \in {NoSocket, st.pg.cur}
    /\ pg.handle => pg.timers > 0
    /\ pg.late <= Len(pg.outbox)
    /\ pg.state # "unstarted"
    /\ pg.state = "running" => st.sk[s].server \notin Hearing
    /\ \/ pg.state = st.pg.state /\ pg.cur = st.pg.cur
       \/ pg.state = "stopped" /\ s = st.pg.cur

LEMMA HangsOK ==
    ASSUME NEW st, NEW p, NEW last, NEW s, NEW pg, Leaves(st, p, last, s, pg),
           NEW now, now = [pg |-> pg, sk |-> Hangs(st.sk, s)]
    PROVE  StoreOK(now, p, last)
<1>. DEFINE a == st.sk[s]
            b == Hung(a)
<1>1. /\ Shaped(st, p, last) /\ Quiet(st.pg, st.sk) /\ Heard(st.pg, st.sk)
      /\ s \in Sockets /\ a.page = p /\ a.client # "closed"
      /\ pg \in PageType /\ pg.doubled = st.pg.doubled /\ pg.outbox = st.pg.outbox
      /\ pg.present = st.pg.present
      /\ pg.cur \in {NoSocket, st.pg.cur}
      /\ pg.handle => pg.timers > 0
      /\ pg.late <= Len(pg.outbox)
      /\ pg.state # "unstarted"
      /\ pg.state = "running" => a.server \notin Hearing
      /\ \/ pg.state = st.pg.state /\ pg.cur = st.pg.cur
         \/ pg.state = "stopped" /\ s = st.pg.cur
  BY DEF Leaves, StoreOK
<1>2. st.sk \in [Sockets -> SocketType]
  BY <1>1 DEF Shaped, StoreType
<1>3. a \in SocketType /\ a.up \in Seq(Upward) /\ SocketOK(a) /\ Holds(st.pg, a, s)
      /\ InOrder(st.pg, a, p, applied, last)
  <2>1. a \in SocketType /\ a.up \in Seq(Upward)
    BY <1>1, <1>2 DEF SocketType
  <2>2. SocketOK(a) /\ Holds(st.pg, a, s) /\ InOrder(st.pg, a, p, applied, last)
    BY <1>1 DEF Shaped
  <2>. QED
    BY <2>1, <2>2
<1>4. /\ Hangs(st.sk, s) = [st.sk EXCEPT ![s] = b]
      /\ b \in SocketType /\ b.client = "closing"
      /\ b.up = (IF a.link THEN a.up \o <<CloseFrame>> ELSE a.up)
      /\ b.page = a.page /\ b.server = a.server /\ b.link = a.link
      /\ b.preset = a.preset /\ b.down = a.down
  <2>. DEFINE c == a
  <2>1. c = st.sk[s]
    OBVIOUS
  <2>. HIDE DEF c
  <2>2. /\ Hangs(st.sk, s) = [st.sk EXCEPT ![s] = Hung(c)]
        /\ Hung(c) \in SocketType /\ Hung(c).client = "closing"
        /\ Hung(c).up = IF c.link THEN c.up \o <<CloseFrame>> ELSE c.up
        /\ Hung(c).page = c.page /\ Hung(c).server = c.server /\ Hung(c).link = c.link
        /\ Hung(c).preset = c.preset /\ Hung(c).down = c.down
    BY <1>1, <1>2, <2>1, HungIs
  <2>. QED
    BY <2>2 DEF c
<1>. DEFINE msgs == <<CloseFrame>>
<1>5. msgs \in Seq(Upward) /\ DOMAIN msgs = {1} /\ msgs[1].type # "control"
  BY DEF Upward, CloseFrame
<1>6. \A i \in DOMAIN msgs : msgs[i].type # "control"
  BY <1>5
<1>. HIDE DEF msgs, b
<1>7. /\ Signed(msgs, p, last) /\ Increasing(msgs) /\ Older(msgs, st.pg.outbox)
      /\ Done(applied, p, msgs) /\ Older(a.up, msgs)
  BY <1>6, NoControls
<1>8. InOrder(st.pg, b, p, applied, last)
  <2>1. CASE a.link
    <3>1. b.up = a.up \o msgs
      BY <1>4, <2>1 DEF msgs
    <3>. HIDE DEF a
    <3>. QED
      BY <1>3, <1>4, <1>5, <1>7, <3>1, AddsInOrder
  <2>2. CASE ~a.link
    BY <1>3, <1>4, <2>2 DEF InOrder, Carries
  <2>. QED
    BY <2>1, <2>2
<1>9. InOrder(pg, b, p, applied, last)
  BY <1>1, <1>8 DEF InOrder
<1>10. SocketOK(b)
  BY <1>3, <1>4 DEF SocketOK
<1>11. Holds(pg, b, s)
  BY <1>1, <1>4 DEF Holds, Carries
<1>12. \A t \in Sockets \ {s} : st.sk[t].page = p => Holds(pg, st.sk[t], t)
  <2>. SUFFICES ASSUME NEW t \in Sockets \ {s}, st.sk[t].page = p
                PROVE  Holds(pg, st.sk[t], t)
    OBVIOUS
  <2>1. Holds(st.pg, st.sk[t], t)
    BY <1>1 DEF Shaped
  <2>2. CASE pg.state = st.pg.state /\ pg.cur = st.pg.cur
    BY <1>1, <2>1, <2>2 DEF Holds
  <2>3. CASE pg.state = "stopped" /\ s = st.pg.cur
    BY <1>1, <2>1, <2>3 DEF Holds
  <2>. QED
    BY <1>1, <2>2, <2>3
<1>13. Carries(b) => Carries(a)
  <2>1. CASE a.link
    <3>1. \A i \in DOMAIN b.up : \/ i \in DOMAIN a.up /\ b.up[i] = a.up[i]
                                 \/ b.up[i] = CloseFrame
      <4>1. b.up = a.up \o <<CloseFrame>> /\ CloseFrame \in Upward
        BY <1>4, <2>1 DEF Upward
      <4>. HIDE DEF a
      <4>. QED
        BY <1>3, <4>1, EndOf
    <3>2. CloseFrame.type # "control"
      BY DEF CloseFrame
    <3>. QED
      BY <1>4, <3>1, <3>2 DEF Carries
  <2>2. CASE ~a.link
    BY <1>4, <2>2 DEF Carries
  <2>. QED
    BY <2>1, <2>2
<1>14. Fits(st, p, last, s, b, pg)
  BY <1>1, <1>4, <1>9, <1>10, <1>11, <1>12, <1>13 DEF Fits
<1>15. /\ Shaped(now, p, last) /\ now.pg = pg /\ now.sk[s] = b
       /\ \A t \in Sockets \ {s} : now.sk[t] = st.sk[t]
  <2>1. now = Put(st, pg, s, b)
    BY <1>4 DEF Put
  <2>. QED
    BY <1>14, <2>1, ReplacesOK
<1>16. pg.cur # NoSocket => pg.cur \in Sockets
  BY <1>1 DEF PageType
<1>17. Quiet(now.pg, now.sk)
  BY <1>1, <1>4, <1>15, <1>16 DEF Quiet
<1>18. Heard(now.pg, now.sk)
  BY <1>1, <1>4, <1>15, <1>16 DEF Heard, Believed
<1>. QED
  BY <1>15, <1>17, <1>18 DEF StoreOK


----------------------------------------------------------------------------
(* The actions of a page.                                                  *)

\* A step that costs none of the events the bound counts.
LEMMA FreeStepKeeps ==
    ASSUME SyncAssumption, Inv, NEW p \in Pages, NEW st, StoreOK(st, p, spent),
           Becomes(p, st), UNCHANGED <<serverVars, spent>>
    PROVE  Inv'
<1>1. spent' = spent /\ UNCHANGED serverVars
  OBVIOUS
<1>2. spent \in 0..MaxEvents /\ spent \in Nat
  BY DEF Inv, TypeOK, SyncAssumption
<1>3. StoreOK(st, p, spent') /\ spent' \in 0..MaxEvents /\ spent <= spent'
  BY <1>1, <1>2
<1>. QED
  BY <1>1, <1>3, PageStepKeeps

\* One that does.
LEMMA EventKeeps ==
    ASSUME SyncAssumption, Inv, NEW p \in Pages, NEW st, StoreOK(st, p, spent + 1),
           Becomes(p, st), May, Spend, UNCHANGED serverVars
    PROVE  Inv'
<1>1. spent \in 0..MaxEvents /\ MaxEvents \in Nat
  BY DEF Inv, TypeOK, SyncAssumption
<1>2. spent' = spent + 1
  BY DEF Spend
<1>3. spent' \in 0..MaxEvents /\ spent <= spent' /\ StoreOK(st, p, spent')
  BY <1>1, <1>2 DEF May
<1>. QED
  BY <1>3, PageStepKeeps

\* The store of a page, at once and after an event.
LEMMA StoreNow ==
    ASSUME SyncAssumption, Inv, NEW p \in Pages
    PROVE  /\ StoreOK(Store(p), p, spent) /\ StoreOK(Store(p), p, spent + 1)
           /\ Store(p).pg = page[p] /\ Store(p).sk = sock
           /\ Store(p) = [pg |-> page[p], sk |-> sock]
           /\ Store(p) \in StoreType /\ page[p] \in PageType /\ sock \in [Sockets -> SocketType]
<1>1. spent \in Nat /\ spent + 1 \in Nat /\ spent <= spent /\ spent <= spent + 1
  BY DEF Inv, TypeOK, SyncAssumption
<1>2. page[p] \in PageType /\ sock \in [Sockets -> SocketType]
  BY DEF Inv, TypeOK
<1>3. StoreOK(Store(p), p, spent) /\ Store(p).pg = page[p] /\ Store(p).sk = sock
      /\ Store(p) = [pg |-> page[p], sk |-> sock]
  BY <1>1, StoreIs
<1>4. StoreOK(Store(p), p, spent + 1)
  BY <1>1, StoreIs
<1>5. Store(p) \in StoreType
  BY <1>2, <1>3 DEF StoreType
<1>. QED
  BY <1>2, <1>3, <1>4, <1>5

\* start()
LEMMA StartKeeps ==
    ASSUME SyncAssumption, Inv, NEW p \in Pages, Start(p)
    PROVE  Inv'
<1>. DEFINE st == Store(p)
            pg == [page[p] EXCEPT !.state = "running"]
            now == [pg |-> pg, sk |-> sock]
<1>1. /\ StoreOK(st, p, spent) /\ st.pg = page[p] /\ st.sk = sock
      /\ page[p] \in PageType /\ sock \in [Sockets -> SocketType]
      /\ st = [pg |-> page[p], sk |-> sock]
  BY StoreNow
<1>2. Becomes(p, Connect([st EXCEPT !.pg.state = "running"], p)) /\ page[p].state = "unstarted"
      /\ UNCHANGED <<serverVars, spent>>
  BY DEF Start
<1>3. [st EXCEPT !.pg.state = "running"] = now
  BY <1>1
<1>. HIDE DEF st
<1>4. /\ pg \in PageType /\ pg.cur = page[p].cur /\ pg.state = "running"
      /\ pg.outbox = page[p].outbox /\ pg.doubled = page[p].doubled
      /\ pg.handle = page[p].handle /\ pg.timers = page[p].timers /\ pg.late = page[p].late
  BY <1>1 DEF PageType
<1>. HIDE DEF pg
<1>5. /\ Framed(st, p) /\ Stored(page[p], sock, p, applied, spent)
      /\ page[p].handle => page[p].timers > 0
      /\ page[p].late <= Len(page[p].outbox)
      /\ \A s \in Sockets : sock[s].page = p =>
           /\ SocketOK(sock[s]) /\ Holds(page[p], sock[s], s)
           /\ InOrder(page[p], sock[s], p, applied, spent)
  BY <1>1 DEF StoreOK, Shaped
<1>6. page[p].cur = NoSocket /\ page[p].outbox = <<>>
  BY <1>2, <1>5 DEF Stored
<1>7. \A s \in Sockets : sock[s].page = p =>
        /\ SocketOK(sock[s]) /\ Holds(pg, sock[s], s) /\ InOrder(pg, sock[s], p, applied, spent)
  BY <1>2, <1>4, <1>5 DEF Holds, InOrder, Carries
<1>8. Stored(pg, sock, p, applied, spent)
  BY <1>4, <1>5 DEF Stored
<1>9. now.pg = pg /\ now.sk = sock /\ now \in StoreType
  BY <1>1, <1>4 DEF StoreType
<1>. HIDE DEF now
<1>10. Framed(now, p)
  BY <1>1, <1>5, <1>9 DEF Framed
<1>11. StoreOK(now, p, spent)
  BY <1>4, <1>5, <1>6, <1>7, <1>8, <1>9, <1>10 DEF StoreOK, Shaped, Quiet, Heard
<1>12. StoreOK(Connect(now, p), p, spent)
  BY <1>11, ConnectOK
<1>. QED
  BY <1>2, <1>3, <1>12, FreeStepKeeps DEF st

\* Two fields of a page at once: the timers and whether one of them is known.
LEMMA TimerIs ==
    ASSUME NEW st \in StoreType, NEW v, NEW w
    PROVE  [st EXCEPT !.pg.timers = v, !.pg.handle = w]
             = [pg |-> [st.pg EXCEPT !.timers = v, !.handle = w], sk |-> st.sk]
<1>. DEFINE half == [st EXCEPT !.pg.timers = v]
<1>1. [st EXCEPT !.pg.timers = v, !.pg.handle = w] = [half EXCEPT !.pg.handle = w]
  OBVIOUS
<1>2. half = [pg |-> [st.pg EXCEPT !.timers = v], sk |-> st.sk]
  BY DEF StoreType
<1>. HIDE DEF half
<1>3. [half EXCEPT !.pg.handle = w] = [pg |-> [half.pg EXCEPT !.handle = w], sk |-> half.sk]
  BY <1>2
<1>4. [half.pg EXCEPT !.handle = w] = [st.pg EXCEPT !.timers = v, !.handle = w]
  BY <1>2 DEF StoreType, PageType
<1>. QED
  BY <1>1, <1>2, <1>3, <1>4

\* The state of a page and its socket.
LEMMA StopIs ==
    ASSUME NEW st \in StoreType, NEW v, NEW w
    PROVE  [st EXCEPT !.pg.state = v, !.pg.cur = w]
             = [pg |-> [st.pg EXCEPT !.state = v, !.cur = w], sk |-> st.sk]
<1>. DEFINE half == [st EXCEPT !.pg.state = v]
<1>1. [st EXCEPT !.pg.state = v, !.pg.cur = w] = [half EXCEPT !.pg.cur = w]
  OBVIOUS
<1>2. half = [pg |-> [st.pg EXCEPT !.state = v], sk |-> st.sk]
  BY DEF StoreType
<1>. HIDE DEF half
<1>3. [half EXCEPT !.pg.cur = w] = [pg |-> [half.pg EXCEPT !.cur = w], sk |-> half.sk]
  BY <1>2
<1>4. [half.pg EXCEPT !.cur = w] = [st.pg EXCEPT !.state = v, !.cur = w]
  BY <1>2 DEF StoreType, PageType
<1>. QED
  BY <1>1, <1>2, <1>3, <1>4

\* The timeout of scheduleReconnect().
LEMMA TimerKeeps ==
    ASSUME SyncAssumption, Inv, NEW p \in Pages, TimerFires(p)
    PROVE  Inv'
<1>1. PICK known \in BOOLEAN :
        /\ IF known THEN page[p].handle ELSE page[p].timers > IF page[p].handle THEN 1 ELSE 0
        /\ Becomes(p, Connect([Store(p) EXCEPT !.pg.timers = @ - 1,
                                               !.pg.handle = @ /\ ~known], p))
  BY DEF TimerFires
<1>2. page[p].timers > 0 /\ UNCHANGED <<serverVars, spent>>
  BY DEF TimerFires
<1>. DEFINE st == Store(p)
            pg == [page[p] EXCEPT !.timers = @ - 1, !.handle = @ /\ ~known]
            now == [pg |-> pg, sk |-> sock]
<1>3. /\ StoreOK(st, p, spent) /\ st.pg = page[p] /\ st.sk = sock
      /\ page[p] \in PageType /\ sock \in [Sockets -> SocketType]
      /\ st = [pg |-> page[p], sk |-> sock]
  BY StoreNow
<1>4. [st EXCEPT !.pg.timers = @ - 1, !.pg.handle = @ /\ ~known] = now
  <2>. DEFINE h == page[p].handle /\ ~known
              n == page[p].timers - 1
  <2>1. [st EXCEPT !.pg.timers = @ - 1, !.pg.handle = @ /\ ~known]
          = [st EXCEPT !.pg.timers = n, !.pg.handle = h]
    <3>1. (st.pg.handle /\ ~known) = h /\ st.pg.timers - 1 = n
      BY <1>3
    <3>. HIDE DEF h, n, st
    <3>. QED
      BY <3>1, Zenon
  <2>2. now = [pg |-> [page[p] EXCEPT !.timers = n, !.handle = h], sk |-> sock]
    OBVIOUS
  <2>. HIDE DEF h, n, now, st
  <2>3. [st EXCEPT !.pg.timers = n, !.pg.handle = h]
          = [pg |-> [page[p] EXCEPT !.timers = n, !.handle = h], sk |-> sock]
    <3>1. st \in StoreType
      BY <1>3 DEF StoreType
    <3>2. [st EXCEPT !.pg.timers = n, !.pg.handle = h]
            = [pg |-> [st.pg EXCEPT !.timers = n, !.handle = h], sk |-> st.sk]
      BY <3>1, TimerIs
    <3>. QED
      BY <1>3, <3>2
  <2>. QED
    BY <2>1, <2>2, <2>3
<1>. HIDE DEF st
<1>5. page[p].timers \in Nat /\ page[p].timers - 1 \in Nat /\ (page[p].handle /\ ~known) \in BOOLEAN
  BY <1>2, <1>3 DEF PageType
<1>6. /\ pg \in PageType /\ pg.cur = page[p].cur /\ pg.state = page[p].state
      /\ pg.outbox = page[p].outbox /\ pg.doubled = page[p].doubled
      /\ pg.present = page[p].present /\ pg.late = page[p].late
      /\ pg.timers = page[p].timers - 1 /\ pg.handle = (page[p].handle /\ ~known)
  BY <1>3, <1>5 DEF PageType
<1>. HIDE DEF pg
<1>7. pg.handle => pg.timers > 0
  <2>. SUFFICES ASSUME pg.handle PROVE pg.timers > 0
    OBVIOUS
  <2>1. page[p].handle /\ ~known
    BY <1>6, Zenon
  <2>2. page[p].timers > 1
    BY <1>1, <2>1
  <2>. QED
    BY <1>5, <1>6, <2>2
<1>8. now = [pg |-> pg, sk |-> st.sk]
  BY <1>3
<1>. HIDE DEF now
<1>9. Shaped(st, p, spent) /\ Quiet(st.pg, st.sk) /\ Heard(st.pg, st.sk)
      /\ pg.late <= Len(pg.outbox)
  BY <1>3, <1>6 DEF StoreOK, Shaped
<1>10. Shaped(now, p, spent) /\ Quiet(now.pg, now.sk) /\ Heard(now.pg, now.sk)
  BY <1>3, <1>6, <1>7, <1>8, <1>9, FieldsOK
<1>11. StoreOK(Connect(now, p), p, spent)
  <2>1. StoreOK(now, p, spent)
    BY <1>10 DEF StoreOK
  <2>. QED
    BY <2>1, ConnectOK
<1>. QED
  BY <1>1, <1>2, <1>4, <1>11, FreeStepKeeps DEF st

\* control()
LEMMA PressesKeeps ==
    ASSUME SyncAssumption, Inv, NEW p \in Pages, Presses(p)
    PROVE  Inv'
<1>. DEFINE now == Send(Store(p), p, Control(<<p, spent + 1>>))
<1>1. page[p].state = "running" /\ May /\ Spend /\ Becomes(p, now) /\ UNCHANGED serverVars
  BY DEF Presses
<1>2. StoreOK(now, p, spent + 1)
  <2>1. spent < MaxEvents
    BY <1>1 DEF May
  <2>. QED
    BY <1>1, <2>1, SendControlOK
<1>. HIDE DEF now
<1>. QED
  BY <1>1, <1>2, EventKeeps

\* setPresent()
LEMMA SetPresentKeeps ==
    ASSUME SyncAssumption, Inv, NEW p \in Pages, SetPresent(p)
    PROVE  Inv'
<1>. DEFINE on == ~page[p].present
            st == IF on THEN ReviveNow(Store(p), p) ELSE Store(p)
            pg == [st.pg EXCEPT !.present = on]
            told == [pg |-> pg, sk |-> st.sk]
            now == Send(told, p, Presence(on))
<1>1. May /\ Spend /\ UNCHANGED serverVars
      /\ Becomes(p, Send([st EXCEPT !.pg.present = on], p, Presence(on)))
  BY DEF SetPresent
<1>2. StoreOK(st, p, spent + 1)
  <2>1. StoreOK(Store(p), p, spent + 1)
    BY StoreNow
  <2>2. StoreOK(ReviveNow(Store(p), p), p, spent + 1)
    BY <2>1, ReviveOK
  <2>. QED
    BY <2>1, <2>2
<1>. HIDE DEF st
<1>3. /\ Shaped(st, p, spent + 1) /\ Quiet(st.pg, st.sk) /\ st \in StoreType
      /\ st.pg \in PageType /\ on \in BOOLEAN
      /\ st.pg.handle => st.pg.timers > 0
      /\ st.pg.late <= Len(st.pg.outbox)
  BY <1>2 DEF StoreOK, Shaped, StoreType
<1>. HIDE DEF on
<1>4. [st EXCEPT !.pg.present = on] = told
  BY <1>3 DEF StoreType
<1>5. /\ pg \in PageType /\ pg.cur = st.pg.cur /\ pg.state = st.pg.state
      /\ pg.outbox = st.pg.outbox /\ pg.doubled = st.pg.doubled
      /\ pg.present = on /\ pg.late = st.pg.late
      /\ pg.timers = st.pg.timers /\ pg.handle = st.pg.handle
  BY <1>3 DEF PageType
<1>. HIDE DEF pg
<1>6. Shaped(told, p, spent + 1) /\ told.pg = pg /\ told.sk = st.sk /\ Quiet(told.pg, told.sk)
  <2>1. pg.handle => pg.timers > 0
    BY <1>3, <1>5
  <2>2. pg.late <= Len(pg.outbox)
    BY <1>3, <1>5
  <2>3. told = [pg |-> pg, sk |-> st.sk]
    OBVIOUS
  <2>. HIDE DEF told
  <2>. QED
    BY <1>3, <1>5, <2>1, <2>2, <2>3, FieldsOK
<1>. HIDE DEF told
<1>7. /\ Shaped(now, p, spent + 1) /\ now.pg = told.pg /\ Heard(now.pg, now.sk)
      /\ \A t \in Sockets : now.sk[t].client = told.sk[t].client
  <2>1. told.pg.present = on
    BY <1>5, <1>6
  <2>. QED
    BY <1>3, <1>6, <2>1, SendPresenceOK
<1>. HIDE DEF now
<1>8. Quiet(now.pg, now.sk)
  <2>1. now.pg.cur # NoSocket => now.pg.cur \in Sockets
    BY <1>5, <1>6, <1>7 DEF PageType
  <2>. QED
    BY <1>6, <1>7, <2>1 DEF Quiet
<1>9. StoreOK(now, p, spent + 1)
  BY <1>7, <1>8 DEF StoreOK
<1>. QED
  BY <1>1, <1>4, <1>9, EventKeeps DEF now

\* What waits grows old.
LEMMA AgesKeeps ==
    ASSUME SyncAssumption, Inv, NEW p \in Pages, Ages(p)
    PROVE  Inv'
<1>1. PICK n \in page[p].late + 1 .. Len(page[p].outbox) : page' = [page EXCEPT ![p].late = n]
  BY DEF Ages
<1>2. /\ sock' = sock /\ roster' = roster /\ room' = room /\ userRoom' = userRoom
      /\ mints' = mints /\ applied' = applied /\ spent' = spent
  BY DEF Ages, serverVars
<1>3. page \in [Pages -> PageType] /\ page[p] \in PageType
  BY DEF Inv, TypeOK
<1>4. n \in Nat /\ n <= Len(page[p].outbox)
  <2>1. page[p].late \in Nat /\ page[p].outbox \in Seq(Controls)
    BY <1>3 DEF PageType
  <2>2. Len(page[p].outbox) \in Nat
    BY <2>1
  <2>. QED
    BY <2>1, <2>2
<1>. DEFINE pg == [page[p] EXCEPT !.late = n]
<1>5. /\ pg \in PageType /\ pg.cur = page[p].cur /\ pg.state = page[p].state
      /\ pg.outbox = page[p].outbox /\ pg.doubled = page[p].doubled
      /\ pg.present = page[p].present /\ pg.late = n
      /\ pg.timers = page[p].timers /\ pg.handle = page[p].handle
  BY <1>3, <1>4 DEF PageType
<1>6. page' = [page EXCEPT ![p] = pg]
  BY <1>1
<1>. HIDE DEF pg
<1>7. /\ page' \in [Pages -> PageType]
      /\ \A q \in Pages :
           /\ page'[q].cur = page[q].cur /\ page'[q].state = page[q].state
           /\ page'[q].outbox = page[q].outbox /\ page'[q].doubled = page[q].doubled
           /\ page'[q].present = page[q].present
           /\ page'[q].timers = page[q].timers /\ page'[q].handle = page[q].handle
           /\ page'[q].late <= Len(page'[q].outbox)
  <2>1. page'[p] = pg /\ \A q \in Pages \ {p} : page'[q] = page[q]
    BY <1>3, <1>6
  <2>2. page' \in [Pages -> PageType]
    BY <1>3, <1>5, <1>6
  <2>3. \A q \in Pages : page[q].late <= Len(page[q].outbox)
    BY DEF Inv, TypeOK
  <2>. QED
    BY <1>4, <1>5, <2>1, <2>2, <2>3
<1>8. TypeOK'
  BY ZenonT(40), <1>2, <1>7 DEF Inv, TypeOK
<1>9. PagesOK'
  <2>. SUFFICES ASSUME NEW q \in Pages PROVE Kept(page'[q], sock, q, applied, spent)
    BY <1>2 DEF PagesOK
  <2>1. Kept(page[q], sock, q, applied, spent)
    BY DEF Inv, PagesOK
  <2>2. Stored(page'[q], sock, q, applied, spent)
    BY <1>7, <2>1 DEF Kept, Stored
  <2>3. Quiet(page'[q], sock) /\ Heard(page'[q], sock)
    BY <1>7, <2>1 DEF Kept, Quiet, Heard, Believed
  <2>. QED
    BY <2>2, <2>3 DEF Kept
<1>10. SocketsOK'
  <2>. SUFFICES ASSUME NEW s \in Sockets
                PROVE  /\ SocketOK(sock[s]) /\ Holds(page'[sock[s].page], sock[s], s)
                       /\ InOrder(page'[sock[s].page], sock[s], sock[s].page, applied, spent)
    BY <1>2 DEF SocketsOK
  <2>1. sock[s].page \in Pages
    BY DEF Inv, TypeOK, SocketType
  <2>2. /\ SocketOK(sock[s]) /\ Holds(page[sock[s].page], sock[s], s)
        /\ InOrder(page[sock[s].page], sock[s], sock[s].page, applied, spent)
    BY DEF Inv, SocketsOK
  <2>. QED
    BY <1>7, <2>1, <2>2 DEF Holds, InOrder
<1>11. ControlsInOrder'
  <2>1. \A i \in DOMAIN applied : applied[i][1] \in Pages
    BY DEF Inv, TypeOK
  <2>. QED
    BY <1>2, <1>7, <2>1 DEF Inv, ControlsInOrder
<1>12. AppliedOK' /\ RosterOK(sock, roster, userRoom)'
  BY <1>2 DEF Inv, AppliedOK, RosterOK
<1>. QED
  BY <1>8, <1>9, <1>10, <1>11, <1>12 DEF Inv


\* A page that stops without a socket it could close, or with many.
LEMMA StopOK ==
    ASSUME NEW st, NEW p, NEW last, StoreOK(st, p, last), NEW pg \in PageType,
           pg.state = "stopped", pg.cur \in {NoSocket, st.pg.cur}, pg.outbox = st.pg.outbox,
           pg.doubled = st.pg.doubled, pg.present = st.pg.present,
           pg.handle => pg.timers > 0, pg.late <= Len(pg.outbox),
           st.pg.doubled \/ st.pg.cur = NoSocket,
           NEW now, now = [pg |-> pg, sk |-> st.sk]
    PROVE  StoreOK(now, p, last) /\ now.pg = pg /\ now.sk = st.sk
<1>1. now.pg = pg /\ now.sk = st.sk /\ now \in StoreType
  BY DEF StoreOK, Shaped, StoreType
<1>2. \A s \in Sockets : st.sk[s].page = p =>
        /\ SocketOK(st.sk[s]) /\ Holds(st.pg, st.sk[s], s)
        /\ InOrder(st.pg, st.sk[s], p, applied, last)
  BY DEF StoreOK, Shaped
<1>3. \A s \in Sockets : s # NoSocket
  BY DEF Sockets, NoSocket
<1>4. \A s \in Sockets : st.sk[s].page = p =>
        /\ SocketOK(st.sk[s]) /\ Holds(pg, st.sk[s], s)
        /\ InOrder(pg, st.sk[s], p, applied, last)
  BY <1>2, <1>3 DEF Holds, InOrder
<1>5. Stored(pg, st.sk, p, applied, last)
  BY DEF StoreOK, Shaped, Stored
<1>6. Framed(now, p) /\ (page[p].doubled => pg.doubled)
  BY <1>1 DEF StoreOK, Shaped, Framed
<1>7. pg.cur # NoSocket => st.sk[pg.cur].page = p /\ st.sk[pg.cur].client # "closed"
  BY DEF StoreOK, Shaped
<1>8. Shaped(now, p, last)
  BY <1>1, <1>4, <1>5, <1>6, <1>7 DEF Shaped
<1>9. Quiet(now.pg, now.sk) /\ Heard(now.pg, now.sk)
  BY <1>1 DEF StoreOK, Quiet, Heard, Believed
<1>. QED
  BY <1>1, <1>8, <1>9 DEF StoreOK

Read(a) == [a EXCEPT !.down = Tail(@)]

\* A page that may take what arrived on s.
Reads(st, p, last, s) ==
    /\ StoreOK(st, p, last) /\ s \in Sockets /\ st.sk[s].page = p
    /\ st.sk[s].client # "closed" /\ st.sk[s].down # <<>>
    /\ \/ st.pg.state # "running" \/ st.sk[s].server \notin Hearing
       \/ Head(st.sk[s].down).type \notin {"close", "closed"}

\* What is read does not change what the page and the socket are to each other.
LEMMA ReadsOK ==
    ASSUME NEW st, NEW p, NEW last, NEW s, Reads(st, p, last, s),
           NEW now, now = Put(st, st.pg, s, Read(st.sk[s]))
    PROVE  /\ StoreOK(now, p, last) /\ now.pg = st.pg /\ now.sk[s] = Read(st.sk[s])
           /\ now.sk[s] \in SocketType /\ now.sk[s].client = st.sk[s].client
           /\ now.sk[s].server = st.sk[s].server /\ now.sk[s].page = p
           /\ \A t \in Sockets \ {s} : now.sk[t] = st.sk[t]
<1>. DEFINE a == st.sk[s]
            b == Read(a)
<1>1. /\ Shaped(st, p, last) /\ Quiet(st.pg, st.sk) /\ Heard(st.pg, st.sk)
      /\ s \in Sockets /\ a.page = p /\ a.client # "closed" /\ a.down # <<>>
      /\ \/ st.pg.state # "running" \/ a.server \notin Hearing
         \/ Head(a.down).type \notin {"close", "closed"}
  BY DEF Reads, StoreOK
<1>2. st.sk \in [Sockets -> SocketType] /\ st.pg \in PageType
  BY <1>1 DEF Shaped, StoreType
<1>3. a \in SocketType /\ a.down \in Seq(Downward)
  BY <1>1, <1>2 DEF SocketType
<1>4. SocketOK(a) /\ Holds(st.pg, a, s) /\ InOrder(st.pg, a, p, applied, last)
  BY <1>1 DEF Shaped
<1>5. Tail(a.down) \in Seq(Downward)
  BY <1>1, <1>3
<1>6. /\ b \in SocketType /\ b.down = Tail(a.down) /\ b.page = a.page /\ b.client = a.client
      /\ b.server = a.server /\ b.link = a.link /\ b.up = a.up /\ b.preset = a.preset
      /\ b.present = a.present /\ b.missed = a.missed
  BY <1>3, <1>5 DEF Read, SocketType
<1>. HIDE DEF b
<1>7. ASSUME st.pg.state = "running", a.server \in Hearing PROVE Warned(b)
  <2>1. Warned(a)
    BY <1>4, <1>7 DEF Holds
  <2>2. Head(a.down).type # "closed"
    BY <1>1, <1>7
  <2>. DEFINE d == a.down
  <2>3. d \in Seq(Downward) /\ d # <<>> /\ d[1].type # "closed"
    BY <1>1, <1>3, <2>2
  <2>. HIDE DEF a
  <2>4. \A j \in DOMAIN Tail(d) : j \in Nat /\ j + 1 \in DOMAIN d /\ Tail(d)[j] = d[j + 1]
    BY <2>3
  <2>5. \A i \in DOMAIN d : i \in Nat /\ (i = 1 \/ (i - 1 \in DOMAIN Tail(d) /\ Tail(d)[i - 1] = d[i]))
    BY <2>3
  <2>. SUFFICES ASSUME NEW j \in DOMAIN Tail(d), Tail(d)[j].type = "close"
                PROVE  \E i \in DOMAIN Tail(d) : i < j /\ Tail(d)[i].type = "closed"
    BY <1>6 DEF Warned
  <2>6. PICK i \in DOMAIN d : i < j + 1 /\ d[i].type = "closed"
    BY <2>1, <2>4 DEF Warned
  <2>7. i - 1 \in DOMAIN Tail(d) /\ Tail(d)[i - 1] = d[i] /\ i \in Nat /\ j \in Nat
    BY <2>3, <2>4, <2>5, <2>6
  <2>. QED
    BY <2>6, <2>7
<1>8. SocketOK(b) /\ InOrder(st.pg, b, p, applied, last) /\ (Carries(b) => Carries(a))
  BY <1>4, <1>6 DEF SocketOK, InOrder, Carries
<1>9. Holds(st.pg, b, s)
  BY <1>4, <1>6, <1>7 DEF Holds, Carries
<1>10. /\ st.pg.handle => st.pg.timers > 0
       /\ st.pg.late <= Len(st.pg.outbox)
       /\ \A t \in Sockets \ {s} : st.sk[t].page = p => Holds(st.pg, st.sk[t], t)
  BY <1>1 DEF Shaped
<1>11. Fits(st, p, last, s, b, st.pg)
  BY <1>1, <1>2, <1>6, <1>8, <1>9, <1>10 DEF Fits
<1>12. /\ Shaped(now, p, last) /\ now.pg = st.pg /\ now.sk[s] = b
       /\ \A t \in Sockets \ {s} : now.sk[t] = st.sk[t]
  <2>1. now = Put(st, st.pg, s, b)
    BY DEF b
  <2>. QED
    BY <1>11, <2>1, ReplacesOK
<1>13. st.pg.cur # NoSocket => st.pg.cur \in Sockets
  BY <1>2 DEF PageType
<1>14. Quiet(now.pg, now.sk)
  BY <1>1, <1>6, <1>12, <1>13 DEF Quiet
<1>15. \A on : Believes(a, on) => Believes(b, on)
  BY ZenonT(40), <1>6 DEF Believes
<1>16. Heard(now.pg, now.sk)
  BY SMTT(30), <1>1, <1>6, <1>12, <1>13, <1>15 DEF Heard, Believed
<1>. QED
  BY <1>1, <1>6, <1>12, <1>14, <1>16 DEF StoreOK, b

\* destroy()
LEMMA DestroyKeeps ==
    ASSUME SyncAssumption, Inv, NEW p \in Pages, Destroy(p)
    PROVE  Inv'
<1>. DEFINE s == page[p].cur
            st == ClearTimer(Store(p))
            pg == [st.pg EXCEPT !.state = "stopped", !.cur = NoSocket]
            stopped == [pg |-> pg, sk |-> st.sk]
            now == IF s = NoSocket THEN stopped ELSE [stopped EXCEPT !.sk = Hangs(@, s)]
<1>1. page[p].state \in {"running", "stopped"} /\ May /\ Spend /\ UNCHANGED serverVars
  BY DEF Destroy
<1>2. /\ StoreOK(Store(p), p, spent + 1) /\ Store(p).pg = page[p] /\ Store(p).sk = sock
  BY StoreNow
<1>3. /\ StoreOK(st, p, spent + 1) /\ st.sk = sock /\ st.pg.cur = s
      /\ st.pg.state = page[p].state
  BY <1>2, ClearOK
<1>4. st \in StoreType /\ st.pg \in PageType /\ st.sk \in [Sockets -> SocketType]
      /\ (st.pg.handle => st.pg.timers > 0) /\ st.pg.late <= Len(st.pg.outbox)
      /\ (st.pg.cur # NoSocket => st.sk[st.pg.cur].page = p /\ st.sk[st.pg.cur].client # "closed")
  BY <1>3 DEF StoreOK, Shaped, StoreType
<1>. HIDE DEF st
<1>5. [st EXCEPT !.pg.state = "stopped", !.pg.cur = NoSocket] = stopped
  BY <1>4, StopIs
<1>6. Becomes(p, now)
  BY <1>5 DEF Destroy, st
<1>7. /\ pg \in PageType /\ pg.cur = NoSocket /\ pg.state = "stopped"
      /\ pg.outbox = st.pg.outbox /\ pg.doubled = st.pg.doubled
      /\ pg.present = st.pg.present /\ pg.late = st.pg.late
      /\ pg.timers = st.pg.timers /\ pg.handle = st.pg.handle
  BY <1>4 DEF PageType
<1>. HIDE DEF pg
<1>8. (pg.handle => pg.timers > 0) /\ pg.late <= Len(pg.outbox)
  BY <1>4, <1>7
<1>9. StoreOK(now, p, spent + 1)
  <2>1. CASE s = NoSocket
    <3>1. now = [pg |-> pg, sk |-> st.sk]
      BY <2>1
    <3>. HIDE DEF now
    <3>. QED
      BY <1>3, <1>7, <1>8, <2>1, <3>1, StopOK
  <2>2. CASE s # NoSocket
    <3>1. s \in Sockets
      BY <1>3, <1>4, <2>2 DEF PageType
    <3>2. now = [pg |-> pg, sk |-> Hangs(st.sk, s)]
      BY <2>2
    <3>3. Leaves(st, p, spent + 1, s, pg)
      BY <1>3, <1>4, <1>7, <1>8, <2>2, <3>1 DEF Leaves
    <3>. HIDE DEF now
    <3>. QED
      BY <3>2, <3>3, HangsOK
  <2>. QED
    BY <2>1, <2>2
<1>. HIDE DEF now
<1>. QED
  BY <1>1, <1>6, <1>9, EventKeeps


\* What the store of a page is at one of its sockets.
LEMMA StoreAt ==
    ASSUME SyncAssumption, Inv, NEW s \in Sockets, NEW p, p = sock[s].page
    PROVE  /\ p \in Pages /\ StoreOK(Store(p), p, spent) /\ Shaped(Store(p), p, spent)
           /\ Store(p).pg = page[p] /\ Store(p).sk = sock
           /\ Store(p) = [pg |-> page[p], sk |-> sock]
           /\ page[p] \in PageType /\ sock \in [Sockets -> SocketType] /\ sock[s] \in SocketType
           /\ SocketOK(sock[s]) /\ Holds(page[p], sock[s], s)
           /\ InOrder(page[p], sock[s], p, applied, spent)
           /\ page[p].handle => page[p].timers > 0
           /\ page[p].late <= Len(page[p].outbox)
           /\ \A t \in Sockets \ {s} : sock[t].page = p => Holds(page[p], sock[t], t)
<1>1. p \in Pages /\ sock \in [Sockets -> SocketType] /\ sock[s] \in SocketType
  BY DEF Inv, TypeOK, SocketType
<1>2. /\ StoreOK(Store(p), p, spent) /\ Store(p).pg = page[p] /\ Store(p).sk = sock
      /\ Store(p) = [pg |-> page[p], sk |-> sock] /\ page[p] \in PageType
  BY <1>1, StoreNow
<1>3. Shaped(Store(p), p, spent)
  BY <1>2 DEF StoreOK
<1>. DEFINE st == Store(p)
<1>. HIDE DEF st
<1>4. /\ st.pg.handle => st.pg.timers > 0
      /\ st.pg.late <= Len(st.pg.outbox)
      /\ \A t \in Sockets : st.sk[t].page = p =>
            /\ SocketOK(st.sk[t]) /\ Holds(st.pg, st.sk[t], t)
            /\ InOrder(st.pg, st.sk[t], p, applied, spent)
  BY <1>3 DEF Shaped, st
<1>. QED
  BY <1>1, <1>2, <1>3, <1>4 DEF st

\* socket.onopen
LEMMA OpensKeeps ==
    ASSUME SyncAssumption, Inv, NEW s \in Sockets, Opens(s)
    PROVE  Inv'
<1>. DEFINE p == sock[s].page
            st == Store(p)
            a == sock[s]
            b == [a EXCEPT !.client = "open"]
            opened == Put(st, page[p], s, b)
            told == Send(opened, p, Presence(page[p].present))
            now == FlushOutbox(told, p)
<1>1. /\ p \in Pages /\ StoreOK(st, p, spent) /\ Shaped(st, p, spent)
      /\ st.pg = page[p] /\ st.sk = sock /\ st = [pg |-> page[p], sk |-> sock]
      /\ page[p] \in PageType /\ sock \in [Sockets -> SocketType] /\ a \in SocketType
      /\ SocketOK(a) /\ Holds(page[p], a, s) /\ InOrder(page[p], a, p, applied, spent)
      /\ page[p].handle => page[p].timers > 0
      /\ page[p].late <= Len(page[p].outbox)
      /\ \A t \in Sockets \ {s} : sock[t].page = p => Holds(page[p], sock[t], t)
  BY StoreAt
<1>2. a.client = "connecting" /\ a.link /\ UNCHANGED <<serverVars, spent>>
  BY DEF Opens
<1>3. [st EXCEPT !.sk[s].client = "open"] = opened
  BY <1>1 DEF Put
<1>4. Becomes(p, now)
  BY <1>3 DEF Opens
<1>. HIDE DEF now
<1>5. /\ b \in SocketType /\ b.page = p /\ b.server = a.server /\ b.preset = a.preset
      /\ b.link = a.link /\ b.up = a.up /\ b.down = a.down /\ b.client = "open"
  BY <1>1 DEF SocketType
<1>6. a.up = <<>>
  BY <1>1, <1>2 DEF SocketOK
<1>. HIDE DEF b
<1>7. SocketOK(b) /\ InOrder(page[p], b, p, applied, spent) /\ ~Carries(b)
  BY <1>1, <1>5, <1>6 DEF SocketOK, InOrder, Carries
<1>8. Holds(page[p], b, s)
  <2>1. Warned(a) => Warned(b)
    BY <1>5, SameDown
  <2>. QED
    BY <1>1, <1>2, <1>5, <1>7, <2>1 DEF Holds
<1>9. Fits(st, p, spent, s, b, page[p])
  BY <1>1, <1>5, <1>7, <1>8 DEF Fits
<1>10. Shaped(opened, p, spent) /\ opened.pg = page[p] /\ opened.sk[s] = b
  <2>1. opened = Put(st, page[p], s, b)
    OBVIOUS
  <2>. HIDE DEF opened
  <2>. QED
    BY <1>9, <2>1, ReplacesOK
<1>. HIDE DEF opened
<1>11. page[p].present \in BOOLEAN
  BY <1>1 DEF PageType
<1>12. /\ Shaped(told, p, spent) /\ told.pg = page[p] /\ Heard(told.pg, told.sk)
       /\ \A t \in Sockets :
            /\ told.sk[t].client = opened.sk[t].client
            /\ Uncontrolled(opened.sk[t]) => Uncontrolled(told.sk[t])
  <2>. DEFINE on == page[p].present
  <2>1. on \in BOOLEAN /\ opened.pg.present = on /\ told = Send(opened, p, Presence(on))
    BY <1>10, <1>11
  <2>. HIDE DEF on, told, p
  <2>2. Shaped(told, p, spent) /\ told.pg = opened.pg /\ Heard(told.pg, told.sk)
    BY <1>10, <2>1, SendPresenceOK
  <2>3. \A t \in Sockets : told.sk[t].client = opened.sk[t].client
    BY <1>10, <2>1, SendPresenceOK
  <2>4. \A t \in Sockets : Uncontrolled(opened.sk[t]) => Uncontrolled(told.sk[t])
    BY <1>10, <2>1, SendPresenceOK
  <2>. QED
    BY <1>10, <2>2, <2>3, <2>4
<1>. HIDE DEF told
<1>13. ~told.pg.doubled => told.pg.cur = s
  BY <1>5, <1>8, <1>12 DEF Holds
<1>14. \A i \in DOMAIN told.sk[s].up : told.sk[s].up[i].type # "control"
  BY <1>5, <1>6, <1>10, <1>12 DEF Uncontrolled
<1>15. StoreOK(now, p, spent)
  <2>1. ~told.pg.doubled /\ IsOpen(told) =>
          \A i \in DOMAIN told.sk[told.pg.cur].up : told.sk[told.pg.cur].up[i].type # "control"
    BY <1>13, <1>14
  <2>. HIDE DEF p
  <2>. QED
    BY <1>1, <1>12, <2>1, FlushOK DEF now
<1>. HIDE DEF p
<1>. QED
  BY <1>1, <1>2, <1>4, <1>15, FreeStepKeeps

\* socket.onclose
LEMMA ClosesKeeps ==
    ASSUME SyncAssumption, Inv, NEW s \in Sockets, Closes(s)
    PROVE  Inv'
<1>. DEFINE p == sock[s].page
            st == Store(p)
            a == sock[s]
            b == [a EXCEPT !.client = "closed", !.down = <<>>]
            cur == IF page[p].cur = s THEN NoSocket ELSE page[p].cur
            pg == [page[p] EXCEPT !.cur = cur]
            gone == Put(st, pg, s, b)
            timed == [pg EXCEPT !.timers = pg.timers + 1, !.handle = TRUE]
            now == ScheduleReconnect(gone)
<1>1. /\ p \in Pages /\ StoreOK(st, p, spent) /\ Shaped(st, p, spent)
      /\ st.pg = page[p] /\ st.sk = sock /\ st = [pg |-> page[p], sk |-> sock]
      /\ page[p] \in PageType /\ sock \in [Sockets -> SocketType] /\ a \in SocketType
      /\ SocketOK(a) /\ Holds(page[p], a, s) /\ InOrder(page[p], a, p, applied, spent)
      /\ page[p].handle => page[p].timers > 0
      /\ page[p].late <= Len(page[p].outbox)
      /\ \A t \in Sockets \ {s} : sock[t].page = p => Holds(page[p], sock[t], t)
  BY StoreAt
<1>2. /\ \/ a.client \in {"connecting", "open"} /\ ~a.link
         \/ a.client = "closing" /\ (~a.link \/ a.server = "closed")
      /\ UNCHANGED <<serverVars, spent>>
  BY DEF Closes
<1>3. [st EXCEPT !.sk[s].client = "closed", !.sk[s].down = <<>>,
                 !.pg.cur = IF @ = s THEN NoSocket ELSE @] = gone
  <2>. DEFINE none == <<>>
              one == [a EXCEPT !.client = "closed"]
              sk1 == [sock EXCEPT ![s] = one]
              st1 == [st EXCEPT !.sk[s].client = "closed"]
              sk2 == [sock EXCEPT ![s] = b]
              st2 == [st1 EXCEPT !.sk[s].down = none]
  <2>1. st1 = [pg |-> page[p], sk |-> sk1]
    BY <1>1
  <2>. HIDE DEF none, st1
  <2>2. st1.sk = sk1 /\ st1.pg = page[p] /\ sk1[s] = one
    BY <1>1, <2>1
  <2>3. b = [one EXCEPT !.down = none]
    BY DEF none
  <2>. HIDE DEF one, b
  <2>4. [sk1 EXCEPT ![s] = b] = sk2
    BY <1>1
  <2>. HIDE DEF sk1
  <2>5. st2 = [pg |-> page[p], sk |-> [sk1 EXCEPT ![s] = [one EXCEPT !.down = none]]]
    BY <2>1, <2>2
  <2>6. st2 = [pg |-> page[p], sk |-> sk2]
    BY <2>3, <2>4, <2>5
  <2>. HIDE DEF st2, sk2
  <2>7. st2.pg = page[p] /\ st2.sk = sk2
    BY <2>6
  <2>8. [st EXCEPT !.sk[s].client = "closed", !.sk[s].down = none,
                   !.pg.cur = IF @ = s THEN NoSocket ELSE @] = [st2 EXCEPT !.pg.cur = cur]
    <3>1. st2.pg.cur = page[p].cur /\ st.pg.cur = page[p].cur
      BY <1>1, <2>7
    <3>. QED
      BY <3>1 DEF st1, st2
  <2>. HIDE DEF cur
  <2>9. [st2 EXCEPT !.pg.cur = cur] = [pg |-> pg, sk |-> sk2]
    BY <2>6, <2>7
  <2>. QED
    BY <1>1, <2>8, <2>9 DEF Put, sk2, none
<1>4. Becomes(p, now)
  BY <1>3 DEF Closes
<1>. HIDE DEF now, gone
<1>5. /\ b \in SocketType /\ b.page = p /\ b.server = a.server /\ b.preset = a.preset
      /\ b.link = a.link /\ b.up = a.up /\ b.down = <<>> /\ b.client = "closed"
  <2>. DEFINE none == <<>>
  <2>1. none \in Seq(Downward) /\ b = [a EXCEPT !.client = "closed", !.down = none]
    OBVIOUS
  <2>. HIDE DEF none, b
  <2>2. /\ b \in SocketType /\ b.page = p /\ b.server = a.server /\ b.preset = a.preset
        /\ b.link = a.link /\ b.up = a.up /\ b.down = none /\ b.client = "closed"
    BY <1>1, <2>1 DEF SocketType
  <2>. QED
    BY <2>2 DEF none
<1>. HIDE DEF b
<1>6. /\ cur \in {NoSocket, page[p].cur} /\ cur # s
      /\ \A t \in Sockets \ {s} : page[p].cur = t => cur = t
      /\ cur \in {NoSocket} \cup Sockets
  BY <1>1 DEF Sockets, NoSocket, PageType
<1>. HIDE DEF cur
<1>7. /\ pg \in PageType /\ pg.cur = cur /\ pg.state = page[p].state
      /\ pg.outbox = page[p].outbox /\ pg.doubled = page[p].doubled
      /\ pg.present = page[p].present /\ pg.late = page[p].late
      /\ pg.timers = page[p].timers /\ pg.handle = page[p].handle
  BY <1>1, <1>6 DEF PageType
<1>. HIDE DEF pg
<1>8. ~Carries(b)
  <2>1. a.up = <<>> \/ a.server = "closed"
    BY <1>1, <1>2 DEF SocketOK
  <2>. QED
    BY <1>5, <2>1 DEF Carries, Hearing
<1>9. SocketOK(b) /\ InOrder(pg, b, p, applied, spent)
  BY <1>1, <1>5, <1>7, <1>8 DEF SocketOK, InOrder
<1>10. Holds(pg, b, s)
  <2>1. Warned(b)
    BY <1>5 DEF Warned
  <2>2. page[p].state # "unstarted"
    BY <1>1, <1>2 DEF Holds
  <2>. QED
    BY <1>5, <1>7, <1>8, <2>1, <2>2 DEF Holds
<1>11. \A t \in Sockets \ {s} : sock[t].page = p => Holds(pg, sock[t], t)
  BY <1>1, <1>6, <1>7 DEF Holds
<1>12. Fits(st, p, spent, s, b, pg)
  BY <1>1, <1>5, <1>6, <1>7, <1>8, <1>9, <1>10, <1>11 DEF Fits
<1>13. /\ Shaped(gone, p, spent) /\ gone.pg = pg /\ gone.sk[s] = b
       /\ \A t \in Sockets \ {s} : gone.sk[t] = sock[t]
  <2>1. gone = Put(st, pg, s, b)
    BY DEF gone
  <2>. QED
    BY <1>1, <1>12, <2>1, ReplacesOK
<1>14. Quiet(gone.pg, gone.sk) /\ Heard(gone.pg, gone.sk)
  <2>1. Quiet(page[p], sock) /\ Heard(page[p], sock)
    BY <1>1 DEF StoreOK
  <2>2. cur # NoSocket => cur = page[p].cur /\ gone.sk[cur] = sock[cur]
    BY <1>6, <1>13
  <2>3. Quiet(gone.pg, gone.sk)
    BY <1>7, <1>13, <2>1, <2>2 DEF Quiet
  <2>4. Heard(gone.pg, gone.sk)
    BY <1>7, <1>13, <2>1, <2>2 DEF Heard, Believed
  <2>. QED
    BY <2>3, <2>4
<1>15. StoreOK(now, p, spent)
  <2>1. CASE gone.pg.state # "running"
    BY <1>13, <1>14, <2>1 DEF StoreOK, ScheduleReconnect, now
  <2>2. CASE gone.pg.state = "running"
    <3>1. /\ timed \in PageType /\ timed.cur = pg.cur /\ timed.state = pg.state
          /\ timed.outbox = pg.outbox /\ timed.doubled = pg.doubled
          /\ timed.present = pg.present /\ timed.late = pg.late
          /\ timed.timers > 0
      <4>. DEFINE n == pg.timers + 1
      <4>1. n \in Nat /\ n > 0
        BY <1>7 DEF PageType
      <4>. HIDE DEF n
      <4>2. timed = [pg EXCEPT !.timers = n, !.handle = TRUE]
        BY DEF n
      <4>. HIDE DEF timed
      <4>. QED
        BY <1>7, <4>1, <4>2 DEF PageType
    <3>2. now = [pg |-> timed, sk |-> gone.sk]
      <4>. DEFINE n == pg.timers + 1
      <4>1. gone \in StoreType
        BY <1>13 DEF Shaped
      <4>2. now = [gone EXCEPT !.pg.timers = n, !.pg.handle = TRUE]
        BY <1>13, <2>2 DEF now, ScheduleReconnect
      <4>3. timed = [gone.pg EXCEPT !.timers = n, !.handle = TRUE]
        BY <1>13
      <4>. HIDE DEF n, timed
      <4>. QED
        BY ZenonT(40), <4>1, <4>2, <4>3, TimerIs
    <3>. HIDE DEF timed
    <3>3. timed.late <= Len(timed.outbox)
      BY <1>1, <1>7, <3>1
    <3>4. Shaped(now, p, spent) /\ Quiet(now.pg, now.sk) /\ Heard(now.pg, now.sk)
      <4>. HIDE DEF p
      <4>. QED
        BY <1>13, <1>14, <3>1, <3>2, <3>3, FieldsOK
    <3>. QED
      BY <3>4 DEF StoreOK
  <2>. QED
    BY <2>1, <2>2
<1>. HIDE DEF p
<1>. QED
  BY <1>1, <1>2, <1>4, <1>15, FreeStepKeeps


Got(s) == Put(Store(sock[s].page), page[sock[s].page], s, Read(sock[s]))

\* A page that took what arrived, by what it read.
LEMMA GotOK ==
    ASSUME SyncAssumption, Inv, NEW s \in Sockets, NEW p, p = sock[s].page,
           sock[s].client = "open", sock[s].down # <<>>
    PROVE  /\ [Store(p) EXCEPT !.sk[s].down = Tail(@)] = Got(s)
           /\ Got(s).pg = page[p] /\ Got(s).sk = [sock EXCEPT ![s] = Read(sock[s])]
           /\ Got(s) = [pg |-> page[p], sk |-> [sock EXCEPT ![s] = Read(sock[s])]]
           /\ Read(sock[s]) \in SocketType
           /\ page[p].state # "unstarted"
           /\ ~page[p].doubled => page[p].cur = s
           /\ Head(sock[s].down) \in Downward
           /\ Head(sock[s].down).type = "snapshot" => StoreOK(Got(s), p, spent)
           /\ Head(sock[s].down).type = "close"
                => StoreOK(Got(s), p, spent)
                   /\ (page[p].state = "running" => sock[s].server \notin Hearing)
<1>. DEFINE st == Store(p)
            a == sock[s]
            got == Got(s)
<1>1. /\ p \in Pages /\ StoreOK(st, p, spent)
      /\ st.pg = page[p] /\ st.sk = sock /\ st = [pg |-> page[p], sk |-> sock]
      /\ page[p] \in PageType /\ sock \in [Sockets -> SocketType] /\ a \in SocketType
      /\ Holds(page[p], a, s)
  BY StoreAt
<1>2. got = Put(st, page[p], s, Read(a))
  BY DEF Got
<1>3. a.down \in Seq(Downward) /\ a.down # <<>> /\ Tail(a.down) \in Seq(Downward)
      /\ Head(a.down) \in Downward /\ Head(a.down) = a.down[1] /\ 1 \in DOMAIN a.down
      /\ \A i \in DOMAIN a.down : ~(i < 1)
  <2>1. a.down \in Seq(Downward)
    BY <1>1 DEF SocketType
  <2>. QED
    BY <2>1
<1>4. Read(a) \in SocketType
  BY <1>1, <1>3 DEF Read, SocketType
<1>5. [st EXCEPT !.sk[s].down = Tail(@)] = got
  <2>1. [st EXCEPT !.sk[s].down = Tail(@)]
          = [pg |-> page[p], sk |-> [sock EXCEPT ![s] = Read(a)]]
    <3>. DEFINE d == Tail(st.sk[s].down)
    <3>1. Read(a) = [a EXCEPT !.down = d]
      BY <1>1 DEF Read
    <3>. HIDE DEF d
    <3>2. [st EXCEPT !.sk[s].down = d]
            = [pg |-> page[p], sk |-> [sock EXCEPT ![s] = [a EXCEPT !.down = d]]]
      BY <1>1
    <3>3. [st EXCEPT !.sk[s].down = Tail(@)] = [st EXCEPT !.sk[s].down = d]
      BY DEF d
    <3>. HIDE DEF st, a
    <3>. QED
      BY <3>1, <3>2, <3>3
  <2>. QED
    BY <1>1, <1>2, <2>1 DEF Put
<1>6. /\ got.pg = page[p] /\ got.sk = [sock EXCEPT ![s] = Read(a)]
      /\ got = [pg |-> page[p], sk |-> [sock EXCEPT ![s] = Read(a)]]
  BY <1>1, <1>2 DEF Put
<1>7. page[p].state # "unstarted" /\ (~page[p].doubled => page[p].cur = s)
  BY <1>1 DEF Holds
<1>8. ASSUME \/ page[p].state # "running" \/ a.server \notin Hearing
             \/ Head(a.down).type \notin {"close", "closed"}
      PROVE  StoreOK(got, p, spent)
  <2>1. Reads(st, p, spent, s)
    BY <1>1, <1>8 DEF Reads
  <2>2. got = Put(st, st.pg, s, Read(st.sk[s]))
    BY <1>1, <1>2
  <2>. HIDE DEF got, st
  <2>. QED
    BY <2>1, <2>2, ReadsOK
<1>9. ASSUME Head(a.down).type = "close", page[p].state = "running" PROVE a.server \notin Hearing
  BY <1>1, <1>3, <1>9 DEF Holds, Warned
<1>. HIDE DEF got, a
<1>. QED
  BY <1>3, <1>4, <1>5, <1>6, <1>7, <1>8, <1>9 DEF got, a

\* A page that is told how the room is.
LEMMA SnapshotKeeps ==
    ASSUME SyncAssumption, Inv, NEW s \in Sockets, NEW p, p = sock[s].page,
           sock[s].client = "open", sock[s].down # <<>>,
           NEW msg, msg = Head(sock[s].down), msg.type = "snapshot"
    PROVE  StoreOK(IF msg.rev < page[p].rev THEN Got(s)
                   ELSE [Got(s) EXCEPT !.pg.rev = msg.rev, !.pg.shown = msg.ver], p, spent)
<1>. DEFINE st == Got(s)
            pg == [st.pg EXCEPT !.rev = msg.rev, !.shown = msg.ver]
            now == [st EXCEPT !.pg.rev = msg.rev, !.pg.shown = msg.ver]
<1>1. StoreOK(st, p, spent) /\ st.pg = page[p] /\ msg \in Downward
  <2>1. Head(sock[s].down).type = "snapshot"
    OBVIOUS
  <2>2. StoreOK(Got(s), p, spent)
    BY <2>1, GotOK
  <2>3. Got(s).pg = page[p]
    BY DEF Got, Put
  <2>4. Head(sock[s].down) \in Downward
    <3>1. sock[s] \in SocketType
      BY StoreAt
    <3>2. sock[s].down \in Seq(Downward)
      BY <3>1 DEF SocketType
    <3>. QED
      BY <3>2
  <2>. QED
    BY <2>2, <2>3, <2>4
<1>2. /\ Shaped(st, p, spent) /\ Quiet(st.pg, st.sk) /\ Heard(st.pg, st.sk)
      /\ st \in StoreType /\ st.pg \in PageType
      /\ st.pg.handle => st.pg.timers > 0
      /\ st.pg.late <= Len(st.pg.outbox)
  BY <1>1 DEF StoreOK, Shaped, StoreType
<1>3. msg.rev \in Nat /\ msg.ver \in Nat
  BY <1>1 DEF Downward, CloseFrame
<1>. HIDE DEF st
<1>4. now = [pg |-> pg, sk |-> st.sk]
  <2>. DEFINE v == msg.rev
              w == msg.ver
  <2>. HIDE DEF v, w, pg, now
  <2>1. [st EXCEPT !.pg.rev = v, !.pg.shown = w]
          = [pg |-> [st.pg EXCEPT !.rev = v, !.shown = w], sk |-> st.sk]
    <3>1. st \in StoreType
      BY <1>2
    <3>. DEFINE half == [st EXCEPT !.pg.rev = v]
    <3>2. [st EXCEPT !.pg.rev = v, !.pg.shown = w] = [half EXCEPT !.pg.shown = w]
      OBVIOUS
    <3>3. half = [pg |-> [st.pg EXCEPT !.rev = v], sk |-> st.sk]
      BY <3>1 DEF StoreType
    <3>. HIDE DEF half
    <3>4. [half EXCEPT !.pg.shown = w] = [pg |-> [half.pg EXCEPT !.shown = w], sk |-> half.sk]
      BY <3>3
    <3>5. [half.pg EXCEPT !.shown = w] = [st.pg EXCEPT !.rev = v, !.shown = w]
      BY <3>1, <3>3 DEF StoreType, PageType
    <3>. QED
      BY <3>2, <3>3, <3>4, <3>5
  <2>. QED
    BY <2>1 DEF v, w, pg, now
<1>5. /\ pg \in PageType /\ pg.cur = st.pg.cur /\ pg.state = st.pg.state
      /\ pg.outbox = st.pg.outbox /\ pg.doubled = st.pg.doubled
      /\ pg.present = st.pg.present /\ pg.late = st.pg.late
      /\ pg.timers = st.pg.timers /\ pg.handle = st.pg.handle
  BY <1>2, <1>3 DEF PageType
<1>. HIDE DEF pg, now
<1>6. Shaped(now, p, spent) /\ Quiet(now.pg, now.sk) /\ Heard(now.pg, now.sk)
  <2>1. pg.handle => pg.timers > 0
    BY <1>2, <1>5
  <2>2. pg.late <= Len(pg.outbox)
    BY <1>2, <1>5
  <2>. QED
    BY <1>2, <1>4, <1>5, <2>1, <2>2, FieldsOK
<1>7. StoreOK(now, p, spent)
  BY <1>6 DEF StoreOK
<1>. QED
  BY <1>1, <1>7 DEF now, st

\* A page that is told that its socket ends.
LEMMA CloseFrameKeeps ==
    ASSUME SyncAssumption, Inv, NEW s \in Sockets, NEW p, p = sock[s].page,
           sock[s].client = "open", sock[s].down # <<>>, Head(sock[s].down).type = "close"
    PROVE  StoreOK([Got(s) EXCEPT !.sk = Hangs(@, s)], p, spent)
<1>. DEFINE st == Got(s)
            now == [pg |-> st.pg, sk |-> Hangs(st.sk, s)]
<1>1. /\ StoreOK(st, p, spent) /\ st.pg = page[p] /\ page[p].state # "unstarted"
      /\ page[p].state = "running" => sock[s].server \notin Hearing
      /\ st.sk = [sock EXCEPT ![s] = Read(sock[s])]
      /\ st = [pg |-> st.pg, sk |-> st.sk]
  BY GotOK
<1>2. sock \in [Sockets -> SocketType] /\ sock[s] \in SocketType
  BY StoreAt
<1>3. /\ st.sk[s].page = p /\ st.sk[s].client = "open" /\ st.sk[s].server = sock[s].server
  BY <1>1, <1>2 DEF Read, SocketType
<1>4. /\ st.pg \in PageType
      /\ st.pg.handle => st.pg.timers > 0
      /\ st.pg.late <= Len(st.pg.outbox)
  BY <1>1 DEF StoreOK, Shaped, StoreType
<1>. HIDE DEF st
<1>5. Leaves(st, p, spent, s, st.pg)
  BY <1>1, <1>3, <1>4 DEF Leaves
<1>6. [st EXCEPT !.sk = Hangs(@, s)] = now
  BY <1>1
<1>7. StoreOK(now, p, spent)
  <2>1. now = [pg |-> st.pg, sk |-> Hangs(st.sk, s)]
    OBVIOUS
  <2>. HIDE DEF now
  <2>. QED
    BY <1>5, <2>1, HangsOK
<1>. QED
  BY <1>6, <1>7 DEF st


\* It does not matter in which order a socket is read and closed.
LEMMA HungRead ==
    ASSUME NEW a \in SocketType, NEW u, NEW d
    PROVE  [[a EXCEPT !.down = d] EXCEPT !.up = u, !.client = "closing"]
             = [[a EXCEPT !.up = u, !.client = "closing"] EXCEPT !.down = d]
<1>. DEFINE r == [a EXCEPT !.down = d]
            r1 == [r EXCEPT !.up = u]
            r2 == [r1 EXCEPT !.client = "closing"]
            h1 == [a EXCEPT !.up = u]
            h == [h1 EXCEPT !.client = "closing"]
            h2 == [h EXCEPT !.down = d]
<1>1. r = [page |-> a.page, client |-> a.client, server |-> a.server, link |-> a.link,
           down |-> d, up |-> a.up, preset |-> a.preset, url |-> a.url,
           present |-> a.present, missed |-> a.missed]
  BY DEF SocketType
<1>2. r1 = [page |-> a.page, client |-> a.client, server |-> a.server, link |-> a.link,
           down |-> d, up |-> u, preset |-> a.preset, url |-> a.url,
           present |-> a.present, missed |-> a.missed]
  <2>. HIDE DEF r
  <2>. QED
    BY <1>1
<1>3. r2 = [page |-> a.page, client |-> "closing", server |-> a.server, link |-> a.link,
           down |-> d, up |-> u, preset |-> a.preset, url |-> a.url,
           present |-> a.present, missed |-> a.missed]
  <2>. HIDE DEF r1
  <2>. QED
    BY <1>2
<1>4. h1 = [page |-> a.page, client |-> a.client, server |-> a.server, link |-> a.link,
           down |-> a.down, up |-> u, preset |-> a.preset, url |-> a.url,
           present |-> a.present, missed |-> a.missed]
  BY DEF SocketType
<1>5. h = [page |-> a.page, client |-> "closing", server |-> a.server, link |-> a.link,
           down |-> a.down, up |-> u, preset |-> a.preset, url |-> a.url,
           present |-> a.present, missed |-> a.missed]
  <2>. HIDE DEF h1
  <2>. QED
    BY <1>4
<1>6. h2 = [page |-> a.page, client |-> "closing", server |-> a.server, link |-> a.link,
           down |-> d, up |-> u, preset |-> a.preset, url |-> a.url,
           present |-> a.present, missed |-> a.missed]
  <2>. HIDE DEF h
  <2>. QED
    BY <1>5
<1>. HIDE DEF r2, h2
<1>7. r2 = h2
  BY <1>3, <1>6
<1>8. r2 = [r EXCEPT !.up = u, !.client = "closing"] /\ h = [a EXCEPT !.up = u, !.client = "closing"]
  BY DEF r2, r1, h, h1
<1>. QED
  BY <1>7, <1>8 DEF h2

\* A store with other sockets.
LEMMA OtherSockets ==
    ASSUME NEW pg, NEW sk, NEW st, st = [pg |-> pg, sk |-> sk], NEW h
    PROVE  [st EXCEPT !.sk = h] = [pg |-> pg, sk |-> h]
OBVIOUS

Stopped(s) == [ClearTimer(Got(s)) EXCEPT !.pg.state = "stopped"]

\* A page that is told that it is sent away, or that its room is no more.
LEMMA ClosedKeeps ==
    ASSUME SyncAssumption, Inv, NEW s \in Sockets, NEW p, p = sock[s].page,
           sock[s].client = "open", sock[s].down # <<>>,
           NEW stopped, stopped = Stopped(s)
    PROVE  StoreOK(IF ~IsAlive(stopped) THEN stopped
                   ELSE [stopped EXCEPT !.sk = Hangs(@, page[p].cur)], p, spent)
<1>. DEFINE got == Got(s)
            a == sock[s]
            cl == ClearTimer(Store(p))
            pg == [cl.pg EXCEPT !.state = "stopped"]
            c == page[p].cur
<1>1. /\ got = [pg |-> page[p], sk |-> [sock EXCEPT ![s] = Read(a)]]
      /\ got.pg = page[p] /\ got.sk = [sock EXCEPT ![s] = Read(a)]
      /\ Read(a) \in SocketType
      /\ page[p].state # "unstarted"
      /\ ~page[p].doubled => c = s
  BY GotOK
<1>2. /\ p \in Pages /\ StoreOK(Store(p), p, spent)
      /\ Store(p).pg = page[p] /\ Store(p).sk = sock
      /\ Store(p) = [pg |-> page[p], sk |-> sock]
      /\ page[p] \in PageType /\ sock \in [Sockets -> SocketType] /\ a \in SocketType
  BY StoreAt
<1>3. /\ StoreOK(cl, p, spent) /\ cl.sk = sock /\ cl.pg.cur = c
      /\ cl.pg.doubled = page[p].doubled
  BY <1>2, ClearOK
<1>4. ClearTimer(got).pg = cl.pg /\ ClearTimer(got).sk = got.sk
      /\ ClearTimer(got) = [pg |-> cl.pg, sk |-> got.sk]
  <2>1. CASE page[p].handle
    BY <1>1, <1>2, <2>1 DEF ClearTimer
  <2>2. CASE ~page[p].handle
    BY <1>1, <1>2, <2>2 DEF ClearTimer
  <2>. QED
    BY <2>1, <2>2
<1>. HIDE DEF got, cl
<1>5. stopped = [pg |-> pg, sk |-> got.sk]
  BY <1>4 DEF got, Stopped
<1>6. /\ cl.pg \in PageType /\ cl \in StoreType
      /\ cl.pg.handle => cl.pg.timers > 0
      /\ cl.pg.late <= Len(cl.pg.outbox)
      /\ c # NoSocket => sock[c].page = p /\ sock[c].client # "closed"
  BY <1>3 DEF StoreOK, Shaped, StoreType
<1>7. /\ pg \in PageType /\ pg.cur = c /\ pg.state = "stopped"
      /\ pg.outbox = cl.pg.outbox /\ pg.doubled = cl.pg.doubled
      /\ pg.present = cl.pg.present /\ pg.late = cl.pg.late
      /\ pg.timers = cl.pg.timers /\ pg.handle = cl.pg.handle
  BY <1>3, <1>6 DEF PageType
<1>. HIDE DEF pg
<1>8. (pg.handle => pg.timers > 0) /\ pg.late <= Len(pg.outbox)
  BY <1>6, <1>7
<1>9. /\ stopped.pg = pg /\ stopped.sk = got.sk
      /\ IsAlive(stopped) <=> c # NoSocket /\ got.sk[c].client \in {"open", "connecting"}
  BY <1>5, <1>7 DEF IsAlive
<1>10. [stopped EXCEPT !.sk = Hangs(@, c)] = [pg |-> pg, sk |-> Hangs(got.sk, c)]
  <2>. DEFINE h == Hangs(got.sk, c)
  <2>1. [stopped EXCEPT !.sk = Hangs(@, c)] = [stopped EXCEPT !.sk = h]
    BY <1>9
  <2>. HIDE DEF h
  <2>2. [stopped EXCEPT !.sk = h] = [pg |-> pg, sk |-> h]
    BY <1>5, OtherSockets
  <2>. QED
    BY <2>1, <2>2 DEF h
<1>11. a.down # <<>> /\ a.client = "open" /\ a.page = p
  OBVIOUS
<1>. HIDE DEF a, c
<1>12. got.sk \in [Sockets -> SocketType] /\ got.sk[s] = Read(a)
       /\ Read(a).client = "open" /\ Read(a).page = p
       /\ \A t \in Sockets \ {s} : got.sk[t] = sock[t]
  <2>1. Read(a).client = "open" /\ Read(a).page = p
    BY <1>2, <1>11 DEF Read, SocketType
  <2>. QED
    BY <1>1, <1>2, <2>1
<1>13. CASE c = s
  <2>. DEFINE st == [pg |-> pg, sk |-> Hangs(sock, s)]
              now == [pg |-> pg, sk |-> Hangs(got.sk, s)]
  <2>1. StoreOK(st, p, spent)
    <3>1. Leaves(cl, p, spent, s, pg)
      <4>1. cl.sk[s].page = p /\ cl.sk[s].client # "closed" /\ pg.cur \in {NoSocket, cl.pg.cur}
            /\ pg.state = "stopped" /\ s = cl.pg.cur
        BY <1>3, <1>7, <1>11, <1>13 DEF a
      <4>. QED
        BY <1>3, <1>7, <1>8, <4>1 DEF Leaves
    <3>2. st = [pg |-> pg, sk |-> Hangs(cl.sk, s)]
      BY <1>3
    <3>. HIDE DEF st
    <3>. QED
      BY <3>1, <3>2, HangsOK
  <2>2. /\ Hangs(sock, s) = [sock EXCEPT ![s] = Hung(a)]
        /\ Hung(a) \in SocketType /\ Hung(a).client = "closing" /\ Hung(a).page = a.page
        /\ Hung(a).down = a.down
    <3>1. a = sock[s]
      BY DEF a
    <3>. QED
      BY <1>2, <3>1, HungIs
  <2>3. Hangs(got.sk, s) = [got.sk EXCEPT ![s] = Hung(Read(a))]
    <3>. DEFINE r == Read(a)
    <3>1. r = got.sk[s]
      BY <1>12
    <3>. HIDE DEF r
    <3>2. Hangs(got.sk, s) = [got.sk EXCEPT ![s] = Hung(r)]
      BY <1>12, <3>1, HungIs
    <3>. QED
      BY <3>2 DEF r
  <2>4. Hung(Read(a)) = Read(Hung(a))
    <3>. DEFINE u == IF a.link THEN a.up \o <<CloseFrame>> ELSE a.up
                d == Tail(a.down)
    <3>1. Read(a) = [a EXCEPT !.down = d]
      BY DEF Read
    <3>2. Hung(a) = [a EXCEPT !.up = u, !.client = "closing"]
      BY DEF Hung
    <3>3. Read(Hung(a)) = [Hung(a) EXCEPT !.down = d]
      BY <2>2 DEF Read
    <3>4. Hung(Read(a)) = [Read(a) EXCEPT !.up = u, !.client = "closing"]
      <4>1. Read(a).link = a.link /\ Read(a).up = a.up
        BY <1>2 DEF Read, SocketType, a
      <4>. QED
        BY <4>1 DEF Hung
    <3>. HIDE DEF u, d
    <3>5. a \in SocketType
      BY <1>2 DEF a
    <3>6. [[a EXCEPT !.down = d] EXCEPT !.up = u, !.client = "closing"]
            = [[a EXCEPT !.up = u, !.client = "closing"] EXCEPT !.down = d]
      BY <3>5, HungRead
    <3>. QED
      BY <3>1, <3>2, <3>3, <3>4, <3>6
  <2>5. /\ st.pg = pg /\ st.sk = Hangs(sock, s) /\ st.sk[s] = Hung(a)
    BY <1>2, <2>2
  <2>6. Reads(st, p, spent, s)
    <3>1. st.pg.state # "running" /\ st.sk[s].page = p /\ st.sk[s].client # "closed"
          /\ st.sk[s].down # <<>>
      BY <1>7, <1>11, <2>2, <2>5
    <3>. HIDE DEF st
    <3>. QED
      BY <2>1, <3>1 DEF Reads
  <2>7. now = Put(st, st.pg, s, Read(st.sk[s]))
    <3>1. [got.sk EXCEPT ![s] = Hung(Read(a))] = [sock EXCEPT ![s] = Read(Hung(a))]
      BY <1>1, <1>2, <2>4
    <3>2. [[sock EXCEPT ![s] = Hung(a)] EXCEPT ![s] = Read(Hung(a))]
            = [sock EXCEPT ![s] = Read(Hung(a))]
      BY <1>2
    <3>. QED
      BY <2>2, <2>3, <2>5, <3>1, <3>2 DEF Put
  <2>. HIDE DEF now, st
  <2>8. StoreOK(now, p, spent)
    BY <2>6, <2>7, ReadsOK
  <2>9. IsAlive(stopped)
    <3>1. c # NoSocket
      BY <1>13 DEF Sockets, NoSocket
    <3>. QED
      BY <1>9, <1>12, <1>13, <3>1
  <2>. QED
    BY <1>10, <1>13, <2>8, <2>9 DEF now, c
<1>14. CASE c # s
  <2>. DEFINE st == [pg |-> pg, sk |-> sock]
  <2>1. page[p].doubled
    BY <1>1, <1>14 DEF c
  <2>2. StoreOK(st, p, spent) /\ st.pg = pg /\ st.sk = sock
    <3>1. st = [pg |-> pg, sk |-> cl.sk]
      BY <1>3
    <3>2. pg.cur \in {NoSocket, cl.pg.cur} /\ cl.pg.doubled
      BY <1>3, <1>7, <2>1
    <3>. HIDE DEF st
    <3>3. StoreOK(st, p, spent) /\ st.pg = pg /\ st.sk = cl.sk
      BY <1>3, <1>7, <1>8, <3>1, <3>2, StopOK
    <3>. QED
      BY <1>3, <3>3
  <2>. HIDE DEF st
  <2>3. StoreOK(stopped, p, spent)
    <3>1. Reads(st, p, spent, s)
      <4>1. st.pg.state # "running" /\ st.sk[s].page = p /\ st.sk[s].client # "closed"
            /\ st.sk[s].down # <<>>
        BY <1>7, <1>11, <2>2 DEF a
      <4>. QED
        BY <2>2, <4>1 DEF Reads
    <3>2. stopped = Put(st, st.pg, s, Read(st.sk[s]))
      BY <1>1, <1>5, <2>2 DEF Put, a
    <3>. QED
      BY <3>1, <3>2, ReadsOK
  <2>4. CASE ~IsAlive(stopped)
    BY <2>3, <2>4
  <2>5. CASE IsAlive(stopped)
    <3>. DEFINE now == [pg |-> pg, sk |-> Hangs(got.sk, c)]
    <3>1. c \in Sockets /\ got.sk[c] = sock[c] /\ sock[c].page = p /\ sock[c].client # "closed"
      BY <1>2, <1>6, <1>9, <1>12, <1>14, <2>5 DEF PageType, c
    <3>2. Leaves(stopped, p, spent, c, pg)
      BY <1>7, <1>8, <1>9, <2>3, <3>1 DEF Leaves
    <3>3. now = [pg |-> pg, sk |-> Hangs(stopped.sk, c)]
      BY <1>9
    <3>. HIDE DEF now
    <3>4. StoreOK(now, p, spent)
      BY <3>2, <3>3, HangsOK
    <3>. QED
      BY <1>10, <2>5, <3>4 DEF now, c
  <2>. QED
    BY <2>4, <2>5
<1>. QED
  BY <1>13, <1>14

\* #receive()
LEMMA ReceivesKeeps ==
    ASSUME SyncAssumption, Inv, NEW s \in Sockets, Receives(s)
    PROVE  Inv'
<1>. DEFINE p == sock[s].page
            msg == Head(sock[s].down)
            got == [Store(p) EXCEPT !.sk[s].down = Tail(@)]
            stopped == [ClearTimer(got) EXCEPT !.pg.state = "stopped"]
<1>1. sock[s].client = "open" /\ sock[s].down # <<>> /\ UNCHANGED <<serverVars, spent>>
  BY DEF Receives
<1>2. got = Got(s)
  BY <1>1, GotOK
<1>3. p \in Pages
  BY StoreAt
<1>4. ASSUME NEW st, StoreOK(st, p, spent), Becomes(p, st) PROVE Inv'
  <2>. HIDE DEF p
  <2>. QED
    BY <1>1, <1>3, <1>4, FreeStepKeeps
<1>5. \/ /\ msg.type = "snapshot"
         /\ Becomes(p, IF msg.rev < page[p].rev THEN got
                       ELSE [got EXCEPT !.pg.rev = msg.rev, !.pg.shown = msg.ver])
      \/ /\ msg.type = "closed"
         /\ Becomes(p, IF ~IsAlive(stopped) THEN stopped
                       ELSE [stopped EXCEPT !.sk = Hangs(@, page[p].cur)])
      \/ /\ msg.type = "close"
         /\ Becomes(p, [got EXCEPT !.sk = Hangs(@, s)])
  BY DEF Receives
<1>. HIDE DEF got
<1>6. CASE /\ msg.type = "snapshot"
           /\ Becomes(p, IF msg.rev < page[p].rev THEN got
                         ELSE [got EXCEPT !.pg.rev = msg.rev, !.pg.shown = msg.ver])
  <2>. DEFINE now == IF msg.rev < page[p].rev THEN Got(s)
                     ELSE [Got(s) EXCEPT !.pg.rev = msg.rev, !.pg.shown = msg.ver]
  <2>1. StoreOK(now, p, spent)
    <3>. DEFINE m == msg
    <3>1. m = Head(sock[s].down) /\ m.type = "snapshot"
      BY <1>6
    <3>. HIDE DEF m
    <3>2. StoreOK(IF m.rev < page[p].rev THEN Got(s)
                  ELSE [Got(s) EXCEPT !.pg.rev = m.rev, !.pg.shown = m.ver], p, spent)
      BY <1>1, <3>1, SnapshotKeeps
    <3>. QED
      BY <3>2 DEF m
  <2>2. Becomes(p, now)
    BY <1>2, <1>6
  <2>. HIDE DEF now
  <2>. QED
    BY <1>4, <2>1, <2>2
<1>7. CASE /\ msg.type = "closed"
           /\ Becomes(p, IF ~IsAlive(stopped) THEN stopped
                         ELSE [stopped EXCEPT !.sk = Hangs(@, page[p].cur)])
  <2>. DEFINE now == IF ~IsAlive(stopped) THEN stopped
                     ELSE [stopped EXCEPT !.sk = Hangs(@, page[p].cur)]
  <2>1. stopped = Stopped(s)
    BY <1>2 DEF Stopped
  <2>. HIDE DEF stopped
  <2>2. StoreOK(now, p, spent)
    BY <1>1, <2>1, ClosedKeeps
  <2>3. Becomes(p, now)
    BY <1>7
  <2>. HIDE DEF now
  <2>. QED
    BY <1>4, <2>2, <2>3
<1>8. CASE msg.type = "close" /\ Becomes(p, [got EXCEPT !.sk = Hangs(@, s)])
  <2>. DEFINE now == [Got(s) EXCEPT !.sk = Hangs(@, s)]
  <2>1. StoreOK(now, p, spent)
    BY <1>1, <1>8, CloseFrameKeeps
  <2>2. Becomes(p, now)
    BY <1>2, <1>8
  <2>. HIDE DEF now
  <2>. QED
    BY <1>4, <2>1, <2>2
<1>. QED
  BY <1>5, <1>6, <1>7, <1>8


----------------------------------------------------------------------------
(* The theorems.                                                           *)

\* At first nobody is connected and nothing was said.
LEMMA InitOK == ASSUME SyncAssumption, Init PROVE Inv
<1>. DEFINE c == CHOOSE p \in Pages : TRUE
<1>1. c \in Pages
  BY DEF SyncAssumption
<1>. HIDE DEF c
<1>2. /\ sock = [s \in Sockets |-> Unused(c)] /\ roster = {} /\ mints = {}
      /\ room = [g \in Rooms |-> [rev |-> 0, ver |-> 1, track |-> Plain]]
      /\ userRoom = [u \in Users |-> NoRoom] /\ applied = <<>> /\ spent = 0
  BY DEF Init, c
<1>3. \A p \in Pages :
        /\ page[p].cur = NoSocket /\ page[p].state = "unstarted" /\ page[p].rev = 0
        /\ page[p].shown = 0 /\ page[p].timers = 0 /\ ~page[p].handle /\ page[p].present
        /\ page[p].outbox = <<>> /\ page[p].late = 0 /\ ~page[p].doubled
        /\ page[p] \in PageType
  BY DEF Init, PageType
<1>4. page \in [Pages -> PageType]
  BY <1>3 DEF Init
<1>5. Unused(c) \in SocketType /\ Unused(c).page = c /\ Unused(c).server = "closed"
  BY <1>1, UnusedOK
<1>6. TypeOK
  <2>1. sock \in [Sockets -> SocketType]
    BY <1>2, <1>5
  <2>2. \A p \in Pages : page[p].late <= Len(page[p].outbox)
    BY <1>3
  <2>3. room \in [Rooms -> [rev : Nat, ver : Nat, track : Nat]]
    BY <1>2 DEF Plain
  <2>4. applied \in Seq(Pages \X (1..MaxEvents)) /\ spent \in 0..MaxEvents
    BY <1>2 DEF SyncAssumption
  <2>. QED
    BY <1>2, <1>3, <1>4, <2>1, <2>2, <2>3, <2>4 DEF TypeOK
<1>7. PagesOK
  <2>. SUFFICES ASSUME NEW p \in Pages PROVE Kept(page[p], sock, p, applied, spent)
    BY DEF PagesOK
  <2>1. ~Carries(Unused(c))
    BY <1>1, UnusedOK
  <2>2. Signed(page[p].outbox, p, spent) /\ Increasing(page[p].outbox)
        /\ Done(applied, p, page[p].outbox)
    BY <1>3 DEF Signed, Increasing, Done
  <2>3. Stored(page[p], sock, p, applied, spent)
    BY <1>2, <1>3, <2>1, <2>2 DEF Stored
  <2>. QED
    BY <1>3, <2>3 DEF Kept, Quiet, Heard
<1>8. SocketsOK
  <2>. SUFFICES ASSUME NEW s \in Sockets
                PROVE  /\ SocketOK(Unused(c)) /\ Holds(page[c], Unused(c), s)
                       /\ InOrder(page[c], Unused(c), c, applied, spent)
    BY <1>2, <1>5 DEF SocketsOK
  <2>. QED
    BY <1>1, UnusedOK
<1>9. AppliedOK /\ ControlsInOrder
  BY <1>2 DEF AppliedOK, ControlsInOrder
<1>10. RosterOK(sock, roster, userRoom)
  BY <1>2, <1>5 DEF RosterOK
<1>. QED
  BY <1>6, <1>7, <1>8, <1>9, <1>10 DEF Inv

\* No step of a page, of the network or of the server breaks the invariant.
THEOREM SyncStep == ASSUME SyncAssumption, Inv, [Next]_vars PROVE Inv'
<1>1. CASE UNCHANGED vars
  <2>1. /\ page' = page /\ sock' = sock /\ roster' = roster /\ room' = room
        /\ userRoom' = userRoom /\ mints' = mints /\ applied' = applied /\ spent' = spent
    BY <1>1 DEF vars
  <2>2. TypeOK' /\ PagesOK' /\ SocketsOK'
    BY <2>1 DEF Inv, TypeOK, PagesOK, SocketsOK
  <2>3. AppliedOK' /\ ControlsInOrder' /\ RosterOK(sock, roster, userRoom)'
    BY <2>1 DEF Inv, AppliedOK, ControlsInOrder, RosterOK
  <2>. QED
    BY <2>2, <2>3 DEF Inv
<1>2. ASSUME NEW p \in Pages, PageStep(p) PROVE Inv'
  BY <1>2, StartKeeps, TimerKeeps, PressesKeeps, AgesKeeps, SetPresentKeeps, DestroyKeeps
     DEF PageStep
<1>3. ASSUME NEW s \in Sockets, BrowserStep(s) PROVE Inv'
  BY <1>3, OpensKeeps, ReceivesKeeps, ClosesKeeps DEF BrowserStep
<1>4. ASSUME NEW s \in Sockets, ServerStep(s) PROVE Inv'
  BY <1>4, AcceptKeeps, PresetDoneKeeps, HearsKeeps, NoticesKeeps DEF ServerStep
<1>5. ASSUME NEW s \in Sockets, Terminate(s) \/ Drop(s) PROVE Inv'
  BY <1>5, TerminateKeeps, DropKeeps
<1>6. ASSUME NEW t \in mints, MintDone(t) PROVE Inv'
  BY <1>6, MintDoneKeeps
<1>7. ASSUME NEW g \in Rooms, Change(g) \/ Reboot(g) PROVE Inv'
  BY <1>7, ChangeKeeps, RebootKeeps
<1>8. ASSUME NEW graceful \in BOOLEAN, Restart(graceful) PROVE Inv'
  BY <1>8, RestartKeeps
<1>9. CASE Next
  BY <1>2, <1>3, <1>4, <1>5, <1>6, <1>7, <1>8, <1>9 DEF Next
<1>. QED
  BY <1>1, <1>9

\* The invariant holds for any number of pages, users, rooms, sockets and events.
THEOREM SyncInvariant == Spec => []Inv
<1>1. Init => Inv
  BY SyncAssumption, InitOK
<1>2. Inv /\ [Next]_vars => Inv'
  BY SyncAssumption, SyncStep
<1>. QED
  BY <1>1, <1>2, PTL DEF Spec

\* The types, and what a page's fields are to one another: its socket is its own
\* and not closed, a timer it knows is one that is set.
THEOREM SyncTypeOK == Spec => []TypeOK
<1>1. Inv => TypeOK
  BY DEF Inv
<1>. QED
  BY <1>1, SyncInvariant, PTL

\* addConnection() and removeConnection() keep RoomManager.userRoom the room of
\* every connection of a user, over evictions, reboots and restarts.
THEOREM SyncOneRoomPerUser == Spec => []OneRoomPerUser
<1>1. Inv => OneRoomPerUser
  BY DEF Inv, RosterOK, OneRoomPerUser, Owner, Home
<1>. QED
  BY <1>1, SyncInvariant, PTL

\* The room's connections are the sockets the server listens to, but for those
\* that closed while onConnection() awaited their URL.
THEOREM SyncRosterIsSockets == Spec => []RosterIsSockets
<1>1. Inv => RosterIsSockets
  BY DEF Inv, RosterOK, RosterIsSockets
<1>. QED
  BY <1>1, SyncInvariant, PTL

\* What a page presses is applied at most once and in the order it was pressed,
\* through control(), the outbox and flushOutbox(), over any number of sockets.
THEOREM SyncControlsInOrder == Spec => []ControlsInOrder
<1>1. Inv => ControlsInOrder
  BY DEF Inv
<1>. QED
  BY <1>1, SyncInvariant, PTL

\* With nothing under way the room believes of a page's presence what the page
\* told last, in onopen or by setPresent().
THEOREM SyncPresenceAgrees == Spec => []PresenceAgrees
<1>1. ASSUME Inv PROVE PresenceAgrees
  <2>. SUFFICES ASSUME NEW p \in Pages, Settled(p), ~sock[page[p].cur].missed
                PROVE  sock[page[p].cur].present = page[p].present
    BY DEF PresenceAgrees
  <2>. DEFINE s == page[p].cur
  <2>1. /\ s # NoSocket /\ sock[s].link /\ sock[s].client = "open" /\ sock[s].server = "joined"
        /\ ~\E m \in ToSet(sock[s].up) : m.type = "presence"
    BY DEF Settled
  <2>2. Believes(sock[s], page[p].present)
    BY <1>1, <2>1 DEF Inv, PagesOK, Kept, Heard, Believed
  <2>3. \A i \in DOMAIN sock[s].up : sock[s].up[i] \in ToSet(sock[s].up)
    BY DEF ToSet
  <2>. QED
    BY <2>1, <2>2, <2>3 DEF Believes
<1>2. Inv => PresenceAgrees
  BY <1>1
<1>. QED
  BY <1>2, SyncInvariant, PTL

=============================================================================
