-------------------------- MODULE RoomCardsProofs ---------------------------
(***************************************************************************)
(* What RoomCards promises, for any number of requests, playlists and      *)
(* messages, and however often people act and Telegram refuses.            *)
(***************************************************************************)
EXTENDS RoomCards, SequenceTheorems, TLAPS

Texts == {"none", "preparing", "queued", "now", "error", "deleted", "natural", "postponed",
          "skipped", "ended"}
Places == {NoCard} \cup Cards
SaysType == [text : Texts, track : Int, on : BOOLEAN]
EditType == [card : Places, says : SaysType, then : {"rest", "begin", "remember", "show"}]
EditBags == UNION {[S -> Nat \ {0}] : S \in SUBSET EditType}
TrackType == [id : Int, card : Places]
HallType == [cur : TrackType, queue : Seq(TrackType), playing : BOOLEAN]
DeskType ==
    [live : [card : Places, track : Int], shown : Places, offer : [Cards -> Int],
     chain : [Cards -> Seq(EditType)], loose : EditBags, sends : EditBags, ending : SUBSET Places]
AskedType == [pc : {"no", "under way", "planned", "over"}, starts : BOOLEAN, tracks : {1, 2}]

Recorded ==
    /\ asked \in [Requests -> AskedType]
    /\ excused \subseteq Cards /\ crossed \in BOOLEAN /\ moves \in 0..MaxMoves
\* What waits for a download.
CallType == [finished : TrackType, next : TrackType, reason : {"natural", "skip"}]

CardsTypeOK ==
    /\ Recorded /\ hall \in HallType /\ card \in [Cards -> SaysType] /\ desk \in DeskType
    /\ unfetched \subseteq Int /\ advances \subseteq CallType

\* The tracks there have been: what requests brought, and autoplay.
Known == {i \in Int : (i \in Requests => asked[i].pc = "over") /\ -moves <= i}

Queued(h) == ToSet(h.queue)
Tracks(h) == {h.cur} \cup Queued(h)
Chain(d, c) == ToSet(d.chain[c])
Sends(d) == BagToSet(d.sends)

\* A track and its card.
TrackOK(t, known) ==
    /\ t.id \in known
    /\ t.id = 0 => t.card = NoCard
    /\ t.card \in Requests => t.id = t.card
    /\ t.id \in Requests => t.card \in {NoCard, t.id}
    /\ t.id > MaxCards => t.card = NoCard

\* A request's track is queued once.
Once(q) == \A i, j \in DOMAIN q : q[i].id = q[j].id /\ q[i].id \in Requests => i = j

\* A track is in the room once, with one card.
HallOK(h, known) ==
    /\ h \in HallType
    /\ \A t \in Tracks(h) : TrackOK(t, known)
    /\ \A t \in Queued(h) : t.id # 0 /\ (t.id \in Requests => t.id # h.cur.id)
    /\ \A t, u \in Tracks(h) : t.id = u.id => t.card = u.card
    /\ Once(h.queue)

\* What is under way to a message.
Fits(e, c, known) ==
    /\ e \in EditType /\ e.card = c /\ e.says.text # "none"
    /\ e.says.text = "now" /\ c \in Requests => e.says.track = c
    /\ e.then \in {"begin", "show"}
        => e.says.text = "now" /\ e.says.track # 0 /\ e.says.track \in known
    /\ e.then = "begin" => e.says.on
InChain(e, c, known) ==
    /\ Fits(e, c, known) /\ e.then \in {"begin", "rest"}
    /\ e.then = "begin" =>
        e.says.track <= MaxCards /\ (e.says.track \in Requests => c = e.says.track)
InLoose(e, known) ==
    /\ Fits(e, e.card, known) /\ e.card # NoCard
    /\ IF e.then = "begin" THEN e.says.track \in Requests /\ e.card = e.says.track
       ELSE e.then # "show" /\ e.says.text # "now"
InSends(e, known) == Fits(e, NoCard, known) /\ e.then \in {"begin", "show"}
LiveOK(live, known) ==
    /\ live \in [card : Places, track : Int]
    /\ live.card = NoCard <=> live.track = 0
    /\ live.card \in Requests => live.track = live.card
    /\ live.track \in known
DeskOK(d, known) ==
    /\ d \in DeskType
    /\ \A c \in Cards : \A e \in Chain(d, c) : InChain(e, c, known)
    /\ \A e \in Loose(d) : InLoose(e, known)
    /\ \A e \in Sends(d) : InSends(e, known)
    /\ LiveOK(d.live, known) /\ d.shown \notin Requests

\* Only the card of a track is edited to be the live one.
Linked(h, d) ==
    \A c \in Cards : \A e \in Chain(d, c) : \A t \in Tracks(h) :
        e.then = "begin" /\ t.id = e.says.track => t.card = c

\* Messages that are not sent yet, and those of requests that go on.
Free(c, known, cd) == IF c \in Requests THEN c \notin known ELSE cd[c] = Blank
Unseen(c, h, d) ==
    /\ d.chain[c] = <<>> /\ d.live.card # c /\ d.shown # c /\ c \notin d.ending
    /\ \A e \in Loose(d) : e.card # c
    /\ \A t \in Tracks(h) : t.card # c

CardOK(cd) ==
    /\ cd \in [Cards -> SaysType]
    /\ \A r \in Requests : cd[r].text = "now" => cd[r].track = r

Sound(known, h, d, cd) ==
    /\ known \subseteq Int /\ 0 \in known
    /\ HallOK(h, known) /\ DeskOK(d, known) /\ Linked(h, d) /\ CardOK(cd)
    /\ \A c \in Cards : Free(c, known, cd) => Unseen(c, h, d) /\ cd[c].text # "now"

\* What a message will say when everything has arrived, and whether it will claim to play.
Final(c, d, cd) == IF d.chain[c] = <<>> THEN cd[c] ELSE Last(d.chain[c]).says
Claims(c, d, cd) == cd[c].text \notin {"none", "deleted"} /\ Final(c, d, cd).text = "now"

\* A request's message, unless excused: if it claims to play a track that is over,
\* something is under way to it; the card of a track that has none is the live one;
\* and such a track claims nothing while it is queued.
MovesOn(r, h, d, cd) == cd[r].text = "now" /\ h.cur.id # r => Pending(r, d)
IsLive(r, h, d, cd) == h.cur.id = r /\ h.cur.card # r /\ Claims(r, d, cd) => d.live.card = r
IsQuiet(r, h, d, cd) ==
    \A t \in Queued(h) : t.id = r /\ t.card = NoCard => ~Claims(r, d, cd) /\ d.live.card # r
Waits(r, h, d, cd) == IsLive(r, h, d, cd) /\ IsQuiet(r, h, d, cd)
Moving(h, d, cd, ex) ==
    \A r \in Requests \ ex : MovesOn(r, h, d, cd) /\ Waits(r, h, d, cd)

\* Messages that are the live one of the current track or about to be.
Begins(e, h) == e.then = "begin" /\ e.says.track = h.cur.id
Coming(c, h, d) ==
    \/ d.live = [card |-> c, track |-> h.cur.id]
    \/ \E e \in Chain(d, c) : Begins(e, h)
    \/ \E e \in Loose(d) : e.card = c /\ Begins(e, h)
\* They will have the button the room is in need of; a message that a request is about
\* to make the live one has shown no other.
Offers(c, h, d, cd) ==
    Coming(c, h, d) /\ Final(c, d, cd).text = "now" => Final(c, d, cd).on = h.playing
Fresh(e, h, d, cd) ==
    e.then = "begin" =>
        /\ Begins(e, h) => h.playing
        /\ cd[e.card].text = "now" => cd[e.card].on
        /\ \A f \in Chain(d, e.card) : f.says.text = "now" => f.says.on
Agreeing(h, d, cd, ex) ==
    /\ \A c \in Cards \ ex : Offers(c, h, d, cd)
    /\ \A e \in Loose(d) : Fresh(e, h, d, cd)

\* What holds of a room, its desk and the messages.
Good(known, h, d, cd, ex, x) ==
    Sound(known, h, d, cd) /\ Moving(h, d, cd, ex) /\ (x \/ Agreeing(h, d, cd, ex))

CardsInv == Recorded /\ Good(Known, hall, desk, card, excused, crossed)

-----------------------------------------------------------------------------
(* Sequences and bags.                                                     *)

(* What is appended is the last element, and the others stay.              *)
LEMMA AppendIs ==
    ASSUME NEW S, NEW q \in Seq(S), NEW e \in S
    PROVE  /\ Append(q, e) \in Seq(S) /\ Append(q, e) # <<>> /\ Last(Append(q, e)) = e
           /\ DOMAIN Append(q, e) = DOMAIN q \cup {Len(q) + 1} /\ Len(q) + 1 \notin DOMAIN q
           /\ Append(q, e)[Len(q) + 1] = e /\ \A i \in DOMAIN q : Append(q, e)[i] = q[i]
<1>1. Len(q) \in Nat /\ Append(q, e) \in Seq(S) /\ Len(Append(q, e)) = Len(q) + 1
      /\ DOMAIN q = 1..Len(q) /\ DOMAIN Append(q, e) = 1..(Len(q) + 1)
      /\ Append(q, e)[Len(q) + 1] = e /\ \A i \in 1..Len(q) : Append(q, e)[i] = q[i]
  OBVIOUS
<1>. QED
  BY <1>1 DEF Last

(* The elements after an element is appended.                              *)
LEMMA AppendElements ==
    ASSUME NEW S, NEW q \in Seq(S), NEW e \in S
    PROVE  ToSet(Append(q, e)) = ToSet(q) \cup {e}
  BY AppendIs DEF ToSet

(* The last of a queue is one of its elements.                             *)
LEMMA LastIsIn ==
    ASSUME NEW S, NEW q \in Seq(S), q # <<>>
    PROVE  Last(q) \in ToSet(q)
<1>1. Len(q) \in Nat \ {0} /\ DOMAIN q = 1..Len(q)
  OBVIOUS
<1>. QED
  BY <1>1 DEF Last, ToSet

(* Where the elements of a sequence are when one is taken out.             *)
LEMMA RemoveAtIs ==
    ASSUME NEW S, NEW q \in Seq(S), NEW k \in DOMAIN q
    PROVE  /\ RemoveAt(q, k) \in Seq(S) /\ Len(RemoveAt(q, k)) = Len(q) - 1
           /\ \A i \in DOMAIN RemoveAt(q, k) :
                RemoveAt(q, k)[i] = q[IF i < k THEN i ELSE i + 1]
<1>. DEFINE left == SubSeq(q, 1, k - 1)
            right == SubSeq(q, k + 1, Len(q))
            r == RemoveAt(q, k)
<1>1. Len(q) \in Nat /\ k \in Nat /\ 1 <= k /\ k <= Len(q) /\ DOMAIN q = 1..Len(q)
  OBVIOUS
<1>2. left \in Seq(S) /\ Len(left) = k - 1 /\ \A i \in 1..(k - 1) : left[i] = q[i]
  BY <1>1
<1>3. right \in Seq(S) /\ Len(right) = Len(q) - k /\ \A i \in 1..(Len(q) - k) : right[i] = q[k + i]
  BY <1>1
<1>4. r = left \o right
  BY DEF RemoveAt
<1>. HIDE DEF left, right, r
<1>5. /\ r \in Seq(S) /\ Len(r) = Len(left) + Len(right)
      /\ \A i \in 1..(Len(left) + Len(right)) :
            r[i] = IF i <= Len(left) THEN left[i] ELSE right[i - Len(left)]
  BY <1>2, <1>3, <1>4, ConcatProperties
<1>6. Len(r) = Len(q) - 1 /\ DOMAIN r = 1..(Len(q) - 1)
  BY <1>1, <1>2, <1>3, <1>5
<1>7. ASSUME NEW i \in 1..(Len(q) - 1) PROVE r[i] = IF i < k THEN left[i] ELSE right[i - (k - 1)]
  <2>1. Len(left) + Len(right) = Len(q) - 1 /\ (i <= Len(left) <=> i < k)
    BY <1>1, <1>2, <1>3
  <2>. QED
    BY <1>2, <1>5, <2>1
<1>8. ASSUME NEW i \in DOMAIN r PROVE r[i] = q[IF i < k THEN i ELSE i + 1]
  <2>1. i \in 1..(Len(q) - 1)
    BY <1>6
  <2>2. CASE i < k
    BY <1>1, <1>2, <1>7, <2>1, <2>2
  <2>3. CASE ~(i < k)
    <3>1. i - (k - 1) \in 1..(Len(q) - k) /\ k + (i - (k - 1)) = i + 1
      BY <1>1, <2>1, <2>3
    <3>2. r[i] = right[i - (k - 1)]
      BY <1>7, <2>1, <2>3
    <3>. QED
      BY <1>3, <2>3, <3>1, <3>2
  <2>. QED
    BY <2>2, <2>3
<1>. QED
  BY <1>5, <1>6, <1>8 DEF r

(* Taking the first leaves the rest with its last.                         *)
LEMMA FirstOut ==
    ASSUME NEW S, NEW q \in Seq(S), q # <<>>
    PROVE  LET r == RemoveAt(q, 1) IN
           /\ 1 \in DOMAIN q /\ q[1] \in S /\ r \in Seq(S)
           /\ \A i \in DOMAIN r : i + 1 \in DOMAIN q /\ r[i] = q[i + 1]
           /\ r # <<>> => Last(r) = Last(q)
           /\ r = <<>> => Last(q) = q[1]
<1>. DEFINE r == RemoveAt(q, 1)
<1>1. Len(q) \in Nat \ {0} /\ DOMAIN q = 1..Len(q) /\ 1 \in DOMAIN q /\ q[1] \in S
  OBVIOUS
<1>2. r \in Seq(S) /\ Len(r) = Len(q) - 1 /\ \A i \in DOMAIN r : r[i] = q[IF i < 1 THEN i ELSE i + 1]
  BY <1>1, RemoveAtIs
<1>. HIDE DEF r
<1>3. DOMAIN r = 1..(Len(q) - 1) /\ (r = <<>> <=> Len(q) = 1)
  BY <1>1, <1>2
<1>4. \A i \in DOMAIN r : i + 1 \in DOMAIN q /\ r[i] = q[i + 1]
  BY <1>1, <1>2, <1>3
<1>5. ASSUME r # <<>> PROVE Last(r) = Last(q)
  <2>1. Len(r) \in DOMAIN r /\ Len(r) + 1 = Len(q)
    BY <1>1, <1>2, <1>3, <1>5
  <2>. QED
    BY <1>4, <2>1 DEF Last
<1>. QED
  BY <1>1, <1>2, <1>3, <1>4, <1>5 DEF r, Last

(* Bags of edits.                                                          *)
LEMMA BagIs ==
    ASSUME NEW b
    PROVE  b \in EditBags <=> /\ DOMAIN b \subseteq EditType
                              /\ b \in [DOMAIN b -> Nat \ {0}]
<1>1. ASSUME b \in EditBags PROVE DOMAIN b \subseteq EditType /\ b \in [DOMAIN b -> Nat \ {0}]
  <2>1. PICK S \in SUBSET EditType : b \in [S -> Nat \ {0}]
    BY <1>1 DEF EditBags
  <2>. QED
    BY <2>1
<1>2. ASSUME DOMAIN b \subseteq EditType, b \in [DOMAIN b -> Nat \ {0}] PROVE b \in EditBags
  BY <1>2 DEF EditBags
<1>. QED
  BY <1>1, <1>2

(* An edit more.                                                           *)
LEMMA BagMore ==
    ASSUME NEW b \in EditBags, NEW e \in EditType
    PROVE  /\ b (+) SetToBag({e}) \in EditBags
           /\ BagToSet(b (+) SetToBag({e})) = BagToSet(b) \cup {e}
<1>. DEFINE r == b (+) SetToBag({e})
            n(x) == (IF x \in DOMAIN b THEN b[x] ELSE 0) + (IF x = e THEN 1 ELSE 0)
<1>1. SetToBag({e}) = [x \in {e} |-> 1]
  BY DEF SetToBag
<1>2. r = [x \in DOMAIN b \cup {e} |-> (IF x \in DOMAIN b THEN b[x] ELSE 0)
                                     + (IF x \in {e} THEN SetToBag({e})[x] ELSE 0)]
  BY <1>1 DEF (+)
<1>3. DOMAIN r = DOMAIN b \cup {e}
  BY <1>2
<1>4. ASSUME NEW x \in DOMAIN r PROVE r[x] \in Nat \ {0}
  <2>1. x \in DOMAIN b => b[x] \in Nat \ {0}
    BY BagIs
  <2>2. r[x] = n(x)
    BY <1>1, <1>2, <1>3
  <2>. QED
    BY <1>3, <2>1, <2>2
<1>5. r = [x \in DOMAIN r |-> r[x]]
  BY <1>2
<1>. HIDE DEF r
<1>6. r \in [DOMAIN r -> Nat \ {0}] /\ DOMAIN r \subseteq EditType
  BY <1>3, <1>4, <1>5, BagIs
<1>7. r \in EditBags
  BY <1>6, BagIs
<1>. QED
  BY <1>3, <1>7 DEF r, BagToSet

(* An edit less: of others, none is gone.                                  *)
LEMMA BagLess ==
    ASSUME NEW b \in EditBags, NEW e \in EditType
    PROVE  /\ b (-) SetToBag({e}) \in EditBags
           /\ BagToSet(b (-) SetToBag({e})) \subseteq BagToSet(b)
           /\ BagToSet(b) \subseteq BagToSet(b (-) SetToBag({e})) \cup {e}
<1>. DEFINE r == b (-) SetToBag({e})
            f == [x \in DOMAIN b |-> IF x \in DOMAIN SetToBag({e}) THEN b[x] - SetToBag({e})[x] ELSE b[x]]
<1>1. SetToBag({e}) = [x \in {e} |-> 1]
  BY DEF SetToBag
<1>2. r = [x \in {y \in DOMAIN f : f[y] > 0} |-> f[x]]
  BY DEF (-)
<1>3. ASSUME NEW x \in DOMAIN b
      PROVE  /\ f[x] = IF x = e THEN b[x] - 1 ELSE b[x]
             /\ b[x] \in Nat \ {0}
  BY <1>1, BagIs
<1>4. DOMAIN f = DOMAIN b
  OBVIOUS
<1>. HIDE DEF f
<1>5. DOMAIN r \subseteq DOMAIN b /\ \A x \in DOMAIN r : f[x] > 0 /\ r[x] = f[x]
  BY <1>2, <1>4
<1>6. ASSUME NEW x \in DOMAIN r PROVE r[x] \in Nat \ {0}
  BY <1>3, <1>5
<1>7. \A x \in DOMAIN b : x # e => x \in DOMAIN r
  BY <1>2, <1>3, <1>4
<1>8. r = [x \in DOMAIN r |-> r[x]]
  BY <1>2
<1>. HIDE DEF r
<1>9. r \in [DOMAIN r -> Nat \ {0}] /\ DOMAIN r \subseteq EditType
  BY <1>5, <1>6, <1>8, BagIs
<1>10. r \in EditBags
  BY <1>9, BagIs
<1>. QED
  BY <1>5, <1>7, <1>10 DEF r, BagToSet

(* The empty bag.                                                          *)
LEMMA BagEmpty == EmptyBag \in EditBags /\ BagToSet(EmptyBag) = {}
<1>1. EmptyBag = [x \in {} |-> 1]
  BY DEF EmptyBag, SetToBag
<1>2. DOMAIN EmptyBag = {} /\ EmptyBag \in [{} -> Nat \ {0}]
  BY <1>1
<1>. QED
  BY <1>2, BagIs DEF BagToSet


-----------------------------------------------------------------------------
(* What becomes of a desk.                                                 *)

\* The fields that nothing is under way in.
Sits(r, d) == r.live = d.live /\ r.shown = d.shown /\ r.ending = d.ending
Parked(r, d) == Loose(r) = Loose(d) /\ Sends(r) = Sends(d)

IsChained(r, d, c, e) ==
    /\ r \in DeskType /\ Sits(r, d) /\ Parked(r, d)
    /\ Chain(r, c) = Chain(d, c) \cup {e} /\ r.chain[c] # <<>> /\ Last(r.chain[c]) = e
    /\ \A x \in Cards \ {c} : r.chain[x] = d.chain[x] /\ Chain(r, x) = Chain(d, x)
IsLoosely(r, d, e) ==
    /\ r \in DeskType /\ Sits(r, d) /\ r.chain = d.chain
    /\ Loose(r) = Loose(d) \cup {e} /\ Sends(r) = Sends(d)
IsSending(r, d, e) ==
    /\ r \in DeskType /\ Sits(r, d) /\ r.chain = d.chain
    /\ Loose(r) = Loose(d) /\ Sends(r) = Sends(d) \cup {e}

\* The first edit of a message is done.
FirstDone(r, d, c) ==
    /\ r \in DeskType /\ Sits(r, d) /\ Parked(r, d)
    /\ d.chain[c][1] \in Chain(d, c) /\ Chain(r, c) \subseteq Chain(d, c)
    /\ r.chain[c] # <<>> => Last(r.chain[c]) = Last(d.chain[c])
    /\ r.chain[c] = <<>> => Last(d.chain[c]) = d.chain[c][1]
    /\ \A x \in Cards \ {c} : r.chain[x] = d.chain[x] /\ Chain(r, x) = Chain(d, x)
LooseDone(r, d, e) ==
    /\ r \in DeskType /\ Sits(r, d) /\ r.chain = d.chain
    /\ Loose(r) \subseteq Loose(d) /\ Loose(d) \subseteq Loose(r) \cup {e} /\ Sends(r) = Sends(d)
SendDone(r, d) ==
    /\ r \in DeskType /\ Sits(r, d) /\ r.chain = d.chain
    /\ Loose(r) = Loose(d) /\ Sends(r) \subseteq Sends(d)

\* Another live card, another shown one, another /end under way.
Turned(r, d, live, shown, ending) ==
    /\ r \in DeskType /\ r.live = live /\ r.shown = shown /\ r.ending = ending
    /\ Parked(r, d) /\ r.chain = d.chain

(* An edit joins the others of its message.                                *)
LEMMA ChainedIs ==
    ASSUME NEW d \in DeskType, NEW c \in Cards, NEW e \in EditType
    PROVE  IsChained(Chained(d, c, e), d, c, e)
<1>. DEFINE r == Chained(d, c, e)
            v == [d.chain EXCEPT ![c] = Append(d.chain[c], e)]
<1>1. v \in [Cards -> Seq(EditType)]
  BY DEF DeskType
<1>2. r = [d EXCEPT !.chain = v]
  BY DEF Chained
<1>. DEFINE q == d.chain[c]
            p == Append(q, e)
<1>3. /\ v[c] = p /\ \A x \in Cards \ {c} : v[x] = d.chain[x]
      /\ p # <<>> /\ Last(p) = e
      /\ ToSet(p) = ToSet(q) \cup {e}
  <2>1. q \in Seq(EditType) /\ v[c] = p /\ \A x \in Cards \ {c} : v[x] = d.chain[x]
    BY DEF DeskType
  <2>. QED
    BY <2>1, AppendIs, AppendElements
<1>. HIDE DEF p
<1>. HIDE DEF v, r
<1>4. /\ r \in DeskType
      /\ r.live = d.live /\ r.shown = d.shown /\ r.ending = d.ending /\ r.loose = d.loose
      /\ r.sends = d.sends /\ r.offer = d.offer /\ r.chain = v
  BY <1>1, <1>2 DEF DeskType
<1>5. Chain(r, c) = Chain(d, c) \cup {e} /\ \A x \in Cards \ {c} : Chain(r, x) = Chain(d, x)
  BY <1>3, <1>4 DEF Chain, ToSet
<1>. QED
  BY <1>3, <1>4, <1>5 DEF IsChained, Sits, Parked, Loose, Sends, r

(* An edit outside of the chains.                                          *)
LEMMA LooselyIs ==
    ASSUME NEW d \in DeskType, NEW e \in EditType
    PROVE  IsLoosely(Loosely(d, e), d, e)
<1>. DEFINE r == Loosely(d, e)
            v == d.loose (+) SetToBag({e})
<1>1. v \in EditBags
  BY BagMore DEF DeskType
<1>2. r = [d EXCEPT !.loose = v]
  BY DEF Loosely
<1>3. BagToSet(v) = BagToSet(d.loose) \cup {e}
  BY BagMore DEF DeskType
<1>. HIDE DEF v, r
<1>4. /\ r \in DeskType
      /\ r.live = d.live /\ r.shown = d.shown /\ r.ending = d.ending /\ r.loose = v
      /\ r.sends = d.sends /\ r.offer = d.offer /\ r.chain = d.chain
  BY <1>1, <1>2 DEF DeskType
<1>. QED
  BY <1>3, <1>4 DEF IsLoosely, Sits, Loose, Sends, r

(* A message to be sent.                                                   *)
LEMMA SendingIs ==
    ASSUME NEW d \in DeskType, NEW e \in EditType
    PROVE  IsSending(Sending(d, e), d, e)
<1>. DEFINE r == Sending(d, e)
            v == d.sends (+) SetToBag({e})
<1>1. v \in EditBags
  BY BagMore DEF DeskType
<1>2. r = [d EXCEPT !.sends = v]
  BY DEF Sending
<1>3. BagToSet(v) = BagToSet(d.sends) \cup {e}
  BY BagMore DEF DeskType
<1>. HIDE DEF v, r
<1>4. /\ r \in DeskType
      /\ r.live = d.live /\ r.shown = d.shown /\ r.ending = d.ending /\ r.loose = d.loose
      /\ r.sends = v /\ r.offer = d.offer /\ r.chain = d.chain
  BY <1>1, <1>2 DEF DeskType
<1>. QED
  BY <1>3, <1>4 DEF IsSending, Sits, Loose, Sends, r

(* The first edit of a chain goes.                                         *)
LEMMA FirstDoneIs ==
    ASSUME NEW d \in DeskType, NEW c \in Cards, d.chain[c] # <<>>
    PROVE  FirstDone([d EXCEPT !.chain[c] = RemoveAt(@, 1)], d, c)
<1>. DEFINE r == [d EXCEPT !.chain[c] = RemoveAt(@, 1)]
            v == [d.chain EXCEPT ![c] = RemoveAt(d.chain[c], 1)]
<1>1. v \in [Cards -> Seq(EditType)]
  BY FirstOut DEF DeskType
<1>2. r = [d EXCEPT !.chain = v]
  OBVIOUS
<1>. DEFINE q == d.chain[c]
            p == RemoveAt(q, 1)
<1>3. /\ v[c] = p /\ \A x \in Cards \ {c} : v[x] = d.chain[x]
      /\ 1 \in DOMAIN q /\ \A i \in DOMAIN p : i + 1 \in DOMAIN q /\ p[i] = q[i + 1]
      /\ p # <<>> => Last(p) = Last(q)
      /\ p = <<>> => Last(q) = q[1]
  <2>1. q \in Seq(EditType) /\ v[c] = p /\ \A x \in Cards \ {c} : v[x] = d.chain[x]
    BY DEF DeskType
  <2>. QED
    BY <2>1, FirstOut
<1>. HIDE DEF p
<1>. HIDE DEF v, r
<1>4. /\ r \in DeskType
      /\ r.live = d.live /\ r.shown = d.shown /\ r.ending = d.ending /\ r.loose = d.loose
      /\ r.sends = d.sends /\ r.offer = d.offer /\ r.chain = v
  BY <1>1, <1>2 DEF DeskType
<1>5. /\ q[1] \in Chain(d, c) /\ Chain(r, c) \subseteq Chain(d, c)
      /\ \A x \in Cards \ {c} : Chain(r, x) = Chain(d, x)
  BY <1>3, <1>4 DEF Chain, ToSet
<1>. QED
  BY <1>3, <1>4, <1>5 DEF FirstDone, Sits, Parked, Loose, Sends, r

(* An edit outside of the chains is done.                                  *)
LEMMA LooseDoneIs ==
    ASSUME NEW d \in DeskType, NEW e \in EditType
    PROVE  LooseDone([d EXCEPT !.loose = @ (-) SetToBag({e})], d, e)
<1>. DEFINE r == [d EXCEPT !.loose = @ (-) SetToBag({e})]
            v == d.loose (-) SetToBag({e})
<1>1. v \in EditBags
  BY BagLess DEF DeskType
<1>2. r = [d EXCEPT !.loose = v]
  OBVIOUS
<1>3. BagToSet(v) \subseteq BagToSet(d.loose) /\ BagToSet(d.loose) \subseteq BagToSet(v) \cup {e}
  BY BagLess DEF DeskType
<1>. HIDE DEF v, r
<1>4. /\ r \in DeskType
      /\ r.live = d.live /\ r.shown = d.shown /\ r.ending = d.ending /\ r.loose = v
      /\ r.sends = d.sends /\ r.offer = d.offer /\ r.chain = d.chain
  BY <1>1, <1>2 DEF DeskType
<1>. QED
  BY <1>3, <1>4 DEF LooseDone, Sits, Loose, Sends, r

(* A message is sent, or is not.                                           *)
LEMMA SendDoneIs ==
    ASSUME NEW d \in DeskType, NEW e \in EditType
    PROVE  SendDone([d EXCEPT !.sends = @ (-) SetToBag({e})], d)
<1>. DEFINE r == [d EXCEPT !.sends = @ (-) SetToBag({e})]
            v == d.sends (-) SetToBag({e})
<1>1. v \in EditBags
  BY BagLess DEF DeskType
<1>2. r = [d EXCEPT !.sends = v]
  OBVIOUS
<1>3. BagToSet(v) \subseteq BagToSet(d.sends)
  BY BagLess DEF DeskType
<1>. HIDE DEF v, r
<1>4. /\ r \in DeskType
      /\ r.live = d.live /\ r.shown = d.shown /\ r.ending = d.ending /\ r.loose = d.loose
      /\ r.sends = v /\ r.offer = d.offer /\ r.chain = d.chain
  BY <1>1, <1>2 DEF DeskType
<1>. QED
  BY <1>3, <1>4 DEF SendDone, Sits, Loose, Sends, r

\* The types of what is turned to.
LiveType == [card : Places, track : Int]

(* Another live card.                                                      *)
LEMMA LiveIs ==
    ASSUME NEW d \in DeskType, NEW l \in LiveType
    PROVE  Turned([d EXCEPT !.live = l], d, l, d.shown, d.ending)
<1>. DEFINE r == [d EXCEPT !.live = l]
<1>1. /\ r \in DeskType
      /\ r.live = l /\ r.shown = d.shown /\ r.ending = d.ending /\ r.loose = d.loose
      /\ r.sends = d.sends /\ r.offer = d.offer /\ r.chain = d.chain
  BY DEF DeskType, LiveType
<1>. HIDE DEF r
<1>. QED
  BY <1>1 DEF Turned, Parked, Loose, Sends, r

(* Another card of /playing.                                               *)
LEMMA ShownIs ==
    ASSUME NEW d \in DeskType, NEW c \in Places
    PROVE  Turned([d EXCEPT !.shown = c], d, d.live, c, d.ending)
<1>. DEFINE r == [d EXCEPT !.shown = c]
<1>1. /\ r \in DeskType
      /\ r.live = d.live /\ r.shown = c /\ r.ending = d.ending /\ r.loose = d.loose
      /\ r.sends = d.sends /\ r.offer = d.offer /\ r.chain = d.chain
  BY DEF DeskType
<1>. HIDE DEF r
<1>. QED
  BY <1>1 DEF Turned, Parked, Loose, Sends, r

(* An /end more, or less.                                                  *)
LEMMA EndingIs ==
    ASSUME NEW d \in DeskType, NEW S \in SUBSET Places
    PROVE  Turned([d EXCEPT !.ending = S], d, d.live, d.shown, S)
<1>. DEFINE r == [d EXCEPT !.ending = S]
<1>1. /\ r \in DeskType
      /\ r.live = d.live /\ r.shown = d.shown /\ r.ending = S /\ r.loose = d.loose
      /\ r.sends = d.sends /\ r.offer = d.offer /\ r.chain = d.chain
  BY DEF DeskType
<1>. HIDE DEF r
<1>. QED
  BY <1>1 DEF Turned, Parked, Loose, Sends, r

(* What a queued card offers.                                              *)
LEMMA OfferIs ==
    ASSUME NEW d \in DeskType, NEW c \in Cards, NEW t \in Int
    PROVE  Turned([d EXCEPT !.offer[c] = t], d, d.live, d.shown, d.ending)
<1>. DEFINE r == [d EXCEPT !.offer[c] = t]
<1>1. /\ r \in DeskType
      /\ r.live = d.live /\ r.shown = d.shown /\ r.ending = d.ending /\ r.loose = d.loose
      /\ r.sends = d.sends /\ r.offer = [d.offer EXCEPT ![c] = t] /\ r.chain = d.chain
  BY DEF DeskType
<1>. HIDE DEF r
<1>. QED
  BY <1>1 DEF Turned, Parked, Loose, Sends, r

-----------------------------------------------------------------------------
(* What keeps a place sound.                                               *)

\* There is a message, or will be: a track or an edit may name it.
Taken(c, known, cd) == c \in Places /\ (c \in Cards => ~Free(c, known, cd))

(* Tracks there have been stay known.                                      *)
LEMMA OldGrows ==
    ASSUME NEW k, NEW j, NEW h, NEW d, NEW cd, Sound(k, h, d, cd), k \subseteq j, j \subseteq Int
    PROVE  Sound(j, h, d, cd)
<1>1. HallOK(h, j)
  BY DEF Sound, HallOK, TrackOK
<1>2. DeskOK(d, j)
  <2>1. DeskOK(d, k)
    BY DEF Sound
  <2>2. \A e, c : Fits(e, c, k) => Fits(e, c, j)
    BY DEF Fits
  <2>. QED
    BY <2>1, <2>2 DEF DeskOK, InChain, InLoose, InSends, LiveOK
<1>3. \A c \in Cards : Free(c, j, cd) => Free(c, k, cd)
  BY DEF Free
<1>. QED
  BY <1>1, <1>2, <1>3 DEF Sound

(* An edit in a chain.                                                     *)
LEMMA SoundChained ==
    ASSUME NEW k, NEW h, NEW d, NEW cd, Sound(k, h, d, cd), NEW c \in Cards, NEW e, NEW r,
           IsChained(r, d, c, e), InChain(e, c, k), ~Free(c, k, cd),
           e.then = "begin" => \A t \in Tracks(h) : t.id = e.says.track => t.card = c
    PROVE  Sound(k, h, r, cd)
<1>1. DeskOK(r, k)
  <2>1. DeskOK(d, k)
    BY DEF Sound
  <2>2. ASSUME NEW x \in Cards, NEW f \in Chain(r, x) PROVE InChain(f, x, k)
    <3>1. CASE x = c
      BY <2>1, <2>2, <3>1 DEF DeskOK, IsChained
    <3>2. CASE x # c
      BY <2>1, <2>2, <3>2 DEF DeskOK, IsChained
    <3>. QED
      BY <3>1, <3>2
  <2>. QED
    BY <2>1, <2>2 DEF DeskOK, IsChained, Sits, Parked
<1>2. Linked(h, r)
  <2>1. Linked(h, d)
    BY DEF Sound
  <2>2. ASSUME NEW x \in Cards, NEW f \in Chain(r, x), NEW t \in Tracks(h), f.then = "begin", t.id = f.says.track
        PROVE  t.card = x
    <3>1. CASE x = c
      BY <2>1, <2>2, <3>1 DEF Linked, IsChained
    <3>2. CASE x # c
      BY <2>1, <2>2, <3>2 DEF Linked, IsChained
    <3>. QED
      BY <3>1, <3>2
  <2>. QED
    BY <2>2 DEF Linked
<1>3. ASSUME NEW x \in Cards, Free(x, k, cd) PROVE Unseen(x, h, r) /\ cd[x].text # "now"
  <2>1. Unseen(x, h, d) /\ cd[x].text # "now" /\ x # c
    BY <1>3 DEF Sound
  <2>. QED
    BY <2>1 DEF Unseen, IsChained, Sits, Parked
<1>. QED
  BY <1>1, <1>2, <1>3 DEF Sound

(* An edit outside of the chains.                                          *)
LEMMA SoundLoosely ==
    ASSUME NEW k, NEW h, NEW d, NEW cd, Sound(k, h, d, cd), NEW e, NEW r,
           IsLoosely(r, d, e), InLoose(e, k), ~Free(e.card, k, cd)
    PROVE  Sound(k, h, r, cd)
<1>1. \A c \in Cards : Chain(r, c) = Chain(d, c)
  BY DEF IsLoosely, Chain
<1>2. DeskOK(r, k)
  BY <1>1 DEF Sound, DeskOK, IsLoosely, Sits
<1>3. Linked(h, r)
  BY <1>1 DEF Sound, Linked
<1>4. ASSUME NEW x \in Cards, Free(x, k, cd) PROVE Unseen(x, h, r) /\ cd[x].text # "now"
  <2>1. Unseen(x, h, d) /\ cd[x].text # "now" /\ x # e.card
    BY <1>4 DEF Sound
  <2>. QED
    BY <2>1 DEF Unseen, IsLoosely, Sits
<1>. QED
  BY <1>2, <1>3, <1>4 DEF Sound

(* A message to be sent.                                                   *)
LEMMA SoundSending ==
    ASSUME NEW k, NEW h, NEW d, NEW cd, Sound(k, h, d, cd), NEW e, NEW r,
           IsSending(r, d, e), InSends(e, k)
    PROVE  Sound(k, h, r, cd)
<1>1. \A c \in Cards : Chain(r, c) = Chain(d, c)
  BY DEF IsSending, Chain
<1>2. DeskOK(r, k)
  BY <1>1 DEF Sound, DeskOK, IsSending, Sits
<1>3. Linked(h, r)
  BY <1>1 DEF Sound, Linked
<1>4. ASSUME NEW x \in Cards, Free(x, k, cd) PROVE Unseen(x, h, r) /\ cd[x].text # "now"
  <2>1. Unseen(x, h, d) /\ cd[x].text # "now"
    BY <1>4 DEF Sound
  <2>. QED
    BY <2>1 DEF Unseen, IsSending, Sits
<1>. QED
  BY <1>2, <1>3, <1>4 DEF Sound

(* The first edit of a chain is done.                                      *)
LEMMA SoundFirst ==
    ASSUME NEW k, NEW h, NEW d, NEW cd, Sound(k, h, d, cd), NEW c \in Cards, d.chain[c] # <<>>,
           NEW r, FirstDone(r, d, c)
    PROVE  Sound(k, h, r, cd) /\ ~Free(c, k, cd)
<1>1. \A x \in Cards : Chain(r, x) \subseteq Chain(d, x)
  BY DEF FirstDone
<1>2. DeskOK(r, k)
  BY <1>1 DEF Sound, DeskOK, FirstDone, Sits, Parked
<1>3. Linked(h, r)
  BY <1>1 DEF Sound, Linked
<1>4. ASSUME NEW x \in Cards, Free(x, k, cd) PROVE Unseen(x, h, r) /\ cd[x].text # "now" /\ x # c
  <2>1. Unseen(x, h, d) /\ cd[x].text # "now"
    BY <1>4 DEF Sound
  <2>2. x # c
    BY <2>1 DEF Unseen
  <2>. QED
    BY <2>1, <2>2 DEF Unseen, FirstDone, Sits, Parked
<1>. QED
  BY <1>2, <1>3, <1>4 DEF Sound

(* An edit outside of the chains is done.                                  *)
LEMMA SoundLoose ==
    ASSUME NEW k, NEW h, NEW d, NEW cd, Sound(k, h, d, cd), NEW e \in Loose(d), NEW r, LooseDone(r, d, e)
    PROVE  Sound(k, h, r, cd) /\ e.card \in Cards /\ ~Free(e.card, k, cd)
<1>1. \A x \in Cards : Chain(r, x) = Chain(d, x)
  BY DEF LooseDone, Chain
<1>2. DeskOK(r, k)
  BY <1>1 DEF Sound, DeskOK, LooseDone, Sits
<1>3. Linked(h, r)
  BY <1>1 DEF Sound, Linked
<1>4. e.card \in Cards
  BY DEF Sound, DeskOK, InLoose, Fits, EditType, Places
<1>5. ASSUME NEW x \in Cards, Free(x, k, cd) PROVE Unseen(x, h, r) /\ cd[x].text # "now" /\ x # e.card
  <2>1. Unseen(x, h, d) /\ cd[x].text # "now"
    BY <1>5 DEF Sound
  <2>2. x # e.card
    BY <2>1 DEF Unseen
  <2>. QED
    BY <2>1, <2>2 DEF Unseen, LooseDone, Sits
<1>. QED
  BY <1>2, <1>3, <1>4, <1>5 DEF Sound

(* A message is sent, or is not.                                           *)
LEMMA SoundSend ==
    ASSUME NEW k, NEW h, NEW d, NEW cd, Sound(k, h, d, cd), NEW r, SendDone(r, d)
    PROVE  Sound(k, h, r, cd)
<1>1. \A x \in Cards : Chain(r, x) = Chain(d, x)
  BY DEF SendDone, Chain
<1>2. DeskOK(r, k)
  BY <1>1 DEF Sound, DeskOK, SendDone, Sits
<1>3. Linked(h, r)
  BY <1>1 DEF Sound, Linked
<1>4. ASSUME NEW x \in Cards, Free(x, k, cd) PROVE Unseen(x, h, r) /\ cd[x].text # "now"
  <2>1. Unseen(x, h, d) /\ cd[x].text # "now"
    BY <1>4 DEF Sound
  <2>. QED
    BY <2>1 DEF Unseen, SendDone, Sits
<1>. QED
  BY <1>2, <1>3, <1>4 DEF Sound

(* Another live card, another shown one, another /end under way.           *)
LEMMA SoundTurned ==
    ASSUME NEW k, NEW h, NEW d, NEW cd, Sound(k, h, d, cd), NEW r, NEW live, NEW shown, NEW ending,
           Turned(r, d, live, shown, ending), LiveOK(live, k), shown \notin Requests,
           Taken(live.card, k, cd), Taken(shown, k, cd), \A c \in ending : Taken(c, k, cd)
    PROVE  Sound(k, h, r, cd)
<1>1. \A x \in Cards : Chain(r, x) = Chain(d, x)
  BY DEF Turned, Chain
<1>2. DeskOK(r, k)
  BY <1>1 DEF Sound, DeskOK, Turned, Parked
<1>3. Linked(h, r)
  BY <1>1 DEF Sound, Linked
<1>4. ASSUME NEW x \in Cards, Free(x, k, cd) PROVE Unseen(x, h, r) /\ cd[x].text # "now"
  <2>1. Unseen(x, h, d) /\ cd[x].text # "now"
    BY <1>4 DEF Sound
  <2>2. x # live.card /\ x # shown /\ x \notin ending
    BY <1>4 DEF Taken
  <2>. QED
    BY <2>1, <2>2 DEF Unseen, Turned, Parked
<1>. QED
  BY <1>2, <1>3, <1>4 DEF Sound

(* The room changes.                                                       *)
LEMMA SoundHall ==
    ASSUME NEW k, NEW h, NEW d, NEW cd, Sound(k, h, d, cd), NEW g,
           HallOK(g, k), Linked(g, d), \A t \in Tracks(g) : Taken(t.card, k, cd)
    PROVE  Sound(k, g, d, cd)
<1>1. ASSUME NEW x \in Cards, Free(x, k, cd) PROVE Unseen(x, g, d) /\ cd[x].text # "now"
  <2>1. Unseen(x, h, d) /\ cd[x].text # "now"
    BY <1>1 DEF Sound
  <2>2. \A t \in Tracks(g) : t.card # x
    BY <1>1 DEF Taken
  <2>. QED
    BY <2>1, <2>2 DEF Unseen
<1>. QED
  BY <1>1 DEF Sound

(* Messages say something else.                                            *)
LEMMA SoundCard ==
    ASSUME NEW k, NEW h, NEW d, NEW cd, Sound(k, h, d, cd), NEW ce, CardOK(ce),
           \A x \in Cards : Free(x, k, ce) => Free(x, k, cd) /\ ce[x].text # "now"
    PROVE  Sound(k, h, d, ce)
  BY DEF Sound

(* The tracks of a room.                                                   *)
LEMMA TracksTyped ==
    ASSUME NEW h \in HallType
    PROVE  h.cur \in TrackType /\ \A i \in DOMAIN h.queue : h.queue[i] \in TrackType
<1>1. h.cur \in TrackType /\ h.queue \in Seq(TrackType)
  BY DEF HallType
<1>. QED
  BY <1>1

(* What a sound place names is taken.                                      *)
LEMMA SoundTaken ==
    ASSUME NEW k, NEW h, NEW d, NEW cd, Sound(k, h, d, cd)
    PROVE  /\ Taken(d.live.card, k, cd) /\ Taken(d.shown, k, cd) /\ \A c \in d.ending : Taken(c, k, cd)
           /\ \A t \in Tracks(h) : Taken(t.card, k, cd)
<1>1. /\ d.live.card \in Places /\ d.shown \in Places /\ d.ending \subseteq Places
      /\ \A t \in Tracks(h) : t.card \in Places
  <2>1. d \in DeskType /\ h \in HallType
    BY DEF Sound, DeskOK, HallOK
  <2>2. d.live.card \in Places /\ d.shown \in Places /\ d.ending \subseteq Places
    BY <2>1 DEF DeskType
  <2>3. \A t \in Tracks(h) : t \in TrackType
    BY <2>1, TracksTyped DEF Tracks, Queued, ToSet
  <2>. QED
    BY <2>2, <2>3 DEF TrackType
<1>2. \A x \in Cards : Free(x, k, cd) => Unseen(x, h, d)
  BY DEF Sound
<1>. QED
  BY <1>1, <1>2 DEF Taken, Unseen

(* No message and an old one are taken.                                    *)
LEMMA Takes ==
    ASSUME NEW k, NEW cd, NEW c \in Cards
    PROVE  /\ Taken(NoCard, k, cd)
           /\ Taken(c, k, cd) <=> ~Free(c, k, cd)
  BY CardsAssumption DEF Taken, Places, NoCard, Cards

-----------------------------------------------------------------------------
(* What keeps the promises of a place.                                     *)

(* A message is told that it does not play.                                *)
LEMMA MovingTold ==
    ASSUME NEW h, NEW d, NEW cd, NEW ex, NEW c \in Cards, NEW e, NEW r, IsChained(r, d, c, e),
           e.says.text # "now", Moving(h, d, cd, ex \cup {c}), Moving(h, d, cd, ex) \/ d.live.card # c
    PROVE  Moving(h, r, cd, ex)
<1>1. SUFFICES ASSUME NEW q \in Requests \ ex PROVE MovesOn(q, h, r, cd) /\ Waits(q, h, r, cd)
  BY DEF Moving
<1>2. q \in Cards /\ r.live = d.live
  BY CardsAssumption DEF Cards, IsChained, Sits
<1>3. CASE q = c
  <2>1. Pending(q, r)
    BY <1>3 DEF Pending, IsChained
  <2>2. ~Claims(q, r, cd)
    BY <1>3 DEF Claims, Final, IsChained
  <2>3. IsQuiet(q, h, r, cd)
    BY <1>1, <1>2, <1>3, <2>2 DEF IsQuiet, Moving, Waits
  <2>. QED
    BY <2>1, <2>2, <2>3 DEF MovesOn, Waits, IsLive
<1>4. CASE q # c
  <2>1. MovesOn(q, h, d, cd) /\ Waits(q, h, d, cd)
    BY <1>1, <1>4 DEF Moving
  <2>2. Pending(q, d) => Pending(q, r)
    BY <1>2, <1>4 DEF Pending, IsChained, Sits, Parked
  <2>3. Claims(q, r, cd) = Claims(q, d, cd)
    BY <1>2, <1>4 DEF Claims, Final, IsChained
  <2>. QED
    BY <1>2, <2>1, <2>2, <2>3 DEF MovesOn, Waits, IsLive, IsQuiet
<1>. QED
  BY <1>3, <1>4

(* Nor does it matter to the buttons.                                      *)
LEMMA AgreeingTold ==
    ASSUME NEW h, NEW d, NEW cd, NEW ex, NEW c \in Cards, NEW e, NEW r, IsChained(r, d, c, e),
           e.says.text # "now", e.then = "rest", Agreeing(h, d, cd, ex),
           \A f \in Loose(d) : f.card \in Cards
    PROVE  Agreeing(h, r, cd, ex)
<1>1. ASSUME NEW x \in Cards \ ex PROVE Offers(x, h, r, cd)
  <2>1. Offers(x, h, d, cd)
    BY DEF Agreeing
  <2>2. CASE x = c
    BY <2>2 DEF Offers, Final, IsChained
  <2>3. CASE x # c
    <3>1. Coming(x, h, r) => Coming(x, h, d)
      BY <2>3 DEF Coming, IsChained, Sits, Parked
    <3>2. Final(x, r, cd) = Final(x, d, cd)
      BY <2>3 DEF Final, IsChained
    <3>. QED
      BY <2>1, <3>1, <3>2 DEF Offers
  <2>. QED
    BY <2>2, <2>3
<1>2. ASSUME NEW f \in Loose(r) PROVE Fresh(f, h, r, cd)
  <2>1. f \in Loose(d) /\ Fresh(f, h, d, cd) /\ f.card \in Cards
    BY <1>2 DEF Agreeing, IsChained, Parked
  <2>2. Chain(r, f.card) \subseteq Chain(d, f.card) \cup {e}
    BY <2>1 DEF IsChained
  <2>. QED
    BY <2>1, <2>2 DEF Fresh
<1>. QED
  BY <1>1, <1>2 DEF Agreeing

(* Messages on their way outside of the chains.                            *)
LEMMA LooseCards ==
    ASSUME NEW k, NEW h, NEW d, NEW cd, Sound(k, h, d, cd)
    PROVE  \A f \in Loose(d) : f.card \in Cards /\ f \in EditType
  BY DEF Sound, DeskOK, InLoose, Fits, EditType, Places

(* A place stays good when a message is told that it does not play.        *)
LEMMA GoodTold ==
    ASSUME NEW k, NEW h, NEW d, NEW cd, NEW ex, NEW x, Good(k, h, d, cd, ex, x),
           NEW c \in Cards, NEW e, NEW r, IsChained(r, d, c, e),
           e.says.text # "now", e.then = "rest", Fits(e, c, k), ~Free(c, k, cd)
    PROVE  Good(k, h, r, cd, ex, x)
<1>1. Sound(k, h, d, cd) /\ Moving(h, d, cd, ex) /\ (x \/ Agreeing(h, d, cd, ex))
  BY DEF Good
<1>2. Sound(k, h, r, cd)
  <2>1. InChain(e, c, k)
    BY DEF InChain
  <2>. QED
    BY <1>1, <2>1, SoundChained
<1>3. Moving(h, r, cd, ex)
  <2>1. Moving(h, d, cd, ex \cup {c})
    BY <1>1 DEF Moving
  <2>. QED
    BY <1>1, <2>1, MovingTold
<1>4. x \/ Agreeing(h, r, cd, ex)
  <2>1. \A f \in Loose(d) : f.card \in Cards
    BY <1>1, LooseCards
  <2>. QED
    BY <1>1, <2>1, AgreeingTold
<1>. QED
  BY <1>2, <1>3, <1>4 DEF Good

\* Two desks that are the same but for what is being sent and what is offered.
Alike(r, d) ==
    /\ r.live = d.live /\ r.chain = d.chain /\ r.ending = d.ending /\ Loose(r) = Loose(d)

(* What the promises do not speak of.                                      *)
LEMMA PromisesAlike ==
    ASSUME NEW h, NEW d, NEW cd, NEW ex, NEW r, Alike(r, d)
    PROVE  /\ Moving(h, d, cd, ex) => Moving(h, r, cd, ex)
           /\ Agreeing(h, d, cd, ex) => Agreeing(h, r, cd, ex)
<1>1. \A q : Pending(q, r) = Pending(q, d) /\ Claims(q, r, cd) = Claims(q, d, cd) /\ Chain(r, q) = Chain(d, q)
             /\ Final(q, r, cd) = Final(q, d, cd)
  BY DEF Pending, Claims, Final, Chain, Alike
<1>2. ASSUME Moving(h, d, cd, ex) PROVE Moving(h, r, cd, ex)
  BY <1>1, <1>2 DEF Moving, MovesOn, Waits, IsLive, IsQuiet, Alike
<1>3. ASSUME Agreeing(h, d, cd, ex) PROVE Agreeing(h, r, cd, ex)
  <2>1. \A c : Offers(c, h, d, cd) => Offers(c, h, r, cd)
    BY <1>1 DEF Offers, Coming, Alike
  <2>2. \A f : Fresh(f, h, d, cd) => Fresh(f, h, r, cd)
    BY <1>1 DEF Fresh
  <2>. QED
    BY <1>3, <2>1, <2>2 DEF Agreeing, Alike
<1>. QED
  BY <1>2, <1>3

(* A message to be sent.                                                   *)
LEMMA GoodSending ==
    ASSUME NEW k, NEW h, NEW d, NEW cd, NEW ex, NEW x, Good(k, h, d, cd, ex, x),
           NEW e, NEW r, IsSending(r, d, e), InSends(e, k)
    PROVE  Good(k, h, r, cd, ex, x)
<1>1. Alike(r, d)
  BY DEF Alike, IsSending, Sits
<1>. QED
  BY <1>1, PromisesAlike, SoundSending DEF Good

(* One that is not sent.                                                   *)
LEMMA GoodSend ==
    ASSUME NEW k, NEW h, NEW d, NEW cd, NEW ex, NEW x, Good(k, h, d, cd, ex, x),
           NEW r, SendDone(r, d)
    PROVE  Good(k, h, r, cd, ex, x)
<1>1. Alike(r, d)
  BY DEF Alike, SendDone, Sits
<1>. QED
  BY <1>1, PromisesAlike, SoundSend DEF Good

(* An edit outside of the chains that will make no message the live one
   breaks no promise.                                                      *)
LEMMA LooselyKeeps ==
    ASSUME NEW h, NEW d, NEW cd, NEW ex, NEW e, NEW r, IsLoosely(r, d, e), e.then # "begin"
    PROVE  /\ Moving(h, d, cd, ex) => Moving(h, r, cd, ex)
           /\ Agreeing(h, d, cd, ex) => Agreeing(h, r, cd, ex)
<1>1. \A q : Claims(q, r, cd) = Claims(q, d, cd) /\ Chain(r, q) = Chain(d, q) /\ Final(q, r, cd) = Final(q, d, cd)
             /\ (Pending(q, d) => Pending(q, r))
  BY DEF Claims, Final, Chain, IsLoosely, Pending, Sits
<1>2. ASSUME Moving(h, d, cd, ex) PROVE Moving(h, r, cd, ex)
  BY <1>1, <1>2 DEF Moving, MovesOn, Waits, IsLive, IsQuiet, IsLoosely, Sits
<1>3. ASSUME Agreeing(h, d, cd, ex) PROVE Agreeing(h, r, cd, ex)
  <2>1. \A c : Offers(c, h, d, cd) => Offers(c, h, r, cd)
    <3>1. \A c : Coming(c, h, r) => Coming(c, h, d)
      BY <1>1 DEF Coming, Begins, IsLoosely, Sits
    <3>. QED
      BY <1>1, <3>1 DEF Offers
  <2>2. \A f : Fresh(f, h, d, cd) => Fresh(f, h, r, cd)
    BY <1>1 DEF Fresh
  <2>3. Fresh(e, h, r, cd)
    BY DEF Fresh
  <2>. QED
    BY <1>3, <2>1, <2>2, <2>3 DEF Agreeing, IsLoosely
<1>. QED
  BY <1>2, <1>3

(* The place stays good.                                                   *)
LEMMA GoodLoosely ==
    ASSUME NEW k, NEW h, NEW d, NEW cd, NEW ex, NEW x, Good(k, h, d, cd, ex, x),
           NEW e, NEW r, IsLoosely(r, d, e), InLoose(e, k), e.then # "begin", ~Free(e.card, k, cd)
    PROVE  Good(k, h, r, cd, ex, x)
  BY SoundLoosely, LooselyKeeps DEF Good

(* More is excused.                                                        *)
LEMMA GoodExcused ==
    ASSUME NEW k, NEW h, NEW d, NEW cd, NEW ex, NEW x, Good(k, h, d, cd, ex, x), NEW more, ex \subseteq more
    PROVE  Good(k, h, d, cd, more, x)
  BY DEF Good, Moving, Agreeing

(* Other tracks have been.                                                 *)
LEMMA GoodOld ==
    ASSUME NEW k, NEW j, NEW h, NEW d, NEW cd, NEW ex, NEW x, Good(k, h, d, cd, ex, x),
           k \subseteq j, j \subseteq Int
    PROVE  Good(j, h, d, cd, ex, x)
  BY OldGrows DEF Good

(* Another offer.                                                          *)
LEMMA GoodOffer ==
    ASSUME NEW k, NEW h, NEW d, NEW cd, NEW ex, NEW x, Good(k, h, d, cd, ex, x),
           NEW r, Turned(r, d, d.live, d.shown, d.ending)
    PROVE  Good(k, h, r, cd, ex, x)
<1>1. Alike(r, d)
  BY DEF Alike, Turned, Parked
<1>2. Sound(k, h, r, cd)
  <2>1. Sound(k, h, d, cd) /\ LiveOK(d.live, k) /\ d.shown \notin Requests
    BY DEF Good, Sound, DeskOK
  <2>. QED
    BY <2>1, SoundTaken, SoundTurned
<1>. QED
  BY <1>1, <1>2, PromisesAlike DEF Good

\* A message is rewritten so that it claims to play no more, or not yet.
Rewritten(ce, cd, c, d) ==
    /\ ce = [cd EXCEPT ![c] = ce[c]] /\ ce[c] \in SaysType /\ ce[c].text \notin {"now", "none"}
    /\ ce[c].text = "deleted" \/ (d.chain[c] = <<>> /\ d.live.card # c)

(* Such a message disturbs nothing.                                        *)
LEMMA GoodCard ==
    ASSUME NEW k, NEW h, NEW d, NEW cd, NEW ex, NEW x, Good(k, h, d, cd, ex, x),
           NEW c \in Cards, NEW ce, Rewritten(ce, cd, c, d)
    PROVE  Good(k, h, d, ce, ex, x)
<1>1. Sound(k, h, d, cd) /\ Moving(h, d, cd, ex) /\ (x \/ Agreeing(h, d, cd, ex))
  BY DEF Good
<1>2. /\ cd \in [Cards -> SaysType] /\ \A q \in Requests : cd[q].text = "now" => cd[q].track = q
      /\ Requests \subseteq Cards
  BY <1>1, CardsAssumption DEF Sound, CardOK, Cards
<1>3. /\ ce \in [Cards -> SaysType] /\ \A q \in Cards \ {c} : ce[q] = cd[q]
  BY <1>2 DEF Rewritten
<1>4. ce[c].text \notin {"now", "none"}
  BY DEF Rewritten
<1>5. Sound(k, h, d, ce)
  <2>1. CardOK(ce)
    BY <1>2, <1>3, <1>4 DEF CardOK
  <2>2. ASSUME NEW q \in Cards, Free(q, k, ce) PROVE Free(q, k, cd) /\ ce[q].text # "now"
    <3>1. Free(q, k, cd)
      <4>1. CASE q \in Requests
        BY <2>2, <4>1 DEF Free
      <4>2. CASE q \notin Requests
        <5>1. Blank.text = "none"
          BY DEF Blank, Reads, Says
        <5>2. ce[q] = Blank /\ q # c
          BY <1>4, <2>2, <4>2, <5>1 DEF Free
        <5>. QED
          BY <1>3, <4>2, <5>2 DEF Free
      <4>. QED
        BY <4>1, <4>2
    <3>2. cd[q].text # "now"
      BY <1>1, <3>1 DEF Sound
    <3>. QED
      BY <1>3, <1>4, <3>1, <3>2
  <2>. QED
    BY <1>1, <2>1, <2>2, SoundCard
<1>6. ASSUME NEW q \in Cards, Claims(q, d, ce) PROVE q # c /\ Claims(q, d, cd)
  <2>1. q # c
    BY <1>4, <1>6 DEF Claims, Final, Rewritten
  <2>. QED
    BY <1>3, <1>6, <2>1 DEF Claims, Final
<1>7. Moving(h, d, ce, ex)
  <2>1. SUFFICES ASSUME NEW q \in Requests \ ex PROVE MovesOn(q, h, d, ce) /\ Waits(q, h, d, ce)
    BY DEF Moving
  <2>2. MovesOn(q, h, d, cd) /\ Waits(q, h, d, cd) /\ q \in Cards
    BY <1>1, <1>2 DEF Moving
  <2>3. ce[q].text = "now" => cd[q].text = "now"
    BY <1>3, <1>4, <2>2
  <2>4. Claims(q, d, ce) => Claims(q, d, cd)
    BY <1>6, <2>2
  <2>. QED
    BY <2>2, <2>3, <2>4 DEF MovesOn, Waits, IsLive, IsQuiet
<1>8. ASSUME Agreeing(h, d, cd, ex) PROVE Agreeing(h, d, ce, ex)
  <2>1. ASSUME NEW q \in Cards \ ex PROVE Offers(q, h, d, ce)
    <3>1. Offers(q, h, d, cd)
      BY <1>8 DEF Agreeing
    <3>2. Final(q, d, ce).text = "now" => Final(q, d, ce) = Final(q, d, cd)
      BY <1>3, <1>4 DEF Final
    <3>. QED
      BY <3>1, <3>2 DEF Offers
  <2>2. ASSUME NEW f \in Loose(d) PROVE Fresh(f, h, d, ce)
    <3>1. Fresh(f, h, d, cd) /\ f.card \in Cards
      BY <1>1, <1>8, LooseCards DEF Agreeing
    <3>2. ce[f.card].text = "now" => ce[f.card] = cd[f.card]
      BY <1>3, <1>4, <3>1
    <3>. QED
      BY <3>1, <3>2 DEF Fresh
  <2>. QED
    BY <2>1, <2>2 DEF Agreeing
<1>. QED
  BY <1>1, <1>5, <1>7, <1>8 DEF Good

-----------------------------------------------------------------------------
(* Queues.                                                                 *)

\* A queue without the track at k.
Thinner(p, q, k) ==
    /\ p \in Seq(TrackType) /\ ToSet(p) \subseteq ToSet(q) /\ q[k] \in ToSet(q)
    /\ Once(q) => Once(p) /\ (q[k].id \in Requests => \A t \in ToSet(p) : t.id # q[k].id)

(* What is left when each place was another one, but not k.                *)
LEMMA Thinning ==
    ASSUME NEW q \in Seq(TrackType), NEW k \in DOMAIN q, NEW p \in Seq(TrackType),
           NEW at \in [DOMAIN p -> DOMAIN q], \A i \in DOMAIN p : p[i] = q[at[i]] /\ at[i] # k,
           \A i, j \in DOMAIN p : at[i] = at[j] => i = j
    PROVE  Thinner(p, q, k)
<1>1. ToSet(p) \subseteq ToSet(q) /\ q[k] \in ToSet(q)
  BY DEF ToSet
<1>2. ASSUME Once(q), NEW i \in DOMAIN p, NEW j \in DOMAIN p, p[i].id = p[j].id, p[i].id \in Requests
      PROVE  i = j
  <2>1. at[i] \in DOMAIN q /\ at[j] \in DOMAIN q /\ q[at[i]].id = q[at[j]].id /\ q[at[i]].id \in Requests
    BY <1>2
  <2>2. at[i] = at[j]
    BY <1>2, <2>1 DEF Once
  <2>. QED
    BY <2>2
<1>3. ASSUME Once(q), q[k].id \in Requests, NEW t \in ToSet(p) PROVE t.id # q[k].id
  <2>1. PICK i \in DOMAIN p : t = p[i]
    BY DEF ToSet
  <2>. QED
    BY <1>3, <2>1 DEF Once
<1>. QED
  BY <1>1, <1>2, <1>3 DEF Thinner, Once

(* A track is taken out.                                                   *)
LEMMA RemoveThins ==
    ASSUME NEW q \in Seq(TrackType), NEW k \in DOMAIN q
    PROVE  Thinner(RemoveAt(q, k), q, k)
<1>. DEFINE p == RemoveAt(q, k)
            at == [i \in DOMAIN p |-> IF i < k THEN i ELSE i + 1]
<1>1. /\ p \in Seq(TrackType) /\ Len(p) = Len(q) - 1
      /\ \A i \in DOMAIN p : p[i] = q[IF i < k THEN i ELSE i + 1]
  BY RemoveAtIs
<1>2. Len(q) \in Nat /\ k \in 1..Len(q) /\ DOMAIN q = 1..Len(q)
  OBVIOUS
<1>. HIDE DEF p
<1>3. DOMAIN p = 1..(Len(q) - 1)
  BY <1>1, <1>2
<1>4. ASSUME NEW i \in DOMAIN p
      PROVE  at[i] \in DOMAIN q /\ at[i] # k /\ at[i] = IF i < k THEN i ELSE i + 1
  BY <1>2, <1>3
<1>5. ASSUME NEW i \in DOMAIN p, NEW j \in DOMAIN p, at[i] = at[j] PROVE i = j
  BY <1>2, <1>3, <1>5
<1>6. at \in [DOMAIN p -> DOMAIN q] /\ \A i \in DOMAIN p : p[i] = q[at[i]] /\ at[i] # k
  BY <1>1, <1>4
<1>. HIDE DEF at
<1>. QED
  BY <1>1, <1>5, <1>6, Thinning DEF p

(* The first is taken.                                                     *)
LEMMA TailThins ==
    ASSUME NEW q \in Seq(TrackType), q # <<>>
    PROVE  1 \in DOMAIN q /\ Head(q) = q[1] /\ Thinner(Tail(q), q, 1)
<1>. DEFINE p == Tail(q)
            at == [i \in DOMAIN p |-> i + 1]
<1>1. /\ Len(q) \in Nat \ {0} /\ DOMAIN q = 1..Len(q) /\ Head(q) = q[1]
      /\ p \in Seq(TrackType) /\ DOMAIN p = 1..(Len(q) - 1) /\ \A i \in DOMAIN p : p[i] = q[i + 1]
  OBVIOUS
<1>. HIDE DEF p
<1>2. at \in [DOMAIN p -> DOMAIN q] /\ \A i \in DOMAIN p : p[i] = q[at[i]] /\ at[i] # 1
  BY <1>1
<1>3. \A i, j \in DOMAIN p : at[i] = at[j] => i = j
  BY <1>1
<1>4. 1 \in DOMAIN q
  BY <1>1
<1>. HIDE DEF at
<1>. QED
  BY <1>1, <1>2, <1>3, <1>4, Thinning DEF p

(* A track joins the queue.                                                *)
LEMMA AppendJoins ==
    ASSUME NEW q \in Seq(TrackType), NEW u \in TrackType
    PROVE  /\ Append(q, u) \in Seq(TrackType) /\ ToSet(Append(q, u)) = ToSet(q) \cup {u}
           /\ Once(q) /\ (u.id \in Requests => \A t \in ToSet(q) : t.id # u.id) => Once(Append(q, u))
<1>. DEFINE p == Append(q, u)
            n == Len(q) + 1
<1>1. /\ p \in Seq(TrackType) /\ ToSet(p) = ToSet(q) \cup {u}
      /\ DOMAIN p = DOMAIN q \cup {n} /\ n \notin DOMAIN q
      /\ p[n] = u /\ \A i \in DOMAIN q : p[i] = q[i]
  BY AppendIs, AppendElements
<1>. HIDE DEF p, n
<1>2. ASSUME Once(q), u.id \in Requests => \A t \in ToSet(q) : t.id # u.id,
             NEW i \in DOMAIN p, NEW j \in DOMAIN p, p[i].id = p[j].id, p[i].id \in Requests
      PROVE  i = j
  <2>1. \A m \in DOMAIN q : u.id \in Requests => q[m].id # u.id
    BY <1>2 DEF ToSet
  <2>. QED
    BY <1>1, <1>2, <2>1 DEF Once
<1>. QED
  BY <1>1, <1>2 DEF p, Once

(* A track is put in front.                                                *)
LEMMA ConsJoins ==
    ASSUME NEW q \in Seq(TrackType), NEW u \in TrackType
    PROVE  /\ <<u>> \o q \in Seq(TrackType) /\ ToSet(<<u>> \o q) = ToSet(q) \cup {u}
           /\ Once(q) /\ (u.id \in Requests => \A t \in ToSet(q) : t.id # u.id) => Once(<<u>> \o q)
<1>. DEFINE p == <<u>> \o q
<1>1. /\ p \in Seq(TrackType) /\ Len(q) \in Nat /\ DOMAIN q = 1..Len(q) /\ DOMAIN p = 1..(Len(q) + 1)
      /\ p[1] = u /\ \A i \in 1..Len(q) : p[i + 1] = q[i]
  OBVIOUS
<1>. HIDE DEF p
<1>2. ASSUME NEW i \in DOMAIN p PROVE i = 1 \/ (i - 1 \in DOMAIN q /\ p[i] = q[i - 1])
  BY <1>1
<1>3. ToSet(p) = ToSet(q) \cup {u}
  <2>1. ToSet(p) \subseteq ToSet(q) \cup {u}
    BY <1>1, <1>2 DEF ToSet
  <2>2. u \in ToSet(p)
    BY <1>1 DEF ToSet
  <2>3. ASSUME NEW i \in DOMAIN q PROVE q[i] \in ToSet(p)
    BY <1>1 DEF ToSet
  <2>. QED
    BY <2>1, <2>2, <2>3 DEF ToSet
<1>4. ASSUME Once(q), u.id \in Requests => \A t \in ToSet(q) : t.id # u.id,
             NEW i \in DOMAIN p, NEW j \in DOMAIN p, p[i].id = p[j].id, p[i].id \in Requests
      PROVE  i = j
  <2>1. \A m \in DOMAIN q : u.id \in Requests => q[m].id # u.id
    BY <1>4 DEF ToSet
  <2>2. i \in Int /\ j \in Int
    BY <1>1
  <2>3. CASE i = 1
    BY <1>1, <1>2, <1>4, <2>1, <2>3
  <2>4. CASE i # 1
    <3>1. i - 1 \in DOMAIN q /\ p[i] = q[i - 1]
      BY <1>2, <2>4
    <3>2. j # 1
      BY <1>1, <1>4, <2>1, <3>1
    <3>3. j - 1 \in DOMAIN q /\ p[j] = q[j - 1]
      BY <1>2, <3>2
    <3>4. i - 1 = j - 1
      BY <1>4, <3>1, <3>3 DEF Once
    <3>. QED
      BY <2>2, <3>4
  <2>. QED
    BY <2>3, <2>4
<1>. QED
  BY <1>1, <1>3, <1>4 DEF p, Once

-----------------------------------------------------------------------------
(* The room moves on.                                                      *)

(* The buttons are about the current track.                                *)
LEMMA AgreeingHall ==
    ASSUME NEW h, NEW d, NEW cd, NEW ex, NEW g, Agreeing(h, d, cd, ex),
           g.cur = h.cur, g.playing = h.playing
    PROVE  Agreeing(g, d, cd, ex)
<1>1. \A e : Begins(e, g) = Begins(e, h)
  BY DEF Begins
<1>2. \A c : Offers(c, h, d, cd) => Offers(c, g, d, cd)
  <2>1. \A c : Coming(c, g, d) = Coming(c, h, d)
    BY <1>1 DEF Coming
  <2>. QED
    BY <2>1 DEF Offers
<1>3. \A e : Fresh(e, h, d, cd) => Fresh(e, g, d, cd)
  BY <1>1 DEF Fresh
<1>. QED
  BY <1>2, <1>3 DEF Agreeing

(* Queued tracks go.                                                       *)
LEMMA GoodQueue ==
    ASSUME NEW k, NEW h, NEW d, NEW cd, NEW ex, NEW x, Good(k, h, d, cd, ex, x),
           NEW g \in HallType, g.cur = h.cur, g.playing = h.playing,
           Queued(g) \subseteq Queued(h), Once(g.queue)
    PROVE  Good(k, g, d, cd, ex, x)
<1>1. Sound(k, h, d, cd) /\ Moving(h, d, cd, ex) /\ (x \/ Agreeing(h, d, cd, ex))
  BY DEF Good
<1>2. Tracks(g) \subseteq Tracks(h)
  BY DEF Tracks
<1>3. Sound(k, g, d, cd)
  <2>1. HallOK(g, k)
    BY <1>1, <1>2 DEF Sound, HallOK
  <2>2. Linked(g, d)
    BY <1>1, <1>2 DEF Sound, Linked
  <2>3. \A t \in Tracks(g) : Taken(t.card, k, cd)
    BY <1>1, <1>2, SoundTaken
  <2>. QED
    BY <1>1, <2>1, <2>2, <2>3, SoundHall
<1>4. Moving(g, d, cd, ex)
  BY <1>1 DEF Moving, MovesOn, Waits, IsLive, IsQuiet
<1>. QED
  BY <1>1, <1>3, <1>4, AgreeingHall DEF Good

\* A track that may join the queue.
Joins(u, k, h, d, cd) ==
    /\ u.id # 0 /\ TrackOK(u, k) /\ Taken(u.card, k, cd)
    /\ \A t \in Tracks(h) : t.id = u.id => t.card = u.card
    /\ u.id \in Requests => h.cur.id # u.id
    /\ \A c \in Cards : \A e \in Chain(d, c) : e.then = "begin" => e.says.track # u.id
    /\ u.id \in Requests /\ u.card = NoCard => ~Claims(u.id, d, cd) /\ d.live.card # u.id

(* It does.                                                                *)
LEMMA GoodJoins ==
    ASSUME NEW k, NEW h, NEW d, NEW cd, NEW ex, NEW x, Good(k, h, d, cd, ex, x),
           NEW g \in HallType, g.cur = h.cur, g.playing = h.playing, NEW u,
           Queued(g) = Queued(h) \cup {u}, Once(g.queue), Joins(u, k, h, d, cd)
    PROVE  Good(k, g, d, cd, ex, x)
<1>1. Sound(k, h, d, cd) /\ Moving(h, d, cd, ex) /\ (x \/ Agreeing(h, d, cd, ex))
  BY DEF Good
<1>2. Tracks(g) = Tracks(h) \cup {u}
  BY DEF Tracks
<1>3. Sound(k, g, d, cd)
  <2>1. HallOK(g, k)
    <3>1. HallOK(h, k)
      BY <1>1 DEF Sound
    <3>2. \A t \in Tracks(g) : TrackOK(t, k)
      BY <1>2, <3>1 DEF HallOK, Joins
    <3>3. \A t \in Queued(g) : t.id # 0 /\ (t.id \in Requests => t.id # g.cur.id)
      BY <3>1 DEF HallOK, Joins
    <3>4. \A t, v \in Tracks(g) : t.id = v.id => t.card = v.card
      BY <1>2, <3>1 DEF HallOK, Joins
    <3>. QED
      BY <3>2, <3>3, <3>4 DEF HallOK
  <2>2. Linked(g, d)
    BY <1>1, <1>2 DEF Sound, Linked, Joins
  <2>3. \A t \in Tracks(g) : Taken(t.card, k, cd)
    BY <1>1, <1>2, SoundTaken DEF Joins
  <2>. QED
    BY <1>1, <2>1, <2>2, <2>3, SoundHall
<1>4. Moving(g, d, cd, ex)
  BY <1>1 DEF Moving, MovesOn, Waits, IsLive, IsQuiet, Joins
<1>. QED
  BY <1>1, <1>3, <1>4, AgreeingHall DEF Good

\* All that claims to play is about to be told; and a track without a card claims nothing.
Lefts(d, cd, ex) == \A q \in Requests \ ex : cd[q].text = "now" => Pending(q, d)
Quiet(g, d, cd, ex) ==
    \A t \in Tracks(g) : t.id \in Requests \ ex /\ t.card = NoCard => ~Claims(t.id, d, cd)

(* Then no live card is missed.                                            *)
LEMMA MovingIdles ==
    ASSUME NEW g, NEW d, NEW cd, NEW ex, d.live = NobodysCard, Lefts(d, cd, ex), Quiet(g, d, cd, ex),
           \A t \in Tracks(g) : t.id \in Requests => t.card \in {NoCard, t.id}
    PROVE  Moving(g, d, cd, ex)
<1>1. SUFFICES ASSUME NEW q \in Requests \ ex PROVE MovesOn(q, g, d, cd) /\ Waits(q, g, d, cd)
  BY DEF Moving
<1>2. MovesOn(q, g, d, cd)
  BY <1>1 DEF MovesOn, Lefts
<1>3. q # d.live.card
  BY CardsAssumption DEF NobodysCard, NoCard
<1>4. IsLive(q, g, d, cd)
  BY <1>1 DEF IsLive, Quiet, Tracks
<1>5. IsQuiet(q, g, d, cd)
  BY <1>1, <1>3 DEF IsQuiet, Quiet, Tracks
<1>. QED
  BY <1>2, <1>4, <1>5 DEF Waits

(* No card is live any more.                                               *)
LEMMA AgreeingIdles ==
    ASSUME NEW h, NEW d, NEW cd, NEW ex, Agreeing(h, d, cd, ex), NEW r, NEW s, NEW S,
           Turned(r, d, NobodysCard, s, S)
    PROVE  Agreeing(h, r, cd, ex)
<1>1. \A c : Chain(r, c) = Chain(d, c) /\ Final(c, r, cd) = Final(c, d, cd)
  BY DEF Chain, Final, Turned
<1>2. ASSUME NEW c \in Cards \ ex PROVE Offers(c, h, r, cd)
  <2>1. Offers(c, h, d, cd)
    BY DEF Agreeing
  <2>2. r.live # [card |-> c, track |-> h.cur.id]
    BY CardsAssumption DEF Turned, NobodysCard, NoCard, Cards
  <2>3. Coming(c, h, r) => Coming(c, h, d)
    BY <1>1, <2>2 DEF Coming, Turned, Parked
  <2>. QED
    BY <1>1, <2>1, <2>3 DEF Offers
<1>3. \A e : Fresh(e, h, d, cd) => Fresh(e, h, r, cd)
  BY <1>1 DEF Fresh
<1>. QED
  BY <1>2, <1>3 DEF Agreeing, Turned, Parked

\* What edits that are about to make a message the live one have shown on it.
Bright(e, d, cd) ==
    e.then = "begin" =>
        /\ cd[e.card].text = "now" => cd[e.card].on
        /\ \A f \in Chain(d, e.card) : f.says.text = "now" => f.says.on

(* A message whose edit is about to make it the live one, and claims nothing,
   shows nothing wrong.                                                    *)
LEMMA BrightFinal ==
    ASSUME NEW d \in DeskType, NEW cd, NEW e, e.card \in Cards, e.then = "begin", Bright(e, d, cd),
           Final(e.card, d, cd).text = "now"
    PROVE  Final(e.card, d, cd).on
<1>1. CASE d.chain[e.card] = <<>>
  BY <1>1 DEF Final, Bright
<1>2. CASE d.chain[e.card] # <<>>
  <2>1. d.chain[e.card] \in Seq(EditType)
    BY DEF DeskType
  <2>2. Last(d.chain[e.card]) \in Chain(d, e.card)
    BY <1>2, <2>1, LastIsIn DEF Chain
  <2>. QED
    BY <1>2, <2>2 DEF Bright, Final
<1>. QED
  BY <1>1, <1>2

(* The room moves on to a track without a card, or to none.                *)
LEMMA AgreeingBare ==
    ASSUME NEW k, NEW g, NEW d, NEW cd, NEW ex, Sound(k, g, d, cd), NEW h, Agreeing(h, d, cd, ex),
           d.live = NobodysCard, g.cur.card = NoCard, g.cur.id # 0 => g.playing
    PROVE  Agreeing(g, d, cd, ex)
<1>1. d \in DeskType /\ DeskOK(d, k) /\ Linked(g, d)
  BY DEF Sound, DeskOK
<1>2. NoCard \notin Cards
  BY CardsAssumption DEF NoCard, Cards
<1>3. ASSUME NEW e \in Loose(d) PROVE Bright(e, d, cd)
  BY <1>3 DEF Agreeing, Fresh, Bright
<1>4. ASSUME NEW e \in Loose(d), Begins(e, g)
      PROVE  e.then = "begin" /\ e.card \in Cards /\ g.playing
  <2>1. InLoose(e, k) /\ e.card \in Cards
    BY <1>1, LooseCards DEF DeskOK
  <2>2. e.says.track # 0
    BY <1>4, <2>1 DEF InLoose, Fits, Begins
  <2>. QED
    BY <1>4, <2>1, <2>2 DEF Begins
<1>5. ASSUME NEW c \in Cards \ ex PROVE Offers(c, g, d, cd)
  <2>1. d.live # [card |-> c, track |-> g.cur.id]
    BY <1>2 DEF NobodysCard
  <2>2. ~(\E e \in Chain(d, c) : Begins(e, g))
    BY <1>1, <1>2 DEF Linked, Begins, Tracks
  <2>3. ASSUME NEW e \in Loose(d), e.card = c, Begins(e, g), Final(c, d, cd).text = "now"
        PROVE  Final(c, d, cd).on = g.playing
    <3>1. Final(c, d, cd).on
      BY <1>1, <1>3, <1>4, <2>3, BrightFinal DEF Bright
    <3>2. Final(c, d, cd).on \in BOOLEAN
      <4>1. CASE d.chain[c] = <<>>
        <5>1. cd[c] \in SaysType
          BY DEF Sound, CardOK
        <5>. QED
          BY <4>1, <5>1 DEF Final, SaysType
      <4>2. CASE d.chain[c] # <<>>
        <5>1. d.chain[c] \in Seq(EditType)
          BY <1>1 DEF DeskType
        <5>2. Last(d.chain[c]) \in EditType
          BY <4>2, <5>1 DEF Last
        <5>. QED
          BY <4>2, <5>2 DEF Final, EditType, SaysType
      <4>. QED
        BY <4>1, <4>2
    <3>3. g.playing /\ g.playing \in BOOLEAN
      BY <1>4, <2>3 DEF Sound, HallOK, HallType
    <3>. QED
      BY <3>1, <3>2, <3>3
  <2>. QED
    BY <2>1, <2>2, <2>3 DEF Offers, Coming
<1>6. ASSUME NEW e \in Loose(d) PROVE Fresh(e, g, d, cd)
  BY <1>3, <1>4 DEF Fresh, Bright
<1>. QED
  BY <1>5, <1>6 DEF Agreeing

(* A card of the next track is edited.                                     *)
LEMMA MovingPromoted ==
    ASSUME NEW k, NEW g, NEW d, NEW cd, NEW ex, Moving(g, d, cd, ex), HallOK(g, k),
           g.cur.card \in Cards, NEW e, NEW r, IsChained(r, d, g.cur.card, e)
    PROVE  Moving(g, r, cd, ex)
<1>1. SUFFICES ASSUME NEW q \in Requests \ ex PROVE MovesOn(q, g, r, cd) /\ Waits(q, g, r, cd)
  BY DEF Moving
<1>2. q \in Cards /\ r.live = d.live /\ MovesOn(q, g, d, cd) /\ Waits(q, g, d, cd)
  BY <1>1, CardsAssumption DEF Cards, IsChained, Sits, Moving
<1>3. CASE q = g.cur.card
  <2>1. g.cur.id = q
    BY <1>1, <1>3 DEF HallOK, TrackOK, Tracks
  <2>2. \A t \in Queued(g) : t.id # q
    BY <1>1, <2>1 DEF HallOK
  <2>. QED
    BY <1>3, <2>1, <2>2 DEF MovesOn, Waits, IsLive, IsQuiet
<1>4. CASE q # g.cur.card
  <2>1. Pending(q, d) => Pending(q, r)
    BY <1>2, <1>4 DEF Pending, IsChained, Sits, Parked
  <2>2. Claims(q, r, cd) = Claims(q, d, cd)
    BY <1>2, <1>4 DEF Claims, Final, IsChained
  <2>. QED
    BY <1>2, <2>1, <2>2 DEF MovesOn, Waits, IsLive, IsQuiet
<1>. QED
  BY <1>3, <1>4

(* Its button will be right.                                               *)
LEMMA AgreeingPromoted ==
    ASSUME NEW k, NEW g, NEW d, NEW cd, NEW ex, Sound(k, g, d, cd), NEW h, Agreeing(h, d, cd, ex),
           d.live = NobodysCard, g.cur.card \in Cards, g.playing = TRUE,
           NEW e, e.says.on = TRUE, NEW r, IsChained(r, d, g.cur.card, e)
    PROVE  Agreeing(g, r, cd, ex)
<1>1. DeskOK(d, k) /\ Linked(g, d) /\ TrackOK(g.cur, k)
  BY DEF Sound, HallOK, Tracks
<1>2. NoCard \notin Cards
  BY CardsAssumption DEF NoCard, Cards
<1>3. ASSUME NEW c \in Cards \ ex PROVE Offers(c, g, r, cd)
  <2>1. CASE c = g.cur.card
    BY <2>1 DEF Offers, Final, IsChained
  <2>2. CASE c # g.cur.card
    <3>1. r.live # [card |-> c, track |-> g.cur.id]
      BY <1>2 DEF NobodysCard, IsChained, Sits
    <3>2. ~(\E f \in Chain(r, c) : Begins(f, g))
      BY <1>1, <2>2 DEF Linked, Begins, Tracks, IsChained
    <3>3. ASSUME NEW f \in Loose(r), f.card = c, Begins(f, g) PROVE FALSE
      <4>1. InLoose(f, k) /\ f.then = "begin"
        BY <1>1, <3>3 DEF DeskOK, IsChained, Parked, Begins
      <4>2. c = g.cur.id /\ c \in Requests
        BY <3>3, <4>1 DEF InLoose, Begins
      <4>. QED
        BY <1>1, <1>2, <2>2, <4>2 DEF TrackOK
    <3>. QED
      BY <3>1, <3>2, <3>3 DEF Offers, Coming
  <2>. QED
    BY <2>1, <2>2
<1>4. ASSUME NEW f \in Loose(r) PROVE Fresh(f, g, r, cd)
  <2>1. f \in Loose(d) /\ Bright(f, d, cd) /\ f.card \in Cards
    BY <1>4, LooseCards DEF Agreeing, Fresh, Bright, IsChained, Parked
  <2>2. Chain(r, f.card) \subseteq Chain(d, f.card) \cup {e}
    BY <2>1 DEF IsChained
  <2>. QED
    BY <2>1, <2>2 DEF Fresh, Bright
<1>. QED
  BY <1>3, <1>4 DEF Agreeing

\* onAdvance(), when it has told of the end of the track before.
TurnsTo(d, next) ==
    LET idle == [d EXCEPT !.live = NobodysCard]
    IN  IF next = NoTrack THEN Stopped(idle) ELSE Promoted(idle, next)

(* No card is remembered.                                                  *)
LEMMA StoppedIs ==
    ASSUME NEW d \in DeskType
    PROVE  Turned(Stopped(d), d, NobodysCard, NoCard, d.ending)
<1>. DEFINE r == Stopped(d)
<1>1. NobodysCard \in LiveType /\ NoCard \in Places
  BY DEF NobodysCard, LiveType, Places
<1>2. /\ r \in DeskType
      /\ r.live = NobodysCard /\ r.shown = NoCard /\ r.ending = d.ending /\ r.loose = d.loose
      /\ r.sends = d.sends /\ r.offer = d.offer /\ r.chain = d.chain
  BY <1>1 DEF DeskType, LiveType, Stopped
<1>. HIDE DEF r
<1>. QED
  BY <1>2 DEF Turned, Parked, Loose, Sends, r

(* The desk follows the room.                                              *)
LEMMA TurnsGood ==
    ASSUME NEW k, NEW h, NEW d, NEW cd, NEW ex, NEW x, NEW ey, Sound(k, h, d, cd),
           x \/ Agreeing(h, d, cd, ey),
           NEW g, HallOK(g, k), Linked(g, d), \A t \in Tracks(g) : Taken(t.card, k, cd),
           Lefts(d, cd, ex), Quiet(g, d, cd, ex), g.cur.id # 0 => g.playing
    PROVE  /\ Sound(k, g, TurnsTo(d, g.cur), cd) /\ Moving(g, TurnsTo(d, g.cur), cd, ex)
           /\ x \/ Agreeing(g, TurnsTo(d, g.cur), cd, ey)
           /\ TurnsTo(d, g.cur).live = NobodysCard
<1>. DEFINE i == [d EXCEPT !.live = NobodysCard]
            says == Says("now", g.cur.id, TRUE)
            e(c) == Edit(c, says, "begin")
<1>1. d \in DeskType /\ TrackOK(g.cur, k) /\ g.cur \in TrackType /\ 0 \in k /\ LiveOK(NobodysCard, k)
  <2>1. d \in DeskType /\ 0 \in k /\ k \subseteq Int
    BY DEF Sound, DeskOK
  <2>2. TrackOK(g.cur, k) /\ g.cur \in TrackType
    BY TracksTyped DEF HallOK, Tracks
  <2>3. NobodysCard \in [card : Places, track : Int] /\ NobodysCard.card = NoCard /\ NobodysCard.track = 0
        /\ NoCard \notin Requests
    BY CardsAssumption DEF NobodysCard, Places, NoCard
  <2>. QED
    BY <2>1, <2>2, <2>3 DEF LiveOK
<1>2. Turned(i, d, NobodysCard, d.shown, d.ending)
  BY <1>1, LiveIs DEF LiveOK, LiveType
<1>3. Sound(k, g, d, cd)
  BY SoundHall
<1>4. Taken(NobodysCard.card, k, cd) /\ d.shown \notin Requests
  BY DEF Taken, NobodysCard, Places, NoCard, Cards, Sound, DeskOK
<1>5. Sound(k, g, i, cd)
  BY <1>1, <1>2, <1>3, <1>4, SoundTaken, SoundTurned
<1>6. i \in DeskType /\ i.live = NobodysCard /\ i.ending = d.ending /\ i.shown = d.shown
  BY <1>2 DEF Turned
<1>7. Moving(g, i, cd, ex)
  <2>1. \A q : Pending(q, i) = Pending(q, d) /\ Claims(q, i, cd) = Claims(q, d, cd)
    BY <1>2 DEF Pending, Claims, Final, Turned, Parked
  <2>2. Lefts(i, cd, ex) /\ Quiet(g, i, cd, ex)
    BY <2>1 DEF Lefts, Quiet
  <2>3. \A t \in Tracks(g) : t.id \in Requests => t.card \in {NoCard, t.id}
    BY DEF HallOK, TrackOK
  <2>. QED
    BY <1>6, <2>2, <2>3, MovingIdles
<1>8. x \/ Agreeing(h, i, cd, ey)
  BY <1>2, AgreeingIdles
<1>9. CASE g.cur.card = NoCard
  <2>1. x \/ Agreeing(g, i, cd, ey)
    BY <1>5, <1>6, <1>8, <1>9, AgreeingBare
  <2>2. CASE g.cur = NoTrack
    <3>. DEFINE r == Stopped(i)
    <3>1. TurnsTo(d, g.cur) = r
      BY <2>2 DEF TurnsTo
    <3>2. Turned(r, i, NobodysCard, NoCard, i.ending)
      BY <1>6, StoppedIs
    <3>. HIDE DEF r, i
    <3>3. Alike(r, i)
      BY <1>6, <3>2 DEF Alike, Turned, Parked
    <3>4. Sound(k, g, r, cd)
      <4>1. Taken(NoCard, k, cd) /\ NoCard \notin Requests
        BY CardsAssumption DEF Taken, Places, NoCard, Cards
      <4>. QED
        BY <1>1, <1>4, <1>5, <3>2, <4>1, SoundTaken, SoundTurned
    <3>5. r.live = NobodysCard
      BY <3>2 DEF Turned
    <3>. QED
      BY <1>7, <2>1, <3>1, <3>3, <3>4, <3>5, PromisesAlike
  <2>3. CASE g.cur # NoTrack
    <3>. DEFINE r == Sending(i, e(NoCard))
    <3>1. TurnsTo(d, g.cur) = r
      BY <1>9, <2>3 DEF TurnsTo, Promoted
    <3>2. g.cur.id # 0 /\ g.cur.id \in k /\ g.cur.id \in Int
      BY <1>1, <1>9, <2>3 DEF TrackType, NoTrack, TrackOK
    <3>3. InSends(e(NoCard), k) /\ e(NoCard) \in EditType
      <4>1. e(NoCard) \in EditType
        BY <3>2 DEF EditType, Edit, Says, SaysType, Places, Texts
      <4>2. NoCard \notin Requests
        BY CardsAssumption DEF NoCard
      <4>. QED
        BY <3>2, <4>1, <4>2 DEF InSends, Fits, Edit, Says
    <3>4. IsSending(r, i, e(NoCard))
      BY <1>6, <3>3, SendingIs
    <3>. HIDE DEF r, i, e
    <3>5. Good(k, g, i, cd, ex, TRUE)
      BY <1>5, <1>7 DEF Good
    <3>6. Sound(k, g, r, cd) /\ Moving(g, r, cd, ex)
      BY <3>3, <3>4, <3>5, GoodSending DEF Good
    <3>7. x \/ Agreeing(g, r, cd, ey)
      <4>1. Alike(r, i)
        BY <3>4 DEF Alike, IsSending, Sits
      <4>. QED
        BY <2>1, <4>1, PromisesAlike
    <3>8. r.live = NobodysCard
      BY <1>6, <3>4 DEF IsSending, Sits
    <3>. QED
      BY <3>1, <3>6, <3>7, <3>8
  <2>. QED
    BY <2>2, <2>3
<1>10. CASE g.cur.card # NoCard
  <2>. DEFINE c == g.cur.card
              r == Chained(i, c, e(c))
  <2>1. c \in Cards /\ g.cur.id # 0 /\ g.cur.id \in k /\ g.cur.id \in Int /\ g.cur # NoTrack
    BY <1>1, <1>10 DEF TrackType, Places, TrackOK, NoTrack
  <2>2. TurnsTo(d, g.cur) = r
    BY <1>10, <2>1 DEF TurnsTo, Promoted
  <2>3. e(c) \in EditType
    BY <2>1 DEF EditType, Edit, Says, SaysType, Places, Texts
  <2>4. IsChained(r, i, c, e(c))
    BY <1>6, <2>1, <2>3, ChainedIs
  <2>5. InChain(e(c), c, k)
    <3>1. c \in Requests => g.cur.id = c
      BY <1>1 DEF TrackOK
    <3>2. g.cur.id <= MaxCards
      BY <1>1, <1>10, <2>1, CardsAssumption DEF TrackOK
    <3>3. g.cur.id \in Requests => c = g.cur.id
      BY <1>1, <1>10 DEF TrackOK
    <3>. QED
      BY <2>1, <2>3, <3>1, <3>2, <3>3 DEF InChain, Fits, Edit, Says
  <2>6. /\ e(c).then = "begin" /\ e(c).says.track = g.cur.id /\ e(c).says.on = TRUE
        /\ ~Free(c, k, cd)
    BY <2>1 DEF Edit, Says, Taken, Tracks
  <2>7. \A t \in Tracks(g) : t.id = g.cur.id => t.card = c
    BY DEF HallOK, Tracks
  <2>8. g.playing = TRUE
    BY <2>1 DEF HallOK, HallType
  <2>. HIDE DEF r, i, e
  <2>9. Sound(k, g, r, cd)
    BY <1>5, <2>1, <2>4, <2>5, <2>6, <2>7, SoundChained
  <2>10. Moving(g, r, cd, ex)
    BY <1>7, <2>1, <2>4, MovingPromoted
  <2>11. x \/ Agreeing(g, r, cd, ey)
    BY <1>5, <1>6, <1>8, <2>1, <2>4, <2>6, <2>8, AgreeingPromoted
  <2>12. r.live = NobodysCard
    BY <1>6, <2>4 DEF IsChained, Sits
  <2>. QED
    BY <2>2, <2>9, <2>10, <2>11, <2>12
<1>. QED
  BY <1>9, <1>10

(* The two halves of onAdvance().                                          *)
LEMMA AdvancedIs ==
    ASSUME NEW d, NEW finished, NEW next, NEW reason
    PROVE  Advanced(d, finished, next, reason) = TurnsTo(ToldOf(d, finished, reason), next)
  BY DEF Advanced, TurnsTo, ToldOf

\* A desk that nothing will make another message the live one of.
NoMore(r, d) == \A c \in Cards : \A e \in Chain(r, c) : e.then = "begin" => e \in Chain(d, c)

(* When the end of the current track is told, no message claims to play it.*)
LEMMA ToldGood ==
    ASSUME NEW k, NEW h, NEW d, NEW cd, NEW ex, NEW x, Good(k, h, d, cd, ex, x),
           NEW reason \in {"natural", "postponed"}
    PROVE  LET r == ToldOf(d, h.cur, reason) IN
           /\ Good(k, h, r, cd, ex, x) /\ Lefts(r, cd, ex) /\ NoMore(r, d)
           /\ h.cur.id \in Requests \ ex /\ h.cur.card = NoCard => ~Claims(h.cur.id, r, cd)
           /\ \A q \in Cards : Claims(q, r, cd) => Claims(q, d, cd)
<1>. DEFINE c == IF h.cur.card # NoCard THEN h.cur.card ELSE d.live.card
            e == Edit(c, Reads(reason), "rest")
            r == ToldOf(d, h.cur, reason)
<1>1. Sound(k, h, d, cd) /\ Moving(h, d, cd, ex) /\ HallOK(h, k) /\ DeskOK(d, k) /\ d \in DeskType
  BY DEF Good, Sound, DeskOK
<1>2. TrackOK(h.cur, k) /\ h.cur \in TrackType /\ Requests \subseteq Cards /\ NoCard \notin Cards
  BY <1>1, CardsAssumption, TracksTyped DEF HallOK, Tracks, Cards, NoCard
<1>3. c \in Places /\ Taken(c, k, cd)
  BY <1>1, SoundTaken DEF Tracks, Taken
<1>4. \A q \in Requests \ ex : MovesOn(q, h, d, cd) /\ IsLive(q, h, d, cd)
  BY <1>1 DEF Moving, Waits
<1>5. ASSUME NEW q \in Requests \ ex, cd[q].text = "now", h.cur.id = q, h.cur.card = NoCard, d.live.card # q
      PROVE  Pending(q, d)
  <2>1. ~Claims(q, d, cd)
    BY <1>2, <1>4, <1>5 DEF IsLive
  <2>. QED
    BY <1>5, <2>1 DEF Claims, Final, Pending
<1>6. CASE h.cur = NoTrack \/ c = NoCard
  <2>1. r = d
    BY <1>6 DEF ToldOf
  <2>2. ASSUME NEW q \in Requests \ ex, cd[q].text = "now" PROVE Pending(q, d)
    <3>1. CASE h.cur.id # q
      BY <1>4, <2>2, <3>1 DEF MovesOn
    <3>2. CASE h.cur.id = q
      <4>1. h.cur # NoTrack
        BY <3>2, CardsAssumption DEF NoTrack
      <4>2. h.cur.card = NoCard /\ d.live.card # q
        BY <1>2, <1>6, <4>1
      <4>. QED
        BY <1>5, <2>2, <3>2, <4>2
    <3>. QED
      BY <3>1, <3>2
  <2>3. ASSUME h.cur.id \in Requests \ ex, h.cur.card = NoCard PROVE ~Claims(h.cur.id, d, cd)
    <3>1. h.cur # NoTrack
      BY <2>3, CardsAssumption DEF NoTrack
    <3>2. d.live.card # h.cur.id
      BY <1>2, <1>6, <2>3, <3>1
    <3>. QED
      BY <1>2, <1>4, <2>3, <3>2 DEF IsLive
  <2>. QED
    BY <2>1, <2>2, <2>3 DEF Lefts, NoMore
<1>7. CASE ~(h.cur = NoTrack \/ c = NoCard)
  <2>1. c \in Cards /\ ~Free(c, k, cd)
    BY <1>3, <1>7 DEF Places, Taken
  <2>2. r = Chained(d, c, e)
    BY <1>7 DEF ToldOf
  <2>3. e \in EditType /\ Fits(e, c, k) /\ e.says.text = reason /\ e.then = "rest"
    <3>1. e \in EditType
      BY <1>3 DEF EditType, Edit, Reads, Says, SaysType, Texts
    <3>. QED
      BY <3>1 DEF Fits, Edit, Reads, Says
  <2>4. IsChained(r, d, c, e)
    BY <1>1, <2>1, <2>2, <2>3, ChainedIs
  <2>. HIDE DEF r, e
  <2>5. Good(k, h, r, cd, ex, x)
    BY <2>1, <2>3, <2>4, GoodTold
  <2>6. \A q \in Cards : Claims(q, r, cd) => q # c /\ Claims(q, d, cd)
    BY <2>3, <2>4 DEF Claims, Final, IsChained
  <2>7. \A q \in Cards : Pending(q, d) \/ q = c => Pending(q, r)
    BY <2>4 DEF Pending, IsChained, Sits, Parked
  <2>8. ASSUME NEW q \in Requests \ ex, cd[q].text = "now" PROVE Pending(q, r)
    <3>1. CASE h.cur.id # q
      BY <1>2, <1>4, <2>7, <2>8, <3>1 DEF MovesOn
    <3>2. CASE h.cur.id = q
      <4>1. h.cur.card = NoCard \/ h.cur.card = q
        BY <1>2, <3>2 DEF TrackOK
      <4>. QED
        BY <1>2, <1>5, <2>7, <2>8, <3>2, <4>1
    <3>. QED
      BY <3>1, <3>2
  <2>9. ASSUME h.cur.id \in Requests \ ex, h.cur.card = NoCard PROVE ~Claims(h.cur.id, r, cd)
    BY <1>2, <1>4, <2>6, <2>9 DEF IsLive
  <2>10. NoMore(r, d)
    BY <2>3, <2>4 DEF NoMore, IsChained
  <2>. QED
    BY <2>5, <2>6, <2>8, <2>9, <2>10 DEF Lefts, r
<1>. QED
  BY <1>6, <1>7

\* The room after advance().
NextHall(h) ==
    LET next == IF h.queue = <<>> THEN NoTrack ELSE Head(h.queue)
    IN  IF next = NoTrack THEN [h EXCEPT !.cur = NoTrack, !.playing = FALSE]
        ELSE [Starts(h, next) EXCEPT !.queue = Tail(@)]

(* Its tracks were queued.                                                 *)
LEMMA NextIs ==
    ASSUME NEW h, NEW k, HallOK(h, k), 0 \in k
    PROVE  LET g == NextHall(h) IN
           /\ HallOK(g, k) /\ Queued(g) \subseteq Queued(h)
           /\ g.cur = NoTrack \/ g.cur \in Queued(h)
           /\ g.cur.id # 0 => g.playing
           /\ g.cur = IF h.queue = <<>> THEN NoTrack ELSE Head(h.queue)
<1>. DEFINE g == NextHall(h)
<1>1. h \in HallType /\ h.queue \in Seq(TrackType) /\ h.cur \in TrackType
  BY DEF HallOK, HallType
<1>2. NoTrack \in TrackType /\ TrackOK(NoTrack, k) /\ NoTrack.id = 0
  BY CardsAssumption DEF NoTrack, TrackType, Places, TrackOK, NoCard
<1>3. CASE h.queue = <<>>
  <2>1. g = [h EXCEPT !.cur = NoTrack, !.playing = FALSE]
    BY <1>3 DEF NextHall
  <2>2. g \in HallType /\ g.cur = NoTrack /\ g.queue = <<>>
    BY <1>1, <1>2, <1>3, <2>1 DEF HallType
  <2>. HIDE DEF g
  <2>3. Queued(g) = {} /\ Tracks(g) = {NoTrack}
    BY <2>2 DEF Queued, ToSet, Tracks
  <2>4. Once(g.queue)
    BY <2>2 DEF Once
  <2>5. HallOK(g, k)
    BY <1>2, <2>2, <2>3, <2>4 DEF HallOK
  <2>. QED
    BY <1>2, <1>3, <2>2, <2>3, <2>5 DEF g
<1>4. CASE h.queue # <<>>
  <2>. DEFINE q == h.queue
              t == Head(q)
              p == Tail(q)
  <2>1. 1 \in DOMAIN q /\ t = q[1] /\ Thinner(p, q, 1)
    BY <1>1, <1>4, TailThins
  <2>2. /\ p \in Seq(TrackType) /\ ToSet(p) \subseteq Queued(h) /\ t \in Queued(h)
        /\ Once(p) /\ (t.id \in Requests => \A u \in ToSet(p) : u.id # t.id)
    BY <2>1 DEF Thinner, Queued, HallOK
  <2>3. t.id # 0 /\ t \in TrackType
    BY <1>1, <1>4, <2>2 DEF HallOK
  <2>4. g = [[h EXCEPT !.cur = t, !.playing = TRUE] EXCEPT !.queue = p]
    <3>1. t # NoTrack
      BY <1>2, <2>3
    <3>. QED
      BY <1>4, <3>1 DEF NextHall, Starts
  <2>. HIDE DEF t, p, g
  <2>5. g \in HallType /\ g.cur = t /\ g.queue = p /\ g.playing = TRUE
    <3>1. [h EXCEPT !.cur = t, !.playing = TRUE] \in HallType
      BY <1>1, <2>3 DEF HallType
    <3>. QED
      BY <1>1, <2>2, <2>3, <2>4, <3>1 DEF HallType
  <2>6. Queued(g) \subseteq Queued(h) /\ Tracks(g) \subseteq Tracks(h)
    BY <2>2, <2>5 DEF Queued, Tracks
  <2>7. HallOK(g, k)
    <3>1. \A u \in Queued(g) : u.id # 0 /\ (u.id \in Requests => u.id # t.id)
      BY <2>2, <2>5, <2>6 DEF HallOK, Queued
    <3>. QED
      BY <2>2, <2>5, <2>6, <3>1 DEF HallOK
  <2>. QED
    BY <1>4, <2>2, <2>5, <2>6, <2>7 DEF g, t
<1>. QED
  BY <1>3, <1>4

\* advance() when it waits for no download, as the room and the cards see it.
AtOnce(h, d, reason) ==
    [hall |-> NextHall(h), desk |-> TurnsTo(ToldOf(d, h.cur, reason), NextHall(h).cur)]

(* A room that moves on in its queue.                                      *)
LEMMA NextSound ==
    ASSUME NEW k, NEW h, NEW d, NEW cd, Sound(k, h, d, cd), NEW r, NoMore(r, d),
           \A t \in Tracks(h) : Taken(t.card, k, cd)
    PROVE  LET g == NextHall(h) IN
           HallOK(g, k) /\ Linked(g, r) /\ \A t \in Tracks(g) : Taken(t.card, k, cd)
<1>. DEFINE g == NextHall(h)
<1>1. HallOK(h, k) /\ 0 \in k /\ Linked(h, d) /\ DeskOK(d, k)
  BY DEF Sound
<1>2. HallOK(g, k) /\ Tracks(g) \subseteq Tracks(h) \cup {NoTrack}
  BY <1>1, NextIs DEF Tracks
<1>. HIDE DEF g
<1>3. Linked(g, r)
  <2>1. ASSUME NEW c \in Cards, NEW e \in Chain(r, c), NEW t \in Tracks(g),
               e.then = "begin", t.id = e.says.track
        PROVE  t.card = c
    <3>1. e \in Chain(d, c)
      BY <2>1 DEF NoMore
    <3>2. e.says.track # 0
      BY <1>1, <2>1, <3>1 DEF DeskOK, InChain, Fits
    <3>3. t \in Tracks(h)
      BY <1>2, <2>1, <3>2 DEF NoTrack
    <3>. QED
      BY <1>1, <2>1, <3>1, <3>3 DEF Linked
  <2>. QED
    BY <2>1 DEF Linked
<1>4. \A t \in Tracks(g) : Taken(t.card, k, cd)
  BY <1>2 DEF NoTrack, Taken, Places, NoCard, Cards
<1>. QED
  BY <1>2, <1>3, <1>4 DEF g

(* The current track is over, and the room moves on.                       *)
LEMMA NaturalGood ==
    ASSUME NEW k, NEW h, NEW d, NEW cd, NEW ex, NEW x, Good(k, h, d, cd, ex, x)
    PROVE  LET pl == AtOnce(h, d, "natural") IN
           Good(k, pl.hall, pl.desk, cd, ex, x)
<1>. DEFINE g == NextHall(h)
            r == ToldOf(d, h.cur, "natural")
            pl == AtOnce(h, d, "natural")
<1>1. Sound(k, h, d, cd) /\ HallOK(h, k) /\ 0 \in k
  BY DEF Good, Sound
<1>2. Good(k, h, r, cd, ex, x) /\ Lefts(r, cd, ex) /\ NoMore(r, d)
  BY ToldGood
<1>3. Sound(k, h, r, cd) /\ Moving(h, r, cd, ex) /\ (x \/ Agreeing(h, r, cd, ex))
  BY <1>2 DEF Good
<1>4. HallOK(g, k) /\ Linked(g, r) /\ \A t \in Tracks(g) : Taken(t.card, k, cd)
  BY <1>1, <1>2, SoundTaken, NextSound
<1>5. /\ Queued(g) \subseteq Queued(h) /\ (g.cur = NoTrack \/ g.cur \in Queued(h))
      /\ g.cur.id # 0 => g.playing
  BY <1>1, NextIs
<1>6. pl.hall = g /\ pl.desk = TurnsTo(r, g.cur)
  BY DEF AtOnce
<1>. HIDE DEF g, r, pl
<1>7. Quiet(g, r, cd, ex)
  <2>1. ASSUME NEW t \in Tracks(g), t.id \in Requests \ ex, t.card = NoCard PROVE ~Claims(t.id, r, cd)
    <3>1. t \in Queued(h)
      BY <1>5, <2>1, CardsAssumption DEF Tracks, NoTrack
    <3>. QED
      BY <1>3, <2>1, <3>1 DEF Moving, Waits, IsQuiet
  <2>. QED
    BY <2>1 DEF Quiet
<1>8. Sound(k, g, TurnsTo(r, g.cur), cd) /\ Moving(g, TurnsTo(r, g.cur), cd, ex)
      /\ (x \/ Agreeing(g, TurnsTo(r, g.cur), cd, ex))
  BY <1>2, <1>3, <1>4, <1>5, <1>7, TurnsGood
<1>. QED
  BY <1>6, <1>8 DEF Good, pl

\* A room and a desk that moved on without telling any card.
Skipped(pl, k, h, d, cd, ex, x) ==
    /\ Sound(k, pl.hall, pl.desk, cd) /\ pl.desk.live = NobodysCard
    /\ Moving(pl.hall, pl.desk, cd, ex \cup {h.cur.card, d.live.card})
    /\ x \/ Agreeing(pl.hall, pl.desk, cd, ex)
    /\ Queued(pl.hall) \subseteq Queued(h) /\ (pl.hall.cur = NoTrack \/ pl.hall.cur \in Queued(h))

(* A track is skipped: what its card and the live one say is not told yet. *)
LEMMA SkipGood ==
    ASSUME NEW k, NEW h, NEW d, NEW cd, NEW ex, NEW x, Good(k, h, d, cd, ex, x)
    PROVE  Skipped(AtOnce(h, d, "skip"), k, h, d, cd, ex, x)
<1>. DEFINE g == NextHall(h)
            more == ex \cup {h.cur.card, d.live.card}
            pl == AtOnce(h, d, "skip")
<1>1. /\ Sound(k, h, d, cd) /\ HallOK(h, k) /\ 0 \in k
      /\ Moving(h, d, cd, ex) /\ (x \/ Agreeing(h, d, cd, ex))
  BY DEF Good, Sound
<1>2. ToldOf(d, h.cur, "skip") = d
  BY DEF ToldOf
<1>3. NoMore(d, d)
  BY DEF NoMore
<1>4. HallOK(g, k) /\ Linked(g, d) /\ \A t \in Tracks(g) : Taken(t.card, k, cd)
  BY <1>1, <1>3, SoundTaken, NextSound
<1>5. /\ Queued(g) \subseteq Queued(h) /\ (g.cur = NoTrack \/ g.cur \in Queued(h))
      /\ g.cur.id # 0 => g.playing
  BY <1>1, NextIs
<1>6. pl.hall = g /\ pl.desk = TurnsTo(d, g.cur)
  BY <1>2 DEF AtOnce
<1>. HIDE DEF g, pl
<1>7. Quiet(g, d, cd, more)
  <2>1. ASSUME NEW t \in Tracks(g), t.id \in Requests \ more, t.card = NoCard PROVE ~Claims(t.id, d, cd)
    <3>1. t \in Queued(h)
      BY <1>5, <2>1, CardsAssumption DEF Tracks, NoTrack
    <3>. QED
      BY <1>1, <2>1, <3>1 DEF Moving, Waits, IsQuiet
  <2>. QED
    BY <2>1 DEF Quiet
<1>8. Lefts(d, cd, more)
  <2>1. ASSUME NEW q \in Requests \ more, cd[q].text = "now" PROVE Pending(q, d)
    <3>1. MovesOn(q, h, d, cd) /\ IsLive(q, h, d, cd)
      BY <1>1, <2>1 DEF Moving, Waits
    <3>2. CASE h.cur.id # q
      BY <2>1, <3>1, <3>2 DEF MovesOn
    <3>3. CASE h.cur.id = q
      <4>1. ~Claims(q, d, cd)
        BY <2>1, <3>1, <3>3 DEF IsLive
      <4>. QED
        BY <2>1, <4>1 DEF Claims, Final, Pending
    <3>. QED
      BY <3>2, <3>3
  <2>. QED
    BY <2>1 DEF Lefts
<1>9. /\ Sound(k, g, TurnsTo(d, g.cur), cd) /\ Moving(g, TurnsTo(d, g.cur), cd, more)
      /\ x \/ Agreeing(g, TurnsTo(d, g.cur), cd, ex)
      /\ TurnsTo(d, g.cur).live = NobodysCard
  <2>. HIDE DEF more
  <2>. QED
    BY <1>1, <1>4, <1>5, <1>7, <1>8, TurnsGood
<1>10. Skipped(pl, k, h, d, cd, ex, x)
  BY <1>5, <1>6, <1>9 DEF Skipped, more
<1>. QED
  BY <1>10 DEF pl

\* A track that may take the place of the current one, with the rest of the queue.
Interrupts(t, q, k, h, d, cd) ==
    /\ t \in TrackType /\ t.id # 0 /\ TrackOK(t, k) /\ Taken(t.card, k, cd)
    /\ q \in Seq(TrackType) /\ ToSet(q) \subseteq Queued(h) /\ Once(q)
    /\ \A u \in Tracks(h) : t.id = u.id => t.card = u.card
    /\ t.id \in Requests => t.id # h.cur.id /\ \A u \in ToSet(q) : t.id # u.id
    /\ \A c \in Cards : \A e \in Chain(d, c) : e.then = "begin" /\ e.says.track = t.id => t.card = c

\* The room and the desk then.
Interrupted(pl, t, k, h, d) ==
    /\ HallOK(pl.hall, k) /\ pl.hall.cur = t /\ pl.hall.playing = TRUE
    /\ Tracks(pl.hall) \subseteq Tracks(h) \cup {t}
    /\ pl.desk = TurnsTo(ToldOf(d, h.cur, "postponed"), t)

(* The room that it makes.                                                 *)
LEMMA InterruptHall ==
    ASSUME NEW k, NEW h, NEW d, NEW cd, Sound(k, h, d, cd), NEW t, NEW q, Interrupts(t, q, k, h, d, cd)
    PROVE  Interrupted(Interrupt([hall |-> h, desk |-> d], t, q), t, k, h, d)
<1>. DEFINE pl == Interrupt([hall |-> h, desk |-> d], t, q)
            rest == IF h.cur = NoTrack THEN q ELSE <<h.cur>> \o q
            g == [[h EXCEPT !.cur = t, !.playing = TRUE] EXCEPT !.queue = rest]
<1>1. HallOK(h, k) /\ h \in HallType /\ h.cur \in TrackType /\ TrackOK(h.cur, k)
  BY TracksTyped DEF Sound, HallOK, Tracks
<1>2. pl.hall = g /\ pl.desk = TurnsTo(ToldOf(d, h.cur, "postponed"), t)
  BY AdvancedIs DEF Interrupt, Starts
<1>3. h.cur # NoTrack => h.cur.id # 0
  BY <1>1 DEF TrackOK, TrackType, NoTrack
<1>4. /\ rest \in Seq(TrackType) /\ Once(rest)
      /\ ToSet(rest) = IF h.cur = NoTrack THEN ToSet(q) ELSE ToSet(q) \cup {h.cur}
  <2>1. h.cur.id \in Requests => \A u \in ToSet(q) : u.id # h.cur.id
    BY <1>1 DEF Interrupts, HallOK
  <2>2. q \in Seq(TrackType) /\ Once(q)
    BY DEF Interrupts
  <2>. QED
    BY <1>1, <2>1, <2>2, ConsJoins
<1>. HIDE DEF rest
<1>5. g \in HallType /\ g.cur = t /\ g.playing = TRUE /\ g.queue = rest
  <2>1. [h EXCEPT !.cur = t, !.playing = TRUE] \in HallType
    BY <1>1 DEF HallType, Interrupts
  <2>. QED
    BY <1>4, <2>1 DEF HallType
<1>. HIDE DEF g, pl
<1>6. Queued(g) \subseteq Tracks(h) /\ Tracks(g) \subseteq Tracks(h) \cup {t}
  BY <1>4, <1>5 DEF Queued, Tracks, Interrupts
<1>7. HallOK(g, k)
  <2>1. \A u \in Tracks(g) : TrackOK(u, k)
    BY <1>1, <1>6 DEF HallOK, Interrupts
  <2>2. ASSUME NEW u \in Queued(g) PROVE u.id # 0 /\ (u.id \in Requests => u.id # t.id)
    <3>1. u \in ToSet(q) \/ (h.cur # NoTrack /\ u = h.cur)
      BY <1>4, <1>5, <2>2 DEF Queued
    <3>2. CASE u \in ToSet(q)
      BY <1>1, <3>2 DEF HallOK, Interrupts
    <3>3. CASE h.cur # NoTrack /\ u = h.cur
      BY <1>3, <3>3 DEF Interrupts
    <3>. QED
      BY <3>1, <3>2, <3>3
  <2>3. \A u, v \in Tracks(g) : u.id = v.id => u.card = v.card
    BY <1>1, <1>6 DEF HallOK, Interrupts
  <2>. QED
    BY <1>4, <1>5, <2>1, <2>2, <2>3 DEF HallOK
<1>. QED
  BY <1>2, <1>5, <1>6, <1>7 DEF pl, Interrupted

(* A track takes the place of the current one.                             *)
LEMMA InterruptGood ==
    ASSUME NEW k, NEW h, NEW d, NEW cd, NEW ex, NEW x, Good(k, h, d, cd, ex, x),
           NEW t, NEW q, Interrupts(t, q, k, h, d, cd),
           t.id \in Requests \ ex /\ t.card = NoCard => ~Claims(t.id, d, cd)
    PROVE  LET pl == Interrupt([hall |-> h, desk |-> d], t, q) IN
           Good(k, pl.hall, pl.desk, cd, ex, x)
<1>. DEFINE pl == Interrupt([hall |-> h, desk |-> d], t, q)
            g == pl.hall
            r == ToldOf(d, h.cur, "postponed")
<1>1. Sound(k, h, d, cd) /\ DeskOK(d, k)
  BY DEF Good, Sound
<1>2. /\ HallOK(g, k) /\ g.cur = t /\ g.playing = TRUE
      /\ Tracks(g) \subseteq Tracks(h) \cup {t}
      /\ pl.desk = TurnsTo(r, t)
  <2>1. Interrupted(pl, t, k, h, d)
    BY <1>1, InterruptHall
  <2>. HIDE DEF pl
  <2>. QED
    BY <2>1 DEF Interrupted
<1>3. /\ Good(k, h, r, cd, ex, x) /\ Lefts(r, cd, ex) /\ NoMore(r, d)
      /\ h.cur.id \in Requests \ ex /\ h.cur.card = NoCard => ~Claims(h.cur.id, r, cd)
      /\ \A c \in Cards : Claims(c, r, cd) => Claims(c, d, cd)
  BY ToldGood
<1>4. Sound(k, h, r, cd) /\ Moving(h, r, cd, ex) /\ (x \/ Agreeing(h, r, cd, ex)) /\ Linked(h, d)
  BY <1>1, <1>3 DEF Good, Sound
<1>. HIDE DEF pl, r
<1>5. Linked(g, r)
  <2>1. ASSUME NEW c \in Cards, NEW e \in Chain(r, c), NEW u \in Tracks(g),
               e.then = "begin", u.id = e.says.track
        PROVE  u.card = c
    <3>1. e \in Chain(d, c)
      BY <1>3, <2>1 DEF NoMore
    <3>. QED
      BY <1>2, <1>4, <2>1, <3>1 DEF Linked, Interrupts
  <2>. QED
    BY <2>1 DEF Linked
<1>6. \A u \in Tracks(g) : Taken(u.card, k, cd)
  BY <1>1, <1>2, SoundTaken DEF Interrupts
<1>7. Quiet(g, r, cd, ex)
  <2>1. ASSUME NEW u \in Tracks(g), u.id \in Requests \ ex, u.card = NoCard PROVE ~Claims(u.id, r, cd)
    <3>1. u.id \in Cards
      BY <2>1, CardsAssumption DEF Cards
    <3>2. CASE u = t
      BY <1>3, <2>1, <3>1, <3>2
    <3>3. CASE u = h.cur
      BY <1>3, <2>1, <3>3
    <3>4. CASE u \in Queued(h)
      BY <1>4, <2>1, <3>4 DEF Moving, Waits, IsQuiet
    <3>. QED
      BY <1>2, <2>1, <3>2, <3>3, <3>4 DEF Tracks
  <2>. QED
    BY <2>1 DEF Quiet
<1>8. Sound(k, g, TurnsTo(r, g.cur), cd) /\ Moving(g, TurnsTo(r, g.cur), cd, ex)
      /\ (x \/ Agreeing(g, TurnsTo(r, g.cur), cd, ex))
  BY <1>2, <1>3, <1>4, <1>5, <1>6, <1>7, TurnsGood
<1>. QED
  BY <1>2, <1>8 DEF Good, pl

-----------------------------------------------------------------------------
(* Telegram does what it was asked, or refuses.                            *)

\* What an edit does to the live card.
Lives(r, d, e, c) ==
    IF e.then = "begin" THEN Turned(r, d, [card |-> c, track |-> e.says.track], d.shown, d.ending)
    ELSE Turned(r, d, d.live, d.shown, d.ending)

(* A place with a new live card is sound.                                  *)
LEMMA SoundLives ==
    ASSUME NEW k, NEW h, NEW d, NEW cd, Sound(k, h, d, cd), NEW r, NEW e, NEW c \in Cards, ~Free(c, k, cd),
           Lives(r, d, e, c),
           e.then = "begin" => /\ e.says.track \in Int /\ e.says.track # 0 /\ e.says.track \in k
                               /\ c \in Requests => e.says.track = c
    PROVE  Sound(k, h, r, cd)
<1>1. /\ Taken(d.live.card, k, cd) /\ Taken(d.shown, k, cd) /\ \A q \in d.ending : Taken(q, k, cd)
      /\ LiveOK(d.live, k) /\ d.shown \notin Requests /\ 0 \in k /\ k \subseteq Int
  BY SoundTaken DEF Sound, DeskOK
<1>2. CASE e.then = "begin"
  <2>. DEFINE l == [card |-> c, track |-> e.says.track]
  <2>1. l.card = c /\ l.track = e.says.track /\ l \in [card : Places, track : Int]
    BY <1>2 DEF Places
  <2>2. Turned(r, d, l, d.shown, d.ending)
    BY <1>2 DEF Lives
  <2>3. Taken(c, k, cd) /\ c # NoCard
    BY CardsAssumption DEF Taken, Places, Cards, NoCard
  <2>. HIDE DEF l
  <2>4. LiveOK(l, k)
    BY <1>2, <2>1, <2>3 DEF LiveOK
  <2>. QED
    BY <1>1, <2>1, <2>2, <2>3, <2>4, SoundTurned
<1>3. CASE e.then # "begin"
  BY <1>1, <1>3, SoundTurned DEF Lives
<1>. QED
  BY <1>2, <1>3

\* What is under way to a message, by its turn.
Heads(e, d, c) == d.chain[c] # <<>> /\ e = d.chain[c][1]

(* An edit in a chain is done.                                             *)
LEMMA ChainArrives ==
    ASSUME NEW k, NEW h, NEW d, NEW cd, NEW ex, NEW x, Good(k, h, d, cd, ex, x),
           NEW c \in Cards, NEW e, Heads(e, d, c), NEW rest, FirstDone(rest, d, c),
           NEW r, Lives(r, rest, e, c),
           cd[c].text \notin {"none", "deleted"}, NEW ce, ce = [cd EXCEPT ![c] = e.says],
           NEW more, ex \subseteq more,
           e.says.text = "now" /\ e.says.track # h.cur.id /\ rest.chain[c] = <<>> => c \in more,
           e.then = "begin" /\ e.says.track # h.cur.id /\ d.live.card \in Cards \ {c} => d.live.card \in more
    PROVE  Good(k, h, r, ce, more, x)
<1>1. /\ Sound(k, h, d, cd) /\ Moving(h, d, cd, ex) /\ (x \/ Agreeing(h, d, cd, ex))
      /\ Linked(h, d) /\ CardOK(cd) /\ DeskOK(d, k) /\ HallOK(h, k)
      /\ Requests \subseteq Cards /\ NoCard \notin Cards
  BY CardsAssumption DEF Good, Sound, Cards, NoCard
<1>2. /\ e \in Chain(d, c) /\ InChain(e, c, k) /\ Fits(e, c, k) /\ e.says \in SaysType
      /\ d.chain[c] # <<>> /\ e = d.chain[c][1]
  <2>1. /\ e \in Chain(d, c) /\ InChain(e, c, k)
        /\ d.chain[c] # <<>> /\ e = d.chain[c][1]
    BY <1>1 DEF FirstDone, DeskOK, Heads
  <2>. QED
    BY <2>1 DEF InChain, Fits, EditType
<1>3. Sound(k, h, rest, cd) /\ ~Free(c, k, cd)
  BY <1>1, <1>2, SoundFirst
<1>4. ce \in [Cards -> SaysType] /\ ce[c] = e.says /\ \A q \in Cards \ {c} : ce[q] = cd[q]
  BY <1>1, <1>2 DEF CardOK
<1>5. Sound(k, h, rest, ce)
  <2>1. CardOK(ce)
    BY <1>1, <1>2, <1>4 DEF CardOK, Fits
  <2>2. ASSUME NEW q \in Cards, Free(q, k, ce) PROVE Free(q, k, cd) /\ ce[q].text # "now"
    <3>1. CASE q = c
      <4>1. c \notin Requests
        BY <1>3, <2>2, <3>1 DEF Free
      <4>2. e.says = Blank
        BY <1>4, <2>2, <3>1, <4>1 DEF Free
      <4>. QED
        BY <1>2, <4>2 DEF Fits, Blank, Reads, Says
    <3>2. CASE q # c
      <4>1. Free(q, k, cd)
        BY <1>4, <2>2, <3>2 DEF Free
      <4>. QED
        BY <1>1, <1>4, <3>2, <4>1 DEF Sound
    <3>. QED
      BY <3>1, <3>2
  <2>. QED
    BY <1>3, <2>1, <2>2, SoundCard
<1>6. Sound(k, h, r, ce)
  <2>1. ~Free(c, k, ce)
    <3>1. e.says # Blank
      BY <1>2 DEF Fits, Blank, Reads, Says
    <3>. QED
      BY <1>3, <1>4, <3>1 DEF Free
  <2>2. e.then = "begin" => /\ e.says.track \in Int /\ e.says.track # 0 /\ e.says.track \in k
                            /\ c \in Requests => e.says.track = c
    BY <1>2 DEF Fits, SaysType
  <2>. QED
    BY <1>5, <2>1, <2>2, SoundLives
<1>7. /\ r.chain = rest.chain /\ Loose(r) = Loose(d) /\ r.ending = d.ending
      /\ \A q : Chain(r, q) = Chain(rest, q)
      /\ e.then = "begin" => r.live = [card |-> c, track |-> e.says.track]
      /\ e.then # "begin" => r.live = d.live
  BY DEF Lives, Turned, Parked, FirstDone, Sits, Chain
<1>8. \A q \in Cards : Final(q, r, ce) = Final(q, d, cd)
  <2>1. \A q \in Cards : Final(q, rest, ce) = Final(q, d, cd)
    <3>1. Final(c, rest, ce) = Final(c, d, cd)
      BY <1>2, <1>4 DEF Final, FirstDone
    <3>2. \A q \in Cards \ {c} : Final(q, rest, ce) = Final(q, d, cd)
      BY <1>4 DEF Final, FirstDone
    <3>. QED
      BY <3>1, <3>2
  <2>. QED
    BY <1>7, <2>1 DEF Final
<1>9. \A q \in Cards : Claims(q, r, ce) => Claims(q, d, cd)
  BY <1>4, <1>8 DEF Claims
<1>10. Moving(h, r, ce, more)
  <2>1. SUFFICES ASSUME NEW q \in Requests \ more PROVE MovesOn(q, h, r, ce) /\ Waits(q, h, r, ce)
    BY DEF Moving
  <2>2. q \in Cards /\ MovesOn(q, h, d, cd) /\ IsLive(q, h, d, cd) /\ IsQuiet(q, h, d, cd)
    BY <1>1 DEF Moving, Waits
  <2>3. CASE q = c
    <3>1. e.says.text = "now" => e.says.track = q
      BY <1>2, <2>3 DEF Fits
    <3>2. MovesOn(q, h, r, ce)
      BY <1>4, <1>7, <2>1, <2>3, <3>1 DEF MovesOn, Pending
    <3>3. IsLive(q, h, r, ce)
      BY <1>7, <1>9, <2>2, <2>3 DEF IsLive
    <3>4. ASSUME NEW t \in Queued(h), t.id = q, t.card = NoCard PROVE ~Claims(q, r, ce) /\ r.live.card # q
      <4>1. ~Claims(q, r, ce) /\ d.live.card # q
        BY <1>9, <2>2, <3>4 DEF IsQuiet
      <4>2. e.then # "begin"
        <5>1. e.then = "begin" => e.says.track = q
          BY <1>2, <3>1 DEF Fits
        <5>. QED
          BY <1>1, <1>2, <2>3, <3>4, <5>1 DEF Linked, Tracks
      <4>. QED
        BY <1>7, <4>1, <4>2
    <3>. QED
      BY <3>2, <3>3, <3>4 DEF Waits, IsQuiet
  <2>4. CASE q # c
    <3>1. Pending(q, d) => Pending(q, r)
      BY <1>7, <2>2, <2>4 DEF Pending, FirstDone
    <3>2. MovesOn(q, h, r, ce)
      BY <1>4, <2>2, <2>4, <3>1 DEF MovesOn
    <3>3. ASSUME h.cur.id = q, h.cur.card # q, Claims(q, r, ce) PROVE r.live.card = q
      <4>1. d.live.card = q
        BY <1>9, <2>2, <3>3 DEF IsLive
      <4>2. e.then = "begin" => e.says.track # q
        BY <1>2, <2>1, <2>4 DEF InChain
      <4>3. e.then # "begin"
        BY <2>1, <2>2, <2>4, <3>3, <4>1, <4>2
      <4>. QED
        BY <1>7, <4>1, <4>3
    <3>4. ASSUME NEW t \in Queued(h), t.id = q, t.card = NoCard PROVE ~Claims(q, r, ce) /\ r.live.card # q
      <4>1. ~Claims(q, d, cd) /\ d.live.card # q
        BY <2>2, <3>4 DEF IsQuiet
      <4>2. e.then = "begin" => r.live.card = c
        BY <1>7
      <4>. QED
        BY <1>7, <1>9, <2>2, <2>4, <4>1, <4>2
    <3>. QED
      BY <3>2, <3>3, <3>4 DEF Waits, IsLive, IsQuiet
  <2>. QED
    BY <2>3, <2>4
<1>11. ASSUME Agreeing(h, d, cd, ex) PROVE Agreeing(h, r, ce, more)
  <2>1. \A q \in Cards : Chain(r, q) \subseteq Chain(d, q)
    BY <1>7 DEF FirstDone
  <2>2. ASSUME NEW q \in Cards \ more PROVE Offers(q, h, r, ce)
    <3>1. Offers(q, h, d, cd)
      BY <1>11 DEF Agreeing
    <3>2. r.live = [card |-> q, track |-> h.cur.id] => Coming(q, h, d)
      <4>1. CASE e.then = "begin"
        BY <1>2, <1>7, <4>1 DEF Coming, Begins
      <4>2. CASE e.then # "begin"
        BY <1>7, <4>2 DEF Coming
      <4>. QED
        BY <4>1, <4>2
    <3>3. Coming(q, h, r) => Coming(q, h, d)
      BY <1>7, <2>1, <3>2 DEF Coming
    <3>. QED
      BY <1>8, <3>1, <3>3 DEF Offers
  <2>3. ASSUME NEW f \in Loose(r) PROVE Fresh(f, h, r, ce)
    <3>1. Fresh(f, h, d, cd) /\ f.card \in Cards
      BY <1>1, <1>7, <1>11, <2>3, LooseCards DEF Agreeing
    <3>2. f.then = "begin" /\ ce[f.card].text = "now" => ce[f.card].on
      <4>1. CASE f.card = c
        BY <1>2, <1>4, <3>1, <4>1 DEF Fresh
      <4>2. CASE f.card # c
        BY <1>4, <3>1, <4>2 DEF Fresh
      <4>. QED
        BY <4>1, <4>2
    <3>. QED
      BY <2>1, <3>1, <3>2 DEF Fresh
  <2>. QED
    BY <2>2, <2>3 DEF Agreeing
<1>. QED
  BY <1>1, <1>6, <1>10, <1>11 DEF Good

(* An edit in a chain is refused.                                          *)
LEMMA ChainRefused ==
    ASSUME NEW k, NEW h, NEW d, NEW cd, NEW ex, NEW x, Good(k, h, d, cd, ex, x),
           NEW c \in Cards, d.chain[c] # <<>>, NEW r, FirstDone(r, d, c),
           NEW more, ex \subseteq more, cd[c].text = "now" => c \in more
    PROVE  Good(k, h, r, cd, more, x)
<1>1. /\ Sound(k, h, d, cd) /\ Moving(h, d, cd, ex) /\ (x \/ Agreeing(h, d, cd, ex))
      /\ Requests \subseteq Cards
  BY CardsAssumption DEF Good, Cards
<1>2. Sound(k, h, r, cd)
  BY <1>1, SoundFirst
<1>3. \A q \in Cards \ more : Final(q, r, cd).text = "now" => Final(q, r, cd) = Final(q, d, cd)
  <2>1. ASSUME NEW q \in Cards \ more, Final(q, r, cd).text = "now" PROVE Final(q, r, cd) = Final(q, d, cd)
    <3>1. CASE q = c
      BY <2>1, <3>1 DEF Final, FirstDone
    <3>2. CASE q # c
      BY <3>2 DEF Final, FirstDone
    <3>. QED
      BY <3>1, <3>2
  <2>. QED
    BY <2>1
<1>4. Moving(h, r, cd, more)
  <2>1. SUFFICES ASSUME NEW q \in Requests \ more PROVE MovesOn(q, h, r, cd) /\ Waits(q, h, r, cd)
    BY DEF Moving
  <2>2. q \in Cards \ more /\ MovesOn(q, h, d, cd) /\ Waits(q, h, d, cd)
    BY <1>1 DEF Moving
  <2>3. Claims(q, r, cd) => Claims(q, d, cd)
    BY <1>3, <2>2 DEF Claims
  <2>4. cd[q].text = "now" /\ Pending(q, d) => Pending(q, r)
    BY <2>2 DEF Pending, FirstDone, Sits, Parked
  <2>5. r.live = d.live
    BY DEF FirstDone, Sits
  <2>. QED
    BY <2>2, <2>3, <2>4, <2>5 DEF MovesOn, Waits, IsLive, IsQuiet
<1>5. ASSUME Agreeing(h, d, cd, ex) PROVE Agreeing(h, r, cd, more)
  <2>1. \A q \in Cards : Chain(r, q) \subseteq Chain(d, q)
    BY DEF FirstDone
  <2>2. ASSUME NEW q \in Cards \ more PROVE Offers(q, h, r, cd)
    <3>1. Offers(q, h, d, cd)
      BY <1>5 DEF Agreeing
    <3>2. Coming(q, h, r) => Coming(q, h, d)
      BY <2>1 DEF Coming, FirstDone, Sits, Parked
    <3>. QED
      BY <1>3, <3>1, <3>2 DEF Offers
  <2>3. ASSUME NEW f \in Loose(r) PROVE Fresh(f, h, r, cd)
    <3>1. f \in Loose(d)
      BY <2>3 DEF FirstDone, Parked
    <3>2. Fresh(f, h, d, cd) /\ f.card \in Cards
      BY <1>1, <1>5, <3>1, LooseCards DEF Agreeing
    <3>. QED
      BY <2>1, <3>2 DEF Fresh
  <2>. QED
    BY <2>2, <2>3 DEF Agreeing
<1>. QED
  BY <1>1, <1>2, <1>4, <1>5 DEF Good


(* An edit outside of the chains is done, or refused.                      *)
LEMMA LooseArrives ==
    ASSUME NEW k, NEW h, NEW d, NEW cd, NEW ex, NEW x, Good(k, h, d, cd, ex, x),
           NEW e \in Loose(d), NEW rest, LooseDone(rest, d, e), NEW r, Lives(r, rest, e, e.card),
           NEW more, ex \subseteq more, NEW ce,
           \/ cd[e.card].text \notin {"none", "deleted"} /\ ce = [cd EXCEPT ![e.card] = e.says]
           \/ ce = cd /\ (cd[e.card].text = "now" => e.card \in more),
           e.says.text = "now" /\ e.says.track # h.cur.id =>
                e.card \in more /\ (e.then = "begin" /\ d.live.card \in Cards => d.live.card \in more)
    PROVE  Good(k, h, r, ce, more, x)
<1>. DEFINE c == e.card
<1>1. /\ Sound(k, h, d, cd) /\ Moving(h, d, cd, ex) /\ (x \/ Agreeing(h, d, cd, ex))
      /\ CardOK(cd) /\ DeskOK(d, k) /\ HallOK(h, k)
      /\ Requests \subseteq Cards /\ NoCard \notin Cards /\ h.playing \in BOOLEAN
  BY CardsAssumption DEF Good, Sound, Cards, NoCard, HallOK, HallType
<1>2. /\ InLoose(e, k) /\ Fits(e, c, k) /\ e.says \in SaysType
      /\ e.says.text = "now" <=> e.then = "begin"
      /\ e.then = "begin" => c \in Requests /\ e.says.track = c
  <2>1. InLoose(e, k)
    BY <1>1 DEF DeskOK
  <2>. QED
    BY <2>1 DEF InLoose, Fits, EditType
<1>3. Sound(k, h, rest, cd) /\ c \in Cards /\ ~Free(c, k, cd)
  BY <1>1, SoundLoose
<1>4. /\ ce \in [Cards -> SaysType]
      /\ ce[c] = e.says \/ (ce[c] = cd[c] /\ (cd[c].text = "now" => c \in more))
      /\ \A q \in Cards \ {c} : ce[q] = cd[q]
  BY <1>1, <1>2, <1>3 DEF CardOK
<1>5. Sound(k, h, rest, ce) /\ ~Free(c, k, ce)
  <2>1. CardOK(ce)
    BY <1>1, <1>2, <1>4 DEF CardOK, Fits
  <2>2. e.says # Blank
    BY <1>2 DEF Fits, Blank, Reads, Says
  <2>3. ~Free(c, k, ce)
    BY <1>3, <1>4, <2>2 DEF Free
  <2>4. ASSUME NEW q \in Cards, Free(q, k, ce) PROVE Free(q, k, cd) /\ ce[q].text # "now"
    <3>1. q # c
      BY <2>3, <2>4
    <3>2. Free(q, k, cd)
      BY <1>4, <2>4, <3>1 DEF Free
    <3>. QED
      BY <1>1, <1>4, <3>1, <3>2 DEF Sound
  <2>. QED
    BY <1>3, <2>1, <2>3, <2>4, SoundCard
<1>6. Sound(k, h, r, ce)
  <2>1. e.then = "begin" => /\ e.says.track \in Int /\ e.says.track # 0 /\ e.says.track \in k
                            /\ c \in Requests => e.says.track = c
    BY <1>2 DEF Fits, SaysType
  <2>. QED
    BY <1>3, <1>5, <2>1, SoundLives
<1>7. /\ r.chain = d.chain /\ r.ending = d.ending
      /\ Loose(r) \subseteq Loose(d) /\ Loose(d) \subseteq Loose(r) \cup {e}
      /\ \A q : Chain(r, q) = Chain(d, q)
      /\ e.then = "begin" => r.live = [card |-> c, track |-> e.says.track]
      /\ e.then # "begin" => r.live = d.live
  BY DEF Lives, Turned, Parked, LooseDone, Sits, Chain
<1>8. \A q \in Cards \ {c} : Final(q, r, ce) = Final(q, d, cd) /\ Claims(q, r, ce) = Claims(q, d, cd)
  BY <1>4, <1>7 DEF Final, Claims
<1>9. /\ Final(c, r, ce) = Final(c, d, cd) \/ (d.chain[c] = <<>> /\ Final(c, r, ce) = e.says)
      /\ Claims(c, r, ce) => Claims(c, d, cd) \/ e.then = "begin"
  <2>1. Final(c, r, ce) = Final(c, d, cd) \/ (d.chain[c] = <<>> /\ Final(c, r, ce) = e.says)
    BY <1>4, <1>7 DEF Final
  <2>2. ASSUME Claims(c, r, ce), e.then # "begin" PROVE Claims(c, d, cd)
    <3>1. Final(c, d, cd).text = "now"
      BY <1>2, <2>1, <2>2 DEF Claims
    <3>2. cd[c].text \notin {"none", "deleted"}
      BY <2>2 DEF Claims
    <3>. QED
      BY <3>1, <3>2 DEF Claims
  <2>. QED
    BY <2>1, <2>2
<1>10. Moving(h, r, ce, more)
  <2>1. SUFFICES ASSUME NEW q \in Requests \ more PROVE MovesOn(q, h, r, ce) /\ Waits(q, h, r, ce)
    BY DEF Moving
  <2>2. q \in Cards /\ MovesOn(q, h, d, cd) /\ IsLive(q, h, d, cd) /\ IsQuiet(q, h, d, cd)
    BY <1>1, <2>1 DEF Moving, Waits
  <2>3. CASE q = c
    <3>1. e.then = "begin" => h.cur.id = q
      BY <1>2, <2>1, <2>3
    <3>2. MovesOn(q, h, r, ce)
      <4>1. ce[c].text = "now" => e.then = "begin"
        BY <1>2, <1>4, <2>1, <2>3
      <4>. QED
        BY <2>3, <3>1, <4>1 DEF MovesOn
    <3>3. IsLive(q, h, r, ce)
      BY <1>7, <1>9, <2>2, <2>3 DEF IsLive
    <3>4. ASSUME NEW t \in Queued(h), t.id = q, t.card = NoCard PROVE ~Claims(q, r, ce) /\ r.live.card # q
      <4>1. ~Claims(q, d, cd) /\ d.live.card # q
        BY <2>2, <3>4 DEF IsQuiet
      <4>2. e.then # "begin"
        BY <1>1, <2>1, <3>1, <3>4 DEF HallOK
      <4>. QED
        BY <1>7, <1>9, <2>3, <4>1, <4>2
    <3>. QED
      BY <3>2, <3>3, <3>4 DEF Waits, IsQuiet
  <2>4. CASE q # c
    <3>1. Pending(q, d) => Pending(q, r)
      BY <1>7, <2>4 DEF Pending
    <3>2. MovesOn(q, h, r, ce)
      BY <1>4, <2>2, <2>4, <3>1 DEF MovesOn
    <3>3. ASSUME h.cur.id = q, h.cur.card # q, Claims(q, r, ce) PROVE r.live.card = q
      <4>1. d.live.card = q
        BY <1>8, <2>2, <2>4, <3>3 DEF IsLive
      <4>2. e.then # "begin"
        BY <1>2, <2>1, <2>2, <2>4, <3>3, <4>1
      <4>. QED
        BY <1>7, <4>1, <4>2
    <3>4. ASSUME NEW t \in Queued(h), t.id = q, t.card = NoCard PROVE ~Claims(q, r, ce) /\ r.live.card # q
      <4>1. ~Claims(q, d, cd) /\ d.live.card # q
        BY <2>2, <3>4 DEF IsQuiet
      <4>2. e.then = "begin" => r.live.card = c
        BY <1>7
      <4>. QED
        BY <1>7, <1>8, <2>2, <2>4, <4>1, <4>2
    <3>. QED
      BY <3>2, <3>3, <3>4 DEF Waits, IsLive, IsQuiet
  <2>. QED
    BY <2>3, <2>4
<1>11. ASSUME Agreeing(h, d, cd, ex) PROVE Agreeing(h, r, ce, more)
  <2>1. Fresh(e, h, d, cd)
    BY <1>11 DEF Agreeing
  <2>2. ASSUME NEW q \in Cards \ more PROVE Offers(q, h, r, ce)
    <3>1. Offers(q, h, d, cd)
      BY <1>11, <2>2 DEF Agreeing
    <3>2. CASE q # c
      <4>1. r.live = [card |-> q, track |-> h.cur.id] => d.live = [card |-> q, track |-> h.cur.id]
        BY <1>7, <3>2
      <4>2. Coming(q, h, r) => Coming(q, h, d)
        BY <1>7, <4>1 DEF Coming
      <4>. QED
        BY <1>8, <2>2, <3>1, <3>2, <4>2 DEF Offers
    <3>3. CASE q = c /\ e.then # "begin"
      <4>1. Coming(q, h, r) => Coming(q, h, d)
        BY <1>7, <3>3 DEF Coming
      <4>. QED
        BY <1>2, <1>9, <3>1, <3>3, <4>1 DEF Offers
    <3>4. CASE q = c /\ e.then = "begin"
      <4>1. Begins(e, h)
        BY <1>2, <2>2, <3>4 DEF Begins
      <4>2. Coming(q, h, d)
        BY <3>4, <4>1 DEF Coming
      <4>3. h.playing = TRUE /\ e.says.on = TRUE
        <5>1. e.says.on \in BOOLEAN
          BY <1>2 DEF SaysType
        <5>. QED
          BY <1>1, <1>2, <2>1, <3>4, <4>1, <5>1 DEF Fresh, Fits
      <4>. QED
        BY <1>9, <3>1, <3>4, <4>2, <4>3 DEF Offers
    <3>. QED
      BY <3>2, <3>3, <3>4
  <2>3. ASSUME NEW f \in Loose(r) PROVE Fresh(f, h, r, ce)
    <3>1. Fresh(f, h, d, cd) /\ f.card \in Cards
      BY <1>1, <1>7, <1>11, <2>3, LooseCards DEF Agreeing
    <3>2. f.then = "begin" /\ ce[f.card].text = "now" => ce[f.card].on
      <4>1. CASE f.card = c
        BY <1>2, <1>4, <3>1, <4>1 DEF Fresh, Fits
      <4>2. CASE f.card # c
        BY <1>4, <3>1, <4>2 DEF Fresh
      <4>. QED
        BY <4>1, <4>2
    <3>. QED
      BY <1>7, <3>1, <3>2 DEF Fresh
  <2>. QED
    BY <2>2, <2>3 DEF Agreeing
<1>. QED
  BY <1>1, <1>6, <1>10, <1>11 DEF Good

(* A message is sent: it is the live card, in the place of others.         *)
LEMMA SendArrives ==
    ASSUME NEW k, NEW h, NEW d, NEW cd, NEW ex, NEW x, Good(k, h, d, cd, ex, x),
           NEW e \in Sends(d), NEW rest, SendDone(rest, d), NEW c \in Cards \ Requests, cd[c] = Blank,
           NEW s, s \in {d.shown, c}, NEW r,
           Turned(r, rest, [card |-> c, track |-> e.says.track], s, d.ending),
           NEW ce, ce \in [Cards -> SaysType], ce[c] = e.says,
           \A q \in Cards \ {c} : IF e.then # "begin" /\ q \in {d.shown, d.live.card}
                                  THEN ce[q] = Reads("deleted") ELSE ce[q] = cd[q],
           NEW more, ex \subseteq more,
           e.then = "begin" /\ d.live.card \in Cards /\ (e.says.track # h.cur.id \/ d.live.track = e.says.track)
                => d.live.card \in more,
           e.says.on = h.playing \/ c \in more
    PROVE  Good(k, h, r, ce, more, x)
<1>1. /\ Sound(k, h, d, cd) /\ Moving(h, d, cd, ex) /\ (x \/ Agreeing(h, d, cd, ex))
      /\ CardOK(cd) /\ DeskOK(d, k) /\ LiveOK(d.live, k) /\ d.shown \notin Requests
      /\ Requests \subseteq Cards /\ NoCard \notin Cards
  BY CardsAssumption DEF Good, Sound, Cards, NoCard, DeskOK
<1>2. /\ e.says.text = "now" /\ e.says.track # 0 /\ e.says.track \in k /\ e.says.track \in Int
      /\ e.then # "begin" => e.then = "show"
  <2>1. InSends(e, k)
    BY <1>1 DEF DeskOK
  <2>. QED
    BY <2>1 DEF InSends, Fits, EditType, SaysType
<1>3. Unseen(c, h, d)
  BY <1>1 DEF Sound, Free
<1>4. /\ Reads("deleted").text = "deleted" /\ Blank.text = "none"
      /\ \A q \in Cards \ {c} : ce[q] = Reads("deleted") \/ ce[q] = cd[q]
  BY DEF Reads, Says, Blank
<1>5. Sound(k, h, rest, cd)
  BY <1>1, SoundSend
<1>6. Sound(k, h, rest, ce) /\ ~Free(c, k, ce)
  <2>1. CardOK(ce)
    BY <1>1, <1>4 DEF CardOK
  <2>2. ~Free(c, k, ce)
    BY <1>2, <1>4 DEF Free
  <2>3. ASSUME NEW q \in Cards, Free(q, k, ce) PROVE Free(q, k, cd) /\ ce[q].text # "now"
    <3>1. q # c
      BY <2>2, <2>3
    <3>2. Free(q, k, cd)
      BY <1>4, <2>3, <3>1 DEF Free
    <3>. QED
      BY <1>1, <1>4, <3>1, <3>2 DEF Sound
  <2>. QED
    BY <1>5, <2>1, <2>2, <2>3, SoundCard
<1>7. Sound(k, h, r, ce)
  <2>. DEFINE l == [card |-> c, track |-> e.says.track]
  <2>1. l.card = c /\ l.track = e.says.track /\ l \in [card : Places, track : Int]
    BY <1>2 DEF Places
  <2>2. Turned(r, rest, l, s, d.ending)
    OBVIOUS
  <2>. HIDE DEF l
  <2>3. LiveOK(l, k)
    BY <1>1, <1>2, <2>1 DEF LiveOK
  <2>4. Taken(c, k, ce)
    BY <1>6 DEF Taken, Places
  <2>5. /\ Taken(d.shown, k, ce) /\ \A q \in d.ending : Taken(q, k, ce)
        /\ rest.shown = d.shown /\ rest.ending = d.ending
    <3>1. rest.shown = d.shown /\ rest.ending = d.ending
      BY DEF SendDone, Sits
    <3>. QED
      BY <1>6, <3>1, SoundTaken
  <2>6. s \notin Requests /\ Taken(s, k, ce)
    BY <1>1, <2>4, <2>5
  <2>. QED
    BY <1>6, <2>1, <2>2, <2>3, <2>4, <2>5, <2>6, SoundTurned
<1>8. /\ r.live.card = c /\ r.chain = d.chain /\ r.ending = d.ending /\ Loose(r) = Loose(d)
      /\ \A q : Chain(r, q) = Chain(d, q)
  BY DEF Turned, Parked, SendDone, Sits, Chain
<1>9. \A q \in Cards \ {c} : Claims(q, r, ce) => Claims(q, d, cd) /\ ce[q] = cd[q]
  BY <1>4, <1>8 DEF Claims, Final
<1>10. Moving(h, r, ce, more)
  <2>1. SUFFICES ASSUME NEW q \in Requests \ more PROVE MovesOn(q, h, r, ce) /\ Waits(q, h, r, ce)
    BY DEF Moving
  <2>2. /\ q \in Cards \ {c} /\ MovesOn(q, h, d, cd) /\ IsLive(q, h, d, cd) /\ IsQuiet(q, h, d, cd)
    BY <1>1, <2>1 DEF Moving, Waits
  <2>3. MovesOn(q, h, r, ce)
    BY <1>4, <1>8, <2>2 DEF MovesOn, Pending
  <2>4. ASSUME h.cur.id = q, h.cur.card # q, Claims(q, r, ce) PROVE FALSE
    <3>1. Claims(q, d, cd) /\ ce[q] = cd[q] /\ ce[q].text # "deleted"
      BY <1>9, <2>2, <2>4 DEF Claims
    <3>2. d.live.card = q /\ d.live.track = q
      BY <1>1, <2>1, <2>2, <2>4, <3>1 DEF IsLive, LiveOK
    <3>3. e.then = "begin"
      BY <1>4, <2>2, <3>1, <3>2
    <3>. QED
      BY <2>1, <2>2, <2>4, <3>2, <3>3
  <2>5. IsQuiet(q, h, r, ce)
    BY <1>8, <1>9, <2>2 DEF IsQuiet
  <2>. QED
    BY <2>3, <2>4, <2>5 DEF Waits, IsLive
<1>11. ASSUME Agreeing(h, d, cd, ex) PROVE Agreeing(h, r, ce, more)
  <2>1. ASSUME NEW q \in Cards \ more PROVE Offers(q, h, r, ce)
    <3>1. CASE q = c
      <4>1. Final(c, r, ce) = e.says
        BY <1>3, <1>8 DEF Final, Unseen
      <4>. QED
        BY <2>1, <3>1, <4>1 DEF Offers
    <3>2. CASE q # c
      <4>1. Offers(q, h, d, cd)
        BY <1>11, <2>1 DEF Agreeing
      <4>2. Coming(q, h, r) => Coming(q, h, d)
        BY <1>8, <3>2 DEF Coming
      <4>3. Final(q, r, ce).text = "now" => Final(q, r, ce) = Final(q, d, cd)
        BY <1>4, <1>8, <2>1, <3>2 DEF Final
      <4>. QED
        BY <4>1, <4>2, <4>3 DEF Offers
    <3>. QED
      BY <3>1, <3>2
  <2>2. ASSUME NEW f \in Loose(r) PROVE Fresh(f, h, r, ce)
    <3>1. f \in Loose(d) /\ Fresh(f, h, d, cd) /\ f.card \in Cards \ {c}
      BY <1>1, <1>3, <1>8, <1>11, <2>2, LooseCards DEF Agreeing, Unseen
    <3>2. ce[f.card].text = "now" => ce[f.card] = cd[f.card]
      BY <1>4, <3>1
    <3>. QED
      BY <1>8, <3>1, <3>2 DEF Fresh
  <2>. QED
    BY <2>1, <2>2 DEF Agreeing
<1>. QED
  BY <1>1, <1>7, <1>10, <1>11 DEF Good

-----------------------------------------------------------------------------
(* Skips and /end.                                                         *)

(* What is excused is all the same but for requests.                       *)
LEMMA MovingMore ==
    ASSUME NEW h, NEW d, NEW cd, NEW ex, NEW more, Moving(h, d, cd, ex), \A q \in Requests : q \in ex => q \in more
    PROVE  Moving(h, d, cd, more)
  BY DEF Moving

\* What the live card is told of, in its chain or outside of it.
Tells(e, c) == e.card = c /\ e.says.text \in Texts \ {"now", "none"} /\ e.then = "rest"

(* /skip: the live card is told in its chain.                              *)
LEMMA SkipTold ==
    ASSUME NEW k, NEW h, NEW d, NEW cd, NEW ex, NEW x, Good(k, h, d, cd, ex, x),
           d.live.card # NoCard, NEW e \in EditType, Tells(e, d.live.card),
           NEW more, ex \cup ({h.cur.card} \ {d.live.card, NoCard}) \subseteq more
    PROVE  LET pl == AtOnce(h, d, "skip") IN
           /\ Good(k, pl.hall, Chained(pl.desk, d.live.card, e), cd, more, x)
           /\ Good(k, pl.hall, Loosely(pl.desk, e), cd, more, x)
<1>. DEFINE pl == AtOnce(h, d, "skip")
            g == pl.hall
            s == pl.desk
            c == d.live.card
<1>1. Sound(k, h, d, cd) /\ Moving(h, d, cd, ex) /\ HallOK(h, k) /\ 0 \in k /\ NoCard \notin Requests
  BY CardsAssumption DEF Good, Sound, NoCard
<1>2. Skipped(pl, k, h, d, cd, ex, x)
  BY SkipGood
<1>. HIDE DEF pl
<1>3. /\ Sound(k, g, s, cd) /\ s.live = NobodysCard /\ Moving(g, s, cd, ex \cup {h.cur.card, c})
      /\ x \/ Agreeing(g, s, cd, ex)
      /\ Queued(g) \subseteq Queued(h) /\ (g.cur = NoTrack \/ g.cur \in Queued(h))
  BY <1>2 DEF Skipped
<1>. HIDE DEF g, s
<1>4. c \in Cards /\ ~Free(c, k, cd)
  <2>1. Taken(c, k, cd) /\ c \in Places
    BY <1>1, SoundTaken DEF Taken
  <2>. QED
    BY <2>1 DEF Places, Taken
<1>5. s \in DeskType /\ s.live.card = NoCard
  BY <1>3 DEF Sound, DeskOK, NobodysCard
<1>6. Fits(e, c, k) /\ InChain(e, c, k) /\ InLoose(e, k)
  BY <1>4 DEF Tells, Fits, InChain, InLoose
<1>7. Moving(g, s, cd, more \cup {c}) /\ (x \/ Agreeing(g, s, cd, more))
  <2>1. \A q \in Requests : q \in ex \cup {h.cur.card, c} => q \in more \cup {c}
    BY <1>1
  <2>2. Moving(g, s, cd, more \cup {c})
    BY <1>3, <2>1, MovingMore
  <2>. QED
    BY <1>3, <2>2 DEF Agreeing
<1>8. Good(k, g, Chained(s, c, e), cd, more, x)
  <2>. DEFINE r == Chained(s, c, e)
  <2>1. IsChained(r, s, c, e)
    BY <1>4, <1>5, ChainedIs
  <2>. HIDE DEF r
  <2>2. Sound(k, g, r, cd)
    BY <1>3, <1>4, <1>6, <2>1, SoundChained DEF Tells
  <2>3. Moving(g, r, cd, more)
    BY <1>4, <1>5, <1>7, <2>1, MovingTold, CardsAssumption DEF Tells, NoCard, Cards
  <2>4. x \/ Agreeing(g, r, cd, more)
    <3>1. \A f \in Loose(s) : f.card \in Cards
      BY <1>3, LooseCards
    <3>. QED
      BY <1>4, <1>7, <2>1, <3>1, AgreeingTold DEF Tells
  <2>. QED
    BY <2>2, <2>3, <2>4 DEF Good, r
<1>9. Good(k, g, Loosely(s, e), cd, more, x)
  <2>. DEFINE r == Loosely(s, e)
  <2>1. IsLoosely(r, s, e)
    BY <1>5, LooselyIs
  <2>. HIDE DEF r
  <2>2. e.card = c /\ e.then # "begin"
    BY DEF Tells
  <2>3. Sound(k, g, r, cd)
    BY <1>3, <1>4, <1>6, <2>1, <2>2, SoundLoosely
  <2>4. (x \/ Agreeing(g, r, cd, more)) /\ Moving(g, r, cd, more \cup {c})
    BY <1>7, <2>1, <2>2, LooselyKeeps
  <2>5. ASSUME c \in Requests \ more PROVE MovesOn(c, g, r, cd) /\ Waits(c, g, r, cd)
    <3>1. Pending(c, r)
      BY <2>1, <2>2 DEF Pending, IsLoosely
    <3>2. IsQuiet(c, h, d, cd)
      BY <1>1, <2>5 DEF Moving, Waits
    <3>3. \A t \in Queued(h) : t.id = c => t.card # NoCard
      BY <3>2 DEF IsQuiet
    <3>4. \A t \in Queued(h) : t.id = c => t.card \in {NoCard, c}
      BY <1>1, <2>5 DEF HallOK, TrackOK, Tracks
    <3>5. g.cur = NoTrack => g.cur.id # c
      BY <2>5, CardsAssumption DEF NoTrack
    <3>6. IsLive(c, g, r, cd)
      BY <1>3, <3>3, <3>4, <3>5 DEF IsLive
    <3>7. IsQuiet(c, g, r, cd)
      BY <1>3, <3>3 DEF IsQuiet
    <3>. QED
      BY <3>1, <3>6, <3>7 DEF MovesOn, Waits
  <2>6. Moving(g, r, cd, more)
    BY <2>4, <2>5 DEF Moving
  <2>. QED
    BY <2>3, <2>4, <2>6 DEF Good, r
<1>. QED
  BY <1>8, <1>9 DEF g, s, pl

(* A skip that the live card is not told of.                               *)
LEMMA SkipUntold ==
    ASSUME NEW k, NEW h, NEW d, NEW cd, NEW ex, NEW x, Good(k, h, d, cd, ex, x),
           NEW more, ex \subseteq more, Cards \cap {h.cur.card, d.live.card} \subseteq more
    PROVE  LET pl == AtOnce(h, d, "skip") IN
           Good(k, pl.hall, pl.desk, cd, more, x)
<1>. DEFINE pl == AtOnce(h, d, "skip")
<1>1. Skipped(pl, k, h, d, cd, ex, x)
  BY SkipGood
<1>. HIDE DEF pl
<1>2. \A q \in Requests : q \in ex \cup {h.cur.card, d.live.card} => q \in more
  BY CardsAssumption DEF Cards
<1>3. Moving(pl.hall, pl.desk, cd, more)
  BY <1>1, <1>2, MovingMore DEF Skipped
<1>4. x \/ Agreeing(pl.hall, pl.desk, cd, more)
  BY <1>1 DEF Skipped, Agreeing
<1>. QED
  BY <1>1, <1>3, <1>4 DEF Skipped, Good, pl

\* The room that was ended.
Empty == [cur |-> NoTrack, queue |-> <<>>, playing |-> FALSE]

(* /end: the live card is to be told.                                      *)
LEMMA EndsGood ==
    ASSUME NEW k, NEW h, NEW d, NEW cd, NEW ex, NEW x, Good(k, h, d, cd, ex, x),
           NEW r, Turned(r, d, d.live, d.shown, d.ending \cup {d.live.card}),
           NEW more, ex \cup ({h.cur.card} \ {d.live.card, NoCard}) \subseteq more
    PROVE  Good(k, Empty, r, cd, more, x)
<1>1. /\ Sound(k, h, d, cd) /\ Moving(h, d, cd, ex) /\ (x \/ Agreeing(h, d, cd, ex))
      /\ HallOK(h, k) /\ DeskOK(d, k) /\ LiveOK(d.live, k) /\ 0 \in k /\ d.shown \notin Requests
      /\ NoCard \notin Requests /\ Requests \subseteq Cards /\ 0 \notin Requests
      /\ NoCard \notin Cards
  BY CardsAssumption DEF Good, Sound, DeskOK, NoCard, Cards
<1>2. Empty.cur.id = 0 /\ Empty.cur = NoTrack /\ Queued(Empty) = {} /\ Tracks(Empty) = {NoTrack}
      /\ NoTrack.card = NoCard /\ NoTrack.id = 0
  BY DEF Empty, NoTrack, Queued, Tracks, ToSet
<1>3. HallOK(Empty, k)
  <2>1. Empty \in HallType /\ TrackOK(NoTrack, k) /\ Once(Empty.queue)
    BY <1>1 DEF Empty, HallType, TrackType, NoTrack, Places, TrackOK, Once
  <2>. QED
    BY <1>2, <2>1 DEF HallOK
<1>4. \A c \in Cards : \A e \in Chain(d, c) : ~Begins(e, Empty)
  BY <1>1, <1>2 DEF DeskOK, InChain, Fits, Begins
<1>5. \A e \in Loose(d) : ~Begins(e, Empty)
  BY <1>1, <1>2 DEF DeskOK, InLoose, Fits, Begins
<1>6. Sound(k, Empty, d, cd)
  <2>1. Linked(Empty, d)
    BY <1>2, <1>4 DEF Linked, Begins
  <2>2. \A t \in Tracks(Empty) : Taken(t.card, k, cd)
    BY <1>2 DEF Taken, Places, NoCard, Cards
  <2>. QED
    BY <1>1, <1>3, <2>1, <2>2, SoundHall
<1>7. Sound(k, Empty, r, cd)
  BY <1>1, <1>6, SoundTaken, SoundTurned
<1>8. /\ r.live = d.live /\ r.chain = d.chain /\ Loose(r) = Loose(d) /\ r.ending = d.ending \cup {d.live.card}
      /\ \A q : Chain(r, q) = Chain(d, q)
  BY DEF Turned, Parked, Chain
<1>. HIDE DEF Empty
<1>9. Moving(Empty, r, cd, more)
  <2>1. SUFFICES ASSUME NEW q \in Requests \ more, cd[q].text = "now" PROVE Pending(q, d) \/ q = d.live.card
    <3>1. ASSUME NEW q \in Requests \ more, cd[q].text = "now" => Pending(q, d) \/ q = d.live.card
          PROVE  MovesOn(q, Empty, r, cd) /\ Waits(q, Empty, r, cd)
      <4>1. cd[q].text = "now" => Pending(q, r)
        BY <1>8, <3>1 DEF Pending
      <4>2. MovesOn(q, Empty, r, cd)
        BY <4>1 DEF MovesOn
      <4>3. IsLive(q, Empty, r, cd)
        BY <1>1, <1>2 DEF IsLive
      <4>4. IsQuiet(q, Empty, r, cd)
        BY <1>2 DEF IsQuiet
      <4>. QED
        BY <4>2, <4>3, <4>4 DEF Waits
    <3>. QED
      BY <3>1 DEF Moving
  <2>2. MovesOn(q, h, d, cd) /\ IsLive(q, h, d, cd)
    BY <1>1, <2>1 DEF Moving, Waits
  <2>3. CASE h.cur.id # q
    BY <2>1, <2>2, <2>3 DEF MovesOn
  <2>4. CASE h.cur.id = q /\ h.cur.card = q
    BY <1>1, <2>1, <2>4
  <2>5. CASE h.cur.id = q /\ h.cur.card # q
    <3>1. Claims(q, d, cd) => d.live.card = q
      BY <2>2, <2>5 DEF IsLive
    <3>. QED
      BY <2>1, <3>1 DEF Claims, Final, Pending
  <2>. QED
    BY <2>3, <2>4, <2>5
<1>10. ASSUME Agreeing(h, d, cd, ex) PROVE Agreeing(Empty, r, cd, more)
  <2>1. ASSUME NEW c \in Cards PROVE ~Coming(c, Empty, r)
    <3>1. d.live # [card |-> c, track |-> Empty.cur.id]
      BY <1>1, <1>2 DEF LiveOK
    <3>2. ~(\E e \in Chain(r, c) : Begins(e, Empty))
      BY <1>4, <1>8
    <3>3. ~(\E e \in Loose(r) : e.card = c /\ Begins(e, Empty))
      BY <1>5, <1>8
    <3>. QED
      BY <1>8, <3>1, <3>2, <3>3 DEF Coming
  <2>2. ASSUME NEW f \in Loose(r) PROVE Fresh(f, Empty, r, cd)
    <3>1. Fresh(f, h, d, cd) /\ ~Begins(f, Empty)
      BY <1>5, <1>8, <1>10, <2>2 DEF Agreeing
    <3>. QED
      BY <1>8, <3>1 DEF Fresh
  <2>. QED
    BY <2>1, <2>2 DEF Agreeing, Offers
<1>. QED
  BY <1>1, <1>7, <1>9, <1>10 DEF Good

(* /end goes on: no card is live any more.                                 *)
LEMMA EndedIdle ==
    ASSUME NEW k, NEW h, NEW d, NEW cd, NEW ex, NEW x, Good(k, h, d, cd, ex, x),
           NEW c \in d.ending, NEW r, Turned(r, d, NobodysCard, NoCard, d.ending \ {c}),
           NEW more, ex \cup ({d.live.card} \ {c, NoCard}) \subseteq more
    PROVE  Sound(k, h, r, cd) /\ Moving(h, r, cd, more \cup {c}) /\ (x \/ Agreeing(h, r, cd, more))
<1>1. /\ Sound(k, h, d, cd) /\ Moving(h, d, cd, ex) /\ (x \/ Agreeing(h, d, cd, ex)) /\ 0 \in k
      /\ NoCard \notin Requests /\ Requests \subseteq Cards /\ NoCard \notin Cards
  BY CardsAssumption DEF Good, Sound, NoCard, Cards
<1>2. Sound(k, h, r, cd)
  <2>1. LiveOK(NobodysCard, k) /\ NobodysCard.card = NoCard
    BY <1>1 DEF LiveOK, NobodysCard, Places
  <2>2. Taken(NoCard, k, cd)
    BY <1>1 DEF Taken, Places
  <2>. QED
    BY <1>1, <2>1, <2>2, SoundTaken, SoundTurned
<1>3. /\ r.live.card = NoCard
      /\ \A q : Claims(q, r, cd) = Claims(q, d, cd) /\ (q # c /\ Pending(q, d) => Pending(q, r))
  BY DEF Turned, Parked, Claims, Final, Pending, NobodysCard
<1>4. Moving(h, r, cd, more \cup {c})
  <2>1. SUFFICES ASSUME NEW q \in Requests \ (more \cup {c}) PROVE MovesOn(q, h, r, cd) /\ Waits(q, h, r, cd)
    BY DEF Moving
  <2>2. MovesOn(q, h, d, cd) /\ Waits(q, h, d, cd) /\ q # d.live.card
    BY <1>1, <2>1 DEF Moving
  <2>. QED
    BY <1>1, <1>3, <2>1, <2>2 DEF MovesOn, Waits, IsLive, IsQuiet
<1>5. x \/ Agreeing(h, r, cd, ex)
  BY <1>1, AgreeingIdles
<1>. QED
  BY <1>2, <1>4, <1>5 DEF Agreeing

(* Its card is told.                                                       *)
LEMMA EndedGood ==
    ASSUME NEW k, NEW h, NEW d, NEW cd, NEW ex, NEW x, Good(k, h, d, cd, ex, x),
           NEW c \in d.ending, NEW s, Turned(s, d, NobodysCard, NoCard, d.ending \ {c}),
           NEW more, ex \cup ({d.live.card} \ {c, NoCard}) \subseteq more
    PROVE  /\ c = NoCard => Good(k, h, s, cd, more, x)
           /\ c # NoCard => /\ c \in Cards
                            /\ \A e, r : Tells(e, c) /\ e \in EditType /\ IsChained(r, s, c, e)
                                    => Good(k, h, r, cd, more, x)
<1>1. Sound(k, h, s, cd) /\ Moving(h, s, cd, more \cup {c}) /\ (x \/ Agreeing(h, s, cd, more))
  BY EndedIdle
<1>2. CASE c = NoCard
  <2>1. \A q \in Requests : q \in more \cup {c} => q \in more
    BY <1>2, CardsAssumption DEF NoCard
  <2>2. Moving(h, s, cd, more)
    BY <1>1, <2>1, MovingMore
  <2>. QED
    BY <1>1, <1>2, <2>2 DEF Good
<1>3. ASSUME c # NoCard PROVE c \in Cards /\ ~Free(c, k, cd)
  <2>1. Sound(k, h, d, cd)
    BY DEF Good
  <2>2. Taken(c, k, cd)
    BY <2>1, SoundTaken
  <2>. QED
    BY <1>3, <2>2 DEF Taken, Places
<1>4. ASSUME c # NoCard, NEW e \in EditType, NEW r, Tells(e, c), IsChained(r, s, c, e)
      PROVE  Good(k, h, r, cd, more, x)
  <2>1. c \in Cards /\ ~Free(c, k, cd)
    BY <1>3, <1>4
  <2>2. Fits(e, c, k) /\ InChain(e, c, k) /\ e.says.text # "now" /\ e.then = "rest"
    BY <1>4 DEF Tells, Fits, InChain
  <2>3. Sound(k, h, r, cd)
    BY <1>1, <1>4, <2>1, <2>2, SoundChained
  <2>4. s.live.card # c
    BY <1>4 DEF Turned, NobodysCard
  <2>5. Moving(h, r, cd, more)
    BY <1>1, <1>4, <2>1, <2>2, <2>4, MovingTold
  <2>6. x \/ Agreeing(h, r, cd, more)
    <3>1. \A f \in Loose(s) : f.card \in Cards
      BY <1>1, LooseCards
    <3>. QED
      BY <1>1, <1>4, <2>1, <2>2, <3>1, AgreeingTold
  <2>. QED
    BY <2>3, <2>5, <2>6 DEF Good
<1>. QED
  BY <1>2, <1>3, <1>4

-----------------------------------------------------------------------------
(* play(), pause() and seek().                                             *)

\* Something will make another message the live one.
Beside(c, d) ==
    \/ \E q \in Cards \ {c} : \E e \in Chain(d, q) : e.then = "begin"
    \/ \E e \in Loose(d) : e.then = "begin"

\* What is painted: the track that the live card is of, or the current one.
PaintedCard(d, h) ==
    IF d.live.card # NoCard THEN d.live.card ELSE IF h.cur.card # NoCard THEN h.cur.card ELSE d.shown
PaintedTrack(d, h) == IF d.live.card # NoCard THEN d.live.track ELSE h.cur.id

(* There is such a message, and the track has been.                        *)
LEMMA PaintedIs ==
    ASSUME NEW k, NEW h, NEW d, NEW cd, Sound(k, h, d, cd), h.cur # NoTrack
    PROVE  /\ PaintedTrack(d, h) \in k \ {0} /\ PaintedTrack(d, h) \in Int
           /\ PaintedCard(d, h) \in Places /\ Taken(PaintedCard(d, h), k, cd)
           /\ PaintedCard(d, h) \in Requests => PaintedTrack(d, h) = PaintedCard(d, h)
           /\ d.live.card # NoCard => PaintedCard(d, h) = d.live.card
           /\ PaintedCard(d, h) \in Requests =>
                PaintedCard(d, h) = d.live.card \/ PaintedCard(d, h) = h.cur.id
<1>1. /\ LiveOK(d.live, k) /\ d.shown \notin Requests /\ k \subseteq Int
      /\ TrackOK(h.cur, k) /\ h.cur \in TrackType
  BY TracksTyped DEF Sound, DeskOK, HallOK, Tracks
<1>2. h.cur.id # 0
  BY <1>1 DEF TrackOK, TrackType, NoTrack
<1>3. /\ Taken(d.live.card, k, cd) /\ Taken(d.shown, k, cd) /\ Taken(h.cur.card, k, cd)
  BY SoundTaken DEF Tracks
<1>4. Taken(PaintedCard(d, h), k, cd)
  BY <1>3 DEF PaintedCard
<1>5. PaintedTrack(d, h) \in k \ {0}
  BY <1>1, <1>2 DEF PaintedTrack, LiveOK, TrackOK
<1>6. PaintedCard(d, h) \in Requests => PaintedTrack(d, h) = PaintedCard(d, h)
  BY <1>1 DEF PaintedTrack, PaintedCard, LiveOK, TrackOK
<1>7. PaintedCard(d, h) \in Requests => PaintedCard(d, h) = d.live.card \/ PaintedCard(d, h) = h.cur.id
  BY <1>1 DEF PaintedCard, TrackOK
<1>8. d.live.card # NoCard => PaintedCard(d, h) = d.live.card
  BY DEF PaintedCard
<1>. QED
  BY <1>1, <1>4, <1>5, <1>6, <1>7, <1>8 DEF Taken

\* The two cases of painting.
IsPainted(r, d, h) ==
    IF PaintedCard(d, h) = NoCard THEN r = d
    ELSE \E i \in DeskType :
            /\ Turned(i, d, [card |-> PaintedCard(d, h), track |-> PaintedTrack(d, h)], d.shown, d.ending)
            /\ IsChained(r, i, PaintedCard(d, h),
                         Edit(PaintedCard(d, h), Says("now", PaintedTrack(d, h), h.playing), "rest"))

(* A message to paint becomes the live one and is edited.                  *)
LEMMA PaintedDesk ==
    ASSUME NEW d \in DeskType, NEW h, h.cur # NoTrack, h.playing \in BOOLEAN,
           PaintedCard(d, h) \in Places, PaintedTrack(d, h) \in Int
    PROVE  IsPainted(Painted(d, h), d, h)
<1>. DEFINE c == PaintedCard(d, h)
            t == PaintedTrack(d, h)
            l == [card |-> c, track |-> t]
            i == [d EXCEPT !.live = l]
            e == Edit(c, Says("now", t, h.playing), "rest")
<1>1. Painted(d, h) = IF c = NoCard THEN d ELSE Chained(i, c, e)
  BY DEF Painted, PaintedCard, PaintedTrack
<1>2. l \in LiveType
  BY DEF LiveType
<1>3. Turned(i, d, l, d.shown, d.ending)
  <2>. HIDE DEF l
  <2>. QED
    BY <1>2, LiveIs
<1>4. i \in DeskType
  BY <1>3 DEF Turned
<1>5. e \in EditType
  BY DEF EditType, Edit, Says, SaysType, Texts
<1>6. c # NoCard => c \in Cards
  BY DEF Places
<1>7. c # NoCard => IsChained(Chained(i, c, e), i, c, e)
  <2>. HIDE DEF i, e
  <2>. QED
    BY <1>4, <1>5, <1>6, ChainedIs
<1>8. CASE c = NoCard
  <2>1. Painted(d, h) = d
    BY <1>1, <1>8
  <2>. QED
    BY <1>8, <2>1 DEF IsPainted
<1>9. CASE c # NoCard
  <2>1. Painted(d, h) = Chained(i, c, e)
    BY <1>1, <1>9
  <2>2. Turned(i, d, [card |-> c, track |-> t], d.shown, d.ending)
        /\ IsChained(Painted(d, h), i, c, Edit(c, Says("now", t, h.playing), "rest"))
    BY <1>3, <1>7, <1>9, <2>1
  <2>. HIDE DEF i
  <2>. QED
    BY <1>4, <1>9, <2>2 DEF IsPainted
<1>. QED
  BY <1>8, <1>9

\* The room after a transport event.
Plays(h, on) == [h EXCEPT !.playing = on]

(* A transport event, with its painting.                                   *)
LEMMA PaintedGood ==
    ASSUME NEW k, NEW h, NEW d, NEW cd, NEW ex, NEW x, Good(k, h, d, cd, ex, x),
           h.cur # NoTrack, NEW on \in BOOLEAN
    PROVE  LET g == Plays(h, on)  r == Painted(d, g)  IN
           Good(k, g, r, cd, ex, Beside(r.live.card, d))
<1>. DEFINE g == Plays(h, on)
            r == Painted(d, g)
            c == PaintedCard(d, g)
            t == PaintedTrack(d, g)
            e == Edit(c, Says("now", t, g.playing), "rest")
<1>1. Sound(k, h, d, cd) /\ Moving(h, d, cd, ex) /\ HallOK(h, k) /\ h \in HallType /\ d \in DeskType
      /\ Linked(h, d) /\ DeskOK(d, k) /\ LiveOK(d.live, k)
      /\ Requests \subseteq Cards /\ NoCard \notin Cards
  BY CardsAssumption DEF Good, Sound, HallOK, DeskOK, Cards, NoCard
<1>2. g \in HallType /\ g.cur = h.cur /\ g.queue = h.queue /\ g.playing = on
  BY <1>1 DEF HallType, Plays
<1>. HIDE DEF g
<1>3. Queued(g) = Queued(h) /\ Tracks(g) = Tracks(h)
  BY <1>2 DEF Queued, Tracks
<1>4. HallOK(g, k)
  BY <1>1, <1>2, <1>3 DEF HallOK
<1>5. Sound(k, g, d, cd)
  <2>1. Linked(g, d)
    BY <1>1, <1>3 DEF Linked
  <2>2. \A u \in Tracks(g) : Taken(u.card, k, cd)
    BY <1>1, <1>3, SoundTaken
  <2>. QED
    BY <1>1, <1>4, <2>1, <2>2, SoundHall
<1>6. Moving(g, d, cd, ex)
  BY <1>1, <1>2, <1>3 DEF Moving, MovesOn, Waits, IsLive, IsQuiet
<1>7. /\ t \in k \ {0} /\ t \in Int /\ c \in Places /\ Taken(c, k, cd)
      /\ c \in Requests => t = c
      /\ d.live.card # NoCard => c = d.live.card
      /\ c \in Requests => c = d.live.card \/ c = g.cur.id
  BY <1>2, <1>5, PaintedIs
<1>8. IsPainted(r, d, g)
  BY <1>1, <1>2, <1>7, PaintedDesk
<1>9. ASSUME NEW f, f.then # "begin" PROVE Fresh(f, g, r, cd)
  BY <1>9 DEF Fresh
<1>10. CASE c = NoCard
  <2>1. r = d /\ d.live.card = NoCard
    BY <1>7, <1>8, <1>10 DEF IsPainted
  <2>. HIDE DEF r, c, t
  <2>2. ASSUME ~Beside(NoCard, d) PROVE Agreeing(g, d, cd, ex)
    <3>1. \A q \in Cards : ~Coming(q, g, d)
      BY <1>1, <2>1, <2>2 DEF Coming, Begins, Beside
    <3>2. \A f \in Loose(d) : Fresh(f, g, d, cd)
      BY <2>2 DEF Beside, Fresh
    <3>. QED
      BY <3>1, <3>2 DEF Agreeing, Offers
  <2>. QED
    BY <1>5, <1>6, <2>1, <2>2 DEF Good, r, g
<1>11. CASE c # NoCard
  <2>1. c \in Cards /\ ~Free(c, k, cd)
    BY <1>7, <1>11 DEF Places, Taken
  <2>. DEFINE l == [card |-> c, track |-> t]
  <2>2. PICK i \in DeskType : Turned(i, d, l, d.shown, d.ending) /\ IsChained(r, i, c, e)
    BY <1>8, <1>11 DEF IsPainted
  <2>. HIDE DEF r
  <2>3. l.card = c /\ l.track = t /\ l \in [card : Places, track : Int]
    BY <1>7
  <2>4. /\ e.card = c /\ e.says.text = "now" /\ e.says.track = t /\ e.says.on = on /\ e.then = "rest"
        /\ e \in EditType
    BY <1>2, <1>7 DEF Edit, Says, EditType, SaysType, Texts
  <2>. HIDE DEF c, t, e, l
  <2>5. Sound(k, g, r, cd)
    <3>1. LiveOK(l, k) /\ d.shown \notin Requests
      BY <1>1, <1>7, <1>11, <2>3 DEF LiveOK, DeskOK
    <3>2. Sound(k, g, i, cd)
      BY <1>5, <1>7, <2>2, <2>3, <3>1, SoundTaken, SoundTurned
    <3>3. InChain(e, c, k)
      BY <1>7, <2>4 DEF InChain, Fits
    <3>. QED
      BY <2>1, <2>2, <2>4, <3>2, <3>3, SoundChained
  <2>6. /\ r.live.card = c /\ r.chain[c] # <<>> /\ Last(r.chain[c]) = e /\ r.ending = d.ending
        /\ Loose(r) = Loose(d)
        /\ \A q \in Cards \ {c} : r.chain[q] = d.chain[q] /\ Chain(r, q) = Chain(d, q)
    BY <2>2, <2>3 DEF IsChained, Turned, Sits, Parked, Chain
  <2>7. Moving(g, r, cd, ex)
    <3>1. SUFFICES ASSUME NEW q \in Requests \ ex PROVE MovesOn(q, g, r, cd) /\ Waits(q, g, r, cd)
      BY DEF Moving
    <3>2. q \in Cards /\ MovesOn(q, g, d, cd) /\ IsLive(q, g, d, cd) /\ IsQuiet(q, g, d, cd)
      BY <1>1, <1>6, <3>1 DEF Moving, Waits
    <3>3. CASE q = c
      <4>1. \A u \in Queued(g) : u.id = q => u.card # NoCard
        BY <1>4, <1>7, <3>1, <3>2, <3>3 DEF IsQuiet, HallOK
      <4>. QED
        BY <2>6, <3>3, <4>1 DEF MovesOn, Pending, Waits, IsLive, IsQuiet
    <3>4. CASE q # c
      <4>1. Claims(q, r, cd) = Claims(q, d, cd) /\ (Pending(q, d) => Pending(q, r))
        BY <2>6, <3>2, <3>4 DEF Claims, Final, Pending
      <4>2. d.live.card # q
        BY <1>1, <1>7, <3>2, <3>4
      <4>. QED
        BY <2>6, <3>2, <3>4, <4>1, <4>2 DEF MovesOn, Waits, IsLive, IsQuiet
    <3>. QED
      BY <3>3, <3>4
  <2>8. ASSUME ~Beside(c, d) PROVE Agreeing(g, r, cd, ex)
    <3>1. ASSUME NEW q \in Cards PROVE Offers(q, g, r, cd)
      <4>1. CASE q = c
        BY <1>2, <2>4, <2>6, <4>1 DEF Offers, Final
      <4>2. CASE q # c
        <5>1. r.live # [card |-> q, track |-> g.cur.id]
          BY <2>6, <4>2
        <5>2. ~(\E f \in Chain(r, q) : Begins(f, g)) /\ ~(\E f \in Loose(r) : Begins(f, g))
          BY <2>6, <2>8, <4>2 DEF Beside, Begins
        <5>. QED
          BY <5>1, <5>2 DEF Offers, Coming
      <4>. QED
        BY <4>1, <4>2
    <3>2. \A f \in Loose(r) : Fresh(f, g, r, cd)
      BY <2>6, <2>8 DEF Beside, Fresh
    <3>. QED
      BY <3>1, <3>2 DEF Agreeing
  <2>9. Good(k, g, r, cd, ex, Beside(r.live.card, d))
    BY <2>5, <2>6, <2>7, <2>8 DEF Good
  <2>. QED
    BY <2>9 DEF r, g
<1>. QED
  BY <1>10, <1>11

-----------------------------------------------------------------------------
(* Requests.                                                               *)

(* An edit that will make a message the live one.                          *)
LEMMA LooselyBegins ==
    ASSUME NEW k, NEW h, NEW d, NEW cd, NEW ex, NEW x, Good(k, h, d, cd, ex, x),
           NEW e, NEW r, IsLoosely(r, d, e), InLoose(e, k), e.then = "begin", ~Free(e.card, k, cd),
           e.card \in Cards, Fresh(e, h, d, cd)
    PROVE  Good(k, h, r, cd, ex, x)
<1>1. /\ Sound(k, h, d, cd) /\ Moving(h, d, cd, ex) /\ (x \/ Agreeing(h, d, cd, ex))
      /\ d \in DeskType /\ h.playing \in BOOLEAN /\ CardOK(cd)
  BY DEF Good, Sound, DeskOK, HallOK, HallType
<1>2. Sound(k, h, r, cd)
  BY <1>1, SoundLoosely
<1>3. \A q : /\ Claims(q, r, cd) = Claims(q, d, cd) /\ Chain(r, q) = Chain(d, q) /\ Final(q, r, cd) = Final(q, d, cd)
             /\ Pending(q, d) => Pending(q, r)
  BY DEF Claims, Final, Chain, IsLoosely, Pending, Sits
<1>4. Moving(h, r, cd, ex)
  BY <1>1, <1>3 DEF Moving, MovesOn, Waits, IsLive, IsQuiet, IsLoosely, Sits
<1>5. ASSUME Agreeing(h, d, cd, ex) PROVE Agreeing(h, r, cd, ex)
  <2>1. ASSUME NEW c \in Cards \ ex PROVE Offers(c, h, r, cd)
    <3>1. Offers(c, h, d, cd)
      BY <1>5 DEF Agreeing
    <3>2. CASE c = e.card /\ Begins(e, h)
      <4>1. h.playing = TRUE
        BY <1>1, <3>2 DEF Fresh
      <4>2. Bright(e, d, cd)
        BY DEF Fresh, Bright
      <4>3. ASSUME Final(c, d, cd).text = "now" PROVE Final(c, d, cd).on = TRUE
        <5>1. Final(c, d, cd).on
          BY <1>1, <3>2, <4>2, <4>3, BrightFinal
        <5>2. Final(c, d, cd) \in SaysType
          <6>1. CASE d.chain[c] = <<>>
            BY <1>1, <6>1 DEF Final, CardOK
          <6>2. CASE d.chain[c] # <<>>
            <7>1. d.chain[c] \in Seq(EditType)
              BY <1>1 DEF DeskType
            <7>2. Last(d.chain[c]) \in EditType
              BY <6>2, <7>1 DEF Last
            <7>. QED
              BY <6>2, <7>2 DEF Final, EditType
          <6>. QED
            BY <6>1, <6>2
        <5>. QED
          BY <5>1, <5>2 DEF SaysType
      <4>. QED
        BY <1>3, <4>1, <4>3 DEF Offers
    <3>3. CASE ~(c = e.card /\ Begins(e, h))
      <4>1. Coming(c, h, r) => Coming(c, h, d)
        BY <1>3, <3>3 DEF Coming, IsLoosely, Sits
      <4>. QED
        BY <1>3, <3>1, <4>1 DEF Offers
    <3>. QED
      BY <3>2, <3>3
  <2>2. ASSUME NEW f \in Loose(r) PROVE Fresh(f, h, r, cd)
    <3>1. Fresh(f, h, d, cd)
      BY <1>5, <2>2 DEF Agreeing, IsLoosely
    <3>. QED
      BY <1>3, <3>1 DEF Fresh
  <2>. QED
    BY <2>1, <2>2 DEF Agreeing
<1>. QED
  BY <1>1, <1>2, <1>4, <1>5 DEF Good

\* Edits that show no other button than that of a room that plays.
Shining(c, d) == \A f \in Chain(d, c) : f.says.text = "now" => f.says.on

(* A desk that tells and promotes shows no other.                          *)
LEMMA TurnsShine ==
    ASSUME NEW d \in DeskType, NEW t \in TrackType, NEW c \in Cards, Shining(c, d)
    PROVE  Shining(c, TurnsTo(d, t))
<1>. DEFINE i == [d EXCEPT !.live = NobodysCard]
            e == Edit(t.card, Says("now", t.id, TRUE), "begin")
<1>1. NobodysCard \in LiveType
  BY DEF NobodysCard, LiveType, Places
<1>2. Turned(i, d, NobodysCard, d.shown, d.ending)
  BY <1>1, LiveIs
<1>3. i \in DeskType /\ Chain(i, c) = Chain(d, c)
  BY <1>2 DEF Turned, Chain
<1>4. e \in EditType /\ e.says.on
  BY DEF EditType, Edit, Says, SaysType, Texts, TrackType
<1>5. CASE t = NoTrack
  <2>1. TurnsTo(d, t) = Stopped(i)
    BY <1>5 DEF TurnsTo
  <2>. HIDE DEF i
  <2>2. Turned(Stopped(i), i, NobodysCard, NoCard, i.ending)
    BY <1>3, StoppedIs
  <2>. QED
    BY <1>3, <2>1, <2>2 DEF Shining, Turned, Chain
<1>6. CASE t # NoTrack /\ t.card = NoCard
  <2>1. TurnsTo(d, t) = Sending(i, e)
    BY <1>6 DEF TurnsTo, Promoted
  <2>. HIDE DEF i, e
  <2>2. IsSending(Sending(i, e), i, e)
    BY <1>3, <1>4, SendingIs
  <2>. QED
    BY <1>3, <2>1, <2>2 DEF Shining, IsSending, Chain
<1>7. CASE t # NoTrack /\ t.card # NoCard
  <2>1. TurnsTo(d, t) = Chained(i, t.card, e) /\ t.card \in Cards
    BY <1>7 DEF TurnsTo, Promoted, TrackType, Places
  <2>. HIDE DEF i, e
  <2>2. IsChained(Chained(i, t.card, e), i, t.card, e)
    BY <1>3, <1>4, <2>1, ChainedIs
  <2>3. CASE c = t.card
    BY <1>3, <1>4, <2>1, <2>2, <2>3 DEF Shining, IsChained
  <2>4. CASE c # t.card
    BY <1>3, <2>1, <2>2, <2>4 DEF Shining, IsChained
  <2>. QED
    BY <2>3, <2>4
<1>. QED
  BY <1>5, <1>6, <1>7

(* Nor does one that tells of the end of a track.                          *)
LEMMA ToldShines ==
    ASSUME NEW d \in DeskType, NEW t \in TrackType, NEW c \in Cards, Shining(c, d)
    PROVE  ToldOf(d, t, "postponed") \in DeskType /\ Shining(c, ToldOf(d, t, "postponed"))
<1>. DEFINE q == IF t.card # NoCard THEN t.card ELSE d.live.card
            e == Edit(q, Reads("postponed"), "rest")
            r == ToldOf(d, t, "postponed")
<1>1. CASE t = NoTrack \/ q = NoCard
  BY <1>1 DEF ToldOf
<1>2. CASE ~(t = NoTrack \/ q = NoCard)
  <2>1. r = Chained(d, q, e)
    BY <1>2 DEF ToldOf
  <2>2. q \in Cards
    <3>1. t.card \in Places /\ d.live.card \in Places
      BY DEF TrackType, DeskType
    <3>. QED
      BY <1>2, <3>1 DEF Places
  <2>3. e \in EditType /\ e.says.text = "postponed"
    BY <2>2 DEF EditType, Edit, Reads, Says, SaysType, Texts, Places
  <2>4. IsChained(r, d, q, e)
    BY <2>1, <2>2, <2>3, ChainedIs
  <2>. HIDE DEF r, q, e
  <2>5. Chain(r, c) \subseteq Chain(d, c) \cup {e}
    BY <2>4 DEF IsChained
  <2>6. r \in DeskType /\ Shining(c, r)
    BY <2>3, <2>4, <2>5 DEF Shining, IsChained
  <2>. QED
    BY <2>6 DEF r
<1>. QED
  BY <1>1, <1>2

\* Nothing has been heard of the track of a request.
Unheard(r, h, d, cd) ==
    /\ r \in Cards /\ cd[r].text # "now" /\ ~Claims(r, d, cd)
    /\ d.chain[r] = <<>> /\ Chain(d, r) = {} /\ r \notin {d.live.card, d.live.track}
    /\ \A t \in Tracks(h) : t.id # r
    /\ \A c \in Cards : \A e \in Chain(d, c) : e.then = "begin" => e.says.track # r
    /\ \A e \in Loose(d) : e.card # r /\ (e.then = "begin" => e.says.track # r)

(* That is so until it is there.                                           *)
LEMMA UnheardIs ==
    ASSUME NEW k, NEW h, NEW d, NEW cd, Sound(k, h, d, cd), NEW r \in Requests \ k
    PROVE  Unheard(r, h, d, cd)
<1>1. r \in Cards /\ Unseen(r, h, d) /\ cd[r].text # "now"
  BY CardsAssumption DEF Sound, Free, Cards
<1>2. d.chain[r] = <<>> /\ Chain(d, r) = {} /\ ~Claims(r, d, cd)
  BY <1>1 DEF Unseen, Chain, ToSet, Claims, Final
<1>3. /\ \A t \in Tracks(h) : t.id \in k
      /\ \A c \in Cards : \A e \in Chain(d, c) : e.then = "begin" => e.says.track \in k
      /\ \A e \in Loose(d) : e.then = "begin" => e.says.track \in k
      /\ d.live.track \in k
  BY DEF Sound, HallOK, TrackOK, DeskOK, InChain, InLoose, Fits, LiveOK
<1>. QED
  BY <1>1, <1>2, <1>3 DEF Unheard, Unseen

\* The track that a request brings, and the tracks there are then.
Brings(r, t) == t \in {TrackOf(r, TRUE), TrackOf(r, FALSE)}

(* It has an id of its own.                                                *)
LEMMA BringsIs ==
    ASSUME NEW k, NEW h, NEW d, NEW cd, Sound(k, h, d, cd), NEW r \in Requests \ k, NEW t, Brings(r, t)
    PROVE  /\ t \in TrackType /\ t.id = r /\ t.card \in {NoCard, r} /\ t # NoTrack /\ t.id # 0
           /\ TrackOK(t, k \cup {r}) /\ Taken(t.card, k \cup {r}, cd)
           /\ Sound(k \cup {r}, h, d, cd) /\ r \in Cards
<1>1. r \in Cards /\ r \in Int /\ r # 0 /\ r <= MaxCards
  BY CardsAssumption DEF Cards
<1>2. t = [id |-> r, card |-> r] \/ t = [id |-> r, card |-> NoCard]
  BY DEF Brings, TrackOf
<1>3. t \in TrackType /\ t.id = r /\ t.card \in {NoCard, r} /\ t # NoTrack /\ t.id # 0
  BY <1>1, <1>2 DEF TrackType, Places, NoTrack
<1>4. TrackOK(t, k \cup {r})
  BY <1>1, <1>3, CardsAssumption DEF TrackOK, NoCard
<1>5. Taken(t.card, k \cup {r}, cd)
  BY <1>1, <1>3, CardsAssumption DEF Taken, Places, Free, NoCard, Cards
<1>6. Sound(k \cup {r}, h, d, cd)
  <2>1. k \subseteq Int
    BY DEF Sound
  <2>. QED
    BY <1>1, <2>1, OldGrows
<1>. QED
  BY <1>1, <1>3, <1>4, <1>5, <1>6

(* The track of a request starts in an idle room.                          *)
LEMMA RequestStarts ==
    ASSUME NEW k, NEW h, NEW d, NEW cd, NEW ex, NEW x, Good(k, h, d, cd, ex, x), h.cur = NoTrack,
           NEW r \in Requests \ k, NEW t, Brings(r, t)
    PROVE  Good(k \cup {r}, Starts(h, t), d, cd, ex, x) /\ Starts(h, t).playing = TRUE
<1>. DEFINE j == k \cup {r}
            g == Starts(h, t)
<1>1. Sound(k, h, d, cd) /\ Moving(h, d, cd, ex) /\ (x \/ Agreeing(h, d, cd, ex)) /\ NoTrack.id = 0
  BY DEF Good, NoTrack
<1>2. /\ t \in TrackType /\ t.id = r /\ t.card \in {NoCard, r} /\ t.id # 0
      /\ TrackOK(t, j) /\ Taken(t.card, j, cd) /\ Sound(j, h, d, cd) /\ r \in Cards
  BY <1>1, BringsIs
<1>3. Unheard(r, h, d, cd)
  BY <1>1, UnheardIs
<1>. HIDE DEF j
<1>4. HallOK(h, j) /\ h \in HallType /\ Linked(h, d) /\ d \in DeskType /\ DeskOK(d, j)
  BY <1>2 DEF Sound, HallOK, DeskOK
<1>5. g \in HallType /\ g.cur = t /\ g.queue = h.queue /\ g.playing = TRUE
  BY <1>2, <1>4 DEF HallType, Starts
<1>. HIDE DEF g
<1>6. Queued(g) = Queued(h) /\ Tracks(g) \subseteq Tracks(h) \cup {t} /\ Queued(h) \subseteq Tracks(h)
  BY <1>5 DEF Queued, Tracks
<1>7. Sound(j, g, d, cd)
  <2>1. HallOK(g, j)
    <3>1. \A u \in Tracks(g) : TrackOK(u, j)
      BY <1>2, <1>4, <1>6 DEF HallOK
    <3>2. \A u \in Queued(g) : u.id # 0 /\ (u.id \in Requests => u.id # g.cur.id)
      BY <1>2, <1>3, <1>4, <1>5, <1>6 DEF HallOK, Unheard
    <3>3. \A u, v \in Tracks(g) : u.id = v.id => u.card = v.card
      BY <1>2, <1>3, <1>4, <1>6 DEF HallOK, Unheard
    <3>. QED
      BY <1>4, <1>5, <3>1, <3>2, <3>3 DEF HallOK
  <2>2. Linked(g, d)
    BY <1>2, <1>3, <1>4, <1>6 DEF Linked, Unheard
  <2>3. \A u \in Tracks(g) : Taken(u.card, j, cd)
    BY <1>2, <1>6, SoundTaken
  <2>. QED
    BY <1>2, <2>1, <2>2, <2>3, SoundHall
<1>8. Moving(g, d, cd, ex)
  <2>1. SUFFICES ASSUME NEW q \in Requests \ ex PROVE MovesOn(q, g, d, cd) /\ Waits(q, g, d, cd)
    BY DEF Moving
  <2>2. MovesOn(q, h, d, cd) /\ IsQuiet(q, h, d, cd) /\ q # 0
    BY <1>1, CardsAssumption DEF Moving, Waits
  <2>3. MovesOn(q, g, d, cd)
    BY <1>1, <1>2, <1>5, <2>2 DEF MovesOn
  <2>4. IsLive(q, g, d, cd)
    BY <1>2, <1>3, <1>5 DEF IsLive, Unheard
  <2>5. IsQuiet(q, g, d, cd)
    BY <1>6, <2>2 DEF IsQuiet
  <2>. QED
    BY <2>3, <2>4, <2>5 DEF Waits
<1>9. ASSUME Agreeing(h, d, cd, ex) PROVE Agreeing(g, d, cd, ex)
  <2>1. \A q \in Cards : ~Coming(q, g, d)
    <3>1. \A q \in Cards : d.live # [card |-> q, track |-> g.cur.id]
      BY <1>2, <1>3, <1>5 DEF Unheard
    <3>. QED
      BY <1>2, <1>3, <1>5, <3>1 DEF Coming, Begins, Unheard
  <2>2. ASSUME NEW f \in Loose(d) PROVE Fresh(f, g, d, cd)
    <3>1. Fresh(f, h, d, cd)
      BY <1>9, <2>2 DEF Agreeing
    <3>2. ~Begins(f, g)
      BY <1>2, <1>3, <1>5, <2>2 DEF Begins, Unheard
    <3>. QED
      BY <3>1, <3>2 DEF Fresh
  <2>. QED
    BY <2>1, <2>2 DEF Agreeing, Offers
<1>. QED
  BY <1>1, <1>5, <1>7, <1>8, <1>9 DEF Good, j, g

(* It takes the place of another.                                          *)
LEMMA RequestInterrupts ==
    ASSUME NEW k, NEW h, NEW d, NEW cd, NEW ex, NEW x, Good(k, h, d, cd, ex, x),
           NEW r \in Requests \ k, NEW t, Brings(r, t)
    PROVE  LET pl == Interrupt([hall |-> h, desk |-> d], t, h.queue) IN
           /\ Good(k \cup {r}, pl.hall, pl.desk, cd, ex, x) /\ pl.hall.playing = TRUE
           /\ Shining(r, pl.desk)
<1>. DEFINE j == k \cup {r}
            pl == Interrupt([hall |-> h, desk |-> d], t, h.queue)
<1>1. Sound(k, h, d, cd) /\ k \subseteq Int
  BY DEF Good, Sound
<1>2. /\ t \in TrackType /\ t.id = r /\ t.card \in {NoCard, r} /\ t.id # 0
      /\ TrackOK(t, j) /\ Taken(t.card, j, cd) /\ Sound(j, h, d, cd) /\ r \in Cards
  BY <1>1, BringsIs
<1>3. Unheard(r, h, d, cd)
  BY <1>1, UnheardIs
<1>4. j \subseteq Int /\ k \subseteq j
  BY <1>1, CardsAssumption
<1>. HIDE DEF j
<1>5. Good(j, h, d, cd, ex, x)
  BY <1>4, GoodOld
<1>6. HallOK(h, j) /\ h.queue \in Seq(TrackType) /\ h.cur \in TrackType /\ d \in DeskType
  BY <1>2 DEF Sound, HallOK, HallType, DeskOK
<1>7. Interrupts(t, h.queue, j, h, d, cd)
  <2>1. \A u \in Tracks(h) : t.id # u.id
    BY <1>2, <1>3 DEF Unheard
  <2>2. \A c \in Cards : \A e \in Chain(d, c) : e.then = "begin" => e.says.track # t.id
    BY <1>2, <1>3 DEF Unheard
  <2>. QED
    BY <1>2, <1>6, <2>1, <2>2 DEF Interrupts, HallOK, Queued, Tracks
<1>8. ~Claims(t.id, d, cd)
  BY <1>2, <1>3 DEF Unheard
<1>9. Good(j, pl.hall, pl.desk, cd, ex, x)
  BY <1>5, <1>7, <1>8, InterruptGood
<1>10. Interrupted(pl, t, j, h, d)
  BY <1>2, <1>7, InterruptHall
<1>. HIDE DEF pl
<1>11. Shining(r, pl.desk)
  <2>1. Shining(r, d)
    BY <1>3 DEF Unheard, Shining
  <2>2. ToldOf(d, h.cur, "postponed") \in DeskType /\ Shining(r, ToldOf(d, h.cur, "postponed"))
    BY <1>2, <1>6, <2>1, ToldShines
  <2>. QED
    BY <1>2, <1>10, <2>2, TurnsShine DEF Interrupted
<1>. QED
  BY <1>9, <1>10, <1>11 DEF Interrupted, pl, j

(* A track joins the end of a queue.                                       *)
LEMMA AppendsIs ==
    ASSUME NEW h \in HallType, NEW u \in TrackType
    PROVE  LET g == [h EXCEPT !.queue = Append(@, u)] IN
           /\ g \in HallType /\ g.cur = h.cur /\ g.playing = h.playing /\ Queued(g) = Queued(h) \cup {u}
           /\ Once(h.queue) /\ (u.id \in Requests => \A t \in Queued(h) : t.id # u.id) => Once(g.queue)
<1>. DEFINE q == h.queue
            p == Append(q, u)
            g == [h EXCEPT !.queue = p]
<1>1. q \in Seq(TrackType)
  BY DEF HallType
<1>2. /\ p \in Seq(TrackType) /\ ToSet(p) = ToSet(q) \cup {u}
      /\ Once(q) /\ (u.id \in Requests => \A t \in ToSet(q) : t.id # u.id) => Once(p)
  BY <1>1, AppendJoins
<1>. HIDE DEF p
<1>3. g \in HallType /\ g.cur = h.cur /\ g.playing = h.playing /\ g.queue = p
  BY <1>2 DEF HallType
<1>. HIDE DEF g
<1>4. /\ g \in HallType /\ g.cur = h.cur /\ g.playing = h.playing /\ Queued(g) = Queued(h) \cup {u}
      /\ Once(h.queue) /\ (u.id \in Requests => \A t \in Queued(h) : t.id # u.id) => Once(g.queue)
  BY <1>2, <1>3 DEF Queued
<1>. QED
  BY <1>4 DEF g, p

(* The track of a request is queued.                                       *)
LEMMA RequestJoins ==
    ASSUME NEW k, NEW h, NEW d, NEW cd, NEW ex, NEW x, Good(k, h, d, cd, ex, x),
           NEW r \in Requests \ k, NEW t, Brings(r, t)
    PROVE  Good(k \cup {r}, [h EXCEPT !.queue = Append(@, t)], d, cd, ex, x)
<1>. DEFINE j == k \cup {r}
            g == [h EXCEPT !.queue = Append(@, t)]
<1>1. Sound(k, h, d, cd) /\ k \subseteq Int
  BY DEF Good, Sound
<1>2. /\ t \in TrackType /\ t.id = r /\ t.card \in {NoCard, r} /\ t.id # 0
      /\ TrackOK(t, j) /\ Taken(t.card, j, cd) /\ Sound(j, h, d, cd) /\ r \in Cards
  BY <1>1, BringsIs
<1>3. Unheard(r, h, d, cd)
  BY <1>1, UnheardIs
<1>4. j \subseteq Int /\ k \subseteq j
  BY <1>1, CardsAssumption
<1>. HIDE DEF j
<1>5. Good(j, h, d, cd, ex, x)
  BY <1>4, GoodOld
<1>6. h \in HallType /\ Once(h.queue)
  BY <1>1 DEF Sound, HallOK
<1>7. \A u \in Tracks(h) : u.id # t.id
  BY <1>2, <1>3 DEF Unheard
<1>8. /\ g \in HallType /\ g.cur = h.cur /\ g.playing = h.playing /\ Queued(g) = Queued(h) \cup {t}
      /\ Once(g.queue)
  BY <1>2, <1>6, <1>7, AppendsIs DEF Tracks
<1>9. Joins(t, j, h, d, cd)
  BY <1>2, <1>3, <1>7 DEF Joins, Tracks, Unheard
<1>. HIDE DEF g
<1>10. Good(j, g, d, cd, ex, x)
  BY <1>5, <1>8, <1>9, GoodJoins
<1>. QED
  BY <1>10 DEF j, g

(* The rest of a playlist is.                                              *)
LEMMA RestJoins ==
    ASSUME NEW k, NEW h, NEW d, NEW cd, NEW ex, NEW x, Good(k, h, d, cd, ex, x),
           NEW r \in Requests, MaxCards + r \in k
    PROVE  LET g == [h EXCEPT !.queue = Append(@, RestOf(r))] IN
           Good(k, g, d, cd, ex, x) /\ g.playing = h.playing
<1>. DEFINE u == RestOf(r)
            g == [h EXCEPT !.queue = Append(@, u)]
<1>1. /\ HallOK(h, k) /\ h \in HallType /\ Once(h.queue) /\ DeskOK(d, k)
      /\ \A t \in Tracks(h) : TrackOK(t, k)
  BY DEF Good, Sound, HallOK
<1>2. r \in Int /\ MaxCards \in Int /\ MaxCards + r > MaxCards /\ MaxCards + r \notin Requests /\ MaxCards + r # 0
  BY CardsAssumption
<1>3. u.id = MaxCards + r /\ u.card = NoCard /\ u \in TrackType
  BY <1>2 DEF RestOf, TrackType, Places
<1>. HIDE DEF u
<1>4. /\ g \in HallType /\ g.cur = h.cur /\ g.playing = h.playing /\ Queued(g) = Queued(h) \cup {u}
      /\ Once(g.queue)
  BY <1>1, <1>2, <1>3, AppendsIs
<1>5. Joins(u, k, h, d, cd)
  <2>1. TrackOK(u, k)
    BY <1>2, <1>3, CardsAssumption DEF TrackOK, NoCard
  <2>2. Taken(u.card, k, cd)
    BY <1>3 DEF Taken, Places, NoCard, Cards
  <2>3. \A t \in Tracks(h) : t.id = u.id => t.card = u.card
    BY <1>1, <1>2, <1>3 DEF TrackOK
  <2>4. ASSUME NEW c \in Cards, NEW e \in Chain(d, c), e.then = "begin" PROVE e.says.track # u.id
    <3>1. e.says.track <= MaxCards
      BY <1>1, <2>4 DEF DeskOK, InChain
    <3>. QED
      BY <1>2, <1>3, <3>1
  <2>. QED
    BY <1>2, <1>3, <2>1, <2>2, <2>3, <2>4 DEF Joins
<1>. HIDE DEF g
<1>6. Good(k, g, d, cd, ex, x)
  BY <1>4, <1>5, GoodJoins
<1>. QED
  BY <1>4, <1>6 DEF g, u

(* The card of a request is told what came of it.                          *)
LEMMA RequestTold ==
    ASSUME NEW k, NEW h, NEW d, NEW cd, NEW ex, NEW x, Good(k, h, d, cd, ex, x),
           NEW r \in Requests, r \in k
    PROVE  /\ Good(k, h, Errs(d, r), cd, ex, x)
           /\ Good(k, h, Loosely(d, Edit(r, Reads("queued"), "remember")), cd, ex, x)
           /\ cd[r].text # "now" /\ Shining(r, d) /\ h.playing = TRUE
                => Good(k, h, Loosely(d, Edit(r, Says("now", r, TRUE), "begin")), cd, ex, x)
<1>1. /\ Sound(k, h, d, cd) /\ d \in DeskType
      /\ r \in Cards /\ r \in Int /\ r # 0 /\ r # NoCard /\ ~Free(r, k, cd)
  BY CardsAssumption DEF Good, Sound, DeskOK, Cards, NoCard, Free
<1>2. Good(k, h, Errs(d, r), cd, ex, x)
  <2>. DEFINE e == Edit(r, Reads("error"), "rest")
  <2>1. /\ e.card = r /\ e.says.text = "error" /\ e.then = "rest" /\ e \in EditType
    BY <1>1 DEF Edit, Reads, Says, EditType, SaysType, Texts, Places
  <2>2. Errs(d, r) = Loosely(d, e)
    BY DEF Errs
  <2>. HIDE DEF e
  <2>3. InLoose(e, k) /\ IsLoosely(Loosely(d, e), d, e)
    BY <1>1, <2>1, LooselyIs DEF InLoose, Fits
  <2>. QED
    BY <1>1, <2>1, <2>2, <2>3, GoodLoosely
<1>3. Good(k, h, Loosely(d, Edit(r, Reads("queued"), "remember")), cd, ex, x)
  <2>. DEFINE e == Edit(r, Reads("queued"), "remember")
  <2>1. /\ e.card = r /\ e.says.text = "queued" /\ e.then = "remember" /\ e \in EditType
    BY <1>1 DEF Edit, Reads, Says, EditType, SaysType, Texts, Places
  <2>. HIDE DEF e
  <2>2. InLoose(e, k) /\ IsLoosely(Loosely(d, e), d, e)
    BY <1>1, <2>1, LooselyIs DEF InLoose, Fits
  <2>3. Good(k, h, Loosely(d, e), cd, ex, x)
    BY <1>1, <2>1, <2>2, GoodLoosely
  <2>. QED
    BY <2>3 DEF e
<1>4. ASSUME cd[r].text # "now", Shining(r, d), h.playing = TRUE
      PROVE  Good(k, h, Loosely(d, Edit(r, Says("now", r, TRUE), "begin")), cd, ex, x)
  <2>. DEFINE e == Edit(r, Says("now", r, TRUE), "begin")
  <2>1. /\ e.card = r /\ e.says.text = "now" /\ e.says.track = r /\ e.says.on /\ e.then = "begin"
        /\ e \in EditType
    BY <1>1 DEF Edit, Says, EditType, SaysType, Texts, Places
  <2>. HIDE DEF e
  <2>2. InLoose(e, k) /\ IsLoosely(Loosely(d, e), d, e)
    BY <1>1, <2>1, LooselyIs DEF InLoose, Fits
  <2>3. Fresh(e, h, d, cd)
    BY <1>4, <2>1 DEF Fresh, Shining
  <2>4. Good(k, h, Loosely(d, e), cd, ex, x)
    BY <1>1, <2>1, <2>2, <2>3, LooselyBegins
  <2>. QED
    BY <2>4 DEF e
<1>. QED
  BY <1>2, <1>3, <1>4

\* The room and the desk when the first track of a request is there.
First(h, d, t, force) ==
    IF h.cur = NoTrack THEN [hall |-> Starts(h, t), desk |-> d]
    ELSE IF force THEN Interrupt([hall |-> h, desk |-> d], t, h.queue)
    ELSE [hall |-> [h EXCEPT !.queue = Append(@, t)], desk |-> d]
IsFirst(pl, r, k, cd, ex, x, now) ==
    /\ Good(k \cup {r}, pl.hall, pl.desk, cd, ex, x) /\ Shining(r, pl.desk)
    /\ now => pl.hall.playing = TRUE

(* Whichever way it came there.                                            *)
LEMMA FirstIs ==
    ASSUME NEW k, NEW h, NEW d, NEW cd, NEW ex, NEW x, Good(k, h, d, cd, ex, x),
           NEW r \in Requests \ k, NEW t, Brings(r, t), NEW force \in BOOLEAN
    PROVE  /\ IsFirst(First(h, d, t, force), r, k, cd, ex, x, h.cur = NoTrack \/ force)
           /\ cd[r].text # "now"
<1>. DEFINE pl == Interrupt([hall |-> h, desk |-> d], t, h.queue)
<1>1. Unheard(r, h, d, cd)
  BY UnheardIs DEF Good
<1>2. Shining(r, d) /\ cd[r].text # "now"
  BY <1>1 DEF Shining, Unheard
<1>3. CASE h.cur = NoTrack
  <2>1. Good(k \cup {r}, Starts(h, t), d, cd, ex, x) /\ Starts(h, t).playing = TRUE
    BY <1>3, RequestStarts
  <2>2. First(h, d, t, force) = [hall |-> Starts(h, t), desk |-> d]
    BY <1>3 DEF First
  <2>. QED
    BY <1>2, <2>1, <2>2 DEF IsFirst
<1>4. CASE h.cur # NoTrack /\ force
  <2>1. Good(k \cup {r}, pl.hall, pl.desk, cd, ex, x) /\ pl.hall.playing = TRUE /\ Shining(r, pl.desk)
    BY RequestInterrupts
  <2>2. First(h, d, t, force) = pl
    BY <1>4 DEF First
  <2>. HIDE DEF pl
  <2>. QED
    BY <1>2, <2>1, <2>2 DEF IsFirst
<1>5. CASE h.cur # NoTrack /\ ~force
  <2>. DEFINE g == [h EXCEPT !.queue = Append(@, t)]
  <2>1. Good(k \cup {r}, g, d, cd, ex, x)
    BY RequestJoins
  <2>2. First(h, d, t, force) = [hall |-> g, desk |-> d]
    BY <1>5 DEF First
  <2>. HIDE DEF g
  <2>. QED
    BY <1>2, <1>5, <2>1, <2>2 DEF IsFirst
<1>. QED
  BY <1>3, <1>4, <1>5

(* Autoplay starts a track in an idle room.                                *)
LEMMA AutoplayGood ==
    ASSUME NEW k, NEW h, NEW d, NEW cd, NEW ex, NEW x, Good(k, h, d, cd, ex, x),
           h.cur = NoTrack, h.queue = <<>>, NEW j, k \subseteq j, j \subseteq Int,
           NEW t \in TrackType, t.id < 0, t.id \in j \ k, t.card \notin Requests, Taken(t.card, j, cd)
    PROVE  Good(j, Starts(h, t), Advanced(d, NoTrack, t, "natural"), cd, ex, x)
<1>. DEFINE g == Starts(h, t)
<1>1. Good(j, h, d, cd, ex, x)
  BY GoodOld
<1>2. /\ Sound(j, h, d, cd) /\ Moving(h, d, cd, ex) /\ (x \/ Agreeing(h, d, cd, ex))
      /\ HallOK(h, j) /\ h \in HallType /\ NoTrack.id = 0
  BY <1>1 DEF Good, Sound, HallOK, NoTrack
<1>3. \A c \in Cards : \A e \in Chain(d, c) : e.then = "begin" => e.says.track # t.id
  BY DEF Good, Sound, DeskOK, InChain, Fits
<1>4. Advanced(d, NoTrack, t, "natural") = TurnsTo(d, t)
  BY AdvancedIs DEF ToldOf
<1>5. g \in HallType /\ g.cur = t /\ g.queue = <<>> /\ g.playing = TRUE
  BY <1>2 DEF HallType, Starts
<1>. HIDE DEF g
<1>6. Queued(g) = {} /\ Tracks(g) = {t} /\ Once(g.queue)
  BY <1>5 DEF Queued, Tracks, ToSet, Once
<1>7. t.id \notin Requests /\ ~(t.id > MaxCards) /\ t.id # 0
  <2>1. t.id \in Int /\ MaxCards \in Nat
    BY CardsAssumption DEF TrackType
  <2>. QED
    BY <2>1, CardsAssumption
<1>8. HallOK(g, j)
  <2>1. TrackOK(t, j)
    BY <1>7 DEF TrackOK
  <2>. QED
    BY <1>5, <1>6, <2>1 DEF HallOK
<1>9. Linked(g, d) /\ \A u \in Tracks(g) : Taken(u.card, j, cd)
  BY <1>3, <1>6 DEF Linked
<1>10. Lefts(d, cd, ex)
  <2>1. ASSUME NEW q \in Requests \ ex, cd[q].text = "now" PROVE Pending(q, d)
    BY <1>2, <2>1, CardsAssumption DEF Moving, MovesOn
  <2>. QED
    BY <2>1 DEF Lefts
<1>11. Quiet(g, d, cd, ex)
  BY <1>6, <1>7 DEF Quiet
<1>12. /\ Sound(j, g, TurnsTo(d, g.cur), cd) /\ Moving(g, TurnsTo(d, g.cur), cd, ex)
       /\ x \/ Agreeing(g, TurnsTo(d, g.cur), cd, ex)
  BY <1>2, <1>5, <1>8, <1>9, <1>10, <1>11, TurnsGood
<1>. QED
  BY <1>4, <1>5, <1>12 DEF Good, g

-----------------------------------------------------------------------------
(* The invariant.                                                          *)

(* What is known of the tracks: nothing yet but autoplay's.                *)
LEMMA CardsStart == CardsInit => CardsInv
<1>. SUFFICES ASSUME CardsInit PROVE CardsInv
  OBVIOUS
<1>1. /\ MaxCards \in Nat /\ MaxMoves \in Nat /\ Requests \subseteq Cards /\ Requests \subseteq Int
      /\ NoCard \notin Cards /\ 0 \notin Requests
  BY CardsAssumption DEF Cards, NoCard
<1>2. Recorded
  <2>1. Stands("no") \in AskedType
    BY DEF Stands, AskedType
  <2>2. asked = [r \in Requests |-> Stands("no")] /\ excused = {} /\ crossed = FALSE /\ moves = 0
    BY DEF CardsInit
  <2>3. 0 \in 0..MaxMoves
    BY <1>1
  <2>4. asked \in [Requests -> AskedType]
    BY <2>1, <2>2
  <2>. QED
    BY <2>2, <2>3, <2>4 DEF Recorded
<1>3. Known \subseteq Int /\ 0 \in Known /\ \A r \in Requests : r \notin Known
  BY <1>1 DEF CardsInit, Known, Stands
<1>4. /\ hall = Empty /\ Empty.cur = NoTrack /\ Empty.queue = <<>> /\ Empty.playing = FALSE
      /\ NoTrack.id = 0 /\ NoTrack.card = NoCard
  BY DEF CardsInit, Empty, NoTrack
<1>5. Queued(hall) = {} /\ Tracks(hall) = {NoTrack} /\ Once(hall.queue)
  BY <1>4 DEF Queued, Tracks, ToSet, Once
<1>6. HallOK(hall, Known)
  <2>1. NoTrack \in TrackType
    BY DEF NoTrack, TrackType, Places
  <2>2. hall \in HallType
    BY <1>4, <2>1 DEF Empty, HallType
  <2>3. TrackOK(NoTrack, Known)
    BY <1>1, <1>3, <1>4 DEF TrackOK
  <2>. QED
    BY <1>4, <1>5, <2>2, <2>3 DEF HallOK
<1>7. /\ card = [c \in Cards |-> Blank] /\ Blank \in SaysType /\ Blank.text = "none"
  BY DEF CardsInit, Blank, Reads, Says, SaysType, Texts
<1>8. CardOK(card)
  BY <1>1, <1>7 DEF CardOK
<1>9. /\ desk.live = NobodysCard /\ desk.shown = NoCard /\ desk.offer = [c \in Cards |-> 0]
      /\ desk.chain = [c \in Cards |-> <<>>] /\ desk.loose = EmptyBag /\ desk.sends = EmptyBag
      /\ desk.ending = {}
  BY DEF CardsInit
<1>10. desk \in DeskType
  <2>1. NobodysCard \in [card : Places, track : Int]
    BY DEF NobodysCard, Places
  <2>2. EmptyBag \in EditBags
    BY BagEmpty
  <2>. HIDE DEF EmptyBag
  <2>. QED
    BY <2>1, <2>2 DEF CardsInit, DeskType, Places
<1>11. Loose(desk) = {} /\ Sends(desk) = {} /\ \A c \in Cards : Chain(desk, c) = {} /\ desk.chain[c] = <<>>
  BY <1>9, BagEmpty DEF Loose, Sends, Chain, ToSet
<1>12. DeskOK(desk, Known)
  <2>1. LiveOK(desk.live, Known)
    <3>1. NobodysCard.card = NoCard /\ NobodysCard.track = 0 /\ NobodysCard \in [card : Places, track : Int]
      BY DEF NobodysCard, Places
    <3>. QED
      BY <1>1, <1>3, <1>9, <3>1 DEF LiveOK
  <2>. QED
    BY <1>1, <1>9, <1>10, <1>11, <2>1 DEF DeskOK, NoCard
<1>13. Linked(hall, desk)
  BY <1>11 DEF Linked
<1>14. \A c \in Cards : Unseen(c, hall, desk) /\ card[c].text # "now"
  <2>1. NobodysCard.card = NoCard
    BY DEF NobodysCard
  <2>. QED
    BY <1>1, <1>4, <1>5, <1>7, <1>9, <1>11, <2>1 DEF Unseen
<1>15. Sound(Known, hall, desk, card)
  BY <1>3, <1>6, <1>8, <1>12, <1>13, <1>14 DEF Sound
<1>16. Moving(hall, desk, card, excused)
  BY <1>1, <1>4, <1>5, <1>7 DEF Moving, MovesOn, Waits, IsLive, IsQuiet, Claims
<1>17. Agreeing(hall, desk, card, excused)
  BY <1>7, <1>11 DEF Agreeing, Offers, Final
<1>. QED
  BY <1>2, <1>15, <1>16, <1>17 DEF CardsInv, Good

(* A request is over: its tracks are known.                                *)
LEMMA OverIs ==
    ASSUME CardsInv, NEW r \in Requests, asked[r].pc # "over",
           asked' = [asked EXCEPT ![r] = Stands("over")], UNCHANGED moves
    PROVE  /\ Known' = Known \cup {r} /\ r \notin Known
           /\ asked' \in [Requests -> AskedType]
           /\ Known \subseteq Int /\ Known' \subseteq Int /\ MaxCards + r \in Known
<1>1. /\ asked \in [Requests -> AskedType] /\ moves \in Nat /\ r \in Int /\ r > 0 /\ MaxCards \in Nat
      /\ Requests \subseteq 1..MaxCards
  BY CardsAssumption DEF CardsInv, Recorded
<1>2. /\ asked' \in [Requests -> AskedType] /\ asked'[r].pc = "over" /\ moves' = moves
      /\ \A q \in Requests \ {r} : asked'[q] = asked[q]
  BY <1>1 DEF Stands, AskedType
<1>3. Known' = Known \cup {r} /\ r \notin Known
  BY <1>1, <1>2 DEF Known
<1>4. MaxCards + r \in Known
  BY <1>1 DEF Known
<1>. QED
  BY <1>1, <1>2, <1>3, <1>4 DEF Known

(* One that goes on is not.                                                *)
LEMMA GoesOnIs ==
    ASSUME CardsInv, NEW r \in Requests, asked[r].pc # "over",
           NEW s \in AskedType, s.pc # "over", asked' = [asked EXCEPT ![r] = s], UNCHANGED moves
    PROVE  Known' = Known /\ r \notin Known /\ asked' \in [Requests -> AskedType]
<1>1. asked \in [Requests -> AskedType]
  BY DEF CardsInv, Recorded
<1>2. /\ asked' \in [Requests -> AskedType] /\ asked'[r].pc # "over" /\ moves' = moves
      /\ \A q \in Requests \ {r} : asked'[q] = asked[q]
  BY <1>1
<1>. QED
  BY <1>2 DEF Known

(* What the room and Telegram do makes tracks known, at most.              *)
LEMMA MovesIs ==
    ASSUME CardsInv, UNCHANGED asked, Moves \/ UNCHANGED moves
    PROVE  /\ Known \subseteq Known' /\ Known' \subseteq Int /\ Known \subseteq Int
           /\ moves' \in 0..MaxMoves /\ asked' \in [Requests -> AskedType]
           /\ Moves => -1 - moves \in Known' \ Known
<1>1. moves \in 0..MaxMoves /\ asked \in [Requests -> AskedType] /\ MaxMoves \in Nat
      /\ Requests \subseteq 1..MaxCards /\ MaxCards \in Nat
  BY CardsAssumption DEF CardsInv, Recorded
<1>2. moves' \in 0..MaxMoves /\ moves' >= moves /\ asked' = asked /\ (Moves => moves' = moves + 1)
  BY <1>1 DEF Moves
<1>3. Known \subseteq Known' /\ Known' \subseteq Int /\ Known \subseteq Int
  BY <1>1, <1>2 DEF Known
<1>4. ASSUME Moves PROVE -1 - moves \in Known' \ Known
  <2>1. -1 - moves \in Int /\ -1 - moves \notin Requests /\ ~(-moves <= -1 - moves)
    BY <1>1
  <2>2. -moves' <= -1 - moves
    BY <1>1, <1>2, <1>4
  <2>. QED
    BY <2>1, <2>2 DEF Known
<1>. QED
  BY <1>1, <1>2, <1>3, <1>4

-----------------------------------------------------------------------------
(* What requests do.                                                       *)

(* A message says that it is being worked on, or goes.                     *)
LEMMA RewrittenIs ==
    ASSUME NEW cd \in [Cards -> SaysType], NEW c \in Cards, NEW d, NEW t \in {"preparing", "deleted"},
           NEW ce, ce = [cd EXCEPT ![c] = Reads(t)],
           t = "deleted" \/ (d.chain[c] = <<>> /\ d.live.card # c)
    PROVE  Rewritten(ce, cd, c, d) /\ ce[c] = Reads(t)
<1>1. Reads(t) \in SaysType /\ Reads(t).text = t
  BY DEF Reads, Says, SaysType, Texts
<1>2. ce[c] = Reads(t)
  OBVIOUS
<1>. QED
  BY <1>1, <1>2 DEF Rewritten

(* AsksFor() keeps the invariant.                                          *)
LEMMA AsksForKeeps ==
    ASSUME CardsInv, NEW r \in Requests, AsksFor(r)
    PROVE  CardsInv'
<1>. DEFINE s == [asked[r] EXCEPT !.pc = "under way"]
<1>1. /\ Good(Known, hall, desk, card, excused, crossed) /\ Sound(Known, hall, desk, card) /\ Recorded
      /\ card \in [Cards -> SaysType]
  BY DEF CardsInv, Good, Sound, CardOK
<1>2. /\ asked[r].pc = "no" /\ asked' = [asked EXCEPT ![r] = s] /\ UNCHANGED moves
      /\ s \in AskedType /\ s.pc # "over"
  BY <1>1 DEF AsksFor, Recorded, AskedType
<1>3. Known' = Known /\ r \notin Known /\ asked' \in [Requests -> AskedType]
  BY <1>2, GoesOnIs
<1>4. Unheard(r, hall, desk, card)
  BY <1>1, <1>3, UnheardIs
<1>5. Rewritten(card', card, r, desk)
  BY <1>1, <1>4, RewrittenIs DEF AsksFor, Unheard
<1>6. Good(Known, hall, desk, card', excused, crossed)
  BY <1>1, <1>4, <1>5, GoodCard DEF Unheard
<1>. QED
  BY <1>1, <1>3, <1>6 DEF CardsInv, Recorded, AsksFor

(* Plans() keeps the invariant.                                            *)
LEMMA PlansKeeps ==
    ASSUME CardsInv, NEW r \in Requests, Plans(r)
    PROVE  CardsInv'
<1>1. PICK s \in AskedType : s.pc # "over" /\ asked' = [asked EXCEPT ![r] = s]
  <2>. DEFINE n == QueueLimit - Len(hall.queue) + IF hall.cur # NoTrack THEN 0 ELSE 1
              s == [pc |-> "planned", starts |-> ~(hall.cur # NoTrack), tracks |-> IF n > 1 THEN 2 ELSE 1]
  <2>1. asked' = [asked EXCEPT ![r] = s]
    BY DEF Plans
  <2>2. s \in AskedType /\ s.pc # "over"
    BY DEF AskedType
  <2>. QED
    BY <2>1, <2>2
<1>2. asked[r].pc # "over" /\ UNCHANGED moves
  BY DEF Plans
<1>3. Known' = Known /\ asked' \in [Requests -> AskedType]
  BY <1>1, <1>2, GoesOnIs
<1>. QED
  BY <1>3 DEF CardsInv, Recorded, Plans

(* Cancels() keeps the invariant.                                          *)
LEMMA CancelsKeeps ==
    ASSUME CardsInv, NEW r \in Requests, Cancels(r)
    PROVE  CardsInv'
<1>1. /\ Good(Known, hall, desk, card, excused, crossed) /\ Recorded
      /\ card \in [Cards -> SaysType] /\ r \in Cards
  BY CardsAssumption DEF CardsInv, Good, Sound, CardOK, Cards
<1>2. asked[r].pc # "over" /\ asked' = [asked EXCEPT ![r] = Stands("over")] /\ UNCHANGED moves
  BY DEF Cancels, UnderWay
<1>3. Known' = Known \cup {r} /\ asked' \in [Requests -> AskedType] /\ Known' \subseteq Int
  BY <1>2, OverIs
<1>4. Good(Known', hall, desk, card, excused, crossed)
  BY <1>1, <1>3, GoodOld
<1>5. Rewritten(card', card, r, desk)
  BY <1>1, RewrittenIs DEF Cancels
<1>6. Good(Known', hall, desk, card', excused, crossed)
  BY <1>1, <1>4, <1>5, GoodCard
<1>. QED
  BY <1>1, <1>3, <1>6 DEF CardsInv, Recorded, Cancels

(* Fails() keeps the invariant.                                            *)
LEMMA FailsKeeps ==
    ASSUME CardsInv, NEW r \in Requests, Fails(r)
    PROVE  CardsInv'
<1>1. Good(Known, hall, desk, card, excused, crossed) /\ Recorded
  BY DEF CardsInv
<1>2. asked[r].pc # "over" /\ asked' = [asked EXCEPT ![r] = Stands("over")] /\ UNCHANGED moves
  BY DEF Fails, UnderWay
<1>3. Known' = Known \cup {r} /\ asked' \in [Requests -> AskedType] /\ Known' \subseteq Int
  BY <1>2, OverIs
<1>4. Good(Known', hall, desk, card, excused, crossed) /\ r \in Known'
  BY <1>1, <1>3, GoodOld
<1>5. Good(Known', hall, Errs(desk, r), card, excused, crossed)
  BY <1>4, RequestTold
<1>. QED
  BY <1>1, <1>3, <1>5 DEF CardsInv, Recorded, Fails

(* Enqueues() keeps the invariant.                                         *)
LEMMA EnqueuesKeeps ==
    ASSUME CardsInv, NEW r \in Requests, NEW force \in BOOLEAN, Enqueues(r, force)
    PROVE  CardsInv'
<1>. DEFINE now == hall.cur = NoTrack \/ force
            t == TrackOf(r, r \notin Playlists \/ asked[r].starts \/ force)
            first == IF hall.cur = NoTrack THEN [Place EXCEPT !.hall = Starts(@, t)]
                     ELSE IF force THEN Interrupt(Place, t, hall.queue)
                     ELSE [Place EXCEPT !.hall.queue = Append(@, t)]
            full == asked[r].tracks > 1 /\ Len(first.hall.queue) >= QueueLimit
            both == IF asked[r].tracks > 1 /\ ~full
                    THEN [first EXCEPT !.hall.queue = Append(@, RestOf(r))] ELSE first
            told == IF full THEN Errs(both.desk, r)
                    ELSE Loosely(both.desk,
                            IF now THEN Edit(r, Says("now", r, TRUE), "begin")
                            ELSE Edit(r, Reads("queued"), "remember"))
            j == Known \cup {r}
<1>1. Good(Known, hall, desk, card, excused, crossed) /\ Recorded /\ r \in Cards
  BY CardsAssumption DEF CardsInv, Cards
<1>2. /\ asked[r].pc # "over" /\ asked' = [asked EXCEPT ![r] = Stands("over")] /\ UNCHANGED <<card, crossed, moves>>
      /\ Goes([both EXCEPT !.desk = told])
      /\ excused' = IF full THEN excused \cup {r} ELSE excused
  BY DEF Enqueues
<1>3. /\ Known' = j /\ r \in Requests \ Known /\ asked' \in [Requests -> AskedType]
      /\ MaxCards + r \in j /\ r \in j
  BY <1>2, OverIs
<1>4. Brings(r, t)
  <2>1. \A b : TrackOf(r, b) = TrackOf(r, TRUE) \/ TrackOf(r, b) = TrackOf(r, FALSE)
    BY DEF TrackOf
  <2>. QED
    BY <2>1 DEF Brings
<1>. HIDE DEF t
<1>5. first = First(hall, desk, t, force)
  <2>1. Place = [hall |-> hall, desk |-> desk]
    BY DEF Place
  <2>2. [Place EXCEPT !.hall = Starts(@, t)] = [hall |-> Starts(hall, t), desk |-> desk]
    BY <2>1
  <2>3. [Place EXCEPT !.hall.queue = Append(@, t)]
            = [hall |-> [hall EXCEPT !.queue = Append(@, t)], desk |-> desk]
    BY <2>1
  <2>4. Interrupt(Place, t, hall.queue) = Interrupt([hall |-> hall, desk |-> desk], t, hall.queue)
    BY <2>1
  <2>. QED
    BY <2>2, <2>3, <2>4 DEF First
<1>6. first = [hall |-> first.hall, desk |-> first.desk]
  BY <1>5 DEF First, Interrupt
<1>. HIDE DEF first
<1>7. IsFirst(first, r, Known, card, excused, crossed, now) /\ card[r].text # "now"
  BY <1>1, <1>3, <1>4, <1>5, FirstIs
<1>8. /\ both = [hall |-> both.hall, desk |-> both.desk] /\ both.desk = first.desk
      /\ both.hall = first.hall \/ both.hall = [first.hall EXCEPT !.queue = Append(@, RestOf(r))]
  BY <1>6
<1>9. hall' = both.hall /\ desk' = told
  <2>. HIDE DEF both, told
  <2>. QED
    BY <1>2, <1>8 DEF Goes
<1>. HIDE DEF both
<1>10. /\ Good(j, both.hall, both.desk, card, excused, crossed) /\ Shining(r, both.desk)
       /\ now => both.hall.playing = TRUE
  <2>1. /\ Good(j, first.hall, first.desk, card, excused, crossed) /\ Shining(r, first.desk)
        /\ now => first.hall.playing = TRUE
    BY <1>7 DEF IsFirst
  <2>. DEFINE g == [first.hall EXCEPT !.queue = Append(@, RestOf(r))]
  <2>2. Good(j, g, first.desk, card, excused, crossed) /\ g.playing = first.hall.playing
    <3>. HIDE DEF j, now
    <3>. QED
      BY <1>3, <2>1, RestJoins
  <2>. HIDE DEF g, j, now
  <2>. QED
    BY <1>8, <2>1, <2>2 DEF g
<1>. HIDE DEF j
<1>11. Good(j, both.hall, told, card, excused, crossed)
  BY <1>3, <1>7, <1>10, RequestTold
<1>12. Good(Known', hall', desk', card', excused', crossed')
  <2>1. excused \subseteq excused'
    BY <1>2
  <2>. HIDE DEF told
  <2>. QED
    BY <1>2, <1>3, <1>9, <1>11, <2>1, GoodExcused
<1>13. Recorded'
  <2>1. excused' \subseteq Cards
    BY <1>1, <1>2 DEF Recorded
  <2>. QED
    BY <1>1, <1>2, <1>3, <2>1 DEF Recorded
<1>. QED
  BY <1>12, <1>13 DEF CardsInv

(* Autoplays keeps the invariant.                                          *)
LEMMA AutoplaysKeeps ==
    ASSUME CardsInv, Autoplays
    PROVE  CardsInv'
<1>1. /\ Good(Known, hall, desk, card, excused, crossed) /\ Sound(Known, hall, desk, card) /\ Recorded
      /\ card \in [Cards -> SaysType] /\ NoCard \notin Cards /\ NoCard \notin Requests
  BY CardsAssumption DEF CardsInv, Good, Sound, CardOK, Cards, NoCard
<1>2. /\ UNCHANGED <<asked, excused, crossed>> /\ hall.cur = NoTrack /\ hall.queue = <<>> /\ Moves
  BY DEF Autoplays
<1>3. PICK c \in {NoCard} \cup {d \in Cards \ Requests : card[d] = Blank} :
        /\ card' = IF c = NoCard THEN card ELSE [card EXCEPT ![c] = Reads("preparing")]
        /\ hall' = Starts(hall, Radio(c))
        /\ desk' = Advanced(desk, NoTrack, Radio(c), "natural")
  BY DEF Autoplays
<1>4. /\ Known \subseteq Known' /\ Known' \subseteq Int /\ -1 - moves \in Known' \ Known
      /\ moves' \in 0..MaxMoves /\ asked' \in [Requests -> AskedType]
  BY <1>2, MovesIs
<1>5. Good(Known, hall, desk, card', excused, crossed) /\ Taken(c, Known', card')
  <2>1. CASE c = NoCard
    BY <1>1, <1>3, <2>1 DEF Taken, Places
  <2>2. CASE c # NoCard
    <3>1. c \in Cards \ Requests /\ card[c] = Blank /\ Unseen(c, hall, desk)
      BY <1>1, <1>3, <2>2 DEF Sound, Free
    <3>2. Rewritten(card', card, c, desk) /\ card'[c] = Reads("preparing")
      BY <1>1, <1>3, <2>2, <3>1, RewrittenIs DEF Unseen
    <3>3. Reads("preparing").text # Blank.text
      BY DEF Reads, Says, Blank
    <3>. QED
      BY <1>1, <3>1, <3>2, <3>3, GoodCard DEF Taken, Places, Free
  <2>. QED
    BY <2>1, <2>2
<1>6. Radio(c).id = -1 - moves /\ Radio(c).card = c /\ Radio(c) \in TrackType /\ -1 - moves < 0
  <2>1. moves \in Nat /\ -1 - moves \in Int /\ -1 - moves < 0
    BY <1>1, CardsAssumption DEF Recorded
  <2>. QED
    BY <2>1 DEF Radio, TrackType, Places
<1>7. c \notin Requests
  BY <1>1
<1>8. Good(Known', hall', desk', card', excused, crossed)
  BY <1>2, <1>3, <1>4, <1>5, <1>6, <1>7, AutoplayGood
<1>. QED
  BY <1>1, <1>2, <1>4, <1>8 DEF CardsInv, Recorded

-----------------------------------------------------------------------------
(* What the room does.                                                     *)

(* What the invariant says of a state.                                     *)
LEMMA InvIs ==
    ASSUME CardsInv
    PROVE  /\ Good(Known, hall, desk, card, excused, crossed) /\ Sound(Known, hall, desk, card)
           /\ Recorded /\ hall \in HallType /\ hall.cur \in TrackType /\ desk \in DeskType
           /\ card \in [Cards -> SaysType]
           /\ NoCard \notin Cards /\ Requests \subseteq Cards /\ Cards \subseteq Int
           /\ Place = [hall |-> hall, desk |-> desk]
<1>1. /\ Good(Known, hall, desk, card, excused, crossed) /\ Sound(Known, hall, desk, card)
      /\ Recorded /\ hall \in HallType /\ desk \in DeskType /\ card \in [Cards -> SaysType]
  BY DEF CardsInv, Good, Sound, HallOK, DeskOK, CardOK
<1>2. NoCard \notin Cards /\ Requests \subseteq Cards /\ Cards \subseteq Int
  BY CardsAssumption DEF Cards, NoCard
<1>. QED
  BY <1>1, <1>2, TracksTyped DEF Place

(* A step that is no request's: what was known still is.                   *)
LEMMA StepKeeps ==
    ASSUME CardsInv, UNCHANGED asked, Moves \/ UNCHANGED moves,
           excused' \subseteq Cards, crossed' \in BOOLEAN,
           Good(Known, hall', desk', card', excused', crossed')
    PROVE  CardsInv'
<1>1. Known \subseteq Known' /\ Known' \subseteq Int
      /\ moves' \in 0..MaxMoves /\ asked' \in [Requests -> AskedType]
  BY MovesIs
<1>2. Good(Known', hall', desk', card', excused', crossed')
  BY <1>1, GoodOld
<1>. QED
  BY <1>1, <1>2 DEF CardsInv, Recorded

(* The current card, when it is not told of, is a message.                 *)
LEMMA UntoldIs ==
    ASSUME CardsInv
    PROVE  Untold \subseteq Cards /\ Untold = {hall.cur.card} \ {desk.live.card, NoCard}
<1>1. hall.cur.card \in Places
  BY InvIs DEF TrackType
<1>. QED
  BY <1>1 DEF Untold, Places

(* advance() is done at once, or waits for a download.                     *)
LEMMA AdvanceIs ==
    ASSUME CardsInv, NEW reason, NEW beside
    PROVE  LET pl == Advance(reason, beside)
               one == AtOnce(hall, desk, reason)
           IN  /\ pl = [hall |-> pl.hall, desk |-> pl.desk, advances |-> pl.advances]
               /\ \/ ~AwaitsFile /\ pl.hall = one.hall /\ pl.desk = one.desk /\ pl.advances = beside
                  \/ /\ AwaitsFile /\ hall.queue # <<>>
                     /\ pl.hall = [hall EXCEPT !.queue = Tail(@)] /\ pl.desk = desk
                     /\ pl.advances = beside \cup {Call(reason)}
<1>. DEFINE next == IF hall.queue = <<>> THEN NoTrack ELSE Head(hall.queue)
            rest == IF hall.queue = <<>> THEN <<>> ELSE Tail(hall.queue)
            shifted == [Place EXCEPT !.hall.queue = rest]
            g == [hall EXCEPT !.queue = rest]
            pl == Advance(reason, beside)
            one == AtOnce(hall, desk, reason)
<1>1. hall \in HallType /\ hall.queue \in Seq(TrackType)
  BY InvIs DEF HallType
<1>2. pl = [hall |-> pl.hall, desk |-> pl.desk, advances |-> pl.advances]
  BY DEF Advance
<1>3. shifted = [hall |-> g, desk |-> desk]
  <2>. HIDE DEF rest
  <2>. QED
    BY DEF Place
<1>4. CASE AwaitsFile
  <2>1. hall.queue # <<>>
    BY <1>4 DEF AwaitsFile
  <2>2. pl.hall = shifted.hall /\ pl.desk = shifted.desk /\ pl.advances = beside \cup {Call(reason)}
    BY <1>4 DEF Advance
  <2>. QED
    BY <1>2, <1>3, <1>4, <2>1, <2>2
<1>5. CASE ~AwaitsFile
  <2>1. /\ pl.hall = IF next = NoTrack THEN [g EXCEPT !.cur = NoTrack, !.playing = FALSE]
                     ELSE Starts(g, next)
        /\ pl.desk = TurnsTo(ToldOf(desk, hall.cur, reason), next) /\ pl.advances = beside
    BY <1>3, <1>5, AdvancedIs DEF Advance, Follows
  <2>2. NextHall(hall) = IF next = NoTrack THEN [g EXCEPT !.cur = NoTrack, !.playing = FALSE]
                         ELSE Starts(g, next)
    <3>1. CASE hall.queue = <<>>
      BY <1>1, <3>1 DEF NextHall, HallType
    <3>2. CASE hall.queue # <<>>
      <4>1. next.id # 0
        <5>1. next \in Queued(hall)
          BY <1>1, <3>2 DEF Queued, ToSet
        <5>. QED
          BY <5>1, InvIs DEF Sound, HallOK
      <4>2. next # NoTrack
        BY <4>1 DEF NoTrack
      <4>3. g = [hall EXCEPT !.queue = Tail(@)]
        BY <3>2
      <4>4. NextHall(hall) = [Starts(hall, next) EXCEPT !.queue = Tail(@)]
        BY <3>2, <4>2 DEF NextHall
      <4>. HIDE DEF next, g
      <4>. QED
        BY <1>1, <4>2, <4>3, <4>4 DEF Starts, HallType
    <3>. QED
      BY <3>1, <3>2
  <2>3. NextHall(hall).cur = next
    BY NextIs, InvIs DEF Sound
  <2>. QED
    BY <1>2, <1>5, <2>1, <2>2, <2>3 DEF AtOnce
<1>. QED
  BY <1>4, <1>5

(* What a skip tells a card.                                               *)
LEMMA SkippedTells ==
    ASSUME NEW c \in Cards
    PROVE  LET e == Edit(c, Reads("skipped"), "rest") IN e \in EditType /\ Tells(e, c)
  BY DEF Edit, Reads, Says, EditType, SaysType, Texts, Places, Tells

(* A step in which the next track leaves the queue, and the rest waits.  The live *)
(* card may be told already that it is skipped.                            *)
LEMMA ShiftKeeps ==
    ASSUME CardsInv, UNCHANGED <<asked, card, crossed>>, Moves \/ UNCHANGED moves,
           excused \subseteq excused', excused' \subseteq Cards,
           hall.queue # <<>>, hall' = [hall EXCEPT !.queue = Tail(@)]
    PROVE  LET e == Edit(desk.live.card, Reads("skipped"), "rest") IN
           /\ desk' = desk => CardsInv'
           /\ desk.live.card # NoCard /\ desk' = Chained(desk, desk.live.card, e) => CardsInv'
           /\ desk.live.card # NoCard /\ desk' = Loosely(desk, e) => CardsInv'
<1>. DEFINE e == Edit(desk.live.card, Reads("skipped"), "rest")
            c == desk.live.card
<1>1. hall \in HallType /\ hall.queue \in Seq(TrackType) /\ Once(hall.queue) /\ crossed' \in BOOLEAN
  BY InvIs DEF HallType, Sound, HallOK, Recorded
<1>2. Thinner(Tail(hall.queue), hall.queue, 1)
  BY <1>1, TailThins
<1>3. /\ hall' \in HallType /\ hall'.cur = hall.cur /\ hall'.playing = hall.playing
      /\ hall'.queue = Tail(hall.queue)
  <2>1. Tail(hall.queue) \in Seq(TrackType)
    BY <1>2 DEF Thinner
  <2>. HIDE DEF TrackType
  <2>. QED
    BY <1>1, <2>1 DEF HallType
<1>4. Queued(hall') \subseteq Queued(hall) /\ Once(hall'.queue)
  BY <1>1, <1>2, <1>3 DEF Queued, Thinner
<1>5. Good(Known, hall', desk, card, excused', crossed)
  <2>1. Good(Known, hall', desk, card, excused, crossed)
    BY <1>3, <1>4, InvIs, GoodQueue
  <2>. QED
    BY <2>1, GoodExcused
<1>6. ASSUME c # NoCard
      PROVE  /\ Good(Known, hall', Chained(desk, c, e), card, excused', crossed)
             /\ Good(Known, hall', Loosely(desk, e), card, excused', crossed)
  <2>1. c \in Cards /\ ~Free(c, Known, card)
    BY <1>6, InvIs, SoundTaken DEF Taken, Places
  <2>2. e \in EditType /\ Tells(e, c)
    BY <2>1, SkippedTells
  <2>. HIDE DEF e
  <2>3. Fits(e, c, Known) /\ InLoose(e, Known) /\ e.says.text # "now" /\ e.then = "rest" /\ e.card = c
    BY <2>1, <2>2, InvIs DEF Tells, Fits, InLoose
  <2>4. IsChained(Chained(desk, c, e), desk, c, e) /\ IsLoosely(Loosely(desk, e), desk, e)
    BY <2>1, <2>2, InvIs, ChainedIs, LooselyIs
  <2>. QED
    BY <1>5, <2>1, <2>3, <2>4, GoodTold, GoodLoosely
<1>. HIDE DEF e
<1>7. ASSUME NEW r, desk' = r, Good(Known, hall', r, card, excused', crossed) PROVE CardsInv'
  BY <1>1, <1>7, StepKeeps
<1>. QED
  BY <1>5, <1>6, <1>7 DEF e

(* TrackEnds keeps the invariant.                                          *)
LEMMA TrackEndsKeeps ==
    ASSUME CardsInv, TrackEnds
    PROVE  CardsInv'
<1>. DEFINE pl == Advance("natural", advances)
            one == AtOnce(hall, desk, "natural")
<1>1. UNCHANGED <<asked, card, excused, crossed>> /\ Moves /\ hall' = pl.hall /\ desk' = pl.desk
  BY DEF TrackEnds, Goes, GoesOn
<1>2. CASE pl.hall = one.hall /\ pl.desk = one.desk
  <2>1. Good(Known, one.hall, one.desk, card, excused, crossed)
    BY InvIs, NaturalGood
  <2>. HIDE DEF pl, one
  <2>. QED
    BY <1>1, <1>2, <2>1, InvIs, StepKeeps DEF Recorded
<1>3. CASE hall.queue # <<>> /\ pl.hall = [hall EXCEPT !.queue = Tail(@)] /\ pl.desk = desk
  <2>. HIDE DEF pl
  <2>. QED
    BY <1>1, <1>3, InvIs, ShiftKeeps DEF Recorded
<1>. QED
  BY <1>2, <1>3, AdvanceIs

(* A skip that no card is told of, and one that the live card is.          *)
LEMMA SkipKeeps ==
    ASSUME CardsInv, UNCHANGED <<asked, card, crossed>>, Moves \/ UNCHANGED moves,
           excused \subseteq excused', excused' \subseteq Cards, NEW beside,
           hall' = Advance("skip", beside).hall
    PROVE  LET s == Advance("skip", beside).desk
               e == Edit(desk.live.card, Reads("skipped"), "rest")
           IN
           /\ desk' = s /\ Cards \cap {hall.cur.card, desk.live.card} \subseteq excused' => CardsInv'
           /\ desk.live.card # NoCard /\ Untold \subseteq excused' =>
                /\ desk' = Chained(s, desk.live.card, e) => CardsInv'
                /\ desk' = Loosely(s, e) => CardsInv'
<1>. DEFINE pl == Advance("skip", beside)
            one == AtOnce(hall, desk, "skip")
            e == Edit(desk.live.card, Reads("skipped"), "rest")
<1>1. crossed' \in BOOLEAN
  BY InvIs DEF Recorded
<1>2. CASE hall.queue # <<>> /\ pl.hall = [hall EXCEPT !.queue = Tail(@)] /\ pl.desk = desk
  <2>1. hall' = [hall EXCEPT !.queue = Tail(@)]
    BY <1>2
  <2>. HIDE DEF pl
  <2>. QED
    BY <1>2, <2>1, ShiftKeeps DEF pl
<1>3. CASE pl.hall = one.hall /\ pl.desk = one.desk
  <2>2. ASSUME Cards \cap {hall.cur.card, desk.live.card} \subseteq excused'
        PROVE  Good(Known, one.hall, one.desk, card, excused', crossed)
    BY <2>2, InvIs, SkipUntold
  <2>3. ASSUME desk.live.card # NoCard, Untold \subseteq excused'
        PROVE  /\ Good(Known, one.hall, Chained(one.desk, desk.live.card, e), card, excused', crossed)
               /\ Good(Known, one.hall, Loosely(one.desk, e), card, excused', crossed)
    <3>1. desk.live.card \in Cards
      BY <2>3, InvIs DEF DeskType, Places
    <3>2. e \in EditType /\ Tells(e, desk.live.card)
      BY <3>1, SkippedTells
    <3>3. excused \cup ({hall.cur.card} \ {desk.live.card, NoCard}) \subseteq excused'
      BY <2>3, UntoldIs
    <3>. HIDE DEF e
    <3>. QED
      BY <2>3, <3>2, <3>3, InvIs, SkipTold
  <2>. HIDE DEF e
  <2>4. hall' = one.hall
    BY <1>3
  <2>. HIDE DEF one
  <2>5. ASSUME NEW r, desk' = r, Good(Known, one.hall, r, card, excused', crossed) PROVE CardsInv'
    BY <1>1, <2>4, <2>5, StepKeeps
  <2>. HIDE DEF pl
  <2>. QED
    BY <1>3, <2>2, <2>3, <2>5 DEF pl, e
<1>. QED
  BY <1>2, <1>3, AdvanceIs

(* SkipCommand keeps the invariant.                                        *)
LEMMA SkipCommandKeeps ==
    ASSUME CardsInv, SkipCommand
    PROVE  CardsInv'
<1>. DEFINE pl == Advance("skip", advances)
            old == desk.live.card
            e == Edit(old, Reads("skipped"), "rest")
<1>1. /\ UNCHANGED <<asked, card, crossed>> /\ Moves /\ excused' = excused \cup Untold
      /\ Goes(IF old = NoCard THEN pl ELSE [pl EXCEPT !.desk = Chained(@, old, e)])
  BY DEF SkipCommand, GoesOn
<1>2. pl = [hall |-> pl.hall, desk |-> pl.desk, advances |-> pl.advances]
  BY AdvanceIs
<1>3. Untold \subseteq excused' /\ excused \subseteq excused' /\ excused' \subseteq Cards
  BY <1>1, InvIs, UntoldIs DEF Recorded
<1>. HIDE DEF e, pl
<1>4. CASE old = NoCard
  <2>1. hall' = pl.hall /\ desk' = pl.desk
    BY <1>1, <1>4 DEF Goes
  <2>2. Cards \cap {hall.cur.card, desk.live.card} \subseteq excused'
    BY <1>3, <1>4, InvIs, UntoldIs
  <2>. QED
    BY <1>1, <1>3, <2>1, <2>2, SkipKeeps DEF pl
<1>5. CASE old # NoCard
  <2>1. hall' = pl.hall /\ desk' = Chained(pl.desk, old, e)
    BY <1>1, <1>2, <1>5 DEF Goes
  <2>. QED
    BY <1>1, <1>3, <1>5, <2>1, SkipKeeps DEF pl, e
<1>. QED
  BY <1>4, <1>5

(* SkipButton keeps the invariant.                                         *)
LEMMA SkipButtonKeeps ==
    ASSUME CardsInv, SkipButton
    PROVE  CardsInv'
<1>. DEFINE pl == Advance("skip", advances)
            old == desk.live.card
            e == Edit(old, Reads("skipped"), "rest")
<1>1. /\ UNCHANGED <<asked, card, crossed>> /\ Moves /\ excused' = excused \cup Untold
      /\ old # NoCard /\ Goes([pl EXCEPT !.desk = Loosely(@, e)])
  BY DEF SkipButton, GoesOn
<1>2. pl = [hall |-> pl.hall, desk |-> pl.desk, advances |-> pl.advances]
  BY AdvanceIs
<1>3. Untold \subseteq excused' /\ excused \subseteq excused' /\ excused' \subseteq Cards
  BY <1>1, InvIs, UntoldIs DEF Recorded
<1>. HIDE DEF e, pl
<1>4. hall' = pl.hall /\ desk' = Loosely(pl.desk, e)
  BY <1>1, <1>2 DEF Goes
<1>. QED
  BY <1>1, <1>3, <1>4, SkipKeeps DEF pl, e

(* SkipOnTheWeb keeps the invariant.                                       *)
LEMMA SkipOnTheWebKeeps ==
    ASSUME CardsInv, SkipOnTheWeb
    PROVE  CardsInv'
<1>1. /\ UNCHANGED <<asked, card, crossed>> /\ Moves
      /\ excused' = excused \cup (Cards \cap {hall.cur.card, desk.live.card})
      /\ hall' = Advance("skip", advances).hall /\ desk' = Advance("skip", advances).desk
  BY DEF SkipOnTheWeb, Goes, GoesOn
<1>2. /\ Cards \cap {hall.cur.card, desk.live.card} \subseteq excused'
      /\ excused \subseteq excused' /\ excused' \subseteq Cards
  BY <1>1, InvIs DEF Recorded
<1>. QED
  BY <1>1, <1>2, SkipKeeps

(* The end of a track is told, whichever the room plays.                   *)
LEMMA ToldFor ==
    ASSUME NEW k, NEW h, NEW d, NEW cd, NEW ex, NEW x, Good(k, h, d, cd, ex, x),
           NEW f, Taken(f.card, k, cd), NEW reason \in {"natural", "skip"}
    PROVE  LET r == ToldOf(d, f, reason) IN
           Good(k, h, r, cd, ex, x) /\ NoMore(r, d) /\ r.live = d.live
<1>. DEFINE c == IF f.card # NoCard THEN f.card ELSE d.live.card
            e == Edit(c, Reads(reason), "rest")
            r == ToldOf(d, f, reason)
<1>1. Sound(k, h, d, cd) /\ d \in DeskType
  BY DEF Good, Sound, DeskOK
<1>2. CASE reason = "skip" \/ f = NoTrack \/ c = NoCard
  <2>1. r = d
    BY <1>2 DEF ToldOf
  <2>. QED
    BY <2>1 DEF NoMore
<1>3. CASE ~(reason = "skip" \/ f = NoTrack \/ c = NoCard)
  <2>1. Taken(c, k, cd)
    BY <1>1, SoundTaken
  <2>2. c \in Cards /\ ~Free(c, k, cd)
    BY <1>3, <2>1 DEF Taken, Places
  <2>3. r = Chained(d, c, e) /\ reason = "natural"
    BY <1>3 DEF ToldOf
  <2>4. e \in EditType /\ Fits(e, c, k) /\ e.says.text # "now" /\ e.then = "rest"
    <3>1. e \in EditType /\ e.card = c /\ e.says.text = "natural" /\ e.then = "rest"
      BY <2>2, <2>3 DEF EditType, Edit, Reads, Says, SaysType, Texts, Places
    <3>. QED
      BY <3>1 DEF Fits
  <2>. HIDE DEF e, r, c
  <2>5. IsChained(r, d, c, e)
    BY <1>1, <2>2, <2>3, <2>4, ChainedIs
  <2>6. Good(k, h, r, cd, ex, x)
    BY <2>2, <2>4, <2>5, GoodTold
  <2>. QED
    BY <2>4, <2>5, <2>6 DEF NoMore, IsChained, Sits, r
<1>. QED
  BY <1>2, <1>3

(* advance() ends, with whatever is current by then: what it leaves saying that it *)
(* plays, with nothing under way to it, is excused.                        *)
LEMMA SettlesGood ==
    ASSUME NEW k, NEW h, NEW d, NEW cd, NEW ex, NEW x, Good(k, h, d, cd, ex, x),
           NEW f, Taken(f.card, k, cd), NEW reason \in {"natural", "skip"},
           NEW g, HallOK(g, k), Linked(g, d), \A t \in Tracks(g) : Taken(t.card, k, cd),
           g.cur.id # 0 => g.playing, \A t \in Tracks(g) : t.id \in Requests => t \in Queued(h),
           NEW more, ex \subseteq more,
           \A c \in Requests \cap {h.cur.card, d.live.card} :
                cd[c].text = "now" => c \in more \/ Pending(c, ToldOf(d, f, reason))
    PROVE  Good(k, g, TurnsTo(ToldOf(d, f, reason), g.cur), cd, more, x)
<1>. DEFINE r == ToldOf(d, f, reason)
<1>1. Good(k, h, r, cd, ex, x) /\ NoMore(r, d) /\ r.live = d.live
  BY ToldFor
<1>2. \A c \in Requests \cap {h.cur.card, d.live.card} : cd[c].text = "now" => c \in more \/ Pending(c, r)
  OBVIOUS
<1>. HIDE DEF r
<1>3. /\ Sound(k, h, r, cd) /\ HallOK(h, k) /\ Moving(h, r, cd, more) /\ (x \/ Agreeing(h, r, cd, more))
      /\ Requests \subseteq Cards
  <2>1. Good(k, h, r, cd, more, x)
    BY <1>1, GoodExcused
  <2>. QED
    BY <2>1, CardsAssumption DEF Good, Sound, Cards
<1>4. Linked(g, r)
  BY <1>1 DEF Linked, NoMore
<1>5. Quiet(g, r, cd, more)
  BY <1>3 DEF Quiet, Moving, Waits, IsQuiet
<1>6. Lefts(r, cd, more)
  <2>1. SUFFICES ASSUME NEW q \in Requests \ more, cd[q].text = "now" PROVE Pending(q, r)
    BY DEF Lefts
  <2>2. MovesOn(q, h, r, cd) /\ IsLive(q, h, r, cd)
    BY <1>3 DEF Moving, Waits
  <2>3. CASE h.cur.id # q
    BY <2>1, <2>2, <2>3 DEF MovesOn
  <2>4. CASE h.cur.id = q
    <3>1. h.cur.card \in {NoCard, q}
      BY <1>3, <2>4 DEF HallOK, TrackOK, Tracks
    <3>2. CASE h.cur.card = q
      BY <1>2, <2>1, <3>2
    <3>3. CASE h.cur.card # q
      <4>1. CASE Claims(q, r, cd)
        BY <1>1, <1>2, <2>1, <2>2, <2>4, <3>3, <4>1 DEF IsLive
      <4>2. CASE ~Claims(q, r, cd)
        BY <2>1, <4>2 DEF Claims, Final, Pending
      <4>. QED
        BY <4>1, <4>2
    <3>. QED
      BY <3>2, <3>3
  <2>. QED
    BY <2>3, <2>4
<1>7. /\ Sound(k, g, TurnsTo(r, g.cur), cd) /\ Moving(g, TurnsTo(r, g.cur), cd, more)
      /\ x \/ Agreeing(g, TurnsTo(r, g.cur), cd, more)
  BY <1>3, <1>4, <1>5, <1>6, TurnsGood
<1>. QED
  BY <1>7 DEF Good, r

(* The track that a download was for starts.                               *)
LEMMA StartsIs ==
    ASSUME NEW k, NEW h, NEW d, NEW cd, Sound(k, h, d, cd),
           NEW t \in TrackType, TrackOK(t, k), t.id > MaxCards
    PROVE  LET g == Starts(h, t) IN
           /\ HallOK(g, k) /\ Linked(g, d) /\ \A u \in Tracks(g) : Taken(u.card, k, cd)
           /\ g.cur = t /\ g.playing = TRUE /\ \A u \in Tracks(g) : u.id \in Requests => u \in Queued(h)
<1>. DEFINE g == Starts(h, t)
<1>1. /\ HallOK(h, k) /\ h \in HallType /\ h.queue \in Seq(TrackType) /\ DeskOK(d, k) /\ Linked(h, d)
      /\ \A u \in Tracks(h) : Taken(u.card, k, cd)
  BY SoundTaken DEF Sound, HallOK, HallType
<1>2. t.id \in Int /\ t.id \notin Requests /\ t.id # 0 /\ t.card = NoCard /\ MaxCards \in Nat
  BY CardsAssumption DEF TrackType, TrackOK
<1>3. g \in HallType /\ g.cur = t /\ g.playing = TRUE /\ g.queue = h.queue
  <2>. HIDE DEF TrackType
  <2>. QED
    BY <1>1 DEF HallType, Starts
<1>. HIDE DEF g
<1>4. Queued(g) = Queued(h) /\ Tracks(g) = {t} \cup Queued(h) /\ Queued(h) \subseteq Tracks(h)
  BY <1>3 DEF Queued, Tracks
<1>5. \A u \in Queued(h) : u.id = t.id => u.card = NoCard
  BY <1>1, <1>4 DEF HallOK, TrackOK
<1>6. HallOK(g, k)
  <2>1. \A u \in Tracks(g) : TrackOK(u, k)
    BY <1>1, <1>4 DEF HallOK
  <2>2. \A u \in Queued(g) : u.id # 0 /\ (u.id \in Requests => u.id # g.cur.id)
    BY <1>1, <1>2, <1>3, <1>4 DEF HallOK
  <2>3. \A u, v \in Tracks(g) : u.id = v.id => u.card = v.card
    BY <1>1, <1>2, <1>4, <1>5 DEF HallOK
  <2>4. Once(g.queue)
    BY <1>1, <1>3 DEF HallOK
  <2>. QED
    BY <1>3, <2>1, <2>2, <2>3, <2>4 DEF HallOK
<1>7. Linked(g, d)
  <2>1. SUFFICES ASSUME NEW c \in Cards, NEW e \in Chain(d, c), NEW u \in Tracks(g),
                        e.then = "begin", u.id = e.says.track
                 PROVE  u.card = c
    BY DEF Linked
  <2>2. e.says.track <= MaxCards
    BY <1>1, <2>1 DEF DeskOK, InChain
  <2>3. u # t
    BY <1>2, <2>1, <2>2
  <2>. QED
    BY <1>1, <1>4, <2>1, <2>3 DEF Linked
<1>8. \A u \in Tracks(g) : Taken(u.card, k, cd)
  BY <1>1, <1>2, <1>4 DEF Taken, Places, NoCard, Cards
<1>. QED
  BY <1>2, <1>3, <1>4, <1>6, <1>7, <1>8 DEF g

\* What waits for a download, and for which: a track without a card.
CallOK(w, known, cd) ==
    /\ w \in CallType /\ w.next.id > MaxCards /\ TrackOK(w.next, known)
    /\ Taken(w.finished.card, known, cd)
CallsOK ==
    /\ unfetched \subseteq Int /\ \A i \in unfetched : i > MaxCards
    /\ \A w \in advances : CallOK(w, Known, card)

(* Downloaded() keeps the invariant.                                       *)
LEMMA DownloadedKeeps ==
    ASSUME CardsInv, CallsOK, NEW w \in advances, Downloaded(w)
    PROVE  CardsInv'
<1>. DEFINE r == ToldOf(desk, w.finished, w.reason)
            g == Starts(hall, w.next)
            more == IF w.reason = "natural" /\ w.finished = hall.cur THEN {} ELSE StillClaims(r)
<1>1. /\ w.next \in TrackType /\ w.next.id > MaxCards /\ TrackOK(w.next, Known)
      /\ w.reason \in {"natural", "skip"} /\ Taken(w.finished.card, Known, card)
  BY DEF CallsOK, CallOK, CallType
<1>2. UNCHANGED <<asked, card, crossed, moves>> /\ excused' = excused \cup more
  BY DEF Downloaded
<1>3. hall' = g /\ desk' = TurnsTo(r, w.next)
  <2>1. w.next # NoTrack
    BY <1>1, CardsAssumption DEF NoTrack
  <2>. QED
    BY <2>1, AdvancedIs, InvIs DEF Downloaded, Goes, Follows
<1>4. /\ HallOK(g, Known) /\ Linked(g, desk) /\ \A u \in Tracks(g) : Taken(u.card, Known, card)
      /\ g.cur = w.next /\ g.playing = TRUE
      /\ \A u \in Tracks(g) : u.id \in Requests => u \in Queued(hall)
  BY <1>1, InvIs, StartsIs
<1>5. excused' \subseteq Cards
  BY <1>2, InvIs DEF Recorded, StillClaims
<1>6. \A c \in Requests \cap {hall.cur.card, desk.live.card} :
            card[c].text = "now" => c \in excused' \/ Pending(c, r)
  <2>1. CASE w.reason = "natural" /\ w.finished = hall.cur
    <3>1. Lefts(r, card, excused)
      BY <2>1, InvIs, ToldGood
    <3>. QED
      BY <1>2, <3>1 DEF Lefts
  <2>2. CASE ~(w.reason = "natural" /\ w.finished = hall.cur)
    BY <1>2, <2>2, InvIs DEF StillClaims
  <2>. QED
    BY <2>1, <2>2
<1>. HIDE DEF g, more
<1>7. Good(Known, g, TurnsTo(r, g.cur), card, excused', crossed)
  <2>1. excused \subseteq excused'
    BY <1>2
  <2>. QED
    BY <1>1, <1>4, <1>6, <2>1, InvIs, SettlesGood
<1>. HIDE DEF r
<1>. QED
  BY <1>2, <1>3, <1>4, <1>5, <1>7, InvIs, StepKeeps DEF Recorded

(* NotDownloaded() keeps the invariant.                                    *)
LEMMA NotDownloadedKeeps ==
    ASSUME CardsInv, CallsOK, NEW w \in advances, NotDownloaded(w)
    PROVE  CardsInv'
<1>. DEFINE pl == Advance(w.reason, advances \ {w})
            one == AtOnce(hall, desk, w.reason)
            g == NextHall(hall)
            more == IF w.reason = "natural" THEN {} ELSE StillClaims(desk)
<1>1. w.reason \in {"natural", "skip"}
  BY DEF CallsOK, CallOK, CallType
<1>2. /\ UNCHANGED <<asked, card, crossed, moves>> /\ excused' = excused \cup more
      /\ hall' = pl.hall /\ desk' = pl.desk
  BY DEF NotDownloaded, GoesOn, Goes
<1>3. excused \subseteq excused' /\ excused' \subseteq Cards
  BY <1>2, InvIs DEF Recorded, StillClaims
<1>4. CASE hall.queue # <<>> /\ pl.hall = [hall EXCEPT !.queue = Tail(@)] /\ pl.desk = desk
  <2>. HIDE DEF pl
  <2>. QED
    BY <1>2, <1>3, <1>4, InvIs, ShiftKeeps
<1>5. CASE pl.hall = one.hall /\ pl.desk = one.desk
  <2>1. CASE w.reason = "natural"
    <3>1. Good(Known, one.hall, one.desk, card, excused, crossed)
      BY <2>1, InvIs, NaturalGood
    <3>2. Good(Known, one.hall, one.desk, card, excused', crossed)
      BY <1>3, <3>1, GoodExcused
    <3>. HIDE DEF pl, one
    <3>. QED
      BY <1>2, <1>3, <1>5, <3>2, InvIs, StepKeeps DEF Recorded
  <2>2. CASE w.reason = "skip"
    <3>1. ToldOf(desk, hall.cur, w.reason) = desk
      BY <2>2 DEF ToldOf
    <3>2. one.hall = g /\ one.desk = TurnsTo(ToldOf(desk, hall.cur, w.reason), g.cur)
      BY DEF AtOnce
    <3>3. /\ HallOK(g, Known) /\ Linked(g, desk) /\ (g.cur.id # 0 => g.playing)
          /\ \A t \in Tracks(g) : Taken(t.card, Known, card)
          /\ Queued(g) \subseteq Queued(hall) /\ (g.cur = NoTrack \/ g.cur \in Queued(hall))
      <4>1. NoMore(desk, desk)
        BY DEF NoMore
      <4>. QED
        BY <4>1, InvIs, SoundTaken, NextSound, NextIs DEF Sound
    <3>. HIDE DEF g
    <3>4. \A t \in Tracks(g) : t.id \in Requests => t \in Queued(hall)
      BY <3>3, CardsAssumption DEF Tracks, NoTrack
    <3>5. \A c \in Requests \cap {hall.cur.card, desk.live.card} :
                card[c].text = "now" => c \in excused' \/ Pending(c, ToldOf(desk, hall.cur, w.reason))
      BY <1>2, <2>2, <3>1, InvIs DEF StillClaims
    <3>6. Taken(hall.cur.card, Known, card)
      BY InvIs, SoundTaken DEF Tracks
    <3>7. Good(Known, one.hall, one.desk, card, excused', crossed)
      <4>1. Good(Known, hall, desk, card, excused, crossed)
        BY InvIs
      <4>. DEFINE ends == excused'
                  f == hall.cur
                  reason == w.reason
      <4>2. excused \subseteq ends /\ Taken(f.card, Known, card) /\ reason \in {"natural", "skip"}
        BY <1>1, <1>3, <3>6
      <4>3. \A c \in Requests \cap {hall.cur.card, desk.live.card} :
                card[c].text = "now" => c \in ends \/ Pending(c, ToldOf(desk, f, reason))
        BY <3>5
      <4>. HIDE DEF one, ends, f, reason
      <4>4. Good(Known, g, TurnsTo(ToldOf(desk, f, reason), g.cur), card, ends, crossed)
        BY <3>3, <3>4, <4>1, <4>2, <4>3, SettlesGood
      <4>. QED
        BY <3>2, <4>4 DEF ends, f, reason
    <3>. HIDE DEF pl, one
    <3>. QED
      BY <1>2, <1>3, <1>5, <3>7, InvIs, StepKeeps DEF Recorded
  <2>. QED
    BY <1>1, <2>1, <2>2
<1>. QED
  BY <1>4, <1>5, AdvanceIs

(* Prefetched keeps the invariant.                                         *)
LEMMA PrefetchedKeeps ==
    ASSUME CardsInv, Prefetched
    PROVE  CardsInv'
  BY DEF Prefetched, CardsInv, Recorded, Known

(* Transport keeps the invariant: what it may have crossed is excepted.    *)
LEMMA TransportKeeps ==
    ASSUME CardsInv, Transport
    PROVE  CardsInv'
<1>1. /\ UNCHANGED <<asked, card, excused>> /\ Moves /\ hall.cur # NoTrack
      /\ crossed' = PromotingBeside(desk'.live.card)
  BY DEF Transport
<1>2. PICK on \in BOOLEAN :
        LET h == [hall EXCEPT !.playing = on] IN Goes([hall |-> h, desk |-> Painted(desk, h)])
  BY DEF Transport
<1>. DEFINE g == Plays(hall, on)
            r == Painted(desk, g)
<1>3. hall' = g /\ desk' = r
  BY <1>2 DEF Goes, Plays
<1>4. Good(Known, g, r, card, excused, Beside(r.live.card, desk))
  BY <1>1, InvIs, PaintedGood
<1>. HIDE DEF g, r
<1>5. \A c : PromotingBeside(c) = Beside(c, desk) /\ Beside(c, desk) \in BOOLEAN
  BY DEF PromotingBeside, Beside, Chain, Loose
<1>6. crossed' = Beside(r.live.card, desk) /\ crossed' \in BOOLEAN
  BY <1>1, <1>3, <1>5
<1>. QED
  BY <1>1, <1>3, <1>4, <1>6, InvIs, StepKeeps DEF Recorded

(* ClearsQueue keeps the invariant.                                        *)
LEMMA ClearsQueueKeeps ==
    ASSUME CardsInv, ClearsQueue
    PROVE  CardsInv'
<1>1. /\ UNCHANGED <<asked, card, desk, excused, crossed>> /\ Moves
      /\ hall' = [hall EXCEPT !.queue = <<>>]
  BY DEF ClearsQueue
<1>2. /\ hall' \in HallType /\ hall'.cur = hall.cur /\ hall'.playing = hall.playing
      /\ hall'.queue = <<>>
  <2>1. <<>> \in Seq(TrackType) /\ hall \in HallType
    BY InvIs
  <2>. HIDE DEF TrackType
  <2>. QED
    BY <1>1, <2>1 DEF HallType
<1>3. Queued(hall') \subseteq Queued(hall) /\ Once(hall'.queue)
  BY <1>2 DEF Queued, ToSet, Once
<1>4. Good(Known, hall', desk, card, excused, crossed)
  BY <1>2, <1>3, InvIs, GoodQueue
<1>. QED
  BY <1>1, <1>4, InvIs, StepKeeps DEF Recorded

(* Ends keeps the invariant.                                               *)
LEMMA EndsKeeps ==
    ASSUME CardsInv, Ends
    PROVE  CardsInv'
<1>. DEFINE S == desk.ending \cup {desk.live.card}
<1>1. /\ UNCHANGED <<asked, card, crossed>> /\ Moves /\ hall' = Empty
      /\ desk' = [desk EXCEPT !.ending = S] /\ excused' = excused \cup Untold
  BY DEF Ends, Empty
<1>2. S \in SUBSET Places
  BY InvIs DEF DeskType
<1>3. Turned(desk', desk, desk.live, desk.shown, S)
  BY <1>1, <1>2, InvIs, EndingIs
<1>4. excused \cup ({hall.cur.card} \ {desk.live.card, NoCard}) \subseteq excused' /\ excused' \subseteq Cards
  BY <1>1, InvIs, UntoldIs DEF Recorded
<1>5. Good(Known, Empty, desk', card, excused', crossed)
  BY <1>3, <1>4, InvIs, EndsGood
<1>. QED
  BY <1>1, <1>4, <1>5, InvIs, StepKeeps DEF Recorded

(* Ended() keeps the invariant.                                            *)
LEMMA EndedKeeps ==
    ASSUME CardsInv, NEW c \in {NoCard} \cup Cards, Ended(c)
    PROVE  CardsInv'
<1>. DEFINE i == [desk EXCEPT !.ending = @ \ {c}]
            d == Stopped(i)
            e == Edit(c, Reads("ended"), "rest")
<1>1. /\ UNCHANGED <<asked, hall, card, crossed, moves>> /\ c \in desk.ending
      /\ desk' = IF c = NoCard THEN d ELSE Chained(d, c, e)
      /\ excused' = excused \cup ({desk.live.card} \ {c, NoCard})
  BY DEF Ended
<1>2. Turned(i, desk, desk.live, desk.shown, desk.ending \ {c})
  <2>1. desk.ending \ {c} \in SUBSET Places
    BY InvIs DEF DeskType
  <2>. QED
    BY <2>1, InvIs, EndingIs
<1>. HIDE DEF i
<1>3. Turned(d, desk, NobodysCard, NoCard, desk.ending \ {c})
  <2>1. Turned(d, i, NobodysCard, NoCard, i.ending)
    BY <1>2, StoppedIs DEF Turned
  <2>. HIDE DEF d
  <2>. QED
    BY <1>2, <2>1 DEF Turned, Parked
<1>. HIDE DEF d
<1>4. excused \cup ({desk.live.card} \ {c, NoCard}) \subseteq excused' /\ excused' \subseteq Cards
  <2>1. desk.live.card \in Places
    BY InvIs DEF DeskType
  <2>. QED
    BY <1>1, <2>1, InvIs DEF Recorded, Places
<1>5. Good(Known, hall, desk', card, excused', crossed)
  <2>1. /\ c = NoCard => Good(Known, hall, d, card, excused', crossed)
        /\ c # NoCard => \A f, r : Tells(f, c) /\ f \in EditType /\ IsChained(r, d, c, f)
                            => Good(Known, hall, r, card, excused', crossed)
    <3>. DEFINE x == crossed
                more == excused'
    <3>1. Good(Known, hall, desk, card, excused, x) /\ c \in desk.ending
      BY <1>1, InvIs
    <3>2. excused \cup ({desk.live.card} \ {c, NoCard}) \subseteq more
      BY <1>4
    <3>. HIDE DEF x, more
    <3>3. /\ c = NoCard => Good(Known, hall, d, card, more, x)
          /\ c # NoCard => /\ c \in Cards
                           /\ \A f, r : Tells(f, c) /\ f \in EditType /\ IsChained(r, d, c, f)
                                    => Good(Known, hall, r, card, more, x)
      BY <1>3, <3>1, <3>2, EndedGood
    <3>. QED
      BY <3>3 DEF x, more
  <2>2. CASE c = NoCard
    BY <1>1, <2>1, <2>2
  <2>3. CASE c # NoCard
    <3>1. e \in EditType /\ Tells(e, c)
      BY DEF Edit, Reads, Says, EditType, SaysType, Texts, Places, Tells
    <3>. HIDE DEF e
    <3>2. IsChained(Chained(d, c, e), d, c, e)
      BY <1>3, <2>3, <3>1, ChainedIs DEF Turned
    <3>. QED
      BY <1>1, <2>1, <2>3, <3>1, <3>2
  <2>. QED
    BY <2>2, <2>3
<1>. QED
  BY <1>1, <1>4, <1>5, InvIs, StepKeeps DEF Recorded

(* ShowsPlaying keeps the invariant.                                       *)
LEMMA ShowsPlayingKeeps ==
    ASSUME CardsInv, ShowsPlaying
    PROVE  CardsInv'
<1>. DEFINE t == PaintedTrack(desk, hall)
            e == Edit(NoCard, Says("now", t, hall.playing), "show")
<1>1. /\ UNCHANGED <<asked, hall, card, excused, crossed>> /\ Moves /\ hall.cur # NoTrack
      /\ desk' = Sending(desk, e)
  BY DEF ShowsPlaying, PaintedTrack
<1>2. t \in Known \ {0} /\ t \in Int
  BY <1>1, InvIs, PaintedIs
<1>. HIDE DEF t
<1>3. hall.playing \in BOOLEAN
  BY InvIs DEF HallType
<1>4. /\ e \in EditType /\ e.card = NoCard /\ e.says.text = "now" /\ e.says.track = t /\ e.then = "show"
  BY <1>2, <1>3 DEF Edit, Says, EditType, SaysType, Texts, Places
<1>. HIDE DEF e
<1>5. InSends(e, Known)
  BY <1>2, <1>4, InvIs DEF InSends, Fits
<1>6. Good(Known, hall, desk', card, excused, crossed)
  BY <1>1, <1>4, <1>5, InvIs, SendingIs, GoodSending
<1>. QED
  BY <1>1, <1>6, InvIs, StepKeeps DEF Recorded

-----------------------------------------------------------------------------
(* Buttons.                                                                *)

(* A message that goes keeps the promises.                                 *)
LEMMA GoodDeleted ==
    ASSUME NEW k, NEW h, NEW d, NEW cd, NEW ex, NEW x, Good(k, h, d, cd, ex, x),
           NEW c \in Cards, NEW ce, ce = [cd EXCEPT ![c] = Reads("deleted")]
    PROVE  Good(k, h, d, ce, ex, x)
<1>1. cd \in [Cards -> SaysType]
  BY DEF Good, Sound, CardOK
<1>2. Rewritten(ce, cd, c, d)
  BY <1>1, RewrittenIs
<1>. QED
  BY <1>2, GoodCard

(* So does a queued card that is forgotten.                                *)
LEMMA GoodForgotten ==
    ASSUME NEW k, NEW h, NEW d, NEW cd, NEW ex, NEW x, Good(k, h, d, cd, ex, x), NEW c \in Cards
    PROVE  Good(k, h, Forgotten(d, c), cd, ex, x)
<1>1. d \in DeskType
  BY DEF Good, Sound, DeskOK
<1>2. Turned(Forgotten(d, c), d, d.live, d.shown, d.ending)
  <2>1. 0 \in Int
    OBVIOUS
  <2>2. Turned([d EXCEPT !.offer[c] = 0], d, d.live, d.shown, d.ending)
    BY <1>1, <2>1, OfferIs
  <2>. QED
    BY <2>2 DEF Forgotten
<1>. QED
  BY <1>2, GoodOffer

(* StaleButton() keeps the invariant.                                      *)
LEMMA StaleButtonKeeps ==
    ASSUME CardsInv, NEW c \in Cards, StaleButton(c)
    PROVE  CardsInv'
<1>1. /\ UNCHANGED <<asked, hall, desk, excused, crossed>> /\ Moves
      /\ card' = [card EXCEPT ![c] = Reads("deleted")]
  BY DEF StaleButton, Shows
<1>2. Good(Known, hall, desk, card', excused, crossed)
  BY <1>1, InvIs, GoodDeleted
<1>. QED
  BY <1>1, <1>2, InvIs, StepKeeps DEF Recorded

(* The track that pq:play takes out of the queue, and the one in which it  *)
(* leaves the queue.                                                       *)
LEMMA QueuedInterrupts ==
    ASSUME CardsInv, NEW i \in DOMAIN hall.queue
    PROVE  LET u == hall.queue[i] IN
           /\ Interrupts(u, RemoveAt(hall.queue, i), Known, hall, desk, card)
           /\ u.id \in Requests \ excused /\ u.card = NoCard => ~Claims(u.id, desk, card)
<1>. DEFINE u == hall.queue[i]
            q == RemoveAt(hall.queue, i)
<1>1. /\ HallOK(hall, Known) /\ Linked(hall, desk) /\ hall.queue \in Seq(TrackType)
      /\ Moving(hall, desk, card, excused)
  BY InvIs DEF Sound, Good, HallType
<1>2. u \in TrackType /\ u \in Queued(hall) /\ u \in Tracks(hall)
  BY <1>1 DEF Queued, Tracks, ToSet
<1>3. Thinner(q, hall.queue, i)
  BY <1>1, RemoveThins
<1>. HIDE DEF q
<1>4. /\ q \in Seq(TrackType) /\ ToSet(q) \subseteq Queued(hall) /\ Once(q)
      /\ u.id \in Requests => \A t \in ToSet(q) : t.id # u.id
  BY <1>1, <1>3 DEF Thinner, HallOK, Queued
<1>. HIDE DEF u
<1>5. /\ u.id # 0 /\ TrackOK(u, Known) /\ \A t \in Tracks(hall) : u.id = t.id => u.card = t.card
      /\ u.id \in Requests => u.id # hall.cur.id
  BY <1>1, <1>2 DEF HallOK
<1>6. Taken(u.card, Known, card)
  BY <1>2, InvIs, SoundTaken
<1>7. \A c \in Cards : \A e \in Chain(desk, c) : e.then = "begin" /\ e.says.track = u.id => u.card = c
  BY <1>1, <1>2 DEF Linked
<1>8. u.id \in Requests \ excused /\ u.card = NoCard => ~Claims(u.id, desk, card)
  BY <1>1, <1>2 DEF Moving, Waits, IsQuiet
<1>9. Interrupts(u, q, Known, hall, desk, card)
  BY <1>2, <1>4, <1>5, <1>6, <1>7 DEF Interrupts
<1>. QED
  BY <1>8, <1>9 DEF u, q

(* PlayNow() keeps the invariant.                                          *)
LEMMA PlayNowKeeps ==
    ASSUME CardsInv, NEW c \in Cards, PlayNow(c)
    PROVE  CardsInv'
<1>. DEFINE t == desk.offer[c]
<1>1. /\ UNCHANGED <<asked, excused, crossed>> /\ Moves
      /\ IF t # 0 /\ InQueue(t) # {}
         THEN /\ \E i \in InQueue(t) :
                  LET pl == Interrupt(Place, hall.queue[i], RemoveAt(hall.queue, i))
                  IN  Goes([pl EXCEPT !.desk = Forgotten(@, c)])
              /\ UNCHANGED card
         ELSE /\ desk' = Forgotten(desk, c)
              /\ card' = [card EXCEPT ![c] = Reads("deleted")]
              /\ UNCHANGED hall
  BY DEF PlayNow, Shows
<1>2. CASE t # 0 /\ InQueue(t) # {}
  <2>1. PICK i \in InQueue(t) :
            LET pl == Interrupt(Place, hall.queue[i], RemoveAt(hall.queue, i))
            IN  Goes([pl EXCEPT !.desk = Forgotten(@, c)])
    BY <1>1, <1>2
  <2>. DEFINE pl == Interrupt(Place, hall.queue[i], RemoveAt(hall.queue, i))
  <2>2. i \in DOMAIN hall.queue
    BY DEF InQueue
  <2>3. pl = [hall |-> pl.hall, desk |-> pl.desk]
    BY DEF Interrupt
  <2>4. Good(Known, pl.hall, pl.desk, card, excused, crossed)
    BY <2>2, InvIs, QueuedInterrupts, InterruptGood
  <2>5. Goes([pl EXCEPT !.desk = Forgotten(@, c)])
    BY <2>1
  <2>. HIDE DEF pl
  <2>6. hall' = pl.hall /\ desk' = Forgotten(pl.desk, c)
    BY <2>3, <2>5 DEF Goes
  <2>7. Good(Known, hall', desk', card', excused', crossed')
    BY <1>1, <1>2, <2>4, <2>6, GoodForgotten
  <2>. QED
    BY <1>1, <2>7, InvIs, StepKeeps DEF Recorded
<1>3. CASE ~(t # 0 /\ InQueue(t) # {})
  <2>1. /\ desk' = Forgotten(desk, c) /\ card' = [card EXCEPT ![c] = Reads("deleted")]
        /\ UNCHANGED hall
    BY <1>1, <1>3
  <2>2. Good(Known, hall, desk', card, excused, crossed)
    BY <2>1, InvIs, GoodForgotten
  <2>3. Good(Known, hall, desk', card', excused, crossed)
    BY <2>1, <2>2, GoodDeleted
  <2>. QED
    BY <1>1, <2>1, <2>3, InvIs, StepKeeps DEF Recorded
<1>. QED
  BY <1>2, <1>3

(* DeleteQueued() keeps the invariant.                                     *)
LEMMA DeleteQueuedKeeps ==
    ASSUME CardsInv, NEW c \in Cards, DeleteQueued(c)
    PROVE  CardsInv'
<1>1. /\ UNCHANGED <<asked, excused, crossed>> /\ Moves
      /\ desk' = Forgotten(desk, c) /\ card' = [card EXCEPT ![c] = Reads("deleted")]
  BY DEF DeleteQueued, Shows
<1>2. PICK queue \in Without(desk.offer[c]) : hall' = [hall EXCEPT !.queue = queue]
  BY DEF DeleteQueued
<1>3. HallOK(hall, Known) /\ hall.queue \in Seq(TrackType) /\ Once(hall.queue)
  BY InvIs DEF Sound, HallOK, HallType
<1>4. queue \in Seq(TrackType) /\ ToSet(queue) \subseteq Queued(hall) /\ Once(queue)
  <2>1. CASE queue = hall.queue
    BY <1>3, <2>1 DEF Queued
  <2>2. CASE queue # hall.queue
    <3>1. PICK i \in DOMAIN hall.queue : queue = RemoveAt(hall.queue, i)
      BY <2>2 DEF Without, InQueue
    <3>2. Thinner(queue, hall.queue, i)
      BY <1>3, <3>1, RemoveThins
    <3>. QED
      BY <1>3, <3>2 DEF Thinner, Queued
  <2>. QED
    BY <2>1, <2>2
<1>5. /\ hall' \in HallType /\ hall'.cur = hall.cur /\ hall'.playing = hall.playing
      /\ hall'.queue = queue
  <2>. HIDE DEF TrackType
  <2>. QED
    BY <1>2, <1>4, InvIs DEF HallType
<1>6. Queued(hall') \subseteq Queued(hall) /\ Once(hall'.queue)
  BY <1>4, <1>5 DEF Queued
<1>7. Good(Known, hall', desk, card, excused, crossed)
  BY <1>5, <1>6, InvIs, GoodQueue
<1>8. Good(Known, hall', desk', card, excused, crossed)
  BY <1>1, <1>7, GoodForgotten
<1>9. Good(Known, hall', desk', card', excused, crossed)
  BY <1>1, <1>8, GoodDeleted
<1>. QED
  BY <1>1, <1>9, InvIs, StepKeeps DEF Recorded

-----------------------------------------------------------------------------
(* What Telegram does.                                                     *)

(* Whose place a message that came late takes.                             *)
LEMMA StraysIs ==
    ASSUME CardsInv, NEW e, NEW c \in Cards
    PROVE  /\ Strays(e, c) \subseteq Cards
           /\ Late(e) => c \in Strays(e, c)
           /\ e.then = "begin" /\ desk.live.card \in Cards
                /\ (Late(e) \/ (desk.live.track = e.says.track /\ desk.live.card # c))
                => desk.live.card \in Strays(e, c)
  BY DEF Strays

(* A message that becomes the live one.                                    *)
LEMMA BegunIs ==
    ASSUME NEW d \in DeskType, NEW c \in Cards, NEW t \in Int
    PROVE  Turned(Begun(d, c, t), d, [card |-> c, track |-> t], d.shown, d.ending)
<1>1. [card |-> c, track |-> t] \in LiveType
  BY DEF LiveType, Places
<1>. QED
  BY <1>1, LiveIs DEF Begun

(* What may be excepted of the button is, however it grows.                *)
LEMMA GoodCrossed ==
    ASSUME NEW k, NEW h, NEW d, NEW cd, NEW ex, NEW x, Good(k, h, d, cd, ex, x), NEW y, x => y
    PROVE  Good(k, h, d, cd, ex, y)
  BY DEF Good

(* ChainMoves() keeps the invariant: the first edit of a message is done   *)
(* or refused.                                                             *)
LEMMA ChainMovesKeeps ==
    ASSUME CardsInv, NEW c \in Cards, ChainMoves(c)
    PROVE  CardsInv'
<1>. DEFINE e == desk.chain[c][1]
            rest == [desk EXCEPT !.chain[c] = RemoveAt(@, 1)]
            told == excused \cup (Strays(e, c) \ IF rest.chain[c] = <<>> THEN {} ELSE {c})
            Up == /\ IsUp(c) /\ card' = [card EXCEPT ![c] = e.says]
                  /\ desk' = IF e.then = "begin" THEN Begun(rest, c, e.says.track) ELSE rest
                  /\ excused' = told
                  /\ UNCHANGED <<crossed, moves>>
            No == /\ Refused(IsUp(c))
                  /\ desk' = IF e.then = "begin"
                             THEN Sending(rest, Edit(NoCard, e.says, "begin")) ELSE rest
                  /\ excused' = excused \cup Spared(c)
                  /\ crossed' = (crossed \/ (e.then = "begin" /\ rest.chain[c] # <<>>))
                  /\ UNCHANGED card
<1>1. UNCHANGED <<asked, hall>> /\ desk.chain[c] # <<>> /\ (Up \/ No)
  <2>1. PICK i \in InTurn(desk.chain[c]) : TRUE
    BY DEF ChainMoves
  <2>2. desk.chain[c] # <<>> /\ InTurn(desk.chain[c]) = {1}
    BY <2>1 DEF InTurn
  <2>. QED
    BY <2>2 DEF ChainMoves, Shows
<1>2. FirstDone(rest, desk, c)
  BY <1>1, InvIs, FirstDoneIs
<1>. HIDE DEF rest
<1>3. rest \in DeskType /\ InChain(e, c, Known) /\ Fits(e, c, Known) /\ e \in EditType /\ e.says \in SaysType
      /\ e.says.track \in Int
  <2>1. e \in Chain(desk, c) /\ rest \in DeskType
    BY <1>2 DEF FirstDone
  <2>2. InChain(e, c, Known)
    BY <2>1, InvIs DEF Sound, DeskOK
  <2>. HIDE DEF e
  <2>. QED
    BY <2>1, <2>2 DEF InChain, Fits, EditType, SaysType
<1>4. e = desk.chain[c][1] /\ desk.chain[c] # <<>>
  BY <1>1
<1>5. ASSUME Up PROVE CardsInv'
  <2>1. /\ IsUp(c) /\ card' = [card EXCEPT ![c] = e.says] /\ excused' = told /\ UNCHANGED <<crossed, moves>>
        /\ desk' = IF e.then = "begin" THEN Begun(rest, c, e.says.track) ELSE rest
    BY <1>5
  <2>. HIDE DEF e
  <2>2. Lives(desk', rest, e, c)
    <3>1. CASE e.then = "begin"
      BY <1>3, <2>1, <3>1, BegunIs DEF Lives
    <3>2. CASE e.then # "begin"
      BY <1>3, <2>1, <3>2 DEF Lives, Turned, Parked
    <3>. QED
      BY <3>1, <3>2
  <2>3. excused \subseteq excused' /\ excused' \subseteq Cards
    BY <2>1, InvIs, StraysIs DEF Recorded
  <2>4. e.says.text = "now" /\ e.says.track # hall.cur.id /\ rest.chain[c] = <<>> => c \in excused'
    BY <2>1, StraysIs DEF Late
  <2>5. e.then = "begin" /\ e.says.track # hall.cur.id /\ desk.live.card \in Cards \ {c}
            => desk.live.card \in excused'
    <3>1. e.then = "begin" => e.says.text = "now"
      BY <1>3 DEF Fits
    <3>. QED
      BY <2>1, <3>1, StraysIs DEF Late
  <2>6. card[c].text \notin {"none", "deleted"}
    BY <2>1 DEF IsUp
  <2>7. Good(Known, hall, desk', card', excused', crossed)
    <3>. DEFINE r == desk'
                ce == card'
                more == excused'
    <3>1. Lives(r, rest, e, c) /\ ce = [card EXCEPT ![c] = e.says] /\ excused \subseteq more
      BY <2>1, <2>2, <2>3
    <3>2. /\ e.says.text = "now" /\ e.says.track # hall.cur.id /\ rest.chain[c] = <<>> => c \in more
          /\ e.then = "begin" /\ e.says.track # hall.cur.id /\ desk.live.card \in Cards \ {c}
                => desk.live.card \in more
      BY <2>4, <2>5
    <3>. HIDE DEF r, ce, more
    <3>3. Good(Known, hall, r, ce, more, crossed)
      <4>1. Good(Known, hall, desk, card, excused, crossed)
        BY InvIs
      <4>2. FirstDone(rest, desk, c) /\ card[c].text \notin {"none", "deleted"} /\ Heads(e, desk, c)
        BY <1>2, <1>4, <2>6 DEF Heads
      <4>. QED
        BY <3>1, <3>2, <4>1, <4>2, ChainArrives
    <3>. QED
      BY <3>3 DEF r, ce, more
  <2>. QED
    BY <1>1, <2>1, <2>3, <2>7, InvIs, StepKeeps DEF Recorded
<1>6. ASSUME No PROVE CardsInv'
  <2>1. /\ Refused(IsUp(c)) /\ excused' = excused \cup Spared(c) /\ UNCHANGED card
        /\ desk' = IF e.then = "begin" THEN Sending(rest, Edit(NoCard, e.says, "begin")) ELSE rest
        /\ crossed' = (crossed \/ (e.then = "begin" /\ rest.chain[c] # <<>>))
    BY <1>6
  <2>. HIDE DEF e
  <2>2. /\ excused \subseteq excused' /\ excused' \subseteq Cards
        /\ card[c].text = "now" => c \in excused'
    BY <2>1, InvIs DEF Spared, Recorded
  <2>3. Good(Known, hall, rest, card, excused', crossed)
    BY <1>1, <1>2, <2>2, InvIs, ChainRefused
  <2>4. Good(Known, hall, desk', card, excused', crossed)
    <3>1. CASE e.then = "begin"
      <4>. DEFINE f == Edit(NoCard, e.says, "begin")
      <4>1. f \in EditType /\ f.card = NoCard /\ f.says = e.says /\ f.then = "begin"
        BY <1>3 DEF Edit, EditType, Places
      <4>. HIDE DEF f
      <4>2. InSends(f, Known)
        BY <1>3, <3>1, <4>1, InvIs DEF InSends, Fits
      <4>3. IsSending(Sending(rest, f), rest, f)
        BY <1>3, <4>1, SendingIs
      <4>4. desk' = Sending(rest, f)
        BY <2>1, <3>1 DEF f
      <4>. QED
        BY <2>3, <4>2, <4>3, <4>4, GoodSending
    <3>2. CASE e.then # "begin"
      BY <2>1, <2>3, <3>2
    <3>. QED
      BY <3>1, <3>2
  <2>5. crossed' \in BOOLEAN /\ (crossed => crossed')
    BY <2>1, InvIs DEF Recorded
  <2>6. Good(Known, hall, desk', card, excused', crossed')
    BY <2>4, <2>5, GoodCrossed
  <2>7. Moves \/ UNCHANGED moves
    BY <2>1 DEF Refused
  <2>. QED
    BY <1>1, <2>1, <2>2, <2>5, <2>6, <2>7, StepKeeps
<1>. QED
  BY <1>1, <1>5, <1>6

(* LooseMoves() keeps the invariant: an edit outside of the chains is done *)
(* or refused.                                                             *)
LEMMA LooseMovesKeeps ==
    ASSUME CardsInv, NEW e \in BagToSet(desk.loose), LooseMoves(e)
    PROVE  CardsInv'
<1>. DEFINE rest == [desk EXCEPT !.loose = @ (-) SetToBag({e})]
            c == e.card
<1>1. /\ UNCHANGED <<asked, hall, crossed>>
      /\ \/ /\ IsUp(c) /\ card' = [card EXCEPT ![c] = e.says] /\ UNCHANGED moves
            /\ excused' = excused \cup Strays(e, c)
         \/ /\ Refused(IsUp(c)) /\ UNCHANGED card
            /\ excused' = excused \cup Spared(c) \cup Strays(e, c)
      /\ desk' = CASE e.then = "begin" -> Begun(rest, c, e.says.track)
                   [] e.then = "remember" -> [rest EXCEPT !.offer[c] = c]
                   [] OTHER -> rest
  BY DEF LooseMoves, Shows
<1>2. e \in Loose(desk) /\ InLoose(e, Known) /\ Fits(e, c, Known) /\ e \in EditType /\ c \in Cards
  <2>1. e \in Loose(desk)
    BY DEF Loose
  <2>2. InLoose(e, Known)
    BY <2>1, InvIs DEF Sound, DeskOK
  <2>. QED
    BY <2>1, <2>2 DEF InLoose, Fits, EditType, Places
<1>3. LooseDone(rest, desk, e)
  BY <1>2, InvIs, LooseDoneIs
<1>. HIDE DEF rest
<1>4. rest \in DeskType /\ e.says.track \in Int /\ c \in Int
  BY <1>2, <1>3, InvIs DEF LooseDone, EditType, SaysType
<1>5. Lives(desk', rest, e, c)
  <2>1. CASE e.then = "begin"
    <3>1. desk' = Begun(rest, c, e.says.track)
      BY <1>1, <2>1
    <3>. QED
      BY <1>2, <1>4, <2>1, <3>1, BegunIs DEF Lives
  <2>2. CASE e.then = "remember"
    <3>1. desk' = [rest EXCEPT !.offer[c] = c]
      BY <1>1, <2>2
    <3>2. Turned([rest EXCEPT !.offer[c] = c], rest, rest.live, rest.shown, rest.ending)
      BY <1>2, <1>4, OfferIs
    <3>. QED
      BY <2>2, <3>1, <3>2 DEF Lives
  <2>3. CASE e.then \notin {"begin", "remember"}
    <3>1. desk' = rest
      BY <1>1, <2>3
    <3>. QED
      BY <1>4, <2>3, <3>1 DEF Lives, Turned, Parked
  <2>. QED
    BY <2>1, <2>2, <2>3
<1>6. excused \subseteq excused' /\ excused' \subseteq Cards /\ Strays(e, c) \subseteq excused'
  <2>1. Strays(e, c) \subseteq Cards /\ Spared(c) \subseteq Cards
    BY <1>2, StraysIs DEF Spared
  <2>. QED
    BY <1>1, <2>1, InvIs DEF Recorded
<1>7. \/ card[c].text \notin {"none", "deleted"} /\ card' = [card EXCEPT ![c] = e.says]
      \/ card' = card /\ (card[c].text = "now" => c \in excused')
  BY <1>1 DEF IsUp, Spared
<1>8. e.says.text = "now" /\ e.says.track # hall.cur.id =>
            c \in excused' /\ (e.then = "begin" /\ desk.live.card \in Cards => desk.live.card \in excused')
  BY <1>2, <1>6, StraysIs DEF Late
<1>9. Good(Known, hall, desk', card', excused', crossed)
  <2>. DEFINE r == desk'
              ce == card'
              more == excused'
  <2>1. Lives(r, rest, e, e.card) /\ excused \subseteq more
    BY <1>5, <1>6
  <2>2. /\ \/ card[c].text \notin {"none", "deleted"} /\ ce = [card EXCEPT ![c] = e.says]
           \/ ce = card /\ (card[c].text = "now" => c \in more)
        /\ e.says.text = "now" /\ e.says.track # hall.cur.id =>
            c \in more /\ (e.then = "begin" /\ desk.live.card \in Cards => desk.live.card \in more)
    BY <1>7, <1>8
  <2>. HIDE DEF r, ce, more
  <2>3. Good(Known, hall, r, ce, more, crossed)
    BY <1>2, <1>3, <2>1, <2>2, InvIs, LooseArrives
  <2>. QED
    BY <2>3 DEF r, ce, more
<1>10. Moves \/ UNCHANGED moves
  BY <1>1 DEF Refused
<1>. QED
  BY <1>1, <1>6, <1>9, <1>10, InvIs, StepKeeps DEF Recorded

(* SendMoves() keeps the invariant: a message is up or is refused.         *)
LEMMA SendMovesKeeps ==
    ASSUME CardsInv, NEW e \in BagToSet(desk.sends), SendMoves(e)
    PROVE  CardsInv'
<1>. DEFINE rest == [desk EXCEPT !.sends = @ (-) SetToBag({e})]
            free == {c \in Cards \ Requests : card[c] = Blank}
            stale == IF e.then = "begin" THEN {} ELSE {desk.shown, desk.live.card} \ {NoCard}
            Up(c) == /\ card' = [d \in Cards |-> IF d = c THEN e.says
                                                 ELSE IF d \in stale THEN Reads("deleted") ELSE card[d]]
                     /\ desk' = Begun([rest EXCEPT !.shown = IF e.then = "begin" THEN @ ELSE c],
                                      c, e.says.track)
                     /\ excused' = excused \cup Strays(e, c) \cup IF e.says.on = hall.playing THEN {} ELSE {c}
                     /\ UNCHANGED moves
<1>1. /\ UNCHANGED <<asked, hall, crossed>>
      /\ \/ \E c \in free : Up(c)
         \/ Refused(free # {}) /\ desk' = rest /\ UNCHANGED <<card, excused>>
  BY DEF SendMoves
<1>2. e \in Sends(desk) /\ InSends(e, Known) /\ e \in EditType /\ e.says \in SaysType /\ e.says.track \in Int
      /\ e.says.text = "now"
  <2>1. e \in Sends(desk)
    BY DEF Sends
  <2>2. InSends(e, Known)
    BY <2>1, InvIs DEF Sound, DeskOK
  <2>. QED
    BY <2>1, <2>2 DEF InSends, Fits, EditType, SaysType
<1>3. SendDone(rest, desk)
  BY <1>2, InvIs, SendDoneIs
<1>. HIDE DEF rest
<1>4. rest \in DeskType /\ rest.shown = desk.shown /\ rest.live = desk.live /\ rest.ending = desk.ending
  BY <1>3 DEF SendDone, Sits
<1>5. ASSUME NEW c \in free, Up(c) PROVE CardsInv'
  <2>. DEFINE s == IF e.then = "begin" THEN desk.shown ELSE c
              i == [rest EXCEPT !.shown = s]
  <2>1. /\ card' = [d \in Cards |-> IF d = c THEN e.says
                                    ELSE IF d \in stale THEN Reads("deleted") ELSE card[d]]
        /\ desk' = Begun(i, c, e.says.track)
        /\ excused' = excused \cup Strays(e, c) \cup IF e.says.on = hall.playing THEN {} ELSE {c}
        /\ UNCHANGED moves
    BY <1>4, <1>5
  <2>2. c \in Cards \ Requests /\ card[c] = Blank /\ desk.live.card # c /\ s \in {desk.shown, c} /\ s \in Places
    <3>1. c \in Cards \ Requests /\ card[c] = Blank /\ Free(c, Known, card)
      BY DEF Free
    <3>. QED
      BY <3>1, InvIs DEF Sound, Unseen, DeskType, Places
  <2>3. Turned(desk', rest, [card |-> c, track |-> e.says.track], s, desk.ending)
    <3>1. Turned(i, rest, rest.live, s, rest.ending)
      BY <1>4, <2>2, ShownIs
    <3>. HIDE DEF i
    <3>2. i \in DeskType /\ c \in Cards
      BY <2>2, <3>1 DEF Turned
    <3>3. Turned(desk', i, [card |-> c, track |-> e.says.track], i.shown, i.ending)
      BY <1>2, <2>1, <3>2, BegunIs
    <3>. QED
      BY <1>4, <3>1, <3>3 DEF Turned, Parked
  <2>4. /\ card' \in [Cards -> SaysType] /\ card'[c] = e.says
        /\ \A q \in Cards \ {c} : IF e.then # "begin" /\ q \in {desk.shown, desk.live.card}
                                  THEN card'[q] = Reads("deleted") ELSE card'[q] = card[q]
    <3>1. Reads("deleted") \in SaysType
      BY DEF Reads, Says, SaysType, Texts
    <3>2. \A q \in Cards : q \in stale <=> e.then # "begin" /\ q \in {desk.shown, desk.live.card}
      BY InvIs
    <3>. HIDE DEF stale
    <3>3. card' \in [Cards -> SaysType] /\ card'[c] = e.says
      BY <1>2, <2>1, <2>2, <3>1, InvIs
    <3>. QED
      BY <2>1, <3>2, <3>3
  <2>5. /\ excused \subseteq excused' /\ excused' \subseteq Cards /\ Strays(e, c) \subseteq excused'
        /\ e.says.on = hall.playing \/ c \in excused'
    <3>1. Strays(e, c) \subseteq Cards
      BY <2>2, StraysIs
    <3>. QED
      BY <2>1, <2>2, <3>1, InvIs DEF Recorded
  <2>6. e.then = "begin" /\ desk.live.card \in Cards
            /\ (e.says.track # hall.cur.id \/ desk.live.track = e.says.track)
                => desk.live.card \in excused'
    BY <1>2, <2>2, <2>5, StraysIs DEF Late
  <2>7. Good(Known, hall, desk', card', excused', crossed)
    <3>. DEFINE r == desk'
                ce == card'
                more == excused'
    <3>1. /\ Turned(r, rest, [card |-> c, track |-> e.says.track], s, desk.ending)
          /\ ce \in [Cards -> SaysType] /\ ce[c] = e.says
          /\ \A q \in Cards \ {c} : IF e.then # "begin" /\ q \in {desk.shown, desk.live.card}
                                    THEN ce[q] = Reads("deleted") ELSE ce[q] = card[q]
          /\ excused \subseteq more /\ (e.says.on = hall.playing \/ c \in more)
      BY <2>3, <2>4, <2>5
    <3>2. e.then = "begin" /\ desk.live.card \in Cards
              /\ (e.says.track # hall.cur.id \/ desk.live.track = e.says.track)
                => desk.live.card \in more
      BY <2>6
    <3>. HIDE DEF r, ce, more, s
    <3>3. Good(Known, hall, r, ce, more, crossed)
      BY <1>2, <1>3, <2>2, <3>1, <3>2, InvIs, SendArrives
    <3>. QED
      BY <3>3 DEF r, ce, more
  <2>. QED
    BY <1>1, <2>1, <2>5, <2>7, InvIs, StepKeeps DEF Recorded
<1>6. ASSUME Refused(free # {}), desk' = rest, UNCHANGED <<card, excused>> PROVE CardsInv'
  <2>1. Good(Known, hall, rest, card, excused, crossed)
    BY <1>3, InvIs, GoodSend
  <2>2. Moves \/ UNCHANGED moves
    BY <1>6 DEF Refused
  <2>. QED
    BY <1>1, <1>6, <2>1, <2>2, InvIs, StepKeeps DEF Recorded
<1>. QED
  BY <1>1, <1>5, <1>6

-----------------------------------------------------------------------------
(* The theorems.                                                           *)

(* Every step keeps what holds of the room, the desk and the messages.     *)
LEMMA CardsStep == CardsInv /\ CallsOK /\ [CardsNext]_cardVars => CardsInv'
<1>. SUFFICES ASSUME CardsInv, CallsOK, [CardsNext]_cardVars PROVE CardsInv'
  OBVIOUS
<1>1. ASSUME NEW r \in Requests,
             AsksFor(r) \/ Plans(r) \/ Cancels(r) \/ Fails(r) \/ \E force \in BOOLEAN : Enqueues(r, force)
      PROVE  CardsInv'
  BY <1>1, AsksForKeeps, PlansKeeps, CancelsKeeps, FailsKeeps, EnqueuesKeeps
<1>2. ASSUME Autoplays \/ TrackEnds \/ SkipCommand \/ SkipButton \/ SkipOnTheWeb \/ Transport
      PROVE  CardsInv'
  BY <1>2, AutoplaysKeeps, TrackEndsKeeps, SkipCommandKeeps, SkipButtonKeeps, SkipOnTheWebKeeps,
     TransportKeeps
<1>3. ASSUME ClearsQueue \/ Ends \/ ShowsPlaying \/ Prefetched
      PROVE  CardsInv'
  BY <1>3, ClearsQueueKeeps, EndsKeeps, ShowsPlayingKeeps, PrefetchedKeeps
<1>4. ASSUME NEW w \in advances, Downloaded(w) \/ NotDownloaded(w) PROVE CardsInv'
  BY <1>4, DownloadedKeeps, NotDownloadedKeeps
<1>5. ASSUME NEW c \in Cards, ChainMoves(c) \/ StaleButton(c) \/ PlayNow(c) \/ DeleteQueued(c)
      PROVE  CardsInv'
  BY <1>5, ChainMovesKeeps, StaleButtonKeeps, PlayNowKeeps, DeleteQueuedKeeps
<1>6. ASSUME NEW c \in {NoCard} \cup Cards, Ended(c) PROVE CardsInv'
  BY <1>6, EndedKeeps
<1>7. ASSUME NEW e \in Loose(desk), LooseMoves(e) PROVE CardsInv'
  BY <1>7, LooseMovesKeeps DEF Loose
<1>8. ASSUME NEW e \in BagToSet(desk.sends), SendMoves(e) PROVE CardsInv'
  BY <1>8, SendMovesKeeps
<1>9. CASE UNCHANGED cardVars
  BY <1>9 DEF cardVars, CardsInv, Recorded, Known
<1>. QED
  BY <1>1, <1>2, <1>3, <1>4, <1>5, <1>6, <1>7, <1>8, <1>9 DEF CardsNext

\* No track is forgotten, and no message that there is or was.
Onward == Known \subseteq Known' /\ \A c \in Cards : card[c] # Blank => card'[c] # Blank

(* A message that is shown something is not as if it were none.            *)
LEMMA ShownIsUp ==
    ASSUME CardsInv, NEW c \in Cards, NEW says, says.text # "none", card' = [card EXCEPT ![c] = says]
    PROVE  \A d \in Cards : card[d] # Blank => card'[d] # Blank
<1>1. Blank.text = "none"
  BY DEF Blank, Reads, Says
<1>2. card'[c] = says /\ \A d \in Cards \ {c} : card'[d] = card[d]
  BY InvIs
<1>. QED
  BY <1>1, <1>2

(* What is under way to messages says something.                           *)
LEMMA EditsSay ==
    ASSUME CardsInv
    PROVE  /\ \A c \in Cards : \A i \in DOMAIN desk.chain[c] : desk.chain[c][i].says.text # "none"
           /\ \A e \in Loose(desk) \cup Sends(desk) : e.says.text # "none"
<1>1. DeskOK(desk, Known)
  BY InvIs DEF Sound
<1>. QED
  BY <1>1 DEF DeskOK, InChain, InLoose, InSends, Fits, Chain, ToSet

(* So it goes.                                                             *)
LEMMA GoesOnward == CardsInv /\ [CardsNext]_cardVars => Onward
<1>. SUFFICES ASSUME CardsInv, [CardsNext]_cardVars PROVE Onward
  OBVIOUS
<1>. DEFINE kept == \A c \in Cards : card[c] # Blank => card'[c] # Blank
<1>. HIDE DEF kept
<1>1. \A t \in {"deleted", "preparing"} : Reads(t).text # "none"
  BY DEF Reads, Says
<1>2. ASSUME UNCHANGED card PROVE kept
  BY <1>2 DEF kept
<1>3. ASSUME NEW c \in Cards, NEW t \in {"deleted", "preparing"}, card' = [card EXCEPT ![c] = Reads(t)]
      PROVE  kept
  <2>1. Reads(t).text # "none"
    BY <1>1
  <2>. HIDE DEF CardsInv
  <2>. DEFINE says == Reads(t)
  <2>2. says.text # "none" /\ card' = [card EXCEPT ![c] = says]
    BY <1>3, <2>1
  <2>. HIDE DEF says
  <2>. QED
    BY <2>2, ShownIsUp DEF kept
<1>4. ASSUME NEW r \in Requests,
             AsksFor(r) \/ Plans(r) \/ Cancels(r) \/ Fails(r) \/ \E force \in BOOLEAN : Enqueues(r, force)
      PROVE  Onward
  <2>1. r \in Cards /\ asked \in [Requests -> AskedType]
    BY InvIs DEF Recorded
  <2>2. kept
    <3>1. \/ UNCHANGED card
          \/ \E t \in {"deleted", "preparing"} : card' = [card EXCEPT ![r] = Reads(t)]
      BY <1>4 DEF AsksFor, Plans, Cancels, Fails, Enqueues
    <3>. QED
      BY <1>2, <1>3, <2>1, <3>1
  <2>3. UNCHANGED moves /\ asked[r].pc # "over" /\ \A q \in Requests \ {r} : asked'[q] = asked[q]
    <3>1. CASE AsksFor(r)
      BY <2>1, <3>1 DEF AsksFor
    <3>2. CASE Plans(r)
      BY <2>1, <3>2 DEF Plans
    <3>3. CASE Cancels(r)
      BY <2>1, <3>3 DEF Cancels, UnderWay
    <3>4. CASE Fails(r)
      BY <2>1, <3>4 DEF Fails, UnderWay
    <3>5. ASSUME NEW force \in BOOLEAN, Enqueues(r, force)
          PROVE  /\ UNCHANGED moves /\ asked[r].pc # "over"
                 /\ \A q \in Requests \ {r} : asked'[q] = asked[q]
      BY <2>1, <3>5 DEF Enqueues
    <3>. QED
      BY <1>4, <3>1, <3>2, <3>3, <3>4, <3>5
  <2>. QED
    BY <2>2, <2>3 DEF Onward, Known, kept
<1>5. ASSUME UNCHANGED asked, Moves \/ UNCHANGED moves, kept PROVE Onward
  BY <1>5, MovesIs DEF Onward, kept
<1>6. ASSUME TrackEnds \/ SkipCommand \/ SkipButton \/ SkipOnTheWeb \/ Transport
             \/ ClearsQueue \/ Ends \/ ShowsPlaying \/ Prefetched
      PROVE  Onward
  BY <1>2, <1>5, <1>6 DEF TrackEnds, SkipCommand, SkipButton, SkipOnTheWeb, Transport, ClearsQueue, Ends,
     ShowsPlaying, Prefetched
<1>7. ASSUME NEW w \in advances, Downloaded(w) \/ NotDownloaded(w) PROVE Onward
  BY <1>2, <1>5, <1>7 DEF Downloaded, NotDownloaded
<1>8. ASSUME Autoplays PROVE Onward
  <2>1. kept
    BY <1>2, <1>3, <1>8 DEF Autoplays
  <2>. QED
    BY <1>5, <1>8, <2>1 DEF Autoplays
<1>9. ASSUME NEW c \in Cards, StaleButton(c) \/ PlayNow(c) \/ DeleteQueued(c) PROVE Onward
  <2>1. kept
    BY <1>2, <1>3, <1>9 DEF StaleButton, PlayNow, DeleteQueued, Shows
  <2>. QED
    BY <1>5, <1>9, <2>1 DEF StaleButton, PlayNow, DeleteQueued
<1>10. ASSUME NEW c \in {NoCard} \cup Cards, Ended(c) PROVE Onward
  BY <1>2, <1>5, <1>10 DEF Ended
<1>11. ASSUME NEW c \in Cards, ChainMoves(c) PROVE Onward
  <2>1. PICK i \in InTurn(desk.chain[c]) :
            Shows(c, desk.chain[c][i].says) \/ UNCHANGED card
    BY <1>11 DEF ChainMoves
  <2>2. i \in DOMAIN desk.chain[c]
    <3>1. desk.chain[c] \in Seq(EditType) /\ desk.chain[c] # <<>> /\ i = 1
      BY <2>1, InvIs DEF InTurn, DeskType
    <3>. QED
      BY <3>1
  <2>3. kept
    BY <1>2, <2>1, <2>2, EditsSay, ShownIsUp DEF Shows, kept
  <2>4. UNCHANGED asked /\ (Moves \/ UNCHANGED moves)
    BY <1>11 DEF ChainMoves, Refused
  <2>. QED
    BY <1>5, <2>3, <2>4
<1>12. ASSUME NEW e \in Loose(desk), LooseMoves(e) PROVE Onward
  <2>1. e.card \in Cards
    BY InvIs, LooseCards
  <2>2. kept
    BY <1>2, <1>12, <2>1, EditsSay, ShownIsUp DEF LooseMoves, Shows, kept
  <2>3. UNCHANGED asked /\ (Moves \/ UNCHANGED moves)
    BY <1>12 DEF LooseMoves, Refused
  <2>. QED
    BY <1>5, <2>2, <2>3
<1>13. ASSUME NEW e \in BagToSet(desk.sends), SendMoves(e) PROVE Onward
  <2>. DEFINE Put(c, S) == [d \in Cards |-> IF d = c THEN e.says
                                            ELSE IF d \in S THEN Reads("deleted") ELSE card[d]]
              free == {c \in Cards \ Requests : card[c] = Blank}
              stale == IF e.then = "begin" THEN {} ELSE {desk.shown, desk.live.card} \ {NoCard}
  <2>1. /\ UNCHANGED asked
        /\ \/ UNCHANGED moves /\ \E c \in free : card' = Put(c, stale)
           \/ Refused(free # {}) /\ UNCHANGED card
    BY <1>13 DEF SendMoves
  <2>. HIDE DEF free, stale
  <2>2. e.says.text # "none" /\ Reads("deleted").text # "none" /\ Blank.text = "none"
    BY <1>1, EditsSay DEF Sends, Blank, Reads, Says
  <2>3. ASSUME NEW c \in free, card' = Put(c, stale) PROVE kept
    BY <2>2, <2>3 DEF kept
  <2>. HIDE DEF Put
  <2>4. kept
    BY <1>2, <2>1, <2>3
  <2>5. Moves \/ UNCHANGED moves
    BY <2>1 DEF Refused
  <2>. QED
    BY <1>5, <2>1, <2>4, <2>5
<1>14. CASE UNCHANGED cardVars
  BY <1>14 DEF cardVars, Onward, Known
<1>. QED
  BY <1>4, <1>6, <1>7, <1>8, <1>9, <1>10, <1>11, <1>12, <1>13, <1>14 DEF CardsNext

(* The calls that wait are sound, whatever happens meanwhile: what they    *)
(* will tell is there, and what comes is known and has no card.            *)
LEMMA CallsStep == CardsInv /\ CallsOK /\ [CardsNext]_cardVars => CallsOK'
<1>. SUFFICES ASSUME CardsInv, CallsOK, [CardsNext]_cardVars PROVE CallsOK'
  OBVIOUS
<1>1. Onward
  BY GoesOnward
<1>2. ASSUME NEW w, CallOK(w, Known, card) PROVE CallOK(w, Known', card')
  BY <1>1, <1>2 DEF Onward, CallOK, TrackOK, Taken, Free
<1>3. ASSUME NEW reason \in {"natural", "skip"}, AwaitsFile PROVE CallOK(Call(reason), Known, card)
  <2>1. hall.queue \in Seq(TrackType) /\ hall.queue # <<>> /\ Head(hall.queue).id \in unfetched
    BY <1>3, InvIs DEF AwaitsFile, HallType
  <2>2. Head(hall.queue) \in Queued(hall) /\ Head(hall.queue) \in TrackType
    BY <2>1 DEF Queued, ToSet
  <2>3. TrackOK(Head(hall.queue), Known) /\ Head(hall.queue).id > MaxCards
    BY <2>1, <2>2, InvIs DEF CallsOK, Sound, HallOK, Tracks
  <2>4. hall.cur \in TrackType /\ Taken(hall.cur.card, Known, card)
    BY InvIs, SoundTaken DEF Tracks
  <2>. QED
    BY <1>3, <2>2, <2>3, <2>4 DEF CallOK, CallType, Call
<1>4. ASSUME unfetched' \subseteq unfetched, \A w \in advances' : CallOK(w, Known, card)
      PROVE  CallsOK'
  BY <1>2, <1>4 DEF CallsOK
<1>5. ASSUME NEW reason \in {"natural", "skip"}, NEW beside, beside \subseteq advances,
             advances' = Advance(reason, beside).advances, UNCHANGED unfetched
      PROVE  CallsOK'
  <2>1. advances' \subseteq advances \/ (AwaitsFile /\ advances' \subseteq advances \cup {Call(reason)})
    BY <1>5, AdvanceIs
  <2>. QED
    BY <1>3, <1>4, <1>5, <2>1 DEF CallsOK
<1>6. ASSUME UNCHANGED fetchVars PROVE CallsOK'
  BY <1>4, <1>6 DEF fetchVars, CallsOK
<1>7. ASSUME TrackEnds \/ SkipCommand \/ SkipButton \/ SkipOnTheWeb PROVE CallsOK'
  <2>1. PICK reason \in {"natural", "skip"} :
            advances' = Advance(reason, advances).advances /\ UNCHANGED unfetched
    <3>1. CASE TrackEnds
      BY <3>1 DEF TrackEnds, GoesOn
    <3>2. CASE SkipCommand
      <4>. DEFINE pl == Advance("skip", advances)
                  told == IF desk.live.card = NoCard THEN pl
                          ELSE [pl EXCEPT !.desk = Chained(@, desk.live.card,
                                            Edit(desk.live.card, Reads("skipped"), "rest"))]
      <4>1. advances' = told.advances /\ UNCHANGED unfetched
        BY <3>2 DEF SkipCommand, GoesOn
      <4>2. pl = [hall |-> pl.hall, desk |-> pl.desk, advances |-> pl.advances]
        BY AdvanceIs
      <4>. HIDE DEF pl
      <4>3. told.advances = pl.advances
        BY <4>2
      <4>. QED
        BY <4>1, <4>3 DEF pl
    <3>3. CASE SkipButton
      <4>. DEFINE pl == Advance("skip", advances)
                  told == [pl EXCEPT !.desk = Loosely(@, Edit(desk.live.card, Reads("skipped"), "rest"))]
      <4>1. advances' = told.advances /\ UNCHANGED unfetched
        BY <3>3 DEF SkipButton, GoesOn
      <4>2. pl = [hall |-> pl.hall, desk |-> pl.desk, advances |-> pl.advances]
        BY AdvanceIs
      <4>. HIDE DEF pl
      <4>3. told.advances = pl.advances
        BY <4>2
      <4>. QED
        BY <4>1, <4>3 DEF pl
    <3>4. CASE SkipOnTheWeb
      BY <3>4 DEF SkipOnTheWeb, GoesOn
    <3>. QED
      BY <1>7, <3>1, <3>2, <3>3, <3>4
  <2>. QED
    BY <1>5, <2>1
<1>8. ASSUME NEW w \in advances, Downloaded(w) PROVE CallsOK'
  BY <1>4, <1>8 DEF Downloaded, CallsOK
<1>9. ASSUME NEW w \in advances, NotDownloaded(w) PROVE CallsOK'
  <2>1. w.reason \in {"natural", "skip"}
    BY DEF CallsOK, CallOK, CallType
  <2>. QED
    BY <1>5, <1>9, <2>1 DEF NotDownloaded, GoesOn
<1>10. ASSUME Prefetched PROVE CallsOK'
  BY <1>4, <1>10 DEF Prefetched, CallsOK
<1>11. ASSUME NEW r \in Requests,
              AsksFor(r) \/ Plans(r) \/ Cancels(r) \/ Fails(r) \/ \E force \in BOOLEAN : Enqueues(r, force)
       PROVE  CallsOK'
  <2>1. UNCHANGED fetchVars
    BY <1>11 DEF AsksFor, Plans, Cancels, Fails, Enqueues
  <2>. QED
    BY <1>6, <2>1
<1>12. ASSUME Autoplays \/ Transport \/ ClearsQueue \/ Ends \/ ShowsPlaying PROVE CallsOK'
  BY <1>6, <1>12 DEF Autoplays, Transport, ClearsQueue, Ends, ShowsPlaying, fetchVars
<1>13. ASSUME NEW c \in Cards, ChainMoves(c) \/ StaleButton(c) \/ PlayNow(c) \/ DeleteQueued(c)
       PROVE  CallsOK'
  BY <1>6, <1>13 DEF ChainMoves, StaleButton, PlayNow, DeleteQueued, fetchVars
<1>14. ASSUME NEW c \in {NoCard} \cup Cards, Ended(c) PROVE CallsOK'
  BY <1>6, <1>14 DEF Ended, fetchVars
<1>15. ASSUME NEW e \in Loose(desk), LooseMoves(e) PROVE CallsOK'
  BY <1>6, <1>15 DEF LooseMoves, fetchVars
<1>16. ASSUME NEW e \in BagToSet(desk.sends), SendMoves(e) PROVE CallsOK'
  <2>1. UNCHANGED fetchVars
    BY <1>16 DEF SendMoves
  <2>. QED
    BY <1>6, <2>1
<1>17. CASE UNCHANGED cardVars
  BY <1>6, <1>17 DEF cardVars, fetchVars
<1>. QED
  BY <1>7, <1>8, <1>9, <1>10, <1>11, <1>12, <1>13, <1>14, <1>15, <1>16, <1>17 DEF CardsNext

(* Nothing waits yet.                                                      *)
LEMMA CallsStart == CardsInit => CallsOK
  BY CardsAssumption DEF CardsInit, CallsOK, RestOf

(* Whatever requests, people and Telegram do in whatever order, with       *)
(* advance() waiting for downloads meanwhile, a track is in the room once  *)
(* and with one card, only its card is edited to be the live one, and what *)
(* is under way accounts for what the cards say.                           *)
THEOREM CardsInvariant == CardsSpec => [](CardsInv /\ CallsOK)
  BY CardsStart, CardsStep, CallsStart, CallsStep, PTL DEF CardsSpec

(* Everything the modules remember, the messages say and advance() waits   *)
(* for is of its type.                                                     *)
THEOREM CardsTypes == CardsSpec => []CardsTypeOK
<1>1. CardsInv /\ CallsOK => CardsTypeOK
  BY InvIs DEF CardsTypeOK, CallsOK, CallOK
<1>. QED
  BY <1>1, CardsInvariant, PTL

(* Once everything has arrived, nothing is under way to a message.         *)
LEMMA ArrivedIs ==
    ASSUME CardsInv, AllArrived, NEW c \in Cards
    PROVE  ~Pending(c, desk) /\ Final(c, desk, card) = card[c]
<1>1. desk.loose = EmptyBag /\ desk.ending = {} /\ desk.chain[c] = <<>>
  BY DEF AllArrived, Adrift
<1>2. Loose(desk) = {}
  BY <1>1, BagEmpty DEF Loose
<1>. QED
  BY <1>1, <1>2 DEF Pending, Final

(* Once everything has arrived, the card of a request that says Now        *)
(* Playing, unless excused, speaks of the track that is playing.           *)
THEOREM CardsMove == CardsSpec => []CardsMoveOn
<1>1. CardsInv => CardsMoveOn
  <2>. SUFFICES ASSUME CardsInv, AllArrived, NEW c \in Requests \ excused, card[c].text = "now"
                PROVE  card[c].track = hall.cur.id
    BY DEF CardsMoveOn
  <2>1. c \in Cards /\ card[c].track = c /\ MovesOn(c, hall, desk, card)
    BY InvIs DEF Good, Sound, CardOK, Moving
  <2>2. ~Pending(c, desk)
    BY <2>1, ArrivedIs
  <2>. QED
    BY <2>1, <2>2 DEF MovesOn
<1>. QED
  BY <1>1, CardsInvariant, PTL

(* Once everything has arrived, the button of the live card of the current *)
(* track offers what the room can do, unless a pause or resumption met a   *)
(* promotion on its way to another message.  An advance() may have waited  *)
(* for a download in between.                                              *)
THEOREM CardsButton == CardsSpec => []ButtonAgrees
<1>1. CardsInv => ButtonAgrees
  <2>. DEFINE c == desk.live.card
  <2>. SUFFICES ASSUME CardsInv, AllArrived, ~crossed, c \notin {NoCard} \cup excused,
                       desk.live.track = hall.cur.id, card[c].text = "now"
                PROVE  card[c].on = hall.playing
    BY DEF ButtonAgrees
  <2>1. desk.live \in [card : Places, track : Int]
    BY InvIs DEF DeskType
  <2>2. c \in Cards \ excused /\ desk.live = [card |-> c, track |-> hall.cur.id]
    BY <2>1 DEF Places
  <2>3. Offers(c, hall, desk, card)
    BY <2>2, InvIs DEF Good, Agreeing
  <2>4. Final(c, desk, card) = card[c]
    BY <2>2, ArrivedIs
  <2>. QED
    BY <2>2, <2>3, <2>4 DEF Offers, Coming
<1>. QED
  BY <1>1, CardsInvariant, PTL

=============================================================================
