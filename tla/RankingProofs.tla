--------------------------- MODULE RankingProofs ----------------------------
(***************************************************************************)
(* What Ranking promises, for every number of listens, members and chats,  *)
(* any constants of the level formula, and any number of troubles.         *)
(*                                                                         *)
(* What needs induction over data (sums over finite sets, the level that   *)
(* pays for a count, the places of a sorted board) is proved from a        *)
(* minimal counterexample: the theorem WFMin of WellFoundedInduction takes *)
(* sets and no operator.                                                   *)
(***************************************************************************)
EXTENDS Ranking, FiniteSetTheorems, FunctionTheorems, TLAPS

(* A set of natural numbers has a least element, if it has any.            *)
LEMMA LeastNatural ==
    ASSUME NEW T, T \subseteq Nat, T # {}
    PROVE  \E x \in T : \A y \in T : x <= y
<1>. DEFINE R == OpToRel(<, Nat)
<1>1. IsWellFoundedOn(R, Nat)
  BY NatLessThanWellFounded
<1>2. \A x, y \in Nat : x < y => <<x, y>> \in R
  BY DEF OpToRel
<1>. HIDE DEF R
<1>3. PICK x \in T : \A y \in T : ~(<<y, x>> \in R)
  BY <1>1, WFMin
<1>4. ASSUME NEW y \in T PROVE x <= y
  <2>1. x \in Nat /\ y \in Nat
    OBVIOUS
  <2>2. ~(y < x)
    BY <2>1, <1>2, <1>3
  <2>. QED
    BY <2>1, <2>2
<1>. QED
  BY <1>4

(* Among subsets of a finite set there is a minimal one, if there is any.  *)
LEMMA MinimalSubset ==
    ASSUME NEW S, IsFiniteSet(S), NEW Bad, Bad \subseteq SUBSET S, Bad # {}
    PROVE  \E T \in Bad : \A U \in Bad : U \subseteq T => U = T
<1>1. Bad \subseteq FiniteSubsetsOf(S)
  BY FS_Subset DEF FiniteSubsetsOf
<1>2. PICK T \in Bad : \A U \in Bad : ~(<<U, T>> \in StrictSubsetOrdering(S))
  BY <1>1, FS_StrictSubsetOrderingWellFounded, WFMin
<1>3. ASSUME NEW U \in Bad, U \subseteq T, U # T PROVE FALSE
  BY <1>2, <1>3 DEF StrictSubsetOrdering
<1>. QED
  BY <1>3

-----------------------------------------------------------------------------
(* Sums.                                                                   *)

Pick(s) == CHOOSE x \in s : TRUE

\* F is what SumFunction() makes of f on the way: its sums over the subsets of S.
SumsUp(F, f, S) ==
    F = [s \in SUBSET S |-> IF s = {} THEN 0 ELSE f[Pick(s)] + F[s \ {Pick(s)}]]

(* There are such sums: first of the empty set, then of ever larger ones.  *)
LEMMA SumsExist ==
    ASSUME NEW S, IsFiniteSet(S), NEW f
    PROVE  \E F : SumsUp(F, f, S)
<1>. DEFINE Up(n) == {s \in SUBSET S : Cardinality(s) <= n}
            Of(F, n) == F = [s \in Up(n) |-> IF s = {} THEN 0 ELSE f[Pick(s)] + F[s \ {Pick(s)}]]
            Bad == {n \in Nat : ~ \E F : Of(F, n)}
<1>1. ASSUME NEW s \in SUBSET S, s # {}
      PROVE  /\ Pick(s) \in s
             /\ s \ {Pick(s)} \in SUBSET S
             /\ Cardinality(s) \in Nat \ {0}
             /\ Cardinality(s \ {Pick(s)}) = Cardinality(s) - 1
  <2>1. Pick(s) \in s
    BY <1>1 DEF Pick
  <2>2. IsFiniteSet(s)
    BY FS_Subset
  <2>. QED
    BY <2>1, <2>2, FS_RemoveElement, FS_CardinalityType, FS_EmptySet
<1>2. Bad = {}
  <2>1. SUFFICES ASSUME Bad # {} PROVE FALSE
    OBVIOUS
  <2>2. PICK n \in Bad : \A k \in Bad : n <= k
    <3>. HIDE DEF Of
    <3>. QED
      BY <2>1, LeastNatural
  <2>3. n # 0
    <3>1. SUFFICES ASSUME n = 0 PROVE FALSE
      OBVIOUS
    <3>2. ASSUME NEW s \in Up(0), s # {} PROVE FALSE
      <4>1. Cardinality(s) <= 0
        OBVIOUS
      <4>2. Cardinality(s) \in Nat \ {0}
        BY <1>1, <3>2
      <4>. QED
        BY <4>1, <4>2
    <3>. DEFINE F == [s \in Up(0) |-> 0]
    <3>3. Of(F, 0)
      BY <3>2
    <3>. QED
      BY <3>1, <3>3, <2>2
  <2>4. PICK F : Of(F, n - 1)
    <3>1. n - 1 \in Nat /\ ~(n <= n - 1)
      BY <2>2, <2>3
    <3>. HIDE DEF Of
    <3>. QED
      BY <3>1, <2>2
  <2>. DEFINE G == [s \in Up(n) |-> IF s = {} THEN 0 ELSE f[Pick(s)] + F[s \ {Pick(s)}]]
  <2>5. ASSUME NEW s \in Up(n), s # {}
        PROVE  G[s \ {Pick(s)}] = F[s \ {Pick(s)}]
    <3>. DEFINE r == s \ {Pick(s)}
    <3>1. r \in Up(n - 1) /\ r \in Up(n)
      BY <1>1, <2>2, <2>5
    <3>2. F[r] = IF r = {} THEN 0 ELSE f[Pick(r)] + F[r \ {Pick(r)}]
      BY <2>4, <3>1
    <3>3. G[r] = IF r = {} THEN 0 ELSE f[Pick(r)] + F[r \ {Pick(r)}]
      BY <3>1
    <3>. QED
      BY <3>2, <3>3
  <2>6. Of(G, n)
    BY <2>5
  <2>. QED
    BY <2>2, <2>6
<1>3. Cardinality(S) \in Nat /\ Up(Cardinality(S)) = SUBSET S
  BY FS_CardinalityType, FS_Subset
<1>4. PICK F : Of(F, Cardinality(S))
  BY <1>2, <1>3
<1>. QED
  BY <1>3, <1>4 DEF SumsUp

(* The sum of a function is that over its whole domain.                    *)
LEMMA SumIs ==
    ASSUME NEW S, IsFiniteSet(S), NEW f, f = [x \in S |-> f[x]]
    PROVE  \E F : SumsUp(F, f, S) /\ SumFunction(f) = F[S]
<1>. DEFINE F == CHOOSE F : SumsUp(F, f, S)
<1>1. SumsUp(F, f, S)
  BY SumsExist
<1>2. SumFunction(f) = F[S]
  <2>1. DOMAIN f = S
    OBVIOUS
  <2>. QED
    BY <2>1 DEF SumFunction, SumFunctionOnSet, FoldFunctionOnSet, MapThenFoldSet, SumsUp, Pick
<1>. QED
  BY <1>1, <1>2

(* Sums of natural numbers are natural numbers.                            *)
LEMMA SumsType ==
    ASSUME NEW S, IsFiniteSet(S), NEW f \in [S -> Nat], NEW F, SumsUp(F, f, S)
    PROVE  \A T \in SUBSET S : F[T] \in Nat
<1>. DEFINE Bad == {T \in SUBSET S : F[T] \notin Nat}
<1>1. SUFFICES ASSUME Bad # {} PROVE FALSE
  OBVIOUS
<1>2. PICK T \in Bad : \A U \in Bad : U \subseteq T => U = T
  <2>1. Bad \subseteq SUBSET S
    OBVIOUS
  <2>. HIDE DEF Bad
  <2>. QED
    BY <2>1, <1>1, MinimalSubset
<1>3. F[T] = IF T = {} THEN 0 ELSE f[Pick(T)] + F[T \ {Pick(T)}]
  BY <1>2 DEF SumsUp
<1>4. T # {} /\ Pick(T) \in T
  BY <1>2, <1>3 DEF Pick
<1>5. F[T \ {Pick(T)}] \in Nat
  BY <1>2, <1>4
<1>. QED
  BY <1>2, <1>3, <1>4, <1>5

(* It does not matter which element is taken first.                        *)
LEMMA SumsTake ==
    ASSUME NEW S, IsFiniteSet(S), NEW f \in [S -> Nat], NEW F, SumsUp(F, f, S)
    PROVE  \A T \in SUBSET S : \A x \in T : F[T] = f[x] + F[T \ {x}]
<1>. DEFINE Bad == {T \in SUBSET S : \E x \in T : F[T] # f[x] + F[T \ {x}]}
<1>1. SUFFICES ASSUME Bad # {} PROVE FALSE
  OBVIOUS
<1>2. PICK T \in Bad : \A U \in Bad : U \subseteq T => U = T
  <2>1. Bad \subseteq SUBSET S
    OBVIOUS
  <2>. HIDE DEF Bad
  <2>. QED
    BY <2>1, <1>1, MinimalSubset
<1>3. PICK x \in T : F[T] # f[x] + F[T \ {x}]
  BY <1>2
<1>. DEFINE y == Pick(T)
<1>4. y \in T /\ F[T] = f[y] + F[T \ {y}]
  BY <1>2, <1>3 DEF SumsUp, Pick
<1>. HIDE DEF y
<1>5. x # y
  BY <1>3, <1>4
<1>6. F[T \ {y}] = f[x] + F[(T \ {y}) \ {x}]
  BY <1>2, <1>4, <1>5
<1>7. F[T \ {x}] = f[y] + F[(T \ {x}) \ {y}]
  BY <1>2, <1>4, <1>5
<1>8. (T \ {y}) \ {x} = (T \ {x}) \ {y}
  OBVIOUS
<1>. DEFINE rest == F[(T \ {x}) \ {y}]
<1>9. rest \in Nat /\ f[x] \in Nat /\ f[y] \in Nat
  BY <1>2, <1>4, SumsType
<1>10. F[T] = f[y] + (f[x] + rest) /\ F[T \ {x}] = f[y] + rest
  BY <1>4, <1>6, <1>7, <1>8
<1>. HIDE DEF rest
<1>. QED
  BY <1>3, <1>9, <1>10

(* Sums over a set depend on what is in it only.                           *)
LEMMA SumsAgree ==
    ASSUME NEW S, IsFiniteSet(S), NEW f, NEW F, SumsUp(F, f, S),
           NEW R, NEW g, NEW G, SumsUp(G, g, R),
           NEW D \in SUBSET S, D \subseteq R, \A x \in D : f[x] = g[x]
    PROVE  F[D] = G[D]
<1>. DEFINE Bad == {T \in SUBSET D : F[T] # G[T]}
<1>0. IsFiniteSet(D)
  BY FS_Subset
<1>1. SUFFICES ASSUME Bad # {} PROVE FALSE
  OBVIOUS
<1>2. PICK T \in Bad : \A U \in Bad : U \subseteq T => U = T
  <2>1. Bad \subseteq SUBSET D
    OBVIOUS
  <2>. HIDE DEF Bad
  <2>. QED
    BY <2>1, <1>0, <1>1, MinimalSubset
<1>3. F[T] = IF T = {} THEN 0 ELSE f[Pick(T)] + F[T \ {Pick(T)}]
  BY <1>2 DEF SumsUp
<1>4. G[T] = IF T = {} THEN 0 ELSE g[Pick(T)] + G[T \ {Pick(T)}]
  BY <1>2 DEF SumsUp
<1>5. T # {} /\ Pick(T) \in T
  BY <1>2, <1>3, <1>4 DEF Pick
<1>6. F[T \ {Pick(T)}] = G[T \ {Pick(T)}]
  BY <1>2, <1>5
<1>. QED
  BY <1>2, <1>3, <1>4, <1>5, <1>6

(* A sum of natural numbers is one.                                        *)
LEMMA SumType ==
    ASSUME NEW S, IsFiniteSet(S), NEW f \in [S -> Nat]
    PROVE  SumFunction(f) \in Nat
<1>1. PICK F : SumsUp(F, f, S) /\ SumFunction(f) = F[S]
  BY SumIs
<1>. QED
  BY <1>1, SumsType

(* A value that grows makes the sum grow by as much.                       *)
LEMMA SumGrows ==
    ASSUME NEW S, IsFiniteSet(S), NEW f \in [S -> Nat], NEW g \in [S -> Nat],
           NEW x \in S, \A y \in S \ {x} : g[y] = f[y]
    PROVE  SumFunction(g) - SumFunction(f) = g[x] - f[x]
<1>1. PICK F : SumsUp(F, f, S) /\ SumFunction(f) = F[S]
  BY SumIs
<1>2. PICK G : SumsUp(G, g, S) /\ SumFunction(g) = G[S]
  BY SumIs
<1>3. F[S] = f[x] + F[S \ {x}]
  BY SMTT(30), <1>1, SumsTake
<1>4. G[S] = g[x] + G[S \ {x}]
  BY <1>2, SumsTake
<1>5. F[S \ {x}] = G[S \ {x}]
  BY <1>1, <1>2, SumsAgree
<1>6. F[S \ {x}] \in Nat /\ f[x] \in Nat /\ g[x] \in Nat
  BY <1>1, SumsType
<1>. DEFINE rest == F[S \ {x}]
<1>7. SumFunction(f) = f[x] + rest /\ SumFunction(g) = g[x] + rest /\ rest \in Nat
  BY <1>1, <1>2, <1>3, <1>4, <1>5, <1>6
<1>. HIDE DEF rest
<1>. QED
  BY <1>6, <1>7

(* What is new, and worth nothing yet, adds nothing to a sum.              *)
LEMMA SumJoined ==
    ASSUME NEW S, IsFiniteSet(S), NEW f \in [S -> Nat],
           NEW x, NEW g \in [S \union {x} -> Nat], x \notin S,
           g[x] = 0, \A y \in S : g[y] = f[y]
    PROVE  SumFunction(g) = SumFunction(f)
<1>. DEFINE R == S \union {x}
<1>0. IsFiniteSet(R) /\ R \ {x} = S /\ x \in R /\ S \subseteq R
  BY FS_AddElement
<1>1. PICK F : SumsUp(F, f, S) /\ SumFunction(f) = F[S]
  BY SumIs
<1>2. PICK G : SumsUp(G, g, R) /\ SumFunction(g) = G[R]
  BY <1>0, SumIs
<1>. HIDE DEF R
<1>3. G[R] = g[x] + G[S]
  BY <1>0, <1>2, SumsTake DEF R
<1>4. F[S] = G[S]
  BY <1>0, <1>1, <1>2, SumsAgree
<1>5. F[S] \in Nat
  BY <1>1, SumsType
<1>. QED
  BY <1>1, <1>2, <1>3, <1>4, <1>5

(* A sum of nothing is nothing.                                            *)
LEMMA SumOfNothing ==
    ASSUME NEW S, IsFiniteSet(S), NEW f, f = [x \in S |-> 0]
    PROVE  SumFunction(f) = 0
<1>1. PICK F : SumsUp(F, f, S) /\ SumFunction(f) = F[S]
  BY SumIs
<1>. DEFINE Bad == {T \in SUBSET S : F[T] # 0}
<1>2. SUFFICES ASSUME Bad # {} PROVE FALSE
  BY <1>1
<1>3. PICK T \in Bad : \A U \in Bad : U \subseteq T => U = T
  <2>1. Bad \subseteq SUBSET S
    OBVIOUS
  <2>. HIDE DEF Bad
  <2>. QED
    BY <2>1, <1>2, MinimalSubset
<1>4. F[T] = IF T = {} THEN 0 ELSE f[Pick(T)] + F[T \ {Pick(T)}]
  BY <1>1, <1>3 DEF SumsUp
<1>5. T # {} /\ Pick(T) \in T
  BY <1>3, <1>4 DEF Pick
<1>6. F[T \ {Pick(T)}] = 0
  BY <1>3, <1>5
<1>. QED
  BY <1>3, <1>4, <1>5, <1>6

-----------------------------------------------------------------------------
(* The inductive invariant.                                                *)

Row == [tracks : Nat, seconds : Nat]
Steps == {"unheard", "writing", "counting", "leveling", "telling", "done", "failed"}
Writes == {"bucket", "tally"}
Parts == {"buckets", "tallies", "users"}

UserType == [tracks : Nat, seconds : Nat, level : Nat \union {-1}]
ListenType == [pc : Steps, who : Members \union {NoOne}, chat : Chats, day : 0..MaxDays,
               todo : SUBSET Writes, total : Nat, era : Nat]
LookType == [pc : {"told", "tracks", "counting"}, period : {"today", "week", "overall"},
             scope : Chats \union {Everywhere}, who : Members \union {NoOne}, mine : Row, rank : Nat]

RankTypeOK ==
    /\ today \in 0..MaxDays
    /\ bucket \in [0..MaxDays -> [Chats -> [Members -> Row]]]
    /\ tally \in [Chats -> [Members -> Row]]
    /\ user \in [Members -> UserType]
    /\ listen \in [Listens -> ListenType]
    /\ reset \in [todo : SUBSET Parts, era : Nat]
    /\ look \in LookType
    /\ look.pc # "told" => look.who \in Members
    /\ troubles \in Nat
    /\ raced \subseteq Members /\ overtaken \subseteq Members

\* Where a call of recordTrackListen() is says what it has left to write.
CallsOK ==
    \A l \in Listens :
        /\ listen[l].who = NoOne <=> listen[l].pc = "unheard"
        /\ listen[l].pc = "writing" => listen[l].todo # {}
        /\ listen[l].pc \notin {"writing", "failed"} => listen[l].todo = {}
        /\ listen[l].pc \in {"unheard", "writing", "counting"} => listen[l].total = 0
        /\ listen[l].pc \in {"leveling", "telling", "done"} => listen[l].total > 0
        /\ listen[l].era <= reset.era

\* The counts that were handed back since the last reset are each another, and
\* none is left out between what a member began with and what the row says.
NumberedFor(m) ==
    /\ Before(m).tracks <= user[m].tracks
    /\ \A l \in CountedFor(m) : Before(m).tracks < listen[l].total /\ listen[l].total <= user[m].tracks
    /\ \A l, k \in CountedFor(m) : listen[l].total = listen[k].total => l = k
    /\ \A n \in (Before(m).tracks + 1)..user[m].tracks : \E l \in CountedFor(m) : listen[l].total = n

Numbered == \A m \in Members : NumberedFor(m)

\* A member who no reset has raced was quiet when it began, has been so since, and
\* has lost what it has emptied; what is under way for the others is of this era.
Spared ==
    \A m \in Members \ raced :
        /\ \A l \in ListensOf(m) : listen[l].pc = "leveling" => listen[l].era = reset.era
        /\ reset.todo # {} =>
            /\ Quiet(m)
            /\ "users" \notin reset.todo =>
                  user[m] = [tracks |-> 0, seconds |-> 0, level |-> -1] /\ reset.era > 0
            /\ "tallies" \notin reset.todo => \A c \in Chats : tally[c][m] = Nothing
            /\ "buckets" \notin reset.todo => \A d \in 0..MaxDays, c \in Chats : bucket[d][c][m] = Nothing

Heard == {l \in Listens : listen[l].pc # "unheard"}

\* Listens that a collection has and the user's row is about to get.
Pending(what, m) == {l \in ListensOf(m) : listen[l].pc \in {"writing", "counting"} /\ what \notin listen[l].todo}
Worth(l) == [tracks |-> 1, seconds |-> Lasts[l]]
OwedFor(what, m, l) == IF l \in Pending(what, m) THEN Worth(l) ELSE Nothing
Owed(what, m) == Summed([l \in Heard |-> OwedFor(what, m, l)])

Total(m) == [tracks |-> user[m].tracks, seconds |-> user[m].seconds]
Tallied(m) == Summed([c \in Chats |-> tally[c][m]])
Bucketed(m) == Sum(Before(m), Score("week", Everywhere, m))

\* The books: a collection has what the user's row has and what that is about to
\* get, and more only where a listen has failed.
Keeps(m, rows, owed) ==
    /\ AtMost(Sum(Total(m), owed), rows)
    /\ ~Failed(m) => rows = Sum(Total(m), owed)

Rows(what, m) == IF what = "tally" THEN Tallied(m) ELSE Bucketed(m)
KeptFor(m) == \A what \in Writes : Keeps(m, Rows(what, m), Owed(what, m))
BooksKept == reset.todo = {} => \A m \in Members \ raced : KeptFor(m)

Basics == RankTypeOK /\ CallsOK /\ IsFiniteSet(Heard)

RankInv ==
    /\ Basics
    /\ Numbered /\ Spared /\ LevelFollows /\ BooksKept


-----------------------------------------------------------------------------
(* Levels.                                                                 *)

(* Products of natural numbers grow with their factors.                    *)
LEMMA ProductGrows ==
    ASSUME NEW k \in Nat, NEW a \in Nat, NEW b \in Nat, a <= b
    PROVE  k * a <= k * b /\ k * a \in Nat
  OBVIOUS

(* Each level costs at least one listen more than the one before.          *)
LEMMA XpGrows ==
    ASSUME RankingAssumption, NEW a \in Nat, NEW b \in Nat, a < b
    PROVE  XpForLevel(a) < XpForLevel(b)
<1>1. LevelA \in Nat /\ LevelB \in Nat /\ LevelB >= 1
  BY DEF RankingAssumption
<1>2. LevelA * a <= LevelA * b /\ LevelA * a \in Nat /\ LevelA * b \in Nat
  BY <1>1, ProductGrows
<1>3. (LevelA * a) * a <= (LevelA * a) * b /\ (LevelA * a) * a \in Nat
  BY <1>2, ProductGrows
<1>4. (LevelA * a) * b <= (LevelA * b) * b /\ (LevelA * b) * b \in Nat
  <2>1. b * (LevelA * a) <= b * (LevelA * b) /\ b * (LevelA * b) \in Nat
    BY <1>2, ProductGrows
  <2>. QED
    BY <1>2, <2>1
<1>5. LevelB * a < LevelB * b /\ LevelB * a \in Nat /\ LevelB * b \in Nat
  <2>1. LevelB * (a + 1) <= LevelB * b /\ LevelB * a \in Nat /\ LevelB * b \in Nat
    BY <1>1, ProductGrows
  <2>2. LevelB * (a + 1) = LevelB * a + LevelB
    BY <1>1
  <2>. QED
    BY <1>1, <2>1, <2>2
<1>. DEFINE p == (LevelA * a) * a
            q == (LevelA * a) * b
            r == (LevelA * b) * b
            s == LevelB * a
            t == LevelB * b
<1>6. p \in Nat /\ r \in Nat /\ p <= q /\ q <= r /\ s \in Nat /\ t \in Nat /\ s < t /\ q \in Int
  BY <1>2, <1>3, <1>4, <1>5
<1>7. XpForLevel(a) = p + s /\ XpForLevel(b) = r + t
  BY DEF XpForLevel
<1>. HIDE DEF p, q, r, s, t
<1>. QED
  BY <1>6, <1>7

(* What a level costs is a number, no smaller than the level.              *)
LEMMA XpType ==
    ASSUME RankingAssumption, NEW a \in Nat
    PROVE  XpForLevel(a) \in Nat /\ XpForLevel(a) >= a /\ XpForLevel(0) = 0
<1>1. LevelA \in Nat /\ LevelB \in Nat /\ LevelB >= 1
  BY DEF RankingAssumption
<1>2. LevelA * a \in Nat
  BY <1>1, ProductGrows
<1>3. (LevelA * a) * a \in Nat
  BY <1>2, ProductGrows
<1>4. LevelB * a \in Nat /\ LevelB * a >= a
  <2>1. a * 1 <= a * LevelB /\ a * LevelB = LevelB * a /\ a * 1 = a
    BY <1>1, ProductGrows
  <2>. QED
    BY <1>1, <2>1, ProductGrows
<1>5. XpForLevel(0) = 0
  BY <1>1 DEF XpForLevel
<1>. DEFINE p == (LevelA * a) * a
            s == LevelB * a
<1>6. p \in Nat /\ s \in Nat /\ s >= a
  BY <1>3, <1>4
<1>7. XpForLevel(a) = p + s
  BY DEF XpForLevel
<1>. HIDE DEF p, s
<1>. QED
  BY <1>5, <1>6, <1>7

(* LevelFromXp() returns the one level that a count pays for, not more.    *)
LEMMA LevelIs ==
    ASSUME RankingAssumption, NEW xp \in Nat
    PROVE  /\ LevelFromXp(xp) \in Nat
           /\ XpForLevel(LevelFromXp(xp)) <= xp
           /\ xp < XpForLevel(LevelFromXp(xp) + 1)
<1>. DEFINE Above == {l \in Nat : xp < XpForLevel(l + 1)}
<1>1. xp \in Above
  <2>1. XpForLevel(xp + 1) >= xp + 1 /\ XpForLevel(xp + 1) \in Nat
    BY XpType
  <2>. QED
    BY <2>1
<1>2. PICK l \in Above : \A k \in Above : l <= k
  <2>1. Above \subseteq Nat /\ Above # {}
    BY <1>1
  <2>. HIDE DEF Above
  <2>. QED
    BY <2>1, LeastNatural
<1>3. l \in 0..xp /\ xp < XpForLevel(l + 1)
  BY <1>1, <1>2
<1>4. XpForLevel(l) <= xp
  <2>1. CASE l = 0
    BY <2>1, XpType
  <2>2. CASE l # 0
    <3>1. l - 1 \in Nat /\ ~(l <= l - 1) /\ (l - 1) + 1 = l
      BY <1>2, <2>2
    <3>2. ~(xp < XpForLevel(l))
      BY <1>2, <3>1
    <3>3. XpForLevel(l) \in Nat
      BY <1>2, XpType
    <3>. QED
      BY <3>2, <3>3
  <2>. QED
    BY <2>1, <2>2
<1>. DEFINE G == {k \in 0..xp : XpForLevel(k) <= xp /\ xp < XpForLevel(k + 1)}
<1>5. \E k \in 0..xp : XpForLevel(k) <= xp /\ xp < XpForLevel(k + 1)
  BY <1>3, <1>4
<1>6. /\ LevelFromXp(xp) \in 0..xp
      /\ XpForLevel(LevelFromXp(xp)) <= xp
      /\ xp < XpForLevel(LevelFromXp(xp) + 1)
  BY <1>5 DEF LevelFromXp
<1>. QED
  BY <1>6

(* It is the only such level.                                              *)
LEMMA LevelOnly ==
    ASSUME RankingAssumption, NEW xp \in Nat, NEW l \in Nat,
           XpForLevel(l) <= xp, xp < XpForLevel(l + 1)
    PROVE  LevelFromXp(xp) = l
<1>. DEFINE k == LevelFromXp(xp)
<1>1. k \in Nat /\ XpForLevel(k) <= xp /\ xp < XpForLevel(k + 1)
  BY LevelIs
<1>. HIDE DEF k
<1>2. \A a, b \in Nat : a < b => XpForLevel(a + 1) <= XpForLevel(b)
  <2>1. SUFFICES ASSUME NEW a \in Nat, NEW b \in Nat, a < b
                 PROVE  XpForLevel(a + 1) <= XpForLevel(b)
    OBVIOUS
  <2>2. XpForLevel(a + 1) \in Nat
    BY XpType
  <2>3. CASE a + 1 = b
    BY <2>2, <2>3
  <2>4. CASE a + 1 < b
    <3>1. XpForLevel(a + 1) < XpForLevel(b) /\ XpForLevel(b) \in Nat
      BY <2>4, XpGrows, XpType
    <3>. QED
      BY <2>2, <3>1
  <2>. QED
    BY <2>1, <2>3, <2>4
<1>3. \A a \in Nat : XpForLevel(a) \in Nat
  BY XpType
<1>4. ~(k < l)
  <2>1. SUFFICES ASSUME k < l PROVE FALSE
    OBVIOUS
  <2>2. XpForLevel(k + 1) <= XpForLevel(l)
    BY <1>1, <1>2, <2>1
  <2>3. XpForLevel(k + 1) \in Nat /\ XpForLevel(l) \in Nat
    BY <1>1, <1>3
  <2>. QED
    BY <1>1, <2>2, <2>3
<1>5. ~(l < k)
  <2>1. SUFFICES ASSUME l < k PROVE FALSE
    OBVIOUS
  <2>2. XpForLevel(l + 1) <= XpForLevel(k)
    BY <1>1, <1>2, <2>1
  <2>3. XpForLevel(l + 1) \in Nat /\ XpForLevel(k) \in Nat
    BY <1>1, <1>3
  <2>. QED
    BY <1>1, <2>2, <2>3
<1>6. k = l
  BY <1>1, <1>4, <1>5
<1>. QED
  BY <1>6 DEF k

(* Who has heard more has no lower a level.                                *)
LEMMA LevelGrows ==
    ASSUME RankingAssumption, NEW x \in Nat, NEW y \in Nat, x <= y
    PROVE  LevelFromXp(x) <= LevelFromXp(y)
<1>. DEFINE a == LevelFromXp(x)
            b == LevelFromXp(y)
<1>1. a \in Nat /\ XpForLevel(a) <= x /\ x < XpForLevel(a + 1)
  BY LevelIs
<1>2. b \in Nat /\ XpForLevel(b) <= y /\ y < XpForLevel(b + 1)
  BY LevelIs
<1>. HIDE DEF a, b
<1>3. ASSUME b < a PROVE FALSE
  <2>1. XpForLevel(a) \in Nat /\ XpForLevel(b + 1) \in Nat
    BY <1>1, <1>2, XpType
  <2>2. XpForLevel(b + 1) <= XpForLevel(a)
    <3>1. CASE b + 1 = a
      BY <2>1, <3>1
    <3>2. CASE b + 1 < a
      BY <1>1, <1>2, <2>1, <3>2, XpGrows
    <3>. QED
      BY <1>1, <1>2, <1>3, <3>1, <3>2
  <2>. QED
    BY <1>1, <1>2, <2>1, <2>2
<1>4. a <= b
  BY <1>1, <1>2, <1>3
<1>. QED
  BY <1>4 DEF a, b

(* Nothing heard is level 0.                                               *)
LEMMA LevelOfNothing ==
    ASSUME RankingAssumption
    PROVE  LevelFromXp(0) = 0
<1>1. XpForLevel(0) = 0 /\ XpForLevel(0 + 1) >= 1 /\ XpForLevel(0 + 1) \in Nat
  BY XpType
<1>. QED
  BY <1>1, LevelOnly

(* The listen that is told of a level is the one whose count pays for it:  *)
(* one more listen is at most one more level.                              *)
LEMMA MilestoneIs ==
    ASSUME RankingAssumption, NEW t \in Nat, t > 0, NEW level \in Nat, ShouldNotifyLevel(level)
    PROVE  Milestone(LevelFromXp(t - 1), LevelFromXp(t)) = level <=> t = XpForLevel(level)
<1>. DEFINE a == LevelFromXp(t - 1)
            b == LevelFromXp(t)
<1>0. t - 1 \in Nat /\ (t - 1) + 1 = t
  OBVIOUS
<1>1. a \in Nat /\ XpForLevel(a) <= t - 1 /\ t - 1 < XpForLevel(a + 1)
  BY <1>0, LevelIs
<1>2. b \in Nat /\ XpForLevel(b) <= t /\ t < XpForLevel(b + 1)
  BY LevelIs
<1>3. \A k \in Nat : XpForLevel(k) \in Nat
  BY XpType
<1>4. level > 0
  BY DEF ShouldNotifyLevel
<1>5. t = XpForLevel(a + 1) => b = a + 1
  <2>1. SUFFICES ASSUME t = XpForLevel(a + 1) PROVE b = a + 1
    OBVIOUS
  <2>2. XpForLevel(a + 1) < XpForLevel((a + 1) + 1) /\ a + 1 \in Nat
    BY <1>1, XpGrows
  <2>3. XpForLevel(a + 1) <= t
    BY <1>1, <1>3, <2>1
  <2>. QED
    BY <2>1, <2>2, <2>3, LevelOnly
<1>6. t # XpForLevel(a + 1) => b = a
  <2>1. SUFFICES ASSUME t # XpForLevel(a + 1) PROVE b = a
    OBVIOUS
  <2>2. t < XpForLevel(a + 1) /\ XpForLevel(a) <= t
    BY <1>1, <1>3, <2>1
  <2>. QED
    BY <1>1, <2>2, LevelOnly
<1>7. t = XpForLevel(level) => level = a + 1
  <2>1. SUFFICES ASSUME t = XpForLevel(level) PROVE level = a + 1
    OBVIOUS
  <2>2. level - 1 \in Nat /\ (level - 1) + 1 = level
    BY <1>4
  <2>3. XpForLevel(level - 1) < XpForLevel(level) /\ XpForLevel(level - 1) \in Nat
    BY <1>3, <2>2, XpGrows
  <2>4. XpForLevel(level - 1) <= t - 1 /\ t - 1 < XpForLevel((level - 1) + 1)
    BY <2>1, <2>2, <2>3
  <2>5. LevelFromXp(t - 1) = level - 1
    BY <1>0, <2>2, <2>4, LevelOnly
  <2>. QED
    BY <1>4, <2>5
<1>. HIDE DEF a, b
<1>8. CASE t = XpForLevel(a + 1)
  <2>1. b = a + 1
    BY <1>5, <1>8
  <2>. DEFINE worth == {l \in (a + 1)..b : ShouldNotifyLevel(l)}
  <2>2. CASE ShouldNotifyLevel(a + 1)
    <3>1. worth = {a + 1}
      BY <1>1, <2>1, <2>2
    <3>2. Milestone(a, b) = a + 1
      BY <1>1, <3>1 DEF Milestone
    <3>. QED
      BY <1>1, <1>7, <1>8, <3>2 DEF a, b
  <2>3. CASE ~ShouldNotifyLevel(a + 1)
    <3>1. worth = {}
      BY <1>1, <2>1, <2>3
    <3>2. Milestone(a, b) = 0
      BY <3>1 DEF Milestone
    <3>. QED
      BY <1>1, <1>4, <1>7, <1>8, <2>3, <3>2 DEF a, b
  <2>. QED
    BY <2>2, <2>3
<1>9. CASE t # XpForLevel(a + 1)
  <2>1. b = a
    BY <1>6, <1>9
  <2>2. {l \in (a + 1)..b : ShouldNotifyLevel(l)} = {}
    BY <1>1, <2>1
  <2>3. Milestone(a, b) = 0
    BY <2>2 DEF Milestone
  <2>. QED
    BY <1>4, <1>7, <1>9, <2>3 DEF a, b
<1>. QED
  BY <1>8, <1>9

-----------------------------------------------------------------------------
(* The type of the state, and where calls can be.                          *)

(* What a board shows is a row.                                            *)
LEMMA SummedType ==
    ASSUME NEW D, IsFiniteSet(D), NEW rows \in [D -> Row]
    PROVE  Summed(rows) \in Row
<1>. DEFINE t == [k \in D |-> rows[k].tracks]
            s == [k \in D |-> rows[k].seconds]
<1>1. t \in [D -> Nat] /\ s \in [D -> Nat]
  BY DEF Row
<1>2. Summed(rows) = [tracks |-> SumFunction(t), seconds |-> SumFunction(s)]
  BY DEF Summed
<1>. HIDE DEF t, s
<1>. QED
  BY <1>1, <1>2, SumType DEF Row

(* The days and chats of a period and a scope.                             *)
LEMMA ScoreType ==
    ASSUME RankingAssumption, RankTypeOK, NEW period \in {"today", "week", "overall"},
           NEW scope \in Chats \union {Everywhere}, NEW m \in Members
    PROVE  Score(period, scope, m) \in Row
<1>1. CASE period = "overall"
  BY <1>1 DEF RankTypeOK, UserType, Row, Score
<1>2. CASE period # "overall"
  <2>. DEFINE D == Days(period) \X ChatsIn(scope)
              rows == [dc \in D |-> bucket[dc[1]][dc[2]][m]]
  <2>1. Days(period) \subseteq 0..MaxDays /\ ChatsIn(scope) \subseteq Chats
    BY DEF Days, ChatsIn, RankTypeOK
  <2>2. IsFiniteSet(D)
    <3>1. IsFiniteSet(0..MaxDays) /\ IsFiniteSet(Chats)
      BY FS_Interval DEF RankingAssumption
    <3>2. IsFiniteSet(Days(period)) /\ IsFiniteSet(ChatsIn(scope))
      BY <2>1, <3>1, FS_Subset
    <3>. QED
      BY <3>2, FS_Product
  <2>3. rows \in [D -> Row]
    BY <2>1 DEF RankTypeOK
  <2>4. Score(period, scope, m) = Summed(rows)
    BY <1>2 DEF Score
  <2>. HIDE DEF D, rows
  <2>. QED
    BY <2>2, <2>3, <2>4, SummedType
<1>. QED
  BY <1>1, <1>2

(* How many are ahead is a number.                                         *)
LEMMA AheadType ==
    ASSUME RankingAssumption, NEW period, NEW scope, NEW m, NEW mine
    PROVE  /\ IsFiniteSet(Ahead(period, scope, m, mine))
           /\ Cardinality(Ahead(period, scope, m, mine)) \in Nat
<1>1. Ahead(period, scope, m, mine) \subseteq Members /\ IsFiniteSet(Members)
  BY DEF Ahead, RankingAssumption
<1>. QED
  BY <1>1, FS_Subset, FS_CardinalityType

(* A call moves on, and no other does.                                     *)
LEMMA ListensOn ==
    ASSUME Basics, NEW l \in Listens, NEW x \in ListenType, Listening(l, x),
           listen[l].pc # "unheard", x.who = listen[l].who,
           x.pc # "unheard",
           x.pc = "writing" => x.todo # {},
           x.pc \notin {"writing", "failed"} => x.todo = {},
           x.pc \in {"writing", "counting"} => x.total = 0,
           x.pc \in {"leveling", "telling", "done"} => x.total > 0,
           x.era <= reset.era, reset' = reset
    PROVE  /\ listen' \in [Listens -> ListenType]
           /\ CallsOK'
           /\ Heard' = Heard
           /\ listen'[l] = x
           /\ \A k \in Listens \ {l} : listen'[k] = listen[k]
<1>1. listen \in [Listens -> ListenType]
  BY DEF Basics, RankTypeOK
<1>2. listen'[l] = x /\ \A k \in Listens \ {l} : listen'[k] = listen[k]
  BY <1>1 DEF Listening
<1>3. listen' \in [Listens -> ListenType]
  BY <1>1 DEF Listening
<1>4. CallsOK'
  <2>1. CallsOK
    BY DEF Basics
  <2>2. ASSUME NEW k \in Listens
        PROVE /\ listen'[k].who = NoOne <=> listen'[k].pc = "unheard"
              /\ listen'[k].pc = "writing" => listen'[k].todo # {}
              /\ listen'[k].pc \notin {"writing", "failed"} => listen'[k].todo = {}
              /\ listen'[k].pc \in {"unheard", "writing", "counting"} => listen'[k].total = 0
              /\ listen'[k].pc \in {"leveling", "telling", "done"} => listen'[k].total > 0
              /\ listen'[k].era <= reset.era
    <3>1. CASE k = l
      BY <1>2, <2>1, <3>1 DEF CallsOK
    <3>2. CASE k # l
      BY <1>2, <2>1, <3>2 DEF CallsOK
    <3>. QED
      BY <3>1, <3>2
  <2>. QED
    BY <2>2 DEF CallsOK
<1>5. Heard' = Heard
  BY <1>2 DEF Heard
<1>. QED
  BY <1>2, <1>3, <1>4, <1>5

(* A write has come through.                                               *)
LEMMA WroteIs ==
    ASSUME RankTypeOK, NEW l \in Listens, NEW what \in Writes
    PROVE  /\ Wrote(l, what) \in ListenType
           /\ Wrote(l, what).todo = listen[l].todo \ {what}
           /\ Wrote(l, what).pc = IF listen[l].pc = "writing" /\ listen[l].todo = {what}
                                  THEN "counting" ELSE listen[l].pc
           /\ Wrote(l, what).who = listen[l].who /\ Wrote(l, what).chat = listen[l].chat
           /\ Wrote(l, what).day = listen[l].day /\ Wrote(l, what).total = listen[l].total
           /\ Wrote(l, what).era = listen[l].era
<1>1. listen[l] \in ListenType
  BY DEF RankTypeOK
<1>. QED
  BY <1>1 DEF ListenType, Wrote, Steps


(* One more track is a row of the kind it was added to.                    *)
LEMMA PlusIs ==
    ASSUME NEW s \in Nat
    PROVE  /\ \A row \in Row : Plus(row, s) = [tracks |-> row.tracks + 1, seconds |-> row.seconds + s]
           /\ \A row \in UserType : Plus(row, s) = [tracks |-> row.tracks + 1, seconds |-> row.seconds + s,
                                                   level |-> row.level]
<1>1. ASSUME NEW row \in Row
      PROVE  Plus(row, s) = [tracks |-> row.tracks + 1, seconds |-> row.seconds + s]
  <2>. DEFINE n == row.tracks + 1
              o == row.seconds + s
              half == [row EXCEPT !.tracks = n]
  <2>1. row \in Row
    OBVIOUS
  <2>2. Plus(row, s) = [half EXCEPT !.seconds = o]
    BY DEF Plus
  <2>. HIDE DEF n, o
  <2>3. half = [tracks |-> n, seconds |-> row.seconds]
    BY <2>1 DEF Row
  <2>. HIDE DEF half
  <2>4. [half EXCEPT !.seconds = o] = [tracks |-> n, seconds |-> o]
    BY <2>3
  <2>. QED
    BY <2>2, <2>4 DEF n, o
<1>2. ASSUME NEW row \in UserType
      PROVE  Plus(row, s) = [tracks |-> row.tracks + 1, seconds |-> row.seconds + s, level |-> row.level]
  <2>. DEFINE n == row.tracks + 1
              o == row.seconds + s
              half == [row EXCEPT !.tracks = n]
  <2>1. row \in UserType
    OBVIOUS
  <2>2. Plus(row, s) = [half EXCEPT !.seconds = o]
    BY DEF Plus
  <2>. HIDE DEF n, o
  <2>3. half = [tracks |-> n, seconds |-> row.seconds, level |-> row.level]
    BY <2>1 DEF UserType
  <2>. HIDE DEF half
  <2>4. [half EXCEPT !.seconds = o] = [tracks |-> n, seconds |-> o, level |-> row.level]
    BY <2>3
  <2>. QED
    BY <2>2, <2>4 DEF n, o
<1>. QED
  BY <1>1, <1>2

(* A collection's row grows, and no other does.                            *)
LEMMA BucketLandsAt ==
    ASSUME RankingAssumption, Basics, NEW l \in Listens, BucketLands(l)
    PROVE  /\ Listening(l, Wrote(l, "bucket")) /\ "bucket" \in listen[l].todo
           /\ listen[l].pc \in {"writing", "failed"}
           /\ listen[l].day \in 0..MaxDays /\ listen[l].chat \in Chats /\ listen[l].who \in Members
           /\ Lasts[l] \in Nat
           /\ bucket' \in [0..MaxDays -> [Chats -> [Members -> Row]]]
           /\ \A d \in 0..MaxDays, c \in Chats, m \in Members :
                bucket'[d][c][m] = IF d = listen[l].day /\ c = listen[l].chat /\ m = listen[l].who
                                   THEN Plus(bucket[d][c][m], Lasts[l]) ELSE bucket[d][c][m]
<1>1. listen[l] \in ListenType /\ "bucket" \in listen[l].todo
  BY DEF Basics, RankTypeOK, BucketLands
<1>2. listen[l].pc \in {"writing", "failed"} /\ listen[l].who # NoOne
  BY <1>1 DEF Basics, CallsOK
<1>3. Lasts[l] \in Nat
  BY DEF RankingAssumption
<1>. DEFINE d == listen[l].day
            c == listen[l].chat
            m == listen[l].who
<1>4. d \in 0..MaxDays /\ c \in Chats /\ m \in Members
  BY <1>1, <1>2 DEF ListenType
<1>5. bucket \in [0..MaxDays -> [Chats -> [Members -> Row]]]
  BY DEF Basics, RankTypeOK
<1>6. bucket' = [bucket EXCEPT ![d][c][m] = Plus(bucket[d][c][m], Lasts[l])]
  BY DEF BucketLands
<1>7. Plus(bucket[d][c][m], Lasts[l]) \in Row
  <2>1. bucket[d][c][m] \in Row
    <3>. HIDE DEF d, c, m
    <3>1. bucket[d] \in [Chats -> [Members -> Row]]
      BY <1>4, <1>5
    <3>. QED
      BY <1>4, <3>1
  <2>. DEFINE row == bucket[d][c][m]
  <2>2. row \in Row
    BY <2>1
  <2>. HIDE DEF row
  <2>3. Plus(row, Lasts[l]) = [tracks |-> row.tracks + 1, seconds |-> row.seconds + Lasts[l]]
    BY <1>3, <2>2, PlusIs
  <2>4. row.tracks + 1 \in Nat /\ row.seconds + Lasts[l] \in Nat
    BY <1>3, <2>2 DEF Row
  <2>5. Plus(row, Lasts[l]) \in Row
    BY <2>3, <2>4 DEF Row
  <2>. QED
    BY <2>5 DEF row
<1>8. Listening(l, Wrote(l, "bucket"))
  BY DEF BucketLands
<1>. DEFINE grown == Plus(bucket[d][c][m], Lasts[l])
<1>9. grown \in Row /\ bucket' = [bucket EXCEPT ![d][c][m] = grown]
  BY <1>6, <1>7
<1>10. \A e \in 0..MaxDays, h \in Chats, o \in Members :
          bucket'[e][h][o] = IF e = d /\ h = c /\ o = m THEN grown ELSE bucket[e][h][o]
  <2>. HIDE DEF grown, d, c, m
  <2>. QED
    BY <1>4, <1>5, <1>9
<1>11. bucket' \in [0..MaxDays -> [Chats -> [Members -> Row]]]
  <2>. HIDE DEF grown, d, c, m
  <2>. QED
    BY <1>4, <1>5, <1>9
<1>. QED
  BY <1>1, <1>2, <1>3, <1>4, <1>8, <1>10, <1>11

(* The same for the rows without days.                                     *)
LEMMA TallyLandsAt ==
    ASSUME RankingAssumption, Basics, NEW l \in Listens, TallyLands(l)
    PROVE  /\ Listening(l, Wrote(l, "tally")) /\ "tally" \in listen[l].todo
           /\ listen[l].pc \in {"writing", "failed"}
           /\ listen[l].chat \in Chats /\ listen[l].who \in Members
           /\ Lasts[l] \in Nat
           /\ tally' \in [Chats -> [Members -> Row]]
           /\ \A c \in Chats, m \in Members :
                tally'[c][m] = IF c = listen[l].chat /\ m = listen[l].who
                               THEN Plus(tally[c][m], Lasts[l]) ELSE tally[c][m]
<1>1. listen[l] \in ListenType /\ "tally" \in listen[l].todo
  BY DEF Basics, RankTypeOK, TallyLands
<1>2. listen[l].pc \in {"writing", "failed"} /\ listen[l].who # NoOne
  BY <1>1 DEF Basics, CallsOK
<1>3. Lasts[l] \in Nat
  BY DEF RankingAssumption
<1>. DEFINE c == listen[l].chat
            m == listen[l].who
            grown == Plus(tally[c][m], Lasts[l])
<1>4. c \in Chats /\ m \in Members
  BY <1>1, <1>2 DEF ListenType
<1>5. tally \in [Chats -> [Members -> Row]]
  BY DEF Basics, RankTypeOK
<1>6. tally' = [tally EXCEPT ![c][m] = grown] /\ Listening(l, Wrote(l, "tally"))
  BY DEF TallyLands
<1>7. grown \in Row
  <2>1. tally[c][m] \in Row
    <3>. HIDE DEF c, m
    <3>. QED
      BY <1>4, <1>5
  <2>. QED
    BY <1>3, <2>1, PlusIs DEF Row
<1>8. /\ tally' \in [Chats -> [Members -> Row]]
      /\ \A h \in Chats, o \in Members :
            tally'[h][o] = IF h = c /\ o = m THEN grown ELSE tally[h][o]
  <2>. HIDE DEF grown, c, m
  <2>. QED
    BY <1>4, <1>5, <1>6, <1>7
<1>. QED
  BY <1>1, <1>2, <1>3, <1>4, <1>6, <1>8

(* The user's row counts one more, and the call goes on from what it was   *)
(* told.                                                                   *)
LEMMA CountsAt ==
    ASSUME RankingAssumption, Basics, NEW l \in Listens, Counts(l)
    PROVE  /\ listen[l].pc = "counting" /\ listen[l].todo = {} /\ listen[l].total = 0
           /\ listen[l].who \in Members /\ Lasts[l] \in Nat
           /\ user' \in [Members -> UserType]
           /\ \A m \in Members :
                user'[m] = IF m = listen[l].who THEN Plus(user[m], Lasts[l]) ELSE user[m]
           /\ \E x \in ListenType :
                /\ Listening(l, x)
                /\ x.pc = IF user[listen[l].who].level # LevelFromXp(user[listen[l].who].tracks + 1)
                          THEN "leveling" ELSE "telling"
                /\ x.total = user[listen[l].who].tracks + 1 /\ x.era = reset.era
                /\ x.todo = {} /\ x.who = listen[l].who
<1>1. listen[l] \in ListenType /\ listen[l].pc = "counting" /\ user \in [Members -> UserType]
  BY DEF Basics, RankTypeOK, Counts
<1>2. listen[l].who # NoOne /\ listen[l].todo = {} /\ listen[l].total = 0
  BY <1>1 DEF Basics, CallsOK
<1>3. Lasts[l] \in Nat
  BY DEF RankingAssumption
<1>. DEFINE m == listen[l].who
            row == Plus(user[m], Lasts[l])
            next == IF row.level # LevelFromXp(row.tracks) THEN "leveling" ELSE "telling"
            x == [listen[l] EXCEPT !.pc = next, !.total = row.tracks, !.era = reset.era]
<1>4. m \in Members
  BY <1>1, <1>2 DEF ListenType
<1>5. user[m] \in UserType
  BY <1>1, <1>4
<1>6. row = [tracks |-> user[m].tracks + 1, seconds |-> user[m].seconds + Lasts[l], level |-> user[m].level]
  BY <1>3, <1>5, PlusIs
<1>7. row \in UserType /\ row.tracks = user[m].tracks + 1 /\ row.level = user[m].level /\ row.tracks \in Nat
  <2>. HIDE DEF row, m
  <2>. QED
    BY <1>3, <1>5, <1>6 DEF UserType
<1>8. user' = [user EXCEPT ![m] = row] /\ Listening(l, x)
  BY DEF Counts
<1>9. /\ user' \in [Members -> UserType]
      /\ \A o \in Members : user'[o] = IF o = m THEN row ELSE user[o]
  <2>. HIDE DEF row, m, x
  <2>. QED
    BY <1>1, <1>4, <1>7, <1>8
<1>10. next \in {"leveling", "telling"} /\ reset.era \in Nat
  BY DEF Basics, RankTypeOK
<1>11. x \in ListenType /\ x.pc = next /\ x.total = row.tracks /\ x.era = reset.era
       /\ x.todo = {} /\ x.who = m
  <2>. HIDE DEF row, next
  <2>. QED
    BY <1>1, <1>2, <1>7, <1>10 DEF ListenType, Steps
<1>12. next = IF user[m].level # LevelFromXp(user[m].tracks + 1) THEN "leveling" ELSE "telling"
  BY <1>7
<1>. HIDE DEF x, next, row
<1>13. \E y \in ListenType :
                /\ Listening(l, y)
                /\ y.pc = IF user[m].level # LevelFromXp(user[m].tracks + 1) THEN "leveling" ELSE "telling"
                /\ y.total = user[m].tracks + 1 /\ y.era = reset.era
                /\ y.todo = {} /\ y.who = m
  BY <1>7, <1>8, <1>11, <1>12
<1>14. \A o \in Members : user'[o] = IF o = m THEN Plus(user[o], Lasts[l]) ELSE user[o]
  BY <1>9 DEF row
<1>. QED
  BY <1>1, <1>2, <1>3, <1>4, <1>9, <1>13, <1>14

(* The level is stored.                                                    *)
LEMMA LevelsAt ==
    ASSUME RankingAssumption, Basics, NEW l \in Listens, Levels(l)
    PROVE  /\ listen[l].pc = "leveling" /\ listen[l].who \in Members
           /\ listen[l].total \in Nat \ {0} /\ LevelOf(l) \in Nat
           /\ user' \in [Members -> UserType]
           /\ \A m \in Members \ {listen[l].who} : user'[m] = user[m]
           /\ user'[listen[l].who].tracks = user[listen[l].who].tracks
           /\ user'[listen[l].who].seconds = user[listen[l].who].seconds
           /\ user'[listen[l].who].level = LevelOf(l)
<1>1. listen[l] \in ListenType /\ listen[l].pc = "leveling" /\ user \in [Members -> UserType]
  BY DEF Basics, RankTypeOK, Levels
<1>2. listen[l].who # NoOne /\ listen[l].total > 0
  BY <1>1 DEF Basics, CallsOK
<1>. DEFINE m == listen[l].who
            v == LevelOf(l)
<1>3. m \in Members /\ listen[l].total \in Nat \ {0}
  BY <1>1, <1>2 DEF ListenType
<1>4. v \in Nat
  BY <1>3, LevelIs DEF LevelOf
<1>5. user' = [user EXCEPT ![m].level = v]
  BY DEF Levels
<1>6. user[m] \in UserType
  BY <1>1, <1>3
<1>. HIDE DEF m, v
<1>7. user' = [user EXCEPT ![m] = [user[m] EXCEPT !.level = v]]
  BY <1>5
<1>. DEFINE row == [user[m] EXCEPT !.level = v]
<1>8. row \in UserType /\ row.tracks = user[m].tracks /\ row.seconds = user[m].seconds /\ row.level = v
  BY <1>4, <1>6 DEF UserType
<1>. HIDE DEF row
<1>9. user' = [user EXCEPT ![m] = row]
  BY <1>7 DEF row
<1>10. user' \in [Members -> UserType] /\ user'[m] = row /\ \A o \in Members \ {m} : user'[o] = user[o]
  BY <1>1, <1>3, <1>8, <1>9
<1>. QED
  BY <1>1, <1>3, <1>4, <1>8, <1>10 DEF m, v

(* A call is credited: it is the first there is of it.                     *)
LEMMA CreditedAt ==
    ASSUME RankingAssumption, Basics, NEW l \in Listens, Credited(l)
    PROVE  /\ listen[l].pc = "unheard" /\ listen[l].who = NoOne /\ listen[l].total = 0
           /\ listen' \in [Listens -> ListenType]
           /\ \A k \in Listens \ {l} : listen'[k] = listen[k]
           /\ listen'[l].pc = "writing" /\ listen'[l].who \in Members /\ listen'[l].todo = Writes
           /\ listen'[l].total = 0 /\ listen'[l].era = listen[l].era
           /\ raced' = IF reset.todo # {} THEN raced \union {listen'[l].who} ELSE raced
<1>1. listen[l] \in ListenType /\ listen[l].pc = "unheard" /\ listen \in [Listens -> ListenType]
      /\ today \in 0..MaxDays
  BY DEF Basics, RankTypeOK, Credited
<1>2. listen[l].who = NoOne /\ listen[l].total = 0
  BY <1>1 DEF Basics, CallsOK
<1>3. PICK m \in Members, c \in Chats :
        /\ Listening(l, [listen[l] EXCEPT !.pc = "writing", !.who = m, !.chat = c, !.day = today,
                                          !.todo = {"bucket", "tally"}])
        /\ raced' = IF reset.todo # {} THEN raced \cup {m} ELSE raced
  BY DEF Credited
<1>. DEFINE x == [listen[l] EXCEPT !.pc = "writing", !.who = m, !.chat = c, !.day = today,
                                   !.todo = {"bucket", "tally"}]
<1>4. x \in ListenType /\ x.pc = "writing" /\ x.who = m /\ x.todo = Writes
      /\ x.total = listen[l].total /\ x.era = listen[l].era
  BY <1>1 DEF ListenType, Steps, Writes
<1>5. Listening(l, x)
  BY <1>3
<1>. HIDE DEF x
<1>6. /\ listen' \in [Listens -> ListenType] /\ listen'[l] = x
      /\ \A k \in Listens \ {l} : listen'[k] = listen[k]
  BY <1>1, <1>4, <1>5 DEF Listening
<1>. QED
  BY <1>1, <1>2, <1>3, <1>4, <1>6

(* What a part of /resetrank empties.                                      *)
LEMMA ResetLandsAt ==
    ASSUME RankingAssumption, Basics, NEW what \in Parts, ResetLands(what)
    PROVE  /\ what \in reset.todo /\ reset.era \in Nat
           /\ reset'.todo = reset.todo \ {what}
           /\ reset'.era = IF what = "users" THEN reset.era + 1 ELSE reset.era
           /\ reset' \in [todo : SUBSET Parts, era : Nat]
           /\ bucket' \in [0..MaxDays -> [Chats -> [Members -> Row]]]
           /\ tally' \in [Chats -> [Members -> Row]]
           /\ user' \in [Members -> UserType]
           /\ what = "users" => \A m \in Members : user'[m] = [tracks |-> 0, seconds |-> 0, level |-> -1]
           /\ what # "users" => user' = user
           /\ what = "tallies" => \A c \in Chats, m \in Members : tally'[c][m] = Nothing
           /\ what # "tallies" => tally' = tally
           /\ what = "buckets" => \A d \in 0..MaxDays, c \in Chats, m \in Members : bucket'[d][c][m] = Nothing
           /\ what # "buckets" => bucket' = bucket
<1>1. reset \in [todo : SUBSET Parts, era : Nat] /\ RankTypeOK
  BY DEF Basics, RankTypeOK
<1>2. reset' = [todo |-> reset.todo \ {what}, era |-> IF what = "users" THEN reset.era + 1 ELSE reset.era]
      /\ what \in reset.todo
  BY DEF ResetLands
<1>3. Nothing \in Row
  BY DEF Nothing, Row
<1>4. bucket' = IF what = "buckets" THEN [d \in 0..MaxDays |-> [c \in Chats |-> [m \in Members |-> Nothing]]]
                ELSE bucket
  BY DEF ResetLands
<1>5. tally' = IF what = "tallies" THEN [c \in Chats |-> [m \in Members |-> Nothing]] ELSE tally
  BY DEF ResetLands
<1>6. user' = IF what = "users" THEN [m \in Members |-> [tracks |-> 0, seconds |-> 0, level |-> -1]] ELSE user
  BY DEF ResetLands
<1>7. bucket' \in [0..MaxDays -> [Chats -> [Members -> Row]]]
  BY <1>1, <1>3, <1>4 DEF RankTypeOK
<1>8. tally' \in [Chats -> [Members -> Row]]
  BY <1>1, <1>3, <1>5 DEF RankTypeOK
<1>9. user' \in [Members -> UserType]
  <2>1. [tracks |-> 0, seconds |-> 0, level |-> -1] \in UserType
    BY DEF UserType
  <2>. DEFINE gone == [tracks |-> 0, seconds |-> 0, level |-> -1]
  <2>. HIDE DEF gone
  <2>2. user' = IF what = "users" THEN [m \in Members |-> gone] ELSE user
    BY <1>6 DEF gone
  <2>3. gone \in UserType
    BY <2>1 DEF gone
  <2>. QED
    BY <1>1, <2>2, <2>3 DEF RankTypeOK
<1>10. reset' \in [todo : SUBSET Parts, era : Nat]
  BY <1>1, <1>2
<1>. QED
  BY <1>1, <1>2, <1>4, <1>5, <1>6, <1>7, <1>8, <1>9, <1>10

(* The steps of one call.                                                  *)
LEMMA ListenBasics ==
    ASSUME RankingAssumption, Basics, NEW l \in Listens, ListenStep(l)
    PROVE  Basics' /\ Heard' = Heard
<1>1. RankTypeOK /\ CallsOK /\ IsFiniteSet(Heard)
  BY DEF Basics
<1>2. listen \in [Listens -> ListenType] /\ listen[l] \in ListenType /\ reset.era \in Nat
  BY <1>1 DEF RankTypeOK
<1>. DEFINE Rest == /\ today' = today /\ reset' = reset /\ look' = look /\ raced' = raced
                    /\ troubles' \in Nat
                    /\ bucket' \in [0..MaxDays -> [Chats -> [Members -> Row]]]
                    /\ tally' \in [Chats -> [Members -> Row]]
                    /\ user' \in [Members -> UserType]
                    /\ overtaken' \subseteq Members
            Goes == /\ listen' \in [Listens -> ListenType] /\ CallsOK' /\ Heard' = Heard
<1>3. Rest /\ Goes => Basics' /\ Heard' = Heard
  BY <1>1 DEF Basics, RankTypeOK
<1>4. ASSUME NEW what \in Writes, what \in listen[l].todo
      PROVE  /\ Listening(l, Wrote(l, what)) /\ reset' = reset => Goes
  <2>1. listen[l].pc \in {"writing", "failed"} /\ listen[l].era <= reset.era
    BY <1>1, <1>2, <1>4 DEF CallsOK
  <2>2. listen[l].pc = "writing" => listen[l].total = 0
    BY <1>1 DEF CallsOK
  <2>. DEFINE x == Wrote(l, what)
  <2>3. /\ x \in ListenType /\ x.who = listen[l].who /\ x.total = listen[l].total /\ x.era = listen[l].era
        /\ x.todo = listen[l].todo \ {what}
        /\ x.pc = IF listen[l].pc = "writing" /\ listen[l].todo = {what} THEN "counting" ELSE listen[l].pc
    BY <1>1, WroteIs
  <2>. HIDE DEF x
  <2>4. x.pc \in {"writing", "counting", "failed"}
    BY <2>1, <2>3
  <2>5. x.pc = "writing" => x.todo # {}
    BY <1>4, <2>1, <2>3
  <2>6. x.pc = "counting" => x.todo = {} /\ x.total = 0
    BY <1>4, <2>1, <2>2, <2>3
  <2>7. x.pc = "writing" => x.total = 0
    BY <2>1, <2>2, <2>3
  <2>. HIDE DEF Goes
  <2>8. SUFFICES ASSUME Listening(l, x), reset' = reset PROVE Goes
    BY DEF x
  <2>9. listen[l].pc # "unheard"
    BY <2>1
  <2>. QED
    BY <1>2, <2>1, <2>3, <2>4, <2>5, <2>6, <2>7, <2>8, <2>9, ListensOn DEF Goes
<1>5. CASE BucketLands(l)
  <2>1. Goes
    <3>1. "bucket" \in listen[l].todo /\ Listening(l, Wrote(l, "bucket")) /\ reset' = reset
      BY <1>5 DEF BucketLands
    <3>. HIDE DEF Goes
    <3>. QED
      BY <1>4, <3>1 DEF Writes
  <2>2. Rest
    BY <1>1, <1>5, BucketLandsAt DEF BucketLands, RankTypeOK
  <2>. QED
    BY <1>3, <2>1, <2>2
<1>6. CASE TallyLands(l)
  <2>1. Goes
    <3>1. "tally" \in listen[l].todo /\ Listening(l, Wrote(l, "tally")) /\ reset' = reset
      BY <1>6 DEF TallyLands
    <3>. HIDE DEF Goes
    <3>. QED
      BY <1>4, <3>1 DEF Writes
  <2>2. Rest
    BY <1>1, <1>6, TallyLandsAt DEF TallyLands, RankTypeOK
  <2>. QED
    BY <1>3, <2>1, <2>2
<1>7. CASE WriteFails(l)
  <2>1. PICK what \in listen[l].todo :
            Listening(l, [listen[l] EXCEPT !.todo = listen[l].todo \ {what}, !.pc = "failed"])
    BY <1>7 DEF WriteFails
  <2>. DEFINE x == [listen[l] EXCEPT !.todo = listen[l].todo \ {what}, !.pc = "failed"]
  <2>2. x \in ListenType /\ x.who = listen[l].who /\ x.pc = "failed" /\ x.era = listen[l].era
    BY <1>2 DEF ListenType, Steps
  <2>3. listen[l].pc # "unheard" /\ listen[l].era <= reset.era
    BY <1>1, <2>1 DEF CallsOK
  <2>4. Goes
    <3>1. Listening(l, x) /\ reset' = reset
      BY <1>7, <2>1 DEF WriteFails
    <3>. HIDE DEF x
    <3>. QED
      BY <2>2, <2>3, <3>1, ListensOn
  <2>5. Rest
    BY <1>1, <1>7 DEF WriteFails, RankTypeOK, Trouble
  <2>. QED
    BY <1>3, <2>4, <2>5
<1>8. CASE Counts(l)
  <2>1. PICK x \in ListenType :
                /\ Listening(l, x) /\ x.pc \in {"leveling", "telling"}
                /\ x.total = user[listen[l].who].tracks + 1 /\ x.era = reset.era
                /\ x.todo = {} /\ x.who = listen[l].who
    BY <1>8, CountsAt
  <2>2. listen[l].who \in Members /\ listen[l].pc = "counting"
    BY <1>8, CountsAt
  <2>3. x.total > 0
    <3>1. user[listen[l].who] \in UserType
      BY <1>1, <2>2 DEF RankTypeOK
    <3>2. user[listen[l].who].tracks \in Nat
      BY <3>1 DEF UserType
    <3>. QED
      BY <2>1, <3>2
  <2>4. Goes
    <3>1. reset' = reset
      BY <1>8 DEF Counts
    <3>2. listen[l].pc # "unheard" /\ x.who = listen[l].who /\ x.pc # "unheard"
      BY <2>1, <2>2
    <3>3. (x.pc = "writing" => x.todo # {}) /\ (x.pc \notin {"writing", "failed"} => x.todo = {})
      BY <2>1
    <3>4. /\ x.pc \in {"writing", "counting"} => x.total = 0
          /\ x.pc \in {"leveling", "telling", "done"} => x.total > 0
      BY <2>1, <2>3
    <3>5. x.era <= reset.era
      <4>1. x.era \in Nat
        BY DEF ListenType
      <4>. QED
        BY <2>1, <4>1
    <3>6. Listening(l, x)
      BY <2>1
    <3>. QED
      BY <1>2, <3>1, <3>2, <3>3, <3>4, <3>5, <3>6, ListensOn
  <2>5. Rest
    BY <1>1, <1>8, CountsAt DEF Counts, RankTypeOK
  <2>. QED
    BY <1>3, <2>4, <2>5
<1>9. CASE Levels(l)
  <2>. DEFINE x == [listen[l] EXCEPT !.pc = "telling"]
  <2>1. listen[l].pc = "leveling" /\ listen[l].total > 0 /\ listen[l].todo = {} /\ listen[l].era <= reset.era
    BY <1>1, <1>9 DEF Levels, CallsOK
  <2>2. x \in ListenType /\ x.who = listen[l].who /\ x.pc = "telling" /\ x.era = listen[l].era
        /\ x.total = listen[l].total /\ x.todo = listen[l].todo
    BY <1>2 DEF ListenType, Steps
  <2>3. Goes
    <3>1. Listening(l, x) /\ reset' = reset
      BY <1>9 DEF Levels
    <3>. HIDE DEF x
    <3>. QED
      BY <2>1, <2>2, <3>1, ListensOn
  <2>4. overtaken' \subseteq Members
    <3>1. listen[l].who \in Members
      BY <1>9, LevelsAt
    <3>2. overtaken' \subseteq overtaken \union {listen[l].who}
      BY <1>9 DEF Levels
    <3>. QED
      BY <1>1, <3>1, <3>2 DEF RankTypeOK
  <2>5. Rest
    BY <1>1, <1>9, <2>4, LevelsAt DEF Levels, RankTypeOK
  <2>. QED
    BY <1>3, <2>3, <2>5
<1>10. CASE CountFails(l)
  <2>. DEFINE x == [listen[l] EXCEPT !.pc = "failed"]
  <2>1. listen[l].pc # "unheard" /\ listen[l].era <= reset.era
    BY <1>1, <1>10 DEF CountFails, CallsOK
  <2>2. x \in ListenType /\ x.who = listen[l].who /\ x.pc = "failed" /\ x.era = listen[l].era
    BY <1>2 DEF ListenType, Steps
  <2>3. Goes
    <3>1. Listening(l, x) /\ reset' = reset
      BY <1>10 DEF CountFails
    <3>. HIDE DEF x
    <3>. QED
      BY <2>1, <2>2, <3>1, ListensOn
  <2>4. Rest
    BY <1>1, <1>10 DEF CountFails, RankTypeOK, Trouble
  <2>. QED
    BY <1>3, <2>3, <2>4
<1>11. CASE Tells(l)
  <2>. DEFINE x == [listen[l] EXCEPT !.pc = "done"]
  <2>1. listen[l].pc = "telling" /\ listen[l].total > 0 /\ listen[l].todo = {} /\ listen[l].era <= reset.era
    BY <1>1, <1>11 DEF Tells, CallsOK
  <2>2. x \in ListenType /\ x.who = listen[l].who /\ x.pc = "done" /\ x.era = listen[l].era
        /\ x.total = listen[l].total /\ x.todo = listen[l].todo
    BY <1>2 DEF ListenType, Steps
  <2>3. Goes
    <3>1. Listening(l, x) /\ reset' = reset
      BY <1>11 DEF Tells
    <3>. HIDE DEF x
    <3>. QED
      BY <2>1, <2>2, <3>1, ListensOn
  <2>4. Rest
    BY <1>1, <1>11 DEF Tells, RankTypeOK
  <2>. QED
    BY <1>3, <2>3, <2>4
<1>. HIDE DEF Rest, Goes
<1>. QED
  BY <1>5, <1>6, <1>7, <1>8, <1>9, <1>10, <1>11 DEF ListenStep

\* What the ranks of members depend on, and looking them up does not change.
Books == <<bucket, tally, user, listen, reset, raced, overtaken>>

(* Looking up ranks, and midnight.                                         *)
LEMMA LooksBasics ==
    ASSUME RankingAssumption, Basics, Midnight \/ LooksUp \/ LooksUpSeconds \/ Ranks
    PROVE  Basics' /\ UNCHANGED Books
<1>1. RankTypeOK /\ CallsOK /\ IsFiniteSet(Heard)
  BY DEF Basics
<1>2. look \in LookType /\ (look.pc # "told" => look.who \in Members)
  BY <1>1 DEF RankTypeOK
<1>3. UNCHANGED Books
  BY DEF Books, Midnight, LooksUp, LooksUpSeconds, Ranks
<1>. DEFINE Looks == look' \in LookType /\ (look'.pc # "told" => look'.who \in Members)
            Calm == today' \in 0..MaxDays /\ troubles' \in Nat
<1>4. Looks /\ Calm => Basics'
  <2>1. SUFFICES ASSUME Looks, Calm PROVE Basics'
    OBVIOUS
  <2>2. RankTypeOK'
    BY <1>1, <1>3, <2>1 DEF RankTypeOK, Books
  <2>3. CallsOK' /\ Heard' = Heard
    BY <1>1, <1>3 DEF CallsOK, Books, Heard
  <2>. QED
    BY <1>1, <2>2, <2>3 DEF Basics
<1>5. CASE Midnight
  <2>1. Calm
    BY <1>1, <1>5 DEF Midnight, Trouble, RankTypeOK, RankingAssumption
  <2>2. Looks
    BY <1>2, <1>5 DEF Midnight
  <2>. QED
    BY <1>3, <1>4, <2>1, <2>2
<1>6. CASE LooksUp
  <2>1. Calm
    <3>1. today' = today /\ Trouble
      BY <1>6 DEF LooksUp
    <3>. QED
      BY <1>1, <3>1 DEF Trouble, RankTypeOK
  <2>2. PICK period \in {"today", "week", "overall"}, scope \in Chats \union {Everywhere}, m \in Members :
            LET row == Score(period, scope, m)
            IN  \/ look' = [look EXCEPT !.pc = "counting", !.period = period, !.scope = scope, !.who = m,
                                        !.mine = row]
                \/ look' = [look EXCEPT !.pc = "tracks", !.period = period, !.scope = scope, !.who = m,
                                        !.mine = [tracks |-> row.tracks, seconds |-> 0]]
    BY <1>6 DEF LooksUp
  <2>. DEFINE row == Score(period, scope, m)
              half == [tracks |-> row.tracks, seconds |-> 0]
  <2>3. row \in Row /\ half \in Row
    <3>1. row \in Row
      BY <1>1, ScoreType
    <3>. HIDE DEF row
    <3>. QED
      BY <3>1 DEF Row
  <2>4. \/ look' = [look EXCEPT !.pc = "counting", !.period = period, !.scope = scope, !.who = m, !.mine = row]
        \/ look' = [look EXCEPT !.pc = "tracks", !.period = period, !.scope = scope, !.who = m, !.mine = half]
    BY <2>2
  <2>. HIDE DEF row, half
  <2>5. Looks
    BY ZenonT(40), <1>2, <2>3, <2>4 DEF LookType
  <2>. QED
    BY <1>3, <1>4, <2>1, <2>5
<1>7. CASE LooksUpSeconds
  <2>1. Calm
    BY <1>1, <1>7 DEF LooksUpSeconds, RankTypeOK
  <2>. DEFINE row == [tracks |-> look.mine.tracks, seconds |-> Score(look.period, look.scope, look.who).seconds]
  <2>2. row \in Row
    <3>1. look.who \in Members /\ look.mine \in Row /\ look.period \in {"today", "week", "overall"}
          /\ look.scope \in Chats \union {Everywhere}
      BY <1>2, <1>7 DEF LooksUpSeconds, LookType
    <3>. DEFINE score == Score(look.period, look.scope, look.who)
    <3>2. score \in Row
      BY <1>1, <3>1, ScoreType
    <3>. HIDE DEF score
    <3>3. [tracks |-> look.mine.tracks, seconds |-> score.seconds] \in Row
      BY <3>1, <3>2 DEF Row
    <3>. QED
      BY <3>3 DEF score
  <2>3. look' = [look EXCEPT !.pc = "counting", !.mine = row] /\ look.pc = "tracks"
    BY <1>7 DEF LooksUpSeconds
  <2>. HIDE DEF row
  <2>4. Looks
    BY <1>2, <2>2, <2>3 DEF LookType
  <2>. QED
    BY <1>3, <1>4, <2>1, <2>4
<1>8. CASE Ranks
  <2>1. Calm
    BY <1>1, <1>8 DEF Ranks, RankTypeOK
  <2>. DEFINE rank == IF look.mine = Nothing THEN 0
                      ELSE 1 + Cardinality(Ahead(look.period, look.scope, look.who, look.mine))
  <2>2. rank \in Nat
    <3>. DEFINE n == Cardinality(Ahead(look.period, look.scope, look.who, look.mine))
    <3>1. n \in Nat
      BY AheadType
    <3>. HIDE DEF n
    <3>2. (IF look.mine = Nothing THEN 0 ELSE 1 + n) \in Nat
      BY <3>1
    <3>. QED
      BY <3>2 DEF n
  <2>3. look' = Told(rank)
    BY <1>8 DEF Ranks
  <2>. HIDE DEF rank
  <2>4. Looks
    BY <2>2, <2>3 DEF Told, LookType, Nothing, Row
  <2>. QED
    BY <1>3, <1>4, <2>1, <2>4
<1>. QED
  BY <1>5, <1>6, <1>7, <1>8

(* A listener is credited: one call more is heard of.                      *)
LEMMA CreditedBasics ==
    ASSUME RankingAssumption, Basics, NEW l \in Listens, Credited(l)
    PROVE  Basics' /\ Heard' = Heard \union {l} /\ l \notin Heard
<1>1. RankTypeOK /\ CallsOK /\ IsFiniteSet(Heard)
  BY DEF Basics
<1>2. /\ listen[l].pc = "unheard" /\ listen[l].who = NoOne /\ listen[l].total = 0
      /\ listen' \in [Listens -> ListenType]
      /\ \A k \in Listens \ {l} : listen'[k] = listen[k]
      /\ listen'[l].pc = "writing" /\ listen'[l].who \in Members /\ listen'[l].todo = Writes
      /\ listen'[l].total = 0 /\ listen'[l].era = listen[l].era
      /\ raced' = IF reset.todo # {} THEN raced \union {listen'[l].who} ELSE raced
  BY CreditedAt
<1>3. Heard' = Heard \union {l} /\ l \notin Heard
  <2>1. ASSUME NEW k \in Listens PROVE k \in Heard' <=> k \in Heard \union {l}
    <3>1. CASE k = l
      BY <1>2, <3>1 DEF Heard
    <3>2. CASE k # l
      BY <1>2, <3>2 DEF Heard
    <3>. QED
      BY <3>1, <3>2
  <2>2. Heard' \subseteq Listens /\ Heard \subseteq Listens /\ l \notin Heard
    BY <1>2 DEF Heard
  <2>. QED
    BY <2>1, <2>2
<1>4. IsFiniteSet(Heard')
  BY <1>1, <1>3, FS_AddElement
<1>5. CallsOK'
  <2>1. reset' = reset
    BY DEF Credited
  <2>2. listen'[l].who # NoOne
    BY <1>2 DEF NoOne, RankingAssumption
  <2>3. ASSUME NEW k \in Listens
        PROVE /\ listen'[k].who = NoOne <=> listen'[k].pc = "unheard"
              /\ listen'[k].pc = "writing" => listen'[k].todo # {}
              /\ listen'[k].pc \notin {"writing", "failed"} => listen'[k].todo = {}
              /\ listen'[k].pc \in {"unheard", "writing", "counting"} => listen'[k].total = 0
              /\ listen'[k].pc \in {"leveling", "telling", "done"} => listen'[k].total > 0
              /\ listen'[k].era <= reset.era
    <3>1. CASE k = l
      BY <1>1, <1>2, <2>2, <3>1 DEF CallsOK, Writes
    <3>2. CASE k # l
      BY <1>1, <1>2, <3>2 DEF CallsOK
    <3>. QED
      BY <3>1, <3>2
  <2>. QED
    BY <2>1, <2>3 DEF CallsOK
<1>6. RankTypeOK'
  BY <1>1, <1>2 DEF RankTypeOK, Credited
<1>. QED
  BY <1>3, <1>4, <1>5, <1>6 DEF Basics

(* /resetrank.                                                             *)
LEMMA ResetBasics ==
    ASSUME RankingAssumption, Basics, Resets \/ ResetFails \/ (\E what \in Parts : ResetLands(what))
    PROVE  /\ Basics' /\ listen' = listen /\ Heard' = Heard /\ overtaken' = overtaken
           /\ raced \subseteq raced'
<1>1. RankTypeOK /\ CallsOK /\ IsFiniteSet(Heard)
  BY DEF Basics
<1>2. reset \in [todo : SUBSET Parts, era : Nat] /\ listen \in [Listens -> ListenType]
  BY <1>1 DEF RankTypeOK
<1>3. listen' = listen /\ Heard' = Heard
  BY DEF Resets, ResetFails, ResetLands, Heard
<1>. DEFINE Later == reset' \in [todo : SUBSET Parts, era : Nat] /\ reset.era <= reset'.era
<1>4. Later => CallsOK'
  <2>1. SUFFICES ASSUME Later PROVE CallsOK'
    OBVIOUS
  <2>2. \A l \in Listens : listen[l].era <= reset'.era
    BY <1>1, <1>2, <2>1 DEF CallsOK, ListenType
  <2>. QED
    BY <1>1, <1>3, <2>2 DEF CallsOK
<1>5. CASE Resets
  <2>1. Later
    BY <1>2, <1>5 DEF Resets, Parts
  <2>2. raced \subseteq raced' /\ raced' \subseteq Members
    <3>1. \A l \in Listens : UnderWay(l) => listen[l].who \in Members
      BY <1>1, <1>2 DEF CallsOK, UnderWay, ListenType
    <3>. QED
      BY <1>1, <1>5, <3>1 DEF Resets, RankTypeOK
  <2>3. RankTypeOK'
    BY <1>1, <1>5, <2>1, <2>2 DEF Resets, RankTypeOK, Trouble
  <2>. QED
    BY <1>1, <1>3, <1>4, <1>5, <2>1, <2>2, <2>3 DEF Basics, Resets
<1>6. CASE ResetFails
  <2>1. Later
    BY <1>2, <1>6 DEF ResetFails
  <2>2. raced \subseteq raced' /\ raced' \subseteq Members
    BY <1>1, <1>6 DEF ResetFails, RankTypeOK
  <2>3. RankTypeOK'
    BY <1>1, <1>6, <2>1, <2>2 DEF ResetFails, RankTypeOK, Trouble
  <2>. QED
    BY <1>1, <1>3, <1>4, <1>6, <2>1, <2>2, <2>3 DEF Basics, ResetFails
<1>7. CASE \E what \in Parts : ResetLands(what)
  <2>1. PICK what \in Parts : ResetLands(what)
    BY <1>7
  <2>2. /\ reset' \in [todo : SUBSET Parts, era : Nat] /\ reset.era \in Nat
        /\ reset'.era = IF what = "users" THEN reset.era + 1 ELSE reset.era
        /\ bucket' \in [0..MaxDays -> [Chats -> [Members -> Row]]]
        /\ tally' \in [Chats -> [Members -> Row]]
        /\ user' \in [Members -> UserType]
    BY <2>1, ResetLandsAt
  <2>3. Later
    BY <2>2
  <2>4. RankTypeOK'
    BY <1>1, <2>1, <2>2 DEF ResetLands, RankTypeOK
  <2>. QED
    BY <1>1, <1>3, <1>4, <2>1, <2>3, <2>4 DEF Basics, ResetLands
<1>. QED
  BY <1>5, <1>6, <1>7

-----------------------------------------------------------------------------
(* The counts that were handed back.                                       *)

(* What a member began with.                                               *)
LEMMA BeforeType ==
    ASSUME RankingAssumption, NEW m \in Members
    PROVE  Before(m) \in Row
  BY DEF RankingAssumption, Before, Past, Nothing, Row

(* Nothing is counted.                                                     *)
LEMMA NumbersStay ==
    ASSUME RankingAssumption, Basics, Basics', Numbered, reset'.era = reset.era,
           \A m \in Members : user'[m].tracks = user[m].tracks,
           \A l \in Listens : /\ listen'[l].total = listen[l].total
                              /\ listen[l].total > 0 => /\ listen'[l].who = listen[l].who
                                                        /\ listen'[l].era = listen[l].era
    PROVE  Numbered'
<1>1. SUFFICES ASSUME NEW m \in Members PROVE NumberedFor(m)'
  BY DEF Numbered
<1>2. CountedFor(m)' = CountedFor(m)
  <2>1. CountedFor(m) = {l \in Listens : listen[l].who = m /\ listen[l].total > 0 /\ listen[l].era = reset.era}
    BY DEF CountedFor, ListensOf
  <2>2. CountedFor(m)' = {l \in Listens : listen'[l].who = m /\ listen'[l].total > 0 /\ listen'[l].era = reset'.era}
    BY DEF CountedFor, ListensOf
  <2>. QED
    BY <2>1, <2>2
<1>3. Before(m)' = Before(m)
  BY DEF Before, Past
<1>4. \A l \in CountedFor(m) : listen'[l].total = listen[l].total
  BY DEF CountedFor, ListensOf
<1>5. NumberedFor(m)
  BY DEF Numbered
<1>6. user'[m].tracks = user[m].tracks
  OBVIOUS
<1>7. /\ Before(m)'.tracks <= user'[m].tracks
      /\ \A l \in CountedFor(m)' :
            Before(m)'.tracks < listen'[l].total /\ listen'[l].total <= user'[m].tracks
  BY <1>2, <1>3, <1>4, <1>5, <1>6 DEF NumberedFor
<1>8. \A l, k \in CountedFor(m)' : listen'[l].total = listen'[k].total => l = k
  BY <1>2, <1>4, <1>5 DEF NumberedFor
<1>9. \A n \in (Before(m)'.tracks + 1)..user'[m].tracks : \E l \in CountedFor(m)' : listen'[l].total = n
  BY <1>2, <1>3, <1>4, <1>5, <1>6 DEF NumberedFor
<1>. QED
  BY <1>7, <1>8, <1>9 DEF NumberedFor

(* One listen is counted, and gets the next number.                        *)
LEMMA NumbersCount ==
    ASSUME RankingAssumption, Basics, Basics', Numbered, NEW l \in Listens, Counts(l)
    PROVE  Numbered'
<1>1. listen[l].pc = "counting" /\ listen[l].total = 0 /\ listen[l].who \in Members /\ Lasts[l] \in Nat
      /\ \A m \in Members : user'[m] = IF m = listen[l].who THEN Plus(user[m], Lasts[l]) ELSE user[m]
  BY CountsAt
<1>2. PICK x \in ListenType :
            /\ Listening(l, x)
            /\ x.total = user[listen[l].who].tracks + 1 /\ x.era = reset.era /\ x.who = listen[l].who
  BY CountsAt
<1>3. listen'[l] = x /\ \A k \in Listens \ {l} : listen'[k] = listen[k]
  BY <1>2 DEF Listening, Basics, RankTypeOK
<1>4. reset' = reset
  BY DEF Counts
<1>5. SUFFICES ASSUME NEW m \in Members PROVE NumberedFor(m)'
  BY DEF Numbered
<1>6. Before(m)' = Before(m) /\ Before(m).tracks \in Nat
  BY <1>4, BeforeType DEF Before, Past, Row
<1>7. NumberedFor(m)
  BY DEF Numbered
<1>8. CountedFor(m) = {k \in Listens : listen[k].who = m /\ listen[k].total > 0 /\ listen[k].era = reset.era}
  BY DEF CountedFor, ListensOf
<1>9. CountedFor(m)' = {k \in Listens : listen'[k].who = m /\ listen'[k].total > 0 /\ listen'[k].era = reset.era}
  BY <1>4 DEF CountedFor, ListensOf
<1>10. l \notin CountedFor(m)
  BY <1>1, <1>8
<1>11. user[m] \in UserType /\ user[m].tracks \in Nat
  BY DEF Basics, RankTypeOK, UserType
<1>12. CASE m # listen[l].who
  <2>1. CountedFor(m)' = CountedFor(m)
    BY <1>2, <1>3, <1>8, <1>9, <1>12, <1>10
  <2>2. user'[m] = user[m]
    BY <1>1, <1>12
  <2>3. \A k \in CountedFor(m) : listen'[k] = listen[k]
    BY <1>3, <1>8, <1>10
  <2>. QED
    BY <1>6, <1>7, <2>1, <2>2, <2>3 DEF NumberedFor
<1>13. CASE m = listen[l].who
  <2>. DEFINE n == user[m].tracks
  <2>1. user'[m].tracks = n + 1
    BY <1>1, <1>11, <1>13, PlusIs
  <2>2. listen'[l].total = n + 1 /\ listen'[l].who = m /\ listen'[l].era = reset.era /\ n \in Nat
    BY <1>2, <1>3, <1>11, <1>13
  <2>3. CountedFor(m)' = CountedFor(m) \union {l}
    <3>1. \A k \in Listens \ {l} : k \in CountedFor(m)' <=> k \in CountedFor(m)
      BY <1>3, <1>8, <1>9
    <3>2. l \in CountedFor(m)' /\ CountedFor(m)' \subseteq Listens /\ CountedFor(m) \subseteq Listens
      BY <1>8, <1>9, <2>2
    <3>. QED
      BY <3>1, <3>2
  <2>4. \A k \in CountedFor(m) : listen'[k] = listen[k] /\ listen[k].total \in Nat
    BY <1>3, <1>8, <1>10 DEF Basics, RankTypeOK, ListenType
  <2>. DEFINE b == Before(m).tracks
  <2>5. /\ b <= n
        /\ \A k \in CountedFor(m) : b < listen[k].total /\ listen[k].total <= n
        /\ \A k, j \in CountedFor(m) : listen[k].total = listen[j].total => k = j
        /\ \A i \in (b + 1)..n : \E k \in CountedFor(m) : listen[k].total = i
    BY <1>7 DEF NumberedFor
  <2>6. b \in Nat
    BY <1>6
  <2>. HIDE DEF n, b
  <2>7. \A k \in CountedFor(m)' : b < listen'[k].total /\ listen'[k].total <= n + 1
    BY <2>2, <2>3, <2>4, <2>5, <2>6
  <2>8. \A k, j \in CountedFor(m)' : listen'[k].total = listen'[j].total => k = j
    BY <2>2, <2>3, <2>4, <2>5, <2>6
  <2>9. \A i \in (b + 1)..(n + 1) : \E k \in CountedFor(m)' : listen'[k].total = i
    <3>1. SUFFICES ASSUME NEW i \in (b + 1)..(n + 1) PROVE \E k \in CountedFor(m)' : listen'[k].total = i
      OBVIOUS
    <3>2. CASE i = n + 1
      BY <2>2, <2>3, <3>2
    <3>3. CASE i # n + 1
      <4>1. i \in (b + 1)..n
        BY <2>2, <2>6, <3>3
      <4>2. PICK k \in CountedFor(m) : listen[k].total = i
        BY <2>5, <4>1
      <4>. QED
        BY <2>3, <2>4, <4>2
    <3>. QED
      BY <3>2, <3>3
  <2>. QED
    BY <1>6, <2>1, <2>2, <2>5, <2>6, <2>7, <2>8, <2>9 DEF NumberedFor, b
<1>. QED
  BY <1>12, <1>13

(* Where the users' rows are emptied the numbers begin again.              *)
LEMMA NumbersReset ==
    ASSUME RankingAssumption, Basics, Basics', Numbered, ResetLands("users")
    PROVE  Numbered'
<1>1. /\ reset.era \in Nat /\ reset'.era = reset.era + 1
      /\ \A m \in Members : user'[m] = [tracks |-> 0, seconds |-> 0, level |-> -1]
  BY ResetLandsAt DEF Parts
<1>2. listen' = listen /\ \A l \in Listens : listen[l].era <= reset.era /\ listen[l].era \in Nat
  BY DEF ResetLands, Basics, CallsOK, RankTypeOK, ListenType
<1>3. SUFFICES ASSUME NEW m \in Members PROVE NumberedFor(m)'
  BY DEF Numbered
<1>4. CountedFor(m)' = {}
  <2>1. CountedFor(m)' = {k \in Listens : listen'[k].who = m /\ listen'[k].total > 0 /\ listen'[k].era = reset'.era}
    BY DEF CountedFor, ListensOf
  <2>2. ASSUME NEW k \in Listens PROVE listen'[k].era # reset'.era
    BY <1>1, <1>2
  <2>. QED
    BY <2>1, <2>2
<1>5. Before(m)' = Nothing
  BY <1>1 DEF Before
<1>. QED
  BY <1>1, <1>4, <1>5 DEF NumberedFor, Nothing

(* The numbers are what the milestones need: the level that a milestone is *)
(* about is paid for by one number, which one listen got.                  *)
LEMMA NumbersTell ==
    ASSUME RankingAssumption, Basics, Numbered
    PROVE  MilestonesOnce
<1>1. SUFFICES ASSUME NEW m \in Members,
                      NEW level \in (LevelFromXp(Before(m).tracks) + 1)..LevelFromXp(user[m].tracks),
                      ShouldNotifyLevel(level)
               PROVE  /\ Cardinality(Reaching(m, level)) = 1
                      /\ \/ Cardinality(Telling(m, level)) = 1
                         \/ \E l \in Reaching(m, level) : listen[l].pc = "failed"
  BY DEF MilestonesOnce
<1>. DEFINE b == Before(m).tracks
            n == user[m].tracks
            cost == XpForLevel(level)
<1>2. b \in Nat /\ n \in Nat
  BY BeforeType DEF Basics, RankTypeOK, UserType, Row
<1>3. NumberedFor(m)
  BY DEF Numbered
<1>4. /\ LevelFromXp(b) \in Nat /\ b < XpForLevel(LevelFromXp(b) + 1)
      /\ LevelFromXp(n) \in Nat /\ XpForLevel(LevelFromXp(n)) <= n
  <2>. HIDE DEF b, n
  <2>. QED
    BY <1>2, LevelIs
<1>5. level \in Nat /\ LevelFromXp(b) + 1 <= level /\ level <= LevelFromXp(n)
  BY <1>4
<1>. HIDE DEF b, n
<1>6. \A k \in Nat : XpForLevel(k) \in Nat
  BY XpType
<1>7. b < cost /\ cost <= n /\ cost \in Nat
  <2>1. XpForLevel(LevelFromXp(b) + 1) <= cost
    <3>1. CASE LevelFromXp(b) + 1 = level
      BY <1>4, <1>5, <1>6, <3>1
    <3>2. CASE LevelFromXp(b) + 1 < level
      BY <1>4, <1>5, <1>6, <3>2, XpGrows
    <3>. QED
      BY <1>4, <1>5, <3>1, <3>2
  <2>2. cost <= XpForLevel(LevelFromXp(n))
    <3>1. CASE LevelFromXp(n) = level
      BY <1>4, <1>5, <1>6, <3>1
    <3>2. CASE level < LevelFromXp(n)
      BY <1>4, <1>5, <1>6, <3>2, XpGrows
    <3>. QED
      BY <1>4, <1>5, <3>1, <3>2
  <2>. QED
    BY <1>2, <1>4, <1>5, <1>6, <2>1, <2>2
<1>8. \A k \in CountedFor(m) : MilestoneOf(k) = level <=> listen[k].total = cost
  <2>1. SUFFICES ASSUME NEW k \in CountedFor(m) PROVE MilestoneOf(k) = level <=> listen[k].total = cost
    OBVIOUS
  <2>2. listen[k].total \in Nat /\ listen[k].total > 0
    BY DEF CountedFor, ListensOf, Basics, RankTypeOK, ListenType
  <2>. QED
    BY <1>1, <1>5, <2>2, MilestoneIs DEF MilestoneOf, LevelOf
<1>9. PICK l \in CountedFor(m) : listen[l].total = cost
  <2>1. cost \in (b + 1)..n
    BY <1>2, <1>7
  <2>. HIDE DEF cost
  <2>. QED
    BY <1>3, <2>1 DEF NumberedFor, b, n
<1>10. \A k \in CountedFor(m) : listen[k].total = cost => k = l
  BY <1>3, <1>9 DEF NumberedFor
<1>11. Reaching(m, level) = {l}
  BY <1>8, <1>9, <1>10 DEF Reaching
<1>12. listen[l].pc \in {"leveling", "telling", "done", "failed"}
  BY <1>9 DEF CountedFor, ListensOf, Basics, CallsOK, RankTypeOK, ListenType, Steps
<1>13. listen[l].pc # "failed" => Telling(m, level) = {l}
  BY <1>11, <1>12 DEF Telling
<1>. QED
  BY <1>11, <1>13, FS_Singleton

-----------------------------------------------------------------------------
(* The stored levels.                                                      *)

\* LevelFollows, of one member.
LevelFits(m) ==
    /\ user[m].level <= LevelFromXp(user[m].tracks)
    /\ (\E l \in CountedFor(m) : listen[l].total = user[m].tracks /\ listen[l].pc \in {"telling", "done"})
        => user[m].level = LevelFromXp(user[m].tracks) \/ m \in overtaken

(* Neither a row nor where a counted listen is changes.                    *)
LEMMA LevelsStay ==
    ASSUME RankingAssumption, Basics, Basics', LevelFollows, reset'.era = reset.era, user' = user,
           raced \subseteq raced', overtaken' = overtaken,
           \A l \in Listens : \/ listen'[l] = listen[l]
                              \/ listen'[l].total = 0
                              \/ listen'[l].pc = "failed"
                              \/ /\ listen[l].pc = "telling" /\ listen'[l].total = listen[l].total
                                 /\ listen'[l].who = listen[l].who /\ listen'[l].era = listen[l].era
    PROVE  LevelFollows'
<1>1. SUFFICES ASSUME NEW m \in Members \ raced' PROVE LevelFits(m)'
  BY DEF LevelFollows, LevelFits
<1>2. LevelFits(m)
  BY DEF LevelFollows, LevelFits
<1>3. ASSUME NEW l \in CountedFor(m)', listen'[l].total = user[m].tracks, listen'[l].pc \in {"telling", "done"}
      PROVE  l \in CountedFor(m) /\ listen[l].total = user[m].tracks /\ listen[l].pc \in {"telling", "done"}
  <2>1. l \in Listens /\ listen'[l].who = m /\ listen'[l].total > 0 /\ listen'[l].era = reset.era
    BY DEF CountedFor, ListensOf
  <2>2. listen'[l].total # 0 /\ listen'[l].pc # "failed"
    BY <1>3, <2>1
  <2>3. CASE listen'[l] = listen[l]
    BY <1>3, <2>1, <2>3 DEF CountedFor, ListensOf
  <2>4. CASE /\ listen[l].pc = "telling" /\ listen'[l].total = listen[l].total
             /\ listen'[l].who = listen[l].who /\ listen'[l].era = listen[l].era
    BY <1>3, <2>1, <2>4 DEF CountedFor, ListensOf
  <2>. QED
    BY <2>1, <2>2, <2>3, <2>4
<1>. QED
  BY <1>2, <1>3 DEF LevelFits

(* A count may be what a new level needs: then the call goes on to store   *)
(* it.                                                                     *)
LEMMA LevelsCount ==
    ASSUME RankingAssumption, Basics, Basics', Numbered, LevelFollows, NEW l \in Listens, Counts(l)
    PROVE  LevelFollows'
<1>1. listen[l].pc = "counting" /\ listen[l].total = 0 /\ listen[l].who \in Members /\ Lasts[l] \in Nat
      /\ \A m \in Members : user'[m] = IF m = listen[l].who THEN Plus(user[m], Lasts[l]) ELSE user[m]
  BY CountsAt
<1>2. PICK x \in ListenType :
        /\ Listening(l, x)
        /\ x.pc = IF user[listen[l].who].level # LevelFromXp(user[listen[l].who].tracks + 1)
                  THEN "leveling" ELSE "telling"
        /\ x.total = user[listen[l].who].tracks + 1 /\ x.era = reset.era /\ x.who = listen[l].who
  BY CountsAt
<1>3. listen'[l] = x /\ \A k \in Listens \ {l} : listen'[k] = listen[k]
  BY <1>2 DEF Listening, Basics, RankTypeOK
<1>4. reset' = reset /\ raced' = raced /\ overtaken' = overtaken
  BY DEF Counts
<1>5. SUFFICES ASSUME NEW m \in Members \ raced PROVE LevelFits(m)'
  BY <1>4 DEF LevelFollows, LevelFits
<1>6. LevelFits(m)
  BY DEF LevelFollows, LevelFits
<1>7. user[m] \in UserType /\ user[m].tracks \in Nat /\ user[m].level \in Int
  BY DEF Basics, RankTypeOK, UserType
<1>8. \A k \in Listens \ {l} : k \in CountedFor(m)' <=> k \in CountedFor(m)
  BY <1>3, <1>4 DEF CountedFor, ListensOf
<1>9. CASE m # listen[l].who
  <2>1. user'[m] = user[m] /\ l \notin CountedFor(m)'
    BY <1>1, <1>2, <1>3, <1>9 DEF CountedFor, ListensOf
  <2>2. \A k \in CountedFor(m)' : k \in CountedFor(m) /\ listen'[k] = listen[k]
    <3>1. CountedFor(m)' \subseteq Listens
      BY DEF CountedFor, ListensOf
    <3>. QED
      BY <1>3, <1>8, <2>1, <3>1
  <2>. QED
    BY <1>4, <1>6, <2>1, <2>2 DEF LevelFits
<1>10. CASE m = listen[l].who
  <2>. DEFINE n == user[m].tracks
  <2>1. user'[m].tracks = n + 1 /\ user'[m].level = user[m].level
    <3>1. user'[m] = Plus(user[m], Lasts[l])
      BY <1>1, <1>10
    <3>2. user'[m] = [tracks |-> user[m].tracks + 1, seconds |-> user[m].seconds + Lasts[l],
                      level |-> user[m].level]
      BY <1>1, <1>7, <3>1, PlusIs
    <3>. QED
      BY <3>2
  <2>2. n \in Nat /\ LevelFromXp(n) <= LevelFromXp(n + 1) /\ LevelFromXp(n) \in Nat /\ LevelFromXp(n + 1) \in Nat
    <3>1. n \in Nat /\ n + 1 \in Nat /\ n <= n + 1
      BY <1>7
    <3>. HIDE DEF n
    <3>2. LevelFromXp(n) <= LevelFromXp(n + 1)
      BY <3>1, LevelGrows
    <3>3. LevelFromXp(n) \in Nat
      BY <3>1, LevelIs
    <3>4. LevelFromXp(n + 1) \in Nat
      BY <3>1, LevelIs
    <3>. QED
      BY <3>1, <3>2, <3>3, <3>4
  <2>3. user'[m].level <= LevelFromXp(user'[m].tracks)
    BY <1>6, <1>7, <2>1, <2>2 DEF LevelFits
  <2>4. ASSUME NEW k \in CountedFor(m)', listen'[k].total = n + 1, listen'[k].pc \in {"telling", "done"}
        PROVE  user'[m].level = LevelFromXp(user'[m].tracks)
    <3>1. CASE k = l
      BY <1>2, <1>3, <1>10, <2>1, <2>4, <3>1
    <3>2. CASE k # l
      <4>1. k \in CountedFor(m) /\ listen'[k] = listen[k]
        BY <1>3, <1>8, <3>2 DEF CountedFor, ListensOf
      <4>2. listen[k].total <= n
        BY <4>1 DEF Numbered, NumberedFor
      <4>3. FALSE
        BY <2>2, <2>4, <4>1, <4>2
      <4>. QED
        BY <4>3
    <3>. QED
      BY <3>1, <3>2
  <2>. HIDE DEF n
  <2>. QED
    BY <2>1, <2>3, <2>4 DEF LevelFits
<1>. QED
  BY <1>9, <1>10

(* A level is stored, that of the last count or of one overtaken.          *)
LEMMA LevelsStore ==
    ASSUME RankingAssumption, Basics, Basics', Numbered, Spared, LevelFollows, NEW l \in Listens, Levels(l)
    PROVE  LevelFollows'
<1>1. /\ listen[l].pc = "leveling" /\ listen[l].who \in Members
      /\ listen[l].total \in Nat \ {0} /\ LevelOf(l) \in Nat
      /\ \A m \in Members \ {listen[l].who} : user'[m] = user[m]
      /\ user'[listen[l].who].tracks = user[listen[l].who].tracks
      /\ user'[listen[l].who].level = LevelOf(l)
  BY LevelsAt
<1>2. reset' = reset /\ raced' = raced
      /\ overtaken' = IF LevelOf(l) = LevelFromXp(user[listen[l].who].tracks) THEN overtaken \ {listen[l].who}
                      ELSE overtaken \union {listen[l].who}
  BY DEF Levels
<1>3. /\ \A k \in Listens \ {l} : listen'[k] = listen[k]
      /\ listen'[l].who = listen[l].who
  <2>1. Listening(l, [listen[l] EXCEPT !.pc = "telling"]) /\ listen[l] \in ListenType
        /\ listen \in [Listens -> ListenType]
    BY DEF Levels, Basics, RankTypeOK
  <2>. DEFINE x == [listen[l] EXCEPT !.pc = "telling"]
  <2>2. x.who = listen[l].who
    BY <2>1 DEF ListenType
  <2>. HIDE DEF x
  <2>3. Listening(l, x)
    BY <2>1 DEF x
  <2>. QED
    BY <2>1, <2>2, <2>3 DEF Listening
<1>4. SUFFICES ASSUME NEW m \in Members \ raced PROVE LevelFits(m)'
  BY <1>2 DEF LevelFollows, LevelFits
<1>5. LevelFits(m)
  BY DEF LevelFollows, LevelFits
<1>6. user[m].tracks \in Nat
  BY DEF Basics, RankTypeOK, UserType
<1>7. CASE m # listen[l].who
  <2>1. user'[m] = user[m] /\ (m \in overtaken' <=> m \in overtaken)
    BY <1>1, <1>2, <1>7
  <2>2. \A k \in CountedFor(m)' : k \in CountedFor(m) /\ listen'[k] = listen[k]
    <3>1. SUFFICES ASSUME NEW k \in CountedFor(m)' PROVE k \in CountedFor(m) /\ listen'[k] = listen[k]
      OBVIOUS
    <3>2. k \in Listens /\ listen'[k].who = m
      BY DEF CountedFor, ListensOf
    <3>3. listen'[k] = listen[k]
      BY <1>3, <1>7, <3>2
    <3>. QED
      BY <1>2, <3>2, <3>3 DEF CountedFor, ListensOf
  <2>. QED
    BY <1>5, <2>1, <2>2 DEF LevelFits
<1>8. CASE m = listen[l].who
  <2>1. l \in CountedFor(m)
    <3>1. listen[l].era = reset.era
      BY <1>1, <1>8 DEF Spared, ListensOf
    <3>. QED
      BY <1>1, <1>8, <3>1 DEF CountedFor, ListensOf
  <2>2. listen[l].total <= user[m].tracks
    BY <2>1 DEF Numbered, NumberedFor
  <2>3. LevelOf(l) <= LevelFromXp(user[m].tracks)
    BY <1>1, <1>6, <2>2, LevelGrows DEF LevelOf
  <2>4. user'[m].level = LevelFromXp(user'[m].tracks) \/ m \in overtaken'
    BY <1>1, <1>2, <1>8
  <2>. QED
    BY <1>1, <1>8, <2>3, <2>4 DEF LevelFits
<1>. QED
  BY <1>7, <1>8

(* A reset leaves everybody without a level and without a count.           *)
LEMMA LevelsReset ==
    ASSUME RankingAssumption, Basics, Basics', LevelFollows, ResetLands("users")
    PROVE  LevelFollows'
<1>1. /\ reset.era \in Nat /\ reset'.era = reset.era + 1
      /\ \A m \in Members : user'[m] = [tracks |-> 0, seconds |-> 0, level |-> -1]
  BY ResetLandsAt DEF Parts
<1>2. listen' = listen /\ \A l \in Listens : listen[l].era <= reset.era /\ listen[l].era \in Nat
  BY DEF ResetLands, Basics, CallsOK, RankTypeOK, ListenType
<1>3. SUFFICES ASSUME NEW m \in Members PROVE LevelFits(m)'
  BY DEF LevelFollows, LevelFits
<1>4. \A k \in CountedFor(m)' : FALSE
  <2>1. ASSUME NEW k \in Listens PROVE listen'[k].era # reset'.era
    BY <1>1, <1>2
  <2>. QED
    BY <2>1 DEF CountedFor, ListensOf
<1>5. user'[m].level <= LevelFromXp(user'[m].tracks)
  BY <1>1, LevelOfNothing
<1>. QED
  BY <1>4, <1>5 DEF LevelFits

-----------------------------------------------------------------------------
(* Whom a reset has spared.                                                *)

(* A call changes what is its own, and nothing of another member.          *)
LEMMA ListenApart ==
    ASSUME RankingAssumption, Basics, NEW l \in Listens, ListenStep(l)
    PROVE  /\ UnderWay(l) /\ listen[l].who \in Members /\ l \in Heard
           /\ reset' = reset /\ raced' = raced
           /\ \A k \in Listens \ {l} : listen'[k] = listen[k]
           /\ listen'[l].who = listen[l].who
           /\ listen'[l].pc = "leveling" => listen'[l].era = reset.era
           /\ \A m \in Members \ {listen[l].who} :
                /\ user'[m] = user[m]
                /\ \A c \in Chats : tally'[c][m] = tally[c][m]
                /\ \A d \in 0..MaxDays, c \in Chats : bucket'[d][c][m] = bucket[d][c][m]
<1>. DEFINE m == listen[l].who
            Alone == \A k \in Listens \ {l} : listen'[k] = listen[k]
            Own == listen'[l].who = m /\ (listen'[l].pc = "leveling" => listen'[l].era = reset.era)
            Others == \A o \in Members \ {m} :
                /\ user'[o] = user[o]
                /\ \A c \in Chats : tally'[c][o] = tally[c][o]
                /\ \A d \in 0..MaxDays, c \in Chats : bucket'[d][c][o] = bucket[d][c][o]
<1>1. RankTypeOK /\ CallsOK /\ listen \in [Listens -> ListenType] /\ listen[l] \in ListenType
  BY DEF Basics, RankTypeOK
<1>2. reset' = reset /\ raced' = raced
  BY DEF ListenStep, BucketLands, TallyLands, WriteFails, Counts, Levels, CountFails, Tells
<1>3. UnderWay(l) /\ listen[l].pc # "unheard"
  <2>1. \/ listen[l].todo # {} \/ listen[l].pc \in {"counting", "leveling", "telling"}
    BY DEF ListenStep, BucketLands, TallyLands, WriteFails, Counts, Levels, CountFails, Tells
  <2>2. UnderWay(l)
    BY <2>1 DEF UnderWay
  <2>. QED
    BY <1>1, <2>1, <2>2 DEF CallsOK
<1>4. m \in Members /\ l \in Heard
  BY <1>1, <1>3 DEF CallsOK, ListenType, Heard
<1>5. ASSUME NEW x \in ListenType, Listening(l, x), x.who = m, x.pc = "leveling" => x.era = reset.era
      PROVE  Alone /\ Own
  BY <1>1, <1>5 DEF Listening
<1>6. CASE BucketLands(l)
  <2>. DEFINE x == Wrote(l, "bucket")
  <2>1. x \in ListenType /\ x.who = m /\ x.pc \in {listen[l].pc, "counting"} /\ listen[l].pc \in {"writing", "failed"}
    BY <1>1, <1>6, WroteIs, BucketLandsAt DEF Writes
  <2>2. Listening(l, x)
    BY <1>6 DEF BucketLands
  <2>3. Others
    <3>0. \A d \in 0..MaxDays, c \in Chats, o \in Members :
             bucket'[d][c][o] = IF d = listen[l].day /\ c = listen[l].chat /\ o = listen[l].who
                                THEN Plus(bucket[d][c][o], Lasts[l]) ELSE bucket[d][c][o]
      BY ZenonT(40), <1>6, BucketLandsAt
    <3>1. ASSUME NEW o \in Members \ {m}, NEW d \in 0..MaxDays, NEW c \in Chats
          PROVE  bucket'[d][c][o] = bucket[d][c][o]
      BY <3>0, <3>1
    <3>2. tally' = tally /\ user' = user
      BY <1>6 DEF BucketLands
    <3>3. ASSUME NEW o \in Members \ {m}
          PROVE  user'[o] = user[o] /\ \A c \in Chats : tally'[c][o] = tally[c][o]
      BY <3>2
    <3>. QED
      BY <3>1, <3>3
  <2>. HIDE DEF x, Alone, Own, Others, m
  <2>4. Alone /\ Own
    BY <1>5, <2>1, <2>2
  <2>. QED
    BY <1>2, <1>3, <1>4, <2>3, <2>4 DEF Alone, Own, Others, m
<1>7. CASE TallyLands(l)
  <2>. DEFINE x == Wrote(l, "tally")
  <2>1. x \in ListenType /\ x.who = m /\ x.pc \in {listen[l].pc, "counting"} /\ listen[l].pc \in {"writing", "failed"}
    BY <1>1, <1>7, WroteIs, TallyLandsAt DEF Writes
  <2>2. Listening(l, x)
    BY <1>7 DEF TallyLands
  <2>3. Others
    <3>0. \A c \in Chats, o \in Members :
             tally'[c][o] = IF c = listen[l].chat /\ o = listen[l].who
                            THEN Plus(tally[c][o], Lasts[l]) ELSE tally[c][o]
      BY ZenonT(40), <1>7, TallyLandsAt
    <3>1. bucket' = bucket /\ user' = user
      BY <1>7 DEF TallyLands
    <3>. QED
      BY <3>0, <3>1
  <2>. HIDE DEF x, Alone, Own, Others, m
  <2>4. Alone /\ Own
    BY <1>5, <2>1, <2>2
  <2>. QED
    BY <1>2, <1>3, <1>4, <2>3, <2>4 DEF Alone, Own, Others, m
<1>8. CASE WriteFails(l)
  <2>1. PICK what \in listen[l].todo :
            Listening(l, [listen[l] EXCEPT !.todo = listen[l].todo \ {what}, !.pc = "failed"])
    BY <1>8 DEF WriteFails
  <2>. DEFINE x == [listen[l] EXCEPT !.todo = listen[l].todo \ {what}, !.pc = "failed"]
  <2>2. x \in ListenType /\ x.who = m /\ x.pc = "failed"
    BY <1>1 DEF ListenType, Steps
  <2>3. Others
    BY <1>8 DEF WriteFails
  <2>4. Listening(l, x)
    BY <2>1
  <2>. HIDE DEF x, Alone, Own, Others, m
  <2>5. Alone /\ Own
    BY <1>5, <2>2, <2>4
  <2>. QED
    BY <1>2, <1>3, <1>4, <2>3, <2>5 DEF Alone, Own, Others, m
<1>9. CASE Counts(l)
  <2>1. PICK x \in ListenType : Listening(l, x) /\ x.era = reset.era /\ x.who = m
    BY <1>9, CountsAt
  <2>2. Others
    <3>1. \A o \in Members \ {m} : user'[o] = user[o]
      BY <1>9, CountsAt
    <3>2. tally' = tally /\ bucket' = bucket
      BY <1>9 DEF Counts
    <3>. QED
      BY <3>1, <3>2
  <2>. HIDE DEF Alone, Own, Others, m
  <2>3. Alone /\ Own
    BY <1>5, <2>1
  <2>. QED
    BY <1>2, <1>3, <1>4, <2>2, <2>3 DEF Alone, Own, Others, m
<1>10. CASE Levels(l)
  <2>. DEFINE x == [listen[l] EXCEPT !.pc = "telling"]
  <2>1. x \in ListenType /\ x.who = m /\ x.pc = "telling"
    BY <1>1 DEF ListenType, Steps
  <2>2. Listening(l, x)
    BY <1>10 DEF Levels
  <2>3. Others
    BY <1>10, LevelsAt DEF Levels
  <2>. HIDE DEF x, Alone, Own, Others, m
  <2>4. Alone /\ Own
    BY <1>5, <2>1, <2>2
  <2>. QED
    BY <1>2, <1>3, <1>4, <2>3, <2>4 DEF Alone, Own, Others, m
<1>11. CASE CountFails(l) \/ Tells(l)
  <2>1. PICK pc \in {"failed", "done"} : Listening(l, [listen[l] EXCEPT !.pc = pc])
    BY <1>11 DEF CountFails, Tells
  <2>. DEFINE x == [listen[l] EXCEPT !.pc = pc]
  <2>2. x \in ListenType /\ x.who = m /\ x.pc = pc
    BY <1>1 DEF ListenType, Steps
  <2>3. Others
    BY <1>11 DEF CountFails, Tells
  <2>4. Listening(l, x)
    BY <2>1
  <2>. HIDE DEF x, Alone, Own, Others, m
  <2>5. Alone /\ Own
    BY <1>5, <2>1, <2>2, <2>4
  <2>. QED
    BY <1>2, <1>3, <1>4, <2>3, <2>5 DEF Alone, Own, Others, m
<1>. HIDE DEF Alone, Own, Others, m
<1>. QED
  BY <1>6, <1>7, <1>8, <1>9, <1>10, <1>11 DEF ListenStep

\* Spared, of one member.
SparedOne(m) ==
    /\ \A l \in ListensOf(m) : listen[l].pc = "leveling" => listen[l].era = reset.era
    /\ reset.todo # {} =>
        /\ Quiet(m)
        /\ "users" \notin reset.todo =>
              user[m] = [tracks |-> 0, seconds |-> 0, level |-> -1] /\ reset.era > 0
        /\ "tallies" \notin reset.todo => \A c \in Chats : tally[c][m] = Nothing
        /\ "buckets" \notin reset.todo => \A d \in 0..MaxDays, c \in Chats : bucket[d][c][m] = Nothing

(* Whose listens go on while a reset is under way was not spared.          *)
LEMMA SparedListens ==
    ASSUME RankingAssumption, Basics, Basics', Spared, NEW l \in Listens, ListenStep(l)
    PROVE  Spared'
<1>1. /\ UnderWay(l) /\ listen[l].who \in Members
      /\ reset' = reset /\ raced' = raced
      /\ \A k \in Listens \ {l} : listen'[k] = listen[k]
      /\ listen'[l].who = listen[l].who
      /\ listen'[l].pc = "leveling" => listen'[l].era = reset.era
      /\ \A m \in Members \ {listen[l].who} :
           /\ user'[m] = user[m]
           /\ \A c \in Chats : tally'[c][m] = tally[c][m]
           /\ \A d \in 0..MaxDays, c \in Chats : bucket'[d][c][m] = bucket[d][c][m]
  BY ListenApart
<1>2. SUFFICES ASSUME NEW m \in Members \ raced PROVE SparedOne(m)'
  BY <1>1 DEF Spared, SparedOne
<1>3. SparedOne(m)
  BY DEF Spared, SparedOne
<1>4. ListensOf(m)' = ListensOf(m) /\ ListensOf(m) \subseteq Listens
  BY <1>1 DEF ListensOf
<1>5. ASSUME NEW k \in ListensOf(m), listen'[k].pc = "leveling"
      PROVE  listen'[k].era = reset.era
  <2>1. CASE k = l
    BY <1>1, <1>5, <2>1
  <2>2. CASE k # l
    BY <1>1, <1>3, <1>4, <1>5, <2>2 DEF SparedOne
  <2>. QED
    BY <2>1, <2>2
<1>6. CASE m = listen[l].who
  <2>1. reset.todo = {}
    BY <1>1, <1>3, <1>6 DEF SparedOne, Quiet, ListensOf
  <2>. QED
    BY <1>1, <1>4, <1>5, <2>1 DEF SparedOne
<1>7. CASE m # listen[l].who
  <2>1. Quiet(m) => Quiet(m)'
    <3>1. \A k \in ListensOf(m) : listen'[k] = listen[k]
      BY <1>1, <1>7 DEF ListensOf
    <3>. QED
      BY <1>4, <3>1 DEF Quiet, UnderWay
  <2>. QED
    <3>1. user'[m] = user[m] /\ (\A c \in Chats : tally'[c][m] = tally[c][m])
      BY <1>1, <1>7
    <3>2. \A d \in 0..MaxDays, c \in Chats : bucket'[d][c][m] = bucket[d][c][m]
      BY <1>1, <1>7
    <3>3. \A k \in ListensOf(m)' : listen'[k].pc = "leveling" => listen'[k].era = reset'.era
      BY <1>1, <1>4, <1>5
    <3>4. ASSUME reset.todo # {}
          PROVE  /\ Quiet(m)'
                 /\ "users" \notin reset.todo =>
                       user'[m] = [tracks |-> 0, seconds |-> 0, level |-> -1] /\ reset.era > 0
      BY <1>3, <2>1, <3>1, <3>4 DEF SparedOne
    <3>5. ASSUME reset.todo # {}
          PROVE  /\ "tallies" \notin reset.todo => \A c \in Chats : tally'[c][m] = Nothing
                 /\ "buckets" \notin reset.todo => \A d \in 0..MaxDays, c \in Chats : bucket'[d][c][m] = Nothing
      BY <1>3, <3>1, <3>2, <3>5 DEF SparedOne
    <3>6. reset' = reset
      BY <1>1
    <3>. QED
      BY <3>3, <3>4, <3>5, <3>6 DEF SparedOne
<1>. QED
  BY <1>6, <1>7

(* Nor was who is credited meanwhile.                                      *)
LEMMA SparedCredited ==
    ASSUME RankingAssumption, Basics, Basics', Spared, NEW l \in Listens, Credited(l)
    PROVE  Spared'
<1>1. /\ listen[l].who = NoOne
      /\ \A k \in Listens \ {l} : listen'[k] = listen[k]
      /\ listen'[l].pc = "writing" /\ listen'[l].who \in Members
      /\ raced' = IF reset.todo # {} THEN raced \union {listen'[l].who} ELSE raced
  BY CreditedAt
<1>2. reset' = reset /\ user' = user /\ tally' = tally /\ bucket' = bucket
  BY DEF Credited
<1>3. SUFFICES ASSUME NEW m \in Members \ raced' PROVE SparedOne(m)'
  BY DEF Spared, SparedOne
<1>4. SparedOne(m)
  BY <1>1 DEF Spared, SparedOne
<1>5. \A k \in ListensOf(m)' : k # l => k \in ListensOf(m) /\ listen'[k] = listen[k]
  BY <1>1 DEF ListensOf
<1>6. \A k \in ListensOf(m)' : listen'[k].pc = "leveling" => listen'[k].era = reset.era
  BY <1>1, <1>4, <1>5 DEF SparedOne
<1>7. reset.todo # {} => Quiet(m)'
  <2>1. SUFFICES ASSUME reset.todo # {} PROVE Quiet(m)'
    OBVIOUS
  <2>2. l \notin ListensOf(m)'
    BY <1>1, <2>1 DEF ListensOf
  <2>. QED
    BY <1>4, <1>5, <2>1, <2>2 DEF Quiet, UnderWay, SparedOne
<1>. QED
  BY <1>2, <1>4, <1>6, <1>7 DEF SparedOne

(* The steps of a reset.                                                   *)
LEMMA SparedReset ==
    ASSUME RankingAssumption, Basics, Basics', Spared,
           Resets \/ ResetFails \/ (\E what \in Parts : ResetLands(what))
    PROVE  Spared'
<1>1. SUFFICES ASSUME NEW m \in Members \ raced' PROVE SparedOne(m)'
  BY DEF Spared, SparedOne
<1>2. raced \subseteq raced' /\ listen' = listen
  BY ResetBasics
<1>3. SparedOne(m)
  BY <1>2 DEF Spared, SparedOne
<1>4. CASE Resets
  <2>1. reset' = [reset EXCEPT !.todo = Parts] /\ reset \in [todo : SUBSET Parts, era : Nat]
    BY <1>4 DEF Resets, Basics, RankTypeOK, Parts
  <2>2. reset'.todo = Parts /\ reset'.era = reset.era
    BY <2>1
  <2>3. Quiet(m)
    BY <1>4 DEF Resets, Quiet, ListensOf
  <2>. QED
    BY <1>2, <1>3, <2>2, <2>3 DEF SparedOne, Parts, Quiet, UnderWay, ListensOf
<1>5. CASE ResetFails
  BY <1>5 DEF ResetFails
<1>6. CASE \E what \in Parts : ResetLands(what)
  <2>1. PICK what \in Parts : ResetLands(what)
    BY <1>6
  <2>2. /\ what \in reset.todo /\ reset.era \in Nat
        /\ reset'.todo = reset.todo \ {what}
        /\ reset'.era = IF what = "users" THEN reset.era + 1 ELSE reset.era
        /\ what = "users" => \A o \in Members : user'[o] = [tracks |-> 0, seconds |-> 0, level |-> -1]
        /\ what # "users" => user' = user
        /\ what = "tallies" => \A c \in Chats, o \in Members : tally'[c][o] = Nothing
        /\ what # "tallies" => tally' = tally
        /\ what = "buckets" => \A d \in 0..MaxDays, c \in Chats, o \in Members : bucket'[d][c][o] = Nothing
        /\ what # "buckets" => bucket' = bucket
    BY <2>1, ResetLandsAt
  <2>3. Quiet(m) /\ Quiet(m)'
    <3>1. Quiet(m)
      BY <1>3, <2>2 DEF SparedOne
    <3>. QED
      BY <1>2, <3>1 DEF Quiet, UnderWay, ListensOf
  <2>4. \A k \in ListensOf(m)' : listen'[k].pc # "leveling"
    BY <1>2, <2>3 DEF Quiet, UnderWay, ListensOf
  <2>5. "users" \notin reset'.todo =>
            user'[m] = [tracks |-> 0, seconds |-> 0, level |-> -1] /\ reset'.era > 0
    <3>1. CASE what = "users"
      BY <2>2, <3>1
    <3>2. CASE what # "users"
      <4>1. /\ reset.todo # {} /\ user' = user /\ reset'.era = reset.era
            /\ "users" \notin reset'.todo => "users" \notin reset.todo
        BY <2>2, <3>2
      <4>. QED
        BY <1>3, <4>1 DEF SparedOne
    <3>. QED
      BY <3>1, <3>2
  <2>6. "tallies" \notin reset'.todo => \A c \in Chats : tally'[c][m] = Nothing
    <3>1. CASE what = "tallies"
      BY <2>2, <3>1
    <3>2. CASE what # "tallies"
      <4>1. reset.todo # {} /\ tally' = tally /\ ("tallies" \notin reset'.todo => "tallies" \notin reset.todo)
        BY <2>2, <3>2
      <4>. QED
        BY <1>3, <4>1 DEF SparedOne
    <3>. QED
      BY <3>1, <3>2
  <2>7. "buckets" \notin reset'.todo => \A d \in 0..MaxDays, c \in Chats : bucket'[d][c][m] = Nothing
    <3>1. CASE what = "buckets"
      BY <2>2, <3>1
    <3>2. CASE what # "buckets"
      <4>1. reset.todo # {} /\ bucket' = bucket /\ ("buckets" \notin reset'.todo => "buckets" \notin reset.todo)
        BY <2>2, <3>2
      <4>. QED
        BY <1>3, <4>1 DEF SparedOne
    <3>. QED
      BY <3>1, <3>2
  <2>. QED
    BY <2>3, <2>4, <2>5, <2>6, <2>7 DEF SparedOne
<1>. QED
  BY <1>4, <1>5, <1>6

-----------------------------------------------------------------------------
(* The books.                                                              *)

(* What a row of a sum gains, the sum gains.                               *)
LEMMA SummedGrows ==
    ASSUME NEW D, IsFiniteSet(D), NEW rows \in [D -> Row], NEW now \in [D -> Row],
           NEW x \in D, \A y \in D \ {x} : now[y] = rows[y]
    PROVE  /\ Summed(now).tracks - Summed(rows).tracks = now[x].tracks - rows[x].tracks
           /\ Summed(now).seconds - Summed(rows).seconds = now[x].seconds - rows[x].seconds
<1>. DEFINE t == [k \in D |-> rows[k].tracks]
            s == [k \in D |-> rows[k].seconds]
            u == [k \in D |-> now[k].tracks]
            v == [k \in D |-> now[k].seconds]
<1>1. t \in [D -> Nat] /\ s \in [D -> Nat] /\ u \in [D -> Nat] /\ v \in [D -> Nat]
  BY DEF Row
<1>2. /\ \A y \in D \ {x} : u[y] = t[y] /\ v[y] = s[y]
      /\ t[x] = rows[x].tracks /\ s[x] = rows[x].seconds /\ u[x] = now[x].tracks /\ v[x] = now[x].seconds
  OBVIOUS
<1>3. /\ Summed(rows) = [tracks |-> SumFunction(t), seconds |-> SumFunction(s)]
      /\ Summed(now) = [tracks |-> SumFunction(u), seconds |-> SumFunction(v)]
  BY DEF Summed
<1>. HIDE DEF t, s, u, v
<1>4. SumFunction(u) - SumFunction(t) = u[x] - t[x]
  BY <1>1, <1>2, SumGrows
<1>5. SumFunction(v) - SumFunction(s) = v[x] - s[x]
  BY <1>1, <1>2, SumGrows
<1>. QED
  BY <1>2, <1>3, <1>4, <1>5

(* A row that says nothing adds nothing.                                   *)
LEMMA SummedJoined ==
    ASSUME NEW D, IsFiniteSet(D), NEW rows \in [D -> Row], NEW x, x \notin D,
           NEW now \in [D \union {x} -> Row], now[x] = Nothing, \A y \in D : now[y] = rows[y]
    PROVE  Summed(now) = Summed(rows)
<1>. DEFINE t == [k \in D |-> rows[k].tracks]
            s == [k \in D |-> rows[k].seconds]
            u == [k \in D \union {x} |-> now[k].tracks]
            v == [k \in D \union {x} |-> now[k].seconds]
<1>1. t \in [D -> Nat] /\ s \in [D -> Nat] /\ u \in [D \union {x} -> Nat] /\ v \in [D \union {x} -> Nat]
  BY DEF Row
<1>2. /\ \A y \in D : u[y] = t[y] /\ v[y] = s[y]
      /\ u[x] = 0 /\ v[x] = 0
  BY DEF Nothing
<1>3. /\ Summed(rows) = [tracks |-> SumFunction(t), seconds |-> SumFunction(s)]
      /\ Summed(now) = [tracks |-> SumFunction(u), seconds |-> SumFunction(v)]
  BY DEF Summed
<1>. HIDE DEF t, s, u, v
<1>4. SumFunction(u) = SumFunction(t)
  BY <1>1, <1>2, SumJoined
<1>5. SumFunction(v) = SumFunction(s)
  BY <1>1, <1>2, SumJoined
<1>. QED
  BY <1>3, <1>4, <1>5

(* Rows that say nothing add up to nothing.                                *)
LEMMA SummedNothing ==
    ASSUME NEW D, IsFiniteSet(D), NEW rows, DOMAIN rows = D, \A y \in D : rows[y] = Nothing
    PROVE  Summed(rows) = Nothing
<1>. DEFINE t == [k \in D |-> rows[k].tracks]
            s == [k \in D |-> rows[k].seconds]
<1>1. t = [k \in D |-> 0] /\ s = [k \in D |-> 0]
  BY DEF Nothing
<1>2. Summed(rows) = [tracks |-> SumFunction(t), seconds |-> SumFunction(s)]
  BY DEF Summed
<1>. HIDE DEF t, s
<1>3. SumFunction(t) = 0 /\ SumFunction(s) = 0
  BY <1>1, SumOfNothing
<1>. QED
  BY <1>2, <1>3 DEF Nothing

\* The days and chats that the sum over everything is of.
Places == (0..MaxDays) \X Chats

(* There are finitely many of them, and "week" is all of them.             *)
LEMMA Weekly ==
    ASSUME RankingAssumption, NEW m
    PROVE  /\ IsFiniteSet(Places) /\ IsFiniteSet(Chats)
           /\ Score("week", Everywhere, m) = Summed([dc \in Places |-> bucket[dc[1]][dc[2]][m]])
<1>1. IsFiniteSet(0..MaxDays) /\ IsFiniteSet(Chats)
  BY FS_Interval DEF RankingAssumption
<1>2. IsFiniteSet(Places)
  BY <1>1, FS_Product DEF Places
<1>. QED
  BY <1>1, <1>2 DEF Score, Days, ChatsIn, Places

\* The sums of the books are rows.
BooksTyped(m) ==
    /\ Total(m) \in Row /\ Before(m) \in Row
    /\ Tallied(m) \in Row /\ [c \in Chats |-> tally[c][m]] \in [Chats -> Row]
    /\ Score("week", Everywhere, m) \in Row /\ Bucketed(m) \in Row
    /\ [dc \in Places |-> bucket[dc[1]][dc[2]][m]] \in [Places -> Row]
    /\ \A what \in Writes : /\ Rows(what, m) \in Row /\ Owed(what, m) \in Row
                            /\ [l \in Heard |-> OwedFor(what, m, l)] \in [Heard -> Row]
                            /\ \A l \in Heard : OwedFor(what, m, l) \in Row

AllTyped == \A m \in Members : BooksTyped(m)
SoundBasics == RankingAssumption /\ Basics

(* They are, as the members' and the chats' are.                           *)
LEMMA BookTypes ==
    SoundBasics => AllTyped
<1>. SUFFICES ASSUME RankingAssumption, Basics, NEW m \in Members PROVE BooksTyped(m)
  BY DEF SoundBasics, AllTyped
<1>1. RankTypeOK /\ IsFiniteSet(Heard)
  BY DEF Basics
<1>2. Total(m) \in Row
  BY <1>1 DEF Total, RankTypeOK, UserType, Row
<1>3. Before(m) \in Row
  BY BeforeType
<1>4. [c \in Chats |-> tally[c][m]] \in [Chats -> Row]
  BY <1>1 DEF RankTypeOK
<1>5. Tallied(m) \in Row
  BY <1>4, Weekly, SummedType DEF Tallied
<1>6. Score("week", Everywhere, m) \in Row
  BY <1>1, ScoreType
<1>7. Bucketed(m) \in Row
  BY <1>3, <1>6 DEF Bucketed, Sum, Row
<1>8. [dc \in Places |-> bucket[dc[1]][dc[2]][m]] \in [Places -> Row]
  BY <1>1 DEF RankTypeOK, Places
<1>9. \A what \in Writes, l \in Heard : OwedFor(what, m, l) \in Row
  BY DEF OwedFor, Worth, Nothing, Row, Heard, RankingAssumption
<1>10. ASSUME NEW what \in Writes
       PROVE  /\ [l \in Heard |-> OwedFor(what, m, l)] \in [Heard -> Row]
              /\ Owed(what, m) \in Row
  <2>1. [l \in Heard |-> OwedFor(what, m, l)] \in [Heard -> Row]
    BY <1>9
  <2>. QED
    BY <1>1, <2>1, SummedType DEF Owed
<1>11. \A what \in Writes : Rows(what, m) \in Row
  BY <1>5, <1>7 DEF Rows
<1>. QED
  BY <1>2, <1>3, <1>4, <1>5, <1>6, <1>7, <1>8, <1>9, <1>10, <1>11 DEF BooksTyped

(* And they will be.                                                       *)
LEMMA BookTypesNext ==
    ASSUME RankingAssumption, Basics', NEW m \in Members
    PROVE  BooksTyped(m)'
<1>1. SoundBasics' => AllTyped'
  BY BookTypes, PTL
<1>2. SoundBasics'
  BY DEF SoundBasics, RankingAssumption
<1>. QED
  BY <1>1, <1>2 DEF AllTyped

\* What a row gains covers what the row counted, and what it is owed, gain.
Covers(t, o, r, t1, o1, r1) == (t1 - t) + (o1 - o) <= r1 - r
Balances(t, o, r, t1, o1, r1) == (t1 - t) + (o1 - o) = r1 - r
CoversBoth(t, o, r, t1, o1, r1) ==
    /\ Covers(t.tracks, o.tracks, r.tracks, t1.tracks, o1.tracks, r1.tracks)
    /\ Covers(t.seconds, o.seconds, r.seconds, t1.seconds, o1.seconds, r1.seconds)
BalancesBoth(t, o, r, t1, o1, r1) ==
    /\ Balances(t.tracks, o.tracks, r.tracks, t1.tracks, o1.tracks, r1.tracks)
    /\ Balances(t.seconds, o.seconds, r.seconds, t1.seconds, o1.seconds, r1.seconds)

(* Rows add up where their fields do.                                      *)
LEMMA RowsAdd ==
    ASSUME NEW t \in Row, NEW o \in Row, NEW r \in Row
    PROVE  /\ r = Sum(t, o) <=> t.tracks + o.tracks = r.tracks /\ t.seconds + o.seconds = r.seconds
           /\ AtMost(Sum(t, o), r) <=> t.tracks + o.tracks <= r.tracks /\ t.seconds + o.seconds <= r.seconds
           /\ t.tracks \in Nat /\ t.seconds \in Nat
<1>1. r = [tracks |-> r.tracks, seconds |-> r.seconds]
  BY DEF Row
<1>. QED
  BY <1>1 DEF Sum, AtMost, Row

(* Books that were kept stay so while what is written is no less than what *)
(* is counted and owed, and exactly as much where no listen has failed.    *)
LEMMA KeepsOn ==
    ASSUME NEW t \in Row, NEW o \in Row, NEW r \in Row, NEW t1 \in Row, NEW o1 \in Row, NEW r1 \in Row
    PROVE  /\ AtMost(Sum(t, o), r) /\ CoversBoth(t, o, r, t1, o1, r1) => AtMost(Sum(t1, o1), r1)
           /\ r = Sum(t, o) /\ BalancesBoth(t, o, r, t1, o1, r1) => r1 = Sum(t1, o1)
<1>1. /\ t.tracks \in Nat /\ o.tracks \in Nat /\ r.tracks \in Nat
      /\ t.seconds \in Nat /\ o.seconds \in Nat /\ r.seconds \in Nat
      /\ t1.tracks \in Nat /\ o1.tracks \in Nat /\ r1.tracks \in Nat
      /\ t1.seconds \in Nat /\ o1.seconds \in Nat /\ r1.seconds \in Nat
  BY RowsAdd
<1>. DEFINE a == t.tracks
            b == o.tracks
            c == r.tracks
            a1 == t1.tracks
            b1 == o1.tracks
            c1 == r1.tracks
            d == t.seconds
            e == o.seconds
            g == r.seconds
            d1 == t1.seconds
            e1 == o1.seconds
            g1 == r1.seconds
<1>2. /\ r = Sum(t, o) <=> a + b = c /\ d + e = g
      /\ AtMost(Sum(t, o), r) <=> a + b <= c /\ d + e <= g
      /\ r1 = Sum(t1, o1) <=> a1 + b1 = c1 /\ d1 + e1 = g1
      /\ AtMost(Sum(t1, o1), r1) <=> a1 + b1 <= c1 /\ d1 + e1 <= g1
  BY RowsAdd
<1>3. /\ CoversBoth(t, o, r, t1, o1, r1) <=> Covers(a, b, c, a1, b1, c1) /\ Covers(d, e, g, d1, e1, g1)
      /\ BalancesBoth(t, o, r, t1, o1, r1) <=> Balances(a, b, c, a1, b1, c1) /\ Balances(d, e, g, d1, e1, g1)
  BY DEF CoversBoth, BalancesBoth
<1>4. /\ a \in Nat /\ b \in Nat /\ c \in Nat /\ a1 \in Nat /\ b1 \in Nat /\ c1 \in Nat
      /\ d \in Nat /\ e \in Nat /\ g \in Nat /\ d1 \in Nat /\ e1 \in Nat /\ g1 \in Nat
  BY <1>1
<1>. HIDE DEF a, b, c, a1, b1, c1, d, e, g, d1, e1, g1
<1>5. /\ a + b <= c /\ Covers(a, b, c, a1, b1, c1) => a1 + b1 <= c1
      /\ d + e <= g /\ Covers(d, e, g, d1, e1, g1) => d1 + e1 <= g1
      /\ a + b = c /\ Balances(a, b, c, a1, b1, c1) => a1 + b1 = c1
      /\ d + e = g /\ Balances(d, e, g, d1, e1, g1) => d1 + e1 = g1
  BY <1>4 DEF Covers, Balances
<1>. QED
  BY <1>2, <1>3, <1>5

(* What the row is owed moves by what one call makes of it.                *)
LEMMA OwedMoves ==
    ASSUME RankingAssumption, Basics, Basics', Heard' = Heard, NEW what \in Writes, NEW m \in Members,
           NEW l \in Heard, \A k \in Listens \ {l} : listen'[k] = listen[k]
    PROVE  /\ Owed(what, m)'.tracks - Owed(what, m).tracks
                = OwedFor(what, m, l)'.tracks - OwedFor(what, m, l).tracks
           /\ Owed(what, m)'.seconds - Owed(what, m).seconds
                = OwedFor(what, m, l)'.seconds - OwedFor(what, m, l).seconds
<1>. DEFINE rows == [k \in Heard |-> OwedFor(what, m, k)]
            now == [k \in Heard |-> OwedFor(what, m, k)']
<1>1. rows \in [Heard -> Row] /\ IsFiniteSet(Heard)
  BY BookTypes DEF SoundBasics, AllTyped, BooksTyped, Basics
<1>2. Owed(what, m) = Summed(rows)
  BY DEF Owed
<1>3. Owed(what, m)' = Summed(now)
  <2>1. Owed(what, m)' = Summed([k \in Heard' |-> OwedFor(what, m, k)'])
    BY DEF Owed, Summed
  <2>. QED
    BY <2>1
<1>4. \A k \in Heard : OwedFor(what, m, k)' \in Row
  BY BookTypesNext DEF BooksTyped
<1>5. now \in [Heard -> Row]
  BY <1>4
<1>6. ASSUME NEW k \in Heard \ {l} PROVE OwedFor(what, m, k)' = OwedFor(what, m, k)
  <2>1. k \in Listens \ {l} /\ listen'[k] = listen[k]
    BY DEF Heard
  <2>2. k \in Pending(what, m)' <=> k \in Pending(what, m)
    BY <2>1 DEF Pending, ListensOf
  <2>. QED
    BY <2>2 DEF OwedFor, Worth
<1>7. \A k \in Heard \ {l} : now[k] = rows[k]
  BY <1>6
<1>8. rows[l] = OwedFor(what, m, l) /\ now[l] = OwedFor(what, m, l)'
  OBVIOUS
<1>. HIDE DEF rows, now
<1>. QED
  BY <1>1, <1>2, <1>3, <1>5, <1>7, <1>8, SummedGrows

(* Rows of a member with whom nothing happens.                             *)
LEMMA BooksApart ==
    ASSUME RankingAssumption, Basics, Basics', Heard' = Heard, NEW m \in Members,
           reset'.era = reset.era, Total(m)' = Total(m),
           \A c \in Chats : tally'[c][m] = tally[c][m],
           \A d \in 0..MaxDays, c \in Chats : bucket'[d][c][m] = bucket[d][c][m],
           \A l \in Listens : listen'[l] = listen[l] \/ (listen[l].who # m /\ listen'[l].who # m),
           KeptFor(m)
    PROVE  KeptFor(m)'
<1>1. Tallied(m)' = Tallied(m)
  <2>1. [c \in Chats |-> tally'[c][m]] = [c \in Chats |-> tally[c][m]]
    OBVIOUS
  <2>. QED
    BY <2>1 DEF Tallied, Summed
<1>2. Bucketed(m)' = Bucketed(m)
  <2>1. [dc \in Places |-> bucket'[dc[1]][dc[2]][m]] = [dc \in Places |-> bucket[dc[1]][dc[2]][m]]
    BY DEF Places
  <2>2. Bucketed(m) = Sum(Before(m), Summed([dc \in Places |-> bucket[dc[1]][dc[2]][m]]))
    BY Weekly DEF Bucketed
  <2>3. Bucketed(m)' = Sum(Before(m)', Summed([dc \in Places |-> bucket'[dc[1]][dc[2]][m]]))
    BY DEF Bucketed, Score, Days, ChatsIn, Places, Sum, Summed
  <2>4. Before(m)' = Before(m)
    BY DEF Before, Past
  <2>. QED
    BY <2>1, <2>2, <2>3, <2>4
<1>3. ASSUME NEW what \in Writes PROVE Owed(what, m)' = Owed(what, m)
  <2>1. \A l \in Listens : l \in Pending(what, m)' <=> l \in Pending(what, m)
    BY DEF Pending, ListensOf
  <2>2. \A l \in Heard : OwedFor(what, m, l)' = OwedFor(what, m, l)
    BY <2>1 DEF OwedFor, Worth, Heard
  <2>3. Owed(what, m)' = Summed([l \in Heard' |-> OwedFor(what, m, l)'])
    BY DEF Owed, Summed
  <2>4. [l \in Heard' |-> OwedFor(what, m, l)'] = [l \in Heard |-> OwedFor(what, m, l)]
    BY <2>2
  <2>. QED
    BY <2>3, <2>4 DEF Owed
<1>4. Failed(m)' <=> Failed(m)
  BY DEF Failed, ListensOf
<1>5. ASSUME NEW what \in Writes
      PROVE  Keeps(m, Rows(what, m), Owed(what, m))'
  <2>1. Rows(what, m)' = Rows(what, m)
    BY <1>1, <1>2 DEF Rows
  <2>2. Keeps(m, Rows(what, m), Owed(what, m))
    BY DEF KeptFor
  <2>. QED
    BY <1>3, <1>4, <2>1, <2>2 DEF Keeps, AtMost, Sum
<1>. QED
  BY <1>5 DEF KeptFor


(* One call moves, and what it moves is balanced.                          *)
LEMMA KeptMoves ==
    ASSUME RankingAssumption, Basics, Basics', Heard' = Heard, NEW what \in Writes, NEW m \in Members,
           NEW l \in Heard, \A k \in Listens \ {l} : listen'[k] = listen[k],
           Keeps(m, Rows(what, m), Owed(what, m)),
           CoversBoth(Total(m), OwedFor(what, m, l), Rows(what, m),
                      Total(m)', OwedFor(what, m, l)', Rows(what, m)'),
           ~Failed(m)' => /\ ~Failed(m)
                          /\ BalancesBoth(Total(m), OwedFor(what, m, l), Rows(what, m),
                                          Total(m)', OwedFor(what, m, l)', Rows(what, m)')
    PROVE  Keeps(m, Rows(what, m), Owed(what, m))'
<1>. DEFINE t == Total(m)
            o == Owed(what, m)
            r == Rows(what, m)
            t1 == Total(m)'
            o1 == Owed(what, m)'
            r1 == Rows(what, m)'
            p == OwedFor(what, m, l)
            p1 == OwedFor(what, m, l)'
<1>1. t \in Row /\ o \in Row /\ r \in Row /\ p \in Row
  BY BookTypes DEF SoundBasics, AllTyped, BooksTyped
<1>2. t1 \in Row /\ o1 \in Row /\ r1 \in Row /\ p1 \in Row
  BY BookTypesNext DEF BooksTyped
<1>3. o1.tracks - o.tracks = p1.tracks - p.tracks /\ o1.seconds - o.seconds = p1.seconds - p.seconds
  BY OwedMoves
<1>4. Keeps(m, r, o) /\ CoversBoth(t, p, r, t1, p1, r1)
      /\ (~Failed(m)' => ~Failed(m) /\ BalancesBoth(t, p, r, t1, p1, r1))
  OBVIOUS
<1>5. AtMost(Sum(t, o), r) /\ (~Failed(m) => r = Sum(t, o))
  BY <1>4 DEF Keeps
<1>6. Keeps(m, r, o)' <=> AtMost(Sum(t1, o1), r1) /\ (~Failed(m)' => r1 = Sum(t1, o1))
  BY DEF Keeps, AtMost, Sum
<1>. HIDE DEF t, o, r, t1, o1, r1, p, p1
<1>7. CoversBoth(t, o, r, t1, o1, r1)
  BY <1>3, <1>4 DEF CoversBoth, Covers
<1>8. ~Failed(m)' => ~Failed(m) /\ BalancesBoth(t, o, r, t1, o1, r1)
  BY <1>3, <1>4 DEF BalancesBoth, Balances
<1>9. AtMost(Sum(t1, o1), r1) /\ (~Failed(m)' => r1 = Sum(t1, o1))
  BY <1>1, <1>2, <1>5, <1>7, <1>8, KeepsOn
<1>10. Keeps(m, r, o)'
  BY <1>6, <1>9
<1>. QED
  BY <1>10 DEF r, o

(* A member's rows grow by what a listen is worth.                         *)
LEMMA BucketGains ==
    ASSUME RankingAssumption, Basics, Basics', NEW l \in Listens, BucketLands(l), NEW m \in Members,
           m = listen[l].who
    PROVE  /\ Bucketed(m)'.tracks = Bucketed(m).tracks + 1
           /\ Bucketed(m)'.seconds = Bucketed(m).seconds + Lasts[l]
<1>. DEFINE rows == [dc \in Places |-> bucket[dc[1]][dc[2]][m]]
            now == [dc \in Places |-> bucket'[dc[1]][dc[2]][m]]
            here == <<listen[l].day, listen[l].chat>>
            x == Score("week", Everywhere, m)
            y == Score("week", Everywhere, m)'
<1>1. /\ listen[l].day \in 0..MaxDays /\ listen[l].chat \in Chats /\ Lasts[l] \in Nat
      /\ \A d \in 0..MaxDays, c \in Chats, o \in Members :
           bucket'[d][c][o] = IF d = listen[l].day /\ c = listen[l].chat /\ o = listen[l].who
                              THEN Plus(bucket[d][c][o], Lasts[l]) ELSE bucket[d][c][o]
  BY BucketLandsAt
<1>2. here \in Places /\ IsFiniteSet(Places)
  BY <1>1, Weekly DEF Places
<1>3. rows \in [Places -> Row] /\ Before(m) \in Row /\ x \in Row
  BY BookTypes DEF SoundBasics, AllTyped, BooksTyped
<1>4. now \in [Places -> Row] /\ y \in Row
  BY BookTypesNext DEF BooksTyped
<1>5. ASSUME NEW dc \in Places \ {here} PROVE now[dc] = rows[dc]
  <2>1. PICK d \in 0..MaxDays, c \in Chats : dc = <<d, c>>
    BY DEF Places
  <2>2. ~(d = listen[l].day /\ c = listen[l].chat)
    BY <2>1
  <2>3. bucket'[d][c][m] = bucket[d][c][m]
    BY <1>1, <2>2
  <2>. QED
    BY <2>1, <2>3
<1>6. now[here].tracks = rows[here].tracks + 1 /\ now[here].seconds = rows[here].seconds + Lasts[l]
  <2>1. now[here] = Plus(rows[here], Lasts[l]) /\ rows[here] \in Row
    BY <1>1, <1>2, <1>3
  <2>. HIDE DEF now, rows, here
  <2>2. Plus(rows[here], Lasts[l]) = [tracks |-> rows[here].tracks + 1, seconds |-> rows[here].seconds + Lasts[l]]
    BY <1>1, <2>1, PlusIs
  <2>. QED
    BY <2>1, <2>2
<1>7. x = Summed(rows)
  BY Weekly
<1>8. y = Summed(now)
  BY DEF Score, Days, ChatsIn, Places, Summed
<1>9. rows[here] \in Row
  BY <1>2, <1>3
<1>10. Before(m)' = Before(m)
  BY DEF Before, Past, BucketLands
<1>11. Bucketed(m) = Sum(Before(m), x)
  BY DEF Bucketed
<1>12. Bucketed(m)' = Sum(Before(m), y)
  BY <1>10 DEF Bucketed, Sum
<1>. HIDE DEF rows, now, here, x, y
<1>13. /\ y.tracks - x.tracks = now[here].tracks - rows[here].tracks
       /\ y.seconds - x.seconds = now[here].seconds - rows[here].seconds
  BY <1>2, <1>3, <1>4, <1>5, <1>7, <1>8, SummedGrows
<1>14. /\ x.tracks \in Nat /\ x.seconds \in Nat /\ y.tracks \in Nat /\ y.seconds \in Nat
       /\ rows[here].tracks \in Nat /\ rows[here].seconds \in Nat
       /\ Before(m).tracks \in Nat /\ Before(m).seconds \in Nat
  BY <1>3, <1>4, <1>9 DEF Row
<1>15. y.tracks = x.tracks + 1 /\ y.seconds = x.seconds + Lasts[l]
  BY <1>1, <1>6, <1>13, <1>14
<1>. QED
  BY <1>1, <1>11, <1>12, <1>14, <1>15 DEF Sum

(* And so do those without days.                                           *)
LEMMA TallyGains ==
    ASSUME RankingAssumption, Basics, Basics', NEW l \in Listens, TallyLands(l), NEW m \in Members,
           m = listen[l].who
    PROVE  /\ Tallied(m)'.tracks = Tallied(m).tracks + 1
           /\ Tallied(m)'.seconds = Tallied(m).seconds + Lasts[l]
<1>. DEFINE rows == [c \in Chats |-> tally[c][m]]
            now == [c \in Chats |-> tally'[c][m]]
            here == listen[l].chat
            x == Tallied(m)
            y == Tallied(m)'
<1>1. /\ here \in Chats /\ Lasts[l] \in Nat
      /\ \A c \in Chats, o \in Members :
           tally'[c][o] = IF c = listen[l].chat /\ o = listen[l].who
                          THEN Plus(tally[c][o], Lasts[l]) ELSE tally[c][o]
  BY TallyLandsAt
<1>2. IsFiniteSet(Chats)
  BY DEF RankingAssumption
<1>3. rows \in [Chats -> Row] /\ x \in Row
  BY BookTypes DEF SoundBasics, AllTyped, BooksTyped
<1>4. now \in [Chats -> Row] /\ y \in Row
  BY BookTypesNext DEF BooksTyped
<1>5. ASSUME NEW c \in Chats \ {here} PROVE now[c] = rows[c]
  <2>1. tally'[c][m] = tally[c][m]
    BY <1>1
  <2>. QED
    BY <2>1
<1>6. now[here].tracks = rows[here].tracks + 1 /\ now[here].seconds = rows[here].seconds + Lasts[l]
  <2>1. now[here] = Plus(rows[here], Lasts[l]) /\ rows[here] \in Row
    BY <1>1, <1>3
  <2>. HIDE DEF now, rows, here
  <2>2. Plus(rows[here], Lasts[l]) = [tracks |-> rows[here].tracks + 1, seconds |-> rows[here].seconds + Lasts[l]]
    BY <1>1, <2>1, PlusIs
  <2>. QED
    BY <2>1, <2>2
<1>7. x = Summed(rows) /\ y = Summed(now)
  BY DEF Tallied, Summed
<1>8. rows[here] \in Row
  BY <1>1, <1>3
<1>. HIDE DEF rows, now, here, x, y
<1>9. /\ y.tracks - x.tracks = now[here].tracks - rows[here].tracks
      /\ y.seconds - x.seconds = now[here].seconds - rows[here].seconds
  BY <1>1, <1>2, <1>3, <1>4, <1>5, <1>7, SummedGrows
<1>10. /\ x.tracks \in Nat /\ x.seconds \in Nat /\ y.tracks \in Nat /\ y.seconds \in Nat
       /\ rows[here].tracks \in Nat /\ rows[here].seconds \in Nat
  BY <1>3, <1>4, <1>8 DEF Row
<1>11. y.tracks = x.tracks + 1 /\ y.seconds = x.seconds + Lasts[l]
  BY <1>1, <1>6, <1>9, <1>10
<1>. QED
  BY <1>11 DEF x, y


\* One listen more.
Gains(row, now, l) == now.tracks = row.tracks + 1 /\ now.seconds = row.seconds + Lasts[l]

(* What balances: nothing; a listen written and owed; one owed and counted.*)
(* What covers: a listen written, or given up.                             *)
LEMMA Transfers ==
    ASSUME NEW t \in Row, NEW o \in Row, NEW r \in Row, NEW now \in Row, NEW l, Lasts[l] \in Nat
    PROVE  /\ CoversBoth(t, o, r, t, o, r) /\ BalancesBoth(t, o, r, t, o, r)
           /\ CoversBoth(t, o, r, t, Nothing, r)
           /\ Gains(r, now, l) => /\ CoversBoth(t, Nothing, r, t, Nothing, now)
                                  /\ CoversBoth(t, Nothing, r, t, Worth(l), now)
                                  /\ BalancesBoth(t, Nothing, r, t, Worth(l), now)
           /\ Gains(t, now, l) => /\ CoversBoth(t, Worth(l), r, now, Nothing, r)
                                  /\ BalancesBoth(t, Worth(l), r, now, Nothing, r)
<1>1. /\ t.tracks \in Nat /\ o.tracks \in Nat /\ r.tracks \in Nat /\ now.tracks \in Nat
      /\ t.seconds \in Nat /\ o.seconds \in Nat /\ r.seconds \in Nat /\ now.seconds \in Nat
  BY DEF Row
<1>2. Nothing.tracks = 0 /\ Nothing.seconds = 0 /\ Worth(l).tracks = 1 /\ Worth(l).seconds = Lasts[l]
  BY DEF Nothing, Worth
<1>3. CoversBoth(t, o, r, t, o, r) /\ BalancesBoth(t, o, r, t, o, r)
  BY <1>1 DEF CoversBoth, BalancesBoth, Covers, Balances
<1>4. CoversBoth(t, o, r, t, Nothing, r)
  BY <1>1, <1>2 DEF CoversBoth, Covers
<1>5. ASSUME Gains(r, now, l)
      PROVE  /\ CoversBoth(t, Nothing, r, t, Nothing, now)
             /\ CoversBoth(t, Nothing, r, t, Worth(l), now)
             /\ BalancesBoth(t, Nothing, r, t, Worth(l), now)
  BY <1>1, <1>2, <1>5 DEF CoversBoth, BalancesBoth, Covers, Balances, Gains
<1>6. ASSUME Gains(t, now, l)
      PROVE  /\ CoversBoth(t, Worth(l), r, now, Nothing, r)
             /\ BalancesBoth(t, Worth(l), r, now, Nothing, r)
  BY <1>1, <1>2, <1>6 DEF CoversBoth, BalancesBoth, Covers, Balances, Gains
<1>. QED
  BY <1>3, <1>4, <1>5, <1>6

\* What one call of a member makes of one collection is covered, and balanced
\* unless it fails.
Moved(what, m, l) ==
    /\ CoversBoth(Total(m), OwedFor(what, m, l), Rows(what, m),
                  Total(m)', OwedFor(what, m, l)', Rows(what, m)')
    /\ listen'[l].pc # "failed" => 
        BalancesBoth(Total(m), OwedFor(what, m, l), Rows(what, m),
                     Total(m)', OwedFor(what, m, l)', Rows(what, m)')

(* The books of the member whose call it is.                               *)
LEMMA BooksOwn ==
    ASSUME RankingAssumption, Basics, Basics', Heard' = Heard, NEW m \in Members,
           NEW l \in Heard, listen[l].who = m, listen'[l].who = m,
           \A k \in Listens \ {l} : listen'[k] = listen[k],
           listen[l].pc = "failed" => listen'[l].pc = "failed",
           KeptFor(m), \A what \in Writes : Moved(what, m, l)
    PROVE  KeptFor(m)'
<1>1. ~Failed(m)' => ~Failed(m) /\ listen'[l].pc # "failed"
  <2>1. l \in Listens
    BY DEF Heard
  <2>2. ListensOf(m)' = ListensOf(m)
    BY <2>1 DEF ListensOf
  <2>3. l \in ListensOf(m)
    BY <2>1 DEF ListensOf
  <2>. QED
    BY <2>2, <2>3 DEF Failed, ListensOf
<1>2. ASSUME NEW what \in Writes PROVE Keeps(m, Rows(what, m), Owed(what, m))'
  <2>1. Keeps(m, Rows(what, m), Owed(what, m))
    BY DEF KeptFor
  <2>2. Moved(what, m, l)
    OBVIOUS
  <2>. QED
    BY <1>1, <2>1, <2>2, KeptMoves DEF Moved
<1>. QED
  BY <1>2 DEF KeptFor

(* What a call still owes the row.                                         *)
LEMMA OwedIs ==
    ASSUME NEW what, NEW m, NEW l \in Listens
    PROVE  /\ OwedFor(what, m, l) = IF /\ listen[l].who = m /\ listen[l].pc \in {"writing", "counting"}
                                       /\ what \notin listen[l].todo
                                    THEN Worth(l) ELSE Nothing
           /\ OwedFor(what, m, l)' = IF /\ listen'[l].who = m /\ listen'[l].pc \in {"writing", "counting"}
                                        /\ what \notin listen'[l].todo
                                     THEN Worth(l) ELSE Nothing
  BY DEF OwedFor, Pending, ListensOf, Worth, Nothing


(* The sums that are the same where their rows are.                        *)
LEMMA RowsStay ==
    ASSUME RankingAssumption, NEW m \in Members
    PROVE  /\ tally' = tally => Rows("tally", m)' = Rows("tally", m)
           /\ bucket' = bucket /\ reset'.era = reset.era => Rows("bucket", m)' = Rows("bucket", m)
           /\ user' = user => Total(m)' = Total(m)
<1>1. tally' = tally => Rows("tally", m)' = Rows("tally", m)
  BY DEF Rows, Tallied, Summed
<1>2. ASSUME bucket' = bucket, reset'.era = reset.era PROVE Rows("bucket", m)' = Rows("bucket", m)
  BY <1>2 DEF Rows, Bucketed, Before, Past, Score, Days, ChatsIn, Summed, Sum
<1>. QED
  BY <1>1, <1>2 DEF Total

(* A day's row has come through: it is owed, unless the call has failed.   *)
LEMMA MovedBucket ==
    ASSUME RankingAssumption, Basics, Basics', NEW l \in Listens, BucketLands(l), NEW m \in Members,
           m = listen[l].who, NEW what \in Writes
    PROVE  Moved(what, m, l) /\ (listen[l].pc = "failed" => listen'[l].pc = "failed")
<1>. DEFINE t == Total(m)
            p == OwedFor(what, m, l)
            r == Rows(what, m)
            p1 == OwedFor(what, m, l)'
            r1 == Rows(what, m)'
<1>1. /\ Listening(l, Wrote(l, "bucket")) /\ "bucket" \in listen[l].todo
      /\ listen[l].pc \in {"writing", "failed"} /\ Lasts[l] \in Nat
  BY BucketLandsAt
<1>2. RankTypeOK /\ listen \in [Listens -> ListenType]
  BY DEF Basics, RankTypeOK
<1>3. listen'[l] = Wrote(l, "bucket")
  BY <1>1, <1>2 DEF Listening
<1>4. /\ listen'[l].who = m
      /\ listen'[l].todo = listen[l].todo \ {"bucket"}
      /\ listen[l].pc = "failed" => listen'[l].pc = "failed"
      /\ listen[l].pc = "writing" => listen'[l].pc \in {"writing", "counting"}
  BY <1>1, <1>2, <1>3, WroteIs DEF Writes
<1>5. Total(m)' = t
  BY RowsStay DEF BucketLands
<1>6. t \in Row /\ p \in Row /\ r \in Row
  <2>1. IF p = Nothing THEN TRUE ELSE p = Worth(l)
    BY OwedIs
  <2>. QED
    BY <1>1, <2>1, BookTypes DEF SoundBasics, AllTyped, BooksTyped, Row, Nothing, Worth
<1>7. r1 \in Row
  BY BookTypesNext DEF BooksTyped
<1>8. CASE what = "bucket"
  <2>1. p = Nothing
    BY <1>1, <1>8, OwedIs
  <2>2. p1 = IF listen[l].pc = "failed" THEN Nothing ELSE Worth(l)
    BY <1>1, <1>4, <1>8, OwedIs
  <2>3. Gains(r, r1, l)
    BY <1>8, BucketGains DEF Gains, Rows
  <2>. HIDE DEF t, p, r, p1, r1
  <2>4. CoversBoth(t, p, r, t, p1, r1)
    BY <1>1, <1>6, <1>7, <2>1, <2>2, <2>3, Transfers
  <2>5. listen'[l].pc # "failed" => BalancesBoth(t, p, r, t, p1, r1)
    BY <1>1, <1>4, <1>6, <1>7, <2>1, <2>2, <2>3, Transfers
  <2>. QED
    BY <1>4, <1>5, <2>4, <2>5 DEF Moved, t, p, r, p1, r1
<1>9. CASE what = "tally"
  <2>1. r1 = r
    BY <1>9, RowsStay DEF BucketLands
  <2>2. p1 = p
    BY <1>1, <1>4, <1>9, OwedIs
  <2>. HIDE DEF t, p, r, p1, r1
  <2>3. CoversBoth(t, p, r, t, p1, r1) /\ BalancesBoth(t, p, r, t, p1, r1)
    BY <1>1, <1>6, <2>1, <2>2, Transfers
  <2>. QED
    BY <1>4, <1>5, <2>3 DEF Moved, t, p, r, p1, r1
<1>. QED
  BY <1>8, <1>9 DEF Writes


(* The same of a row without days.                                         *)
LEMMA MovedTally ==
    ASSUME RankingAssumption, Basics, Basics', NEW l \in Listens, TallyLands(l), NEW m \in Members,
           m = listen[l].who, NEW what \in Writes
    PROVE  Moved(what, m, l) /\ (listen[l].pc = "failed" => listen'[l].pc = "failed")
<1>. DEFINE t == Total(m)
            p == OwedFor(what, m, l)
            r == Rows(what, m)
            p1 == OwedFor(what, m, l)'
            r1 == Rows(what, m)'
<1>1. /\ Listening(l, Wrote(l, "tally")) /\ "tally" \in listen[l].todo
      /\ listen[l].pc \in {"writing", "failed"} /\ Lasts[l] \in Nat
  BY TallyLandsAt
<1>2. RankTypeOK /\ listen \in [Listens -> ListenType]
  BY DEF Basics, RankTypeOK
<1>3. listen'[l] = Wrote(l, "tally")
  BY <1>1, <1>2 DEF Listening
<1>4. /\ listen'[l].who = m
      /\ listen'[l].todo = listen[l].todo \ {"tally"}
      /\ listen[l].pc = "failed" => listen'[l].pc = "failed"
      /\ listen[l].pc = "writing" => listen'[l].pc \in {"writing", "counting"}
  BY <1>1, <1>2, <1>3, WroteIs DEF Writes
<1>5. Total(m)' = t
  BY RowsStay DEF TallyLands
<1>6. t \in Row /\ p \in Row /\ r \in Row
  <2>1. IF p = Nothing THEN TRUE ELSE p = Worth(l)
    BY OwedIs
  <2>. QED
    BY <1>1, <2>1, BookTypes DEF SoundBasics, AllTyped, BooksTyped, Row, Nothing, Worth
<1>7. r1 \in Row
  BY BookTypesNext DEF BooksTyped
<1>8. CASE what = "tally"
  <2>1. p = Nothing
    BY <1>1, <1>8, OwedIs
  <2>2. p1 = IF listen[l].pc = "failed" THEN Nothing ELSE Worth(l)
    BY <1>1, <1>4, <1>8, OwedIs
  <2>3. Gains(r, r1, l)
    BY <1>8, TallyGains DEF Gains, Rows
  <2>. HIDE DEF t, p, r, p1, r1
  <2>4. CoversBoth(t, p, r, t, p1, r1)
    BY <1>1, <1>6, <1>7, <2>1, <2>2, <2>3, Transfers
  <2>5. listen'[l].pc # "failed" => BalancesBoth(t, p, r, t, p1, r1)
    BY <1>1, <1>4, <1>6, <1>7, <2>1, <2>2, <2>3, Transfers
  <2>. QED
    BY <1>4, <1>5, <2>4, <2>5 DEF Moved, t, p, r, p1, r1
<1>9. CASE what = "bucket"
  <2>1. r1 = r
    BY <1>9, RowsStay DEF TallyLands
  <2>2. p1 = p
    <3>1. "bucket" \in listen'[l].todo <=> "bucket" \in listen[l].todo
      BY <1>4
    <3>2. listen'[l].pc \in {"writing", "counting"} <=> listen[l].pc \in {"writing", "counting"}
      BY <1>1, <1>4
    <3>. QED
      BY <1>4, <1>9, <3>1, <3>2, OwedIs
  <2>. HIDE DEF t, p, r, p1, r1
  <2>3. CoversBoth(t, p, r, t, p1, r1) /\ BalancesBoth(t, p, r, t, p1, r1)
    BY <1>1, <1>6, <2>1, <2>2, Transfers
  <2>. QED
    BY <1>4, <1>5, <2>3 DEF Moved, t, p, r, p1, r1
<1>. QED
  BY <1>8, <1>9 DEF Writes

Fails(l) == WriteFails(l) \/ CountFails(l)

(* A call that fails gives up what it owed.                                *)
LEMMA MovedFails ==
    ASSUME RankingAssumption, Basics, Basics', NEW l \in Listens, Fails(l),
           NEW m \in Members, NEW what \in Writes
    PROVE  Moved(what, m, l) /\ listen'[l].pc = "failed"
<1>. DEFINE t == Total(m)
            p == OwedFor(what, m, l)
            r == Rows(what, m)
            p1 == OwedFor(what, m, l)'
            r1 == Rows(what, m)'
<1>1. listen \in [Listens -> ListenType] /\ listen[l] \in ListenType /\ Lasts[l] \in Nat
  BY DEF Basics, RankTypeOK, RankingAssumption
<1>2. listen'[l].pc = "failed"
  <2>1. CASE WriteFails(l)
    <3>1. PICK it \in listen[l].todo : Listening(l, [listen[l] EXCEPT !.todo = listen[l].todo \ {it}, !.pc = "failed"])
      BY <2>1, Zenon DEF WriteFails
    <3>. DEFINE x == [listen[l] EXCEPT !.todo = listen[l].todo \ {it}, !.pc = "failed"]
    <3>2. x.pc = "failed"
      BY <1>1 DEF ListenType
    <3>. HIDE DEF x
    <3>3. Listening(l, x)
      BY <3>1 DEF x
    <3>. QED
      BY <1>1, <3>2, <3>3 DEF Listening
  <2>2. CASE CountFails(l)
    <3>. DEFINE x == [listen[l] EXCEPT !.pc = "failed"]
    <3>2. x.pc = "failed"
      BY <1>1 DEF ListenType
    <3>. HIDE DEF x
    <3>3. Listening(l, x)
      BY <2>2 DEF CountFails, x
    <3>. QED
      BY <1>1, <3>2, <3>3 DEF Listening
  <2>. QED
    BY <2>1, <2>2 DEF Fails
<1>3. user' = user /\ tally' = tally /\ bucket' = bucket /\ reset' = reset
  <2>1. CASE WriteFails(l)
    BY <2>1 DEF WriteFails
  <2>2. CASE CountFails(l)
    BY <2>2 DEF CountFails
  <2>. QED
    BY <2>1, <2>2 DEF Fails
<1>4. Total(m)' = t /\ r1 = r
  BY <1>3, RowsStay DEF Writes
<1>5. t \in Row /\ p \in Row /\ r \in Row
  <2>1. IF p = Nothing THEN TRUE ELSE p = Worth(l)
    BY OwedIs
  <2>. QED
    BY <1>1, <2>1, BookTypes DEF SoundBasics, AllTyped, BooksTyped, Row, Nothing, Worth
<1>6. p1 = Nothing
  BY <1>2, OwedIs
<1>7. CoversBoth(t, p, r, Total(m)', p1, r1)
  <2>. HIDE DEF t, p, r, p1, r1
  <2>. QED
    BY <1>1, <1>4, <1>5, <1>6, Transfers
<1>. QED
  BY <1>2, <1>7 DEF Moved

(* What is counted is owed no longer.                                      *)
LEMMA MovedCounts ==
    ASSUME RankingAssumption, Basics, Basics', NEW l \in Listens, Counts(l), NEW m \in Members,
           m = listen[l].who, NEW what \in Writes
    PROVE  Moved(what, m, l) /\ listen[l].pc # "failed"
<1>. DEFINE t == Total(m)
            p == OwedFor(what, m, l)
            r == Rows(what, m)
            t1 == Total(m)'
            p1 == OwedFor(what, m, l)'
            r1 == Rows(what, m)'
<1>1. /\ listen[l].pc = "counting" /\ listen[l].todo = {} /\ Lasts[l] \in Nat
      /\ user'[m] = Plus(user[m], Lasts[l])
  BY CountsAt
<1>2. listen'[l].pc \in {"leveling", "telling"}
  <2>1. PICK x \in ListenType : Listening(l, x) /\ x.pc \in {"leveling", "telling"}
    BY ZenonT(40), CountsAt
  <2>. QED
    BY <2>1 DEF Listening, Basics, RankTypeOK
<1>3. p = Worth(l) /\ p1 = Nothing
  BY <1>1, <1>2, OwedIs
<1>4. r1 = r
  BY RowsStay DEF Counts, Writes
<1>5. t \in Row /\ r \in Row
  BY BookTypes DEF SoundBasics, AllTyped, BooksTyped
<1>6. t1 \in Row
  BY BookTypesNext DEF BooksTyped
<1>7. Gains(t, t1, l)
  <2>1. user[m] \in UserType
    BY DEF Basics, RankTypeOK
  <2>2. user'[m] = [tracks |-> user[m].tracks + 1, seconds |-> user[m].seconds + Lasts[l], level |-> user[m].level]
    BY <1>1, <2>1, PlusIs
  <2>. QED
    BY <2>2 DEF Gains, Total
<1>8. CoversBoth(t, p, r, t1, p1, r1) /\ BalancesBoth(t, p, r, t1, p1, r1)
  <2>. HIDE DEF t, p, r, t1, p1, r1
  <2>. QED
    BY <1>1, <1>3, <1>4, <1>5, <1>6, <1>7, Transfers
<1>. QED
  BY <1>1, <1>8 DEF Moved

(* Levels and milestones are not in the books.                             *)
LEMMA MovedIdle ==
    ASSUME RankingAssumption, Basics, Basics', NEW l \in Listens, Levels(l) \/ Tells(l), NEW m \in Members,
           NEW what \in Writes
    PROVE  Moved(what, m, l) /\ listen[l].pc # "failed"
<1>. DEFINE t == Total(m)
            p == OwedFor(what, m, l)
            r == Rows(what, m)
            p1 == OwedFor(what, m, l)'
            r1 == Rows(what, m)'
<1>1. listen \in [Listens -> ListenType] /\ listen[l] \in ListenType /\ Lasts[l] \in Nat
      /\ listen[l].pc \in {"leveling", "telling"}
  BY DEF Basics, RankTypeOK, RankingAssumption, Levels, Tells
<1>2. listen'[l].pc \in {"telling", "done"}
  <2>1. PICK pc \in {"telling", "done"} : Listening(l, [listen[l] EXCEPT !.pc = pc])
    BY DEF Levels, Tells
  <2>. DEFINE x == [listen[l] EXCEPT !.pc = pc]
  <2>2. x.pc = pc
    BY <1>1 DEF ListenType
  <2>. HIDE DEF x
  <2>3. Listening(l, x)
    BY <2>1 DEF x
  <2>. QED
    BY <1>1, <2>2, <2>3 DEF Listening
<1>3. p = Nothing /\ p1 = Nothing
  BY <1>1, <1>2, OwedIs
<1>4. tally' = tally /\ bucket' = bucket /\ reset' = reset
  BY DEF Levels, Tells
<1>5. r1 = r
  BY <1>4, RowsStay DEF Writes
<1>6. Total(m)' = t
  <2>1. CASE Levels(l)
    <3>1. user'[m].tracks = user[m].tracks /\ user'[m].seconds = user[m].seconds
      BY <2>1, LevelsAt
    <3>. QED
      BY <3>1 DEF Total
  <2>2. CASE Tells(l)
    BY <2>2, RowsStay DEF Tells
  <2>. QED
    BY <2>1, <2>2
<1>7. t \in Row /\ r \in Row /\ Nothing \in Row
  BY BookTypes DEF SoundBasics, AllTyped, BooksTyped, Row, Nothing
<1>8. CoversBoth(t, p, r, Total(m)', p1, r1) /\ BalancesBoth(t, p, r, Total(m)', p1, r1)
  <2>. HIDE DEF t, p, r, p1, r1
  <2>. QED
    BY <1>1, <1>3, <1>5, <1>6, <1>7, Transfers
<1>. QED
  BY <1>1, <1>8 DEF Moved


(* The steps of a call keep the books.                                     *)
LEMMA BooksListen ==
    ASSUME RankingAssumption, Basics, Basics', BooksKept, NEW l \in Listens, ListenStep(l)
    PROVE  BooksKept'
<1>1. /\ listen[l].who \in Members /\ l \in Heard
      /\ reset' = reset /\ raced' = raced
      /\ \A k \in Listens \ {l} : listen'[k] = listen[k]
      /\ listen'[l].who = listen[l].who
      /\ \A m \in Members \ {listen[l].who} :
           /\ user'[m] = user[m]
           /\ \A c \in Chats : tally'[c][m] = tally[c][m]
           /\ \A d \in 0..MaxDays, c \in Chats : bucket'[d][c][m] = bucket[d][c][m]
  BY ListenApart
<1>2. Heard' = Heard
  BY ListenBasics
<1>3. SUFFICES ASSUME reset.todo = {}, NEW m \in Members \ raced PROVE KeptFor(m)'
  BY <1>1 DEF BooksKept
<1>4. KeptFor(m)
  BY <1>3 DEF BooksKept
<1>5. CASE m # listen[l].who
  <2>1. Total(m)' = Total(m)
    BY <1>1, <1>5 DEF Total
  <2>2. \A k \in Listens : listen'[k] = listen[k] \/ (listen[k].who # m /\ listen'[k].who # m)
    BY <1>1, <1>5
  <2>3. /\ \A c \in Chats : tally'[c][m] = tally[c][m]
        /\ \A d \in 0..MaxDays, c \in Chats : bucket'[d][c][m] = bucket[d][c][m]
    BY <1>1, <1>5
  <2>. QED
    BY <1>1, <1>2, <1>4, <2>1, <2>2, <2>3, BooksApart
<1>6. CASE m = listen[l].who
  <2>1. ASSUME NEW what \in Writes
        PROVE  Moved(what, m, l) /\ (listen[l].pc = "failed" => listen'[l].pc = "failed")
    <3>1. CASE BucketLands(l)
      BY <1>6, <3>1, MovedBucket
    <3>2. CASE TallyLands(l)
      BY <1>6, <3>2, MovedTally
    <3>3. CASE WriteFails(l) \/ CountFails(l)
      BY <3>3, MovedFails DEF Fails
    <3>4. CASE Counts(l)
      BY <1>6, <3>4, MovedCounts
    <3>5. CASE Levels(l) \/ Tells(l)
      BY <3>5, MovedIdle
    <3>. QED
      BY <3>1, <3>2, <3>3, <3>4, <3>5 DEF ListenStep
  <2>2. (\A what \in Writes : Moved(what, m, l)) /\ (listen[l].pc = "failed" => listen'[l].pc = "failed")
    BY <2>1 DEF Writes
  <2>3. listen[l].who = m /\ listen'[l].who = m
    BY <1>1, <1>6
  <2>. QED
    <3>1. /\ Heard' = Heard /\ l \in Heard /\ KeptFor(m)
          /\ \A k \in Listens \ {l} : listen'[k] = listen[k]
      BY <1>1, <1>2, <1>4
    <3>. QED
      BY <2>2, <2>3, <3>1, BooksOwn
<1>. QED
  BY <1>5, <1>6

(* Who is credited owes nothing yet.                                       *)
LEMMA BooksCredited ==
    ASSUME RankingAssumption, Basics, Basics', BooksKept, NEW l \in Listens, Credited(l)
    PROVE  BooksKept'
<1>1. /\ listen[l].pc = "unheard" /\ listen[l].who = NoOne
      /\ \A k \in Listens \ {l} : listen'[k] = listen[k]
      /\ listen'[l].pc = "writing" /\ listen'[l].who \in Members /\ listen'[l].todo = Writes
      /\ raced' = IF reset.todo # {} THEN raced \union {listen'[l].who} ELSE raced
  BY CreditedAt
<1>2. reset' = reset /\ user' = user /\ tally' = tally /\ bucket' = bucket
  BY DEF Credited
<1>3. SUFFICES ASSUME reset.todo = {}, NEW m \in Members \ raced PROVE KeptFor(m)'
  BY <1>1, <1>2 DEF BooksKept
<1>4. KeptFor(m)
  BY <1>3 DEF BooksKept
<1>5. Total(m)' = Total(m) /\ \A what \in Writes : Rows(what, m)' = Rows(what, m)
  BY <1>2, RowsStay DEF Writes
<1>6. Heard' = Heard \union {l} /\ l \notin Heard
  <2>1. l \notin Heard /\ l \in Heard'
    BY <1>1 DEF Heard
  <2>2. ASSUME NEW k \in Listens \ {l} PROVE k \in Heard' <=> k \in Heard
    <3>1. listen'[k] = listen[k]
      BY <1>1
    <3>. QED
      BY <3>1 DEF Heard
  <2>3. Heard \subseteq Listens /\ Heard' \subseteq Listens
    BY DEF Heard
  <2>. QED
    BY <2>1, <2>2, <2>3
<1>7. ASSUME NEW what \in Writes PROVE Owed(what, m)' = Owed(what, m)
  <2>. DEFINE rows == [k \in Heard |-> OwedFor(what, m, k)]
              now == [k \in Heard \union {l} |-> OwedFor(what, m, k)']
  <2>1. rows \in [Heard -> Row] /\ IsFiniteSet(Heard)
    BY BookTypes DEF SoundBasics, AllTyped, BooksTyped, Basics
  <2>2. Owed(what, m) = Summed(rows)
    BY DEF Owed
  <2>3. Owed(what, m)' = Summed(now)
    <3>1. Owed(what, m)' = Summed([k \in Heard' |-> OwedFor(what, m, k)'])
      BY DEF Owed, Summed
    <3>. QED
      BY <1>6, <3>1
  <2>4. \A k \in Heard \union {l} : OwedFor(what, m, k)' \in Row
    BY <1>6, BookTypesNext DEF BooksTyped
  <2>5. now \in [Heard \union {l} -> Row]
    BY <2>4
  <2>6. ASSUME NEW k \in Heard PROVE OwedFor(what, m, k)' = OwedFor(what, m, k)
    <3>1. k \in Listens /\ listen'[k] = listen[k]
      BY <1>1, <1>6 DEF Heard
    <3>. QED
      BY <3>1, OwedIs
  <2>7. OwedFor(what, m, l)' = Nothing
    BY <1>1, OwedIs
  <2>8. now[l] = Nothing /\ \A k \in Heard : now[k] = rows[k]
    BY <2>6, <2>7
  <2>. HIDE DEF rows, now
  <2>. QED
    BY <1>6, <2>1, <2>2, <2>3, <2>5, <2>8, SummedJoined
<1>8. Failed(m)' => Failed(m)
  <2>1. \A k \in ListensOf(m)' : listen'[k].pc = "failed" => k \in ListensOf(m) /\ listen[k].pc = "failed"
    BY <1>1 DEF ListensOf
  <2>. QED
    BY <2>1 DEF Failed
<1>9. Failed(m) => Failed(m)'
  <2>1. \A k \in ListensOf(m) : listen[k].pc = "failed" => k \in ListensOf(m)' /\ listen'[k].pc = "failed"
    BY <1>1 DEF ListensOf
  <2>. QED
    BY <2>1 DEF Failed
<1>10. ASSUME NEW what \in Writes PROVE Keeps(m, Rows(what, m), Owed(what, m))'
  <2>1. Keeps(m, Rows(what, m), Owed(what, m))
    BY <1>4 DEF KeptFor
  <2>. QED
    BY <1>5, <1>7, <1>8, <1>9, <2>1 DEF Keeps, AtMost, Sum
<1>. QED
  BY <1>10 DEF KeptFor

(* When a reset is through, the books of who was spared are empty.         *)
LEMMA BooksReset ==
    ASSUME RankingAssumption, Basics, Basics', BooksKept, Spared,
           Resets \/ ResetFails \/ (\E what \in Parts : ResetLands(what)), Spared'
    PROVE  BooksKept'
<1>1. CASE Resets
  <2>1. reset'.todo # {}
    BY <1>1 DEF Resets, Basics, RankTypeOK
  <2>. QED
    BY <2>1 DEF BooksKept
<1>2. CASE ResetFails
  BY <1>2 DEF ResetFails, BooksKept
<1>3. ASSUME NEW what \in Parts, ResetLands(what) PROVE BooksKept'
  <2>1. /\ what \in reset.todo /\ reset.era \in Nat
        /\ reset'.todo = reset.todo \ {what}
        /\ reset'.era = IF what = "users" THEN reset.era + 1 ELSE reset.era
        /\ what = "users" => \A o \in Members : user'[o] = [tracks |-> 0, seconds |-> 0, level |-> -1]
        /\ what # "users" => user' = user
        /\ what = "tallies" => \A c \in Chats, o \in Members : tally'[c][o] = Nothing
        /\ what # "tallies" => tally' = tally
        /\ what = "buckets" => \A d \in 0..MaxDays, c \in Chats, o \in Members : bucket'[d][c][o] = Nothing
        /\ what # "buckets" => bucket' = bucket
    BY <1>3, ResetLandsAt
  <2>2. listen' = listen /\ raced' = raced
    BY <1>3 DEF ResetLands
  <2>3. SUFFICES ASSUME reset.todo = {what}, NEW m \in Members \ raced PROVE KeptFor(m)'
    BY <2>1, <2>2 DEF BooksKept
  <2>4. /\ Quiet(m)
        /\ what # "users" => user[m] = [tracks |-> 0, seconds |-> 0, level |-> -1] /\ reset.era > 0
        /\ what # "tallies" => \A c \in Chats : tally[c][m] = Nothing
        /\ what # "buckets" => \A d \in 0..MaxDays, c \in Chats : bucket[d][c][m] = Nothing
    BY <2>3 DEF Spared
  <2>5. user'[m].tracks = 0 /\ user'[m].seconds = 0 /\ reset'.era # 0
    <3>1. CASE what = "users"
      <4>1. user'[m] = [tracks |-> 0, seconds |-> 0, level |-> -1] /\ reset'.era = reset.era + 1
        BY <2>1, <3>1
      <4>. QED
        BY <2>1, <4>1
    <3>2. CASE what # "users"
      <4>1. user'[m] = [tracks |-> 0, seconds |-> 0, level |-> -1] /\ reset'.era = reset.era /\ reset.era > 0
        BY <2>1, <2>4, <3>2
      <4>. QED
        BY <2>1, <4>1
    <3>. QED
      BY <3>1, <3>2
  <2>6. \A c \in Chats : tally'[c][m] = Nothing
    BY <2>1, <2>4
  <2>7. \A d \in 0..MaxDays, c \in Chats : bucket'[d][c][m] = Nothing
    BY <2>1, <2>4
  <2>8. Total(m)' = Nothing /\ Before(m)' = Nothing
    BY <2>5 DEF Total, Before, Nothing
  <2>9. Tallied(m)' = Nothing
    <3>. DEFINE rows == [c \in Chats |-> tally'[c][m]]
    <3>1. DOMAIN rows = Chats /\ \A c \in Chats : rows[c] = Nothing
      BY <2>6
    <3>2. Tallied(m)' = Summed(rows)
      BY DEF Tallied, Summed
    <3>. HIDE DEF rows
    <3>. QED
      BY <3>1, <3>2, SummedNothing DEF RankingAssumption
  <2>10. Bucketed(m)' = Nothing
    <3>. DEFINE rows == [dc \in Places |-> bucket'[dc[1]][dc[2]][m]]
    <3>1. DOMAIN rows = Places /\ \A dc \in Places : rows[dc] = Nothing
      BY <2>7 DEF Places
    <3>2. Bucketed(m)' = Sum(Before(m)', Summed(rows))
      BY DEF Bucketed, Score, Days, ChatsIn, Places, Sum, Summed
    <3>. HIDE DEF rows
    <3>3. Summed(rows) = Nothing
      BY <3>1, Weekly, SummedNothing
    <3>. QED
      BY <2>8, <3>2, <3>3 DEF Sum, Nothing
  <2>11. ASSUME NEW it \in Writes PROVE Owed(it, m)' = Nothing
    <3>. DEFINE rows == [k \in Heard' |-> OwedFor(it, m, k)']
    <3>1. \A k \in Heard' : OwedFor(it, m, k)' = Nothing
      <4>1. SUFFICES ASSUME NEW k \in Heard' PROVE OwedFor(it, m, k)' = Nothing
        OBVIOUS
      <4>2. k \in Listens
        BY DEF Heard
      <4>3. listen[k].who = m => listen[k].todo = {} /\ listen[k].pc # "counting"
        BY <2>4, <4>2 DEF Quiet, UnderWay, ListensOf
      <4>4. listen[k].who = m => listen[k].pc # "writing"
        BY <4>2, <4>3 DEF Basics, CallsOK
      <4>. QED
        BY <2>2, <4>2, <4>3, <4>4, OwedIs
    <3>2. DOMAIN rows = Heard' /\ \A k \in Heard' : rows[k] = Nothing
      BY <3>1
    <3>3. Owed(it, m)' = Summed(rows)
      BY DEF Owed, Summed
    <3>4. IsFiniteSet(Heard')
      BY DEF Basics
    <3>. HIDE DEF rows
    <3>. QED
      BY <3>2, <3>3, <3>4, SummedNothing
  <2>12. ASSUME NEW it \in Writes PROVE Keeps(m, Rows(it, m), Owed(it, m))'
    <3>1. Rows(it, m)' = Nothing
      BY <2>9, <2>10 DEF Rows
    <3>2. Keeps(m, Rows(it, m), Owed(it, m))'
            <=> /\ AtMost(Sum(Total(m)', Owed(it, m)'), Rows(it, m)')
                /\ ~Failed(m)' => Rows(it, m)' = Sum(Total(m)', Owed(it, m)')
      BY DEF Keeps, AtMost, Sum
    <3>. QED
      BY <2>8, <2>11, <3>1, <3>2 DEF AtMost, Sum, Nothing
  <2>. QED
    BY <2>12 DEF KeptFor
<1>. QED
  BY <1>1, <1>2, <1>3


-----------------------------------------------------------------------------
(* Every step.                                                             *)

(* What no collection is told of keeps all of it.                          *)
LEMMA BooksStill ==
    ASSUME RankingAssumption, RankInv, Basics', UNCHANGED Books
    PROVE  RankInv'
<1>1. /\ bucket' = bucket /\ tally' = tally /\ user' = user /\ listen' = listen /\ reset' = reset
      /\ raced' = raced /\ overtaken' = overtaken
  BY DEF Books
<1>2. Basics /\ Numbered /\ Spared /\ LevelFollows /\ BooksKept
  BY DEF RankInv
<1>3. Numbered'
  BY <1>1, <1>2, NumbersStay
<1>4. Spared'
  <2>1. SUFFICES ASSUME NEW m \in Members \ raced PROVE SparedOne(m)'
    BY <1>1 DEF Spared, SparedOne
  <2>2. SparedOne(m)
    BY <1>2 DEF Spared, SparedOne
  <2>. QED
    BY <1>1, <2>2 DEF SparedOne, Quiet, ListensOf, UnderWay
<1>5. LevelFollows'
  BY <1>1, <1>2, LevelsStay
<1>6. BooksKept'
  <2>1. SUFFICES ASSUME reset.todo = {}, NEW m \in Members \ raced PROVE KeptFor(m)'
    BY <1>1 DEF BooksKept
  <2>2. KeptFor(m)
    BY <1>2, <2>1 DEF BooksKept
  <2>3. Heard' = Heard /\ Total(m)' = Total(m)
    BY <1>1 DEF Heard, Total
  <2>. QED
    BY <1>1, <1>2, <2>2, <2>3, BooksApart
<1>. QED
  BY <1>3, <1>4, <1>5, <1>6 DEF RankInv

\* The steps of a call but for those of the user's row.
Passes(l) == BucketLands(l) \/ TallyLands(l) \/ Tells(l)

(* What they leave of the call.                                            *)
LEMMA PassesAt ==
    ASSUME RankingAssumption, Basics, NEW l \in Listens, Passes(l) \/ Fails(l)
    PROVE  /\ user' = user /\ overtaken' = overtaken /\ raced' = raced
           /\ listen'[l].total = listen[l].total /\ listen'[l].who = listen[l].who
           /\ listen'[l].era = listen[l].era
           /\ \/ listen'[l].total = 0
              \/ listen'[l].pc = "failed"
              \/ listen[l].pc = "telling"
<1>1. listen \in [Listens -> ListenType] /\ listen[l] \in ListenType /\ RankTypeOK /\ CallsOK
  BY DEF Basics, RankTypeOK
<1>2. ASSUME NEW what \in Writes, Listening(l, Wrote(l, what)), listen[l].pc \in {"writing", "failed"}
      PROVE  /\ listen'[l].total = listen[l].total /\ listen'[l].who = listen[l].who
             /\ listen'[l].era = listen[l].era
             /\ listen'[l].total = 0 \/ listen'[l].pc = "failed"
  <2>1. listen'[l] = Wrote(l, what)
    BY <1>1, <1>2 DEF Listening
  <2>2. listen[l].pc = "writing" => listen[l].total = 0
    BY <1>1 DEF CallsOK
  <2>. QED
    BY <1>1, <1>2, <2>1, <2>2, WroteIs
<1>3. CASE BucketLands(l)
  <2>1. user' = user /\ overtaken' = overtaken /\ raced' = raced
    BY <1>3 DEF BucketLands
  <2>2. Listening(l, Wrote(l, "bucket")) /\ listen[l].pc \in {"writing", "failed"}
    BY <1>3, BucketLandsAt
  <2>. QED
    BY <1>2, <2>1, <2>2 DEF Writes
<1>4. CASE TallyLands(l)
  <2>1. user' = user /\ overtaken' = overtaken /\ raced' = raced
    BY <1>4 DEF TallyLands
  <2>2. Listening(l, Wrote(l, "tally")) /\ listen[l].pc \in {"writing", "failed"}
    BY <1>4, TallyLandsAt
  <2>. QED
    BY <1>2, <2>1, <2>2 DEF Writes
<1>5. CASE Tells(l)
  <2>. DEFINE x == [listen[l] EXCEPT !.pc = "done"]
  <2>1. x.total = listen[l].total /\ x.who = listen[l].who /\ x.era = listen[l].era
    BY <1>1 DEF ListenType
  <2>2. Listening(l, x)
    BY <1>5 DEF Tells
  <2>. HIDE DEF x
  <2>3. listen'[l] = x
    BY <1>1, <2>2 DEF Listening
  <2>. QED
    BY <1>5, <2>1, <2>3 DEF Tells
<1>6. CASE WriteFails(l)
  <2>1. PICK it \in listen[l].todo :
            Listening(l, [listen[l] EXCEPT !.todo = listen[l].todo \ {it}, !.pc = "failed"])
    BY <1>6, Zenon DEF WriteFails
  <2>. DEFINE x == [listen[l] EXCEPT !.todo = listen[l].todo \ {it}, !.pc = "failed"]
  <2>2. x.total = listen[l].total /\ x.who = listen[l].who /\ x.era = listen[l].era /\ x.pc = "failed"
    BY <1>1 DEF ListenType
  <2>. HIDE DEF x
  <2>3. Listening(l, x)
    BY <2>1 DEF x
  <2>4. listen'[l] = x
    BY <1>1, <2>3 DEF Listening
  <2>. QED
    BY <1>6, <2>2, <2>4 DEF WriteFails
<1>7. CASE CountFails(l)
  <2>. DEFINE x == [listen[l] EXCEPT !.pc = "failed"]
  <2>1. x.total = listen[l].total /\ x.who = listen[l].who /\ x.era = listen[l].era /\ x.pc = "failed"
    BY <1>1 DEF ListenType
  <2>2. Listening(l, x)
    BY <1>7 DEF CountFails
  <2>. HIDE DEF x
  <2>3. listen'[l] = x
    BY <1>1, <2>2 DEF Listening
  <2>. QED
    BY <1>7, <2>1, <2>3 DEF CountFails
<1>. QED
  BY <1>3, <1>4, <1>5, <1>6, <1>7 DEF Passes, Fails

(* A step of a call.                                                       *)
LEMMA ListenKeeps ==
    ASSUME RankingAssumption, RankInv, NEW l \in Listens, ListenStep(l)
    PROVE  RankInv'
<1>1. Basics /\ Numbered /\ Spared /\ LevelFollows /\ BooksKept
  BY DEF RankInv
<1>2. Basics'
  BY <1>1, ListenBasics
<1>3. Spared' /\ BooksKept'
  BY <1>1, <1>2, SparedListens, BooksListen
<1>4. reset' = reset /\ raced' = raced /\ \A k \in Listens \ {l} : listen'[k] = listen[k]
  BY <1>1, ListenApart
<1>5. CASE Passes(l) \/ Fails(l)
  <2>1. /\ user' = user /\ overtaken' = overtaken
        /\ listen'[l].total = listen[l].total /\ listen'[l].who = listen[l].who
        /\ listen'[l].era = listen[l].era
        /\ \/ listen'[l].total = 0
           \/ listen'[l].pc = "failed"
           \/ listen[l].pc = "telling"
    BY <1>1, <1>5, PassesAt
  <2>2. \A k \in Listens : /\ listen'[k].total = listen[k].total
                           /\ listen'[k].who = listen[k].who /\ listen'[k].era = listen[k].era
    BY <1>4, <2>1
  <2>3. Numbered'
    BY <1>1, <1>2, <1>4, <2>1, <2>2, NumbersStay
  <2>4. \A k \in Listens : \/ listen'[k] = listen[k]
                           \/ listen'[k].total = 0
                           \/ listen'[k].pc = "failed"
                           \/ /\ listen[k].pc = "telling" /\ listen'[k].total = listen[k].total
                              /\ listen'[k].who = listen[k].who /\ listen'[k].era = listen[k].era
    BY <1>4, <2>1
  <2>5. LevelFollows'
    BY <1>1, <1>2, <1>4, <2>1, <2>4, LevelsStay
  <2>. QED
    BY <1>2, <1>3, <2>3, <2>5 DEF RankInv
<1>6. CASE Counts(l)
  <2>1. Numbered'
    BY <1>1, <1>2, <1>6, NumbersCount
  <2>2. LevelFollows'
    BY <1>1, <1>2, <1>6, LevelsCount
  <2>. QED
    BY <1>2, <1>3, <2>1, <2>2 DEF RankInv
<1>7. CASE Levels(l)
  <2>1. \A m \in Members : user'[m].tracks = user[m].tracks
    BY <1>1, <1>7, LevelsAt
  <2>2. listen'[l].total = listen[l].total /\ listen'[l].who = listen[l].who /\ listen'[l].era = listen[l].era
    <3>1. listen \in [Listens -> ListenType] /\ listen[l] \in ListenType
      BY <1>1 DEF Basics, RankTypeOK
    <3>. DEFINE x == [listen[l] EXCEPT !.pc = "telling"]
    <3>2. x.total = listen[l].total /\ x.who = listen[l].who /\ x.era = listen[l].era
      BY <3>1 DEF ListenType
    <3>3. Listening(l, x)
      BY <1>7 DEF Levels
    <3>. HIDE DEF x
    <3>. QED
      BY <3>1, <3>2, <3>3 DEF Listening
  <2>3. \A k \in Listens : /\ listen'[k].total = listen[k].total
                           /\ listen'[k].who = listen[k].who /\ listen'[k].era = listen[k].era
    BY <1>4, <2>2
  <2>4. Numbered'
    BY <1>1, <1>2, <1>4, <2>1, <2>3, NumbersStay
  <2>5. LevelFollows'
    BY <1>1, <1>2, <1>7, LevelsStore
  <2>. QED
    BY <1>2, <1>3, <2>4, <2>5 DEF RankInv
<1>. QED
  BY <1>5, <1>6, <1>7 DEF ListenStep, Passes, Fails

(* A listener is credited.                                                 *)
LEMMA CreditedKeeps ==
    ASSUME RankingAssumption, RankInv, NEW l \in Listens, Credited(l)
    PROVE  RankInv'
<1>1. Basics /\ Numbered /\ Spared /\ LevelFollows /\ BooksKept
  BY DEF RankInv
<1>2. Basics'
  BY <1>1, CreditedBasics
<1>3. Spared' /\ BooksKept'
  BY <1>1, <1>2, SparedCredited, BooksCredited
<1>4. /\ listen[l].total = 0 /\ listen'[l].total = 0
      /\ \A k \in Listens \ {l} : listen'[k] = listen[k]
      /\ raced \subseteq raced'
  BY <1>1, CreditedAt
<1>5. reset' = reset /\ user' = user /\ overtaken' = overtaken
  BY DEF Credited
<1>6. \A k \in Listens : /\ listen'[k].total = listen[k].total
                         /\ listen[k].total > 0 => /\ listen'[k].who = listen[k].who
                                                   /\ listen'[k].era = listen[k].era
  BY <1>4
<1>7. Numbered'
  BY <1>1, <1>2, <1>5, <1>6, NumbersStay
<1>8. \A k \in Listens : listen'[k] = listen[k] \/ listen'[k].total = 0
  BY <1>4
<1>9. LevelFollows'
  BY <1>1, <1>2, <1>4, <1>5, <1>8, LevelsStay
<1>. QED
  BY <1>2, <1>3, <1>7, <1>9 DEF RankInv

ResetStep == Resets \/ ResetFails \/ (\E what \in Parts : ResetLands(what))

(* A step of a reset.                                                      *)
LEMMA ResetKeeps ==
    ASSUME RankingAssumption, RankInv, ResetStep
    PROVE  RankInv'
<1>1. Basics /\ Numbered /\ Spared /\ LevelFollows /\ BooksKept
  BY DEF RankInv
<1>2. Basics' /\ listen' = listen /\ overtaken' = overtaken /\ raced \subseteq raced'
  BY <1>1, ResetBasics DEF ResetStep
<1>3. Spared'
  BY <1>1, <1>2, SparedReset DEF ResetStep
<1>4. BooksKept'
  BY <1>1, <1>2, <1>3, BooksReset DEF ResetStep
<1>5. CASE ResetLands("users")
  <2>1. Numbered' /\ LevelFollows'
    BY <1>1, <1>2, <1>5, NumbersReset, LevelsReset
  <2>. QED
    BY <1>2, <1>3, <1>4, <2>1 DEF RankInv
<1>6. CASE ~ResetLands("users")
  <2>1. user' = user /\ reset'.era = reset.era
    <3>1. reset \in [todo : SUBSET Parts, era : Nat]
      BY <1>1 DEF Basics, RankTypeOK
    <3>2. CASE Resets \/ ResetFails
      <4>1. \E it : reset' = [reset EXCEPT !.todo = it]
        BY <3>2 DEF Resets, ResetFails
      <4>2. user' = user
        BY <3>2 DEF Resets, ResetFails
      <4>. QED
        BY <3>1, <4>1, <4>2
    <3>3. ASSUME NEW what \in Parts, ResetLands(what) PROVE user' = user /\ reset'.era = reset.era
      BY <1>1, <1>6, <3>3, ResetLandsAt
    <3>. QED
      BY <3>2, <3>3 DEF ResetStep
  <2>2. Numbered'
    BY <1>1, <1>2, <2>1, NumbersStay
  <2>3. LevelFollows'
    BY <1>1, <1>2, <2>1, LevelsStay
  <2>. QED
    BY <1>2, <1>3, <1>4, <2>2, <2>3 DEF RankInv
<1>. QED
  BY <1>5, <1>6

(* The invariant is kept by every step.                                    *)
LEMMA RankStep ==
    ASSUME RankingAssumption, RankInv, [RankNext]_rankVars
    PROVE  RankInv'
<1>1. CASE UNCHANGED rankVars
  <2>1. Basics' /\ UNCHANGED Books
    BY <1>1 DEF RankInv, Basics, RankTypeOK, CallsOK, Heard, rankVars, Books
  <2>. QED
    BY <2>1, BooksStill
<1>2. ASSUME NEW l \in Listens, Credited(l) \/ ListenStep(l) PROVE RankInv'
  BY <1>2, CreditedKeeps, ListenKeeps
<1>3. CASE ResetStep
  BY <1>3, ResetKeeps
<1>4. CASE Midnight \/ LooksUp \/ LooksUpSeconds \/ Ranks
  <2>1. Basics' /\ UNCHANGED Books
    BY <1>4, LooksBasics DEF RankInv
  <2>. QED
    BY <2>1, BooksStill
<1>. QED
  BY <1>1, <1>2, <1>3, <1>4 DEF RankNext, ResetStep, Parts


-----------------------------------------------------------------------------
(* The beginning.                                                          *)

(* What the bot finds when it starts is of its type.                       *)
LEMMA InitBasics ==
    ASSUME RankingAssumption, RankInit
    PROVE  Basics /\ Heard = {}
<1>1. MaxDays \in Nat /\ HomeChat \in Chats /\ \A m \in Members : History[m] \in Nat
  BY DEF RankingAssumption, HomeChat
<1>2. Nothing \in Row /\ \A m \in Members : Past(m) \in Row
  BY <1>1 DEF Nothing, Past, Row
<1>3. bucket \in [0..MaxDays -> [Chats -> [Members -> Row]]] /\ tally \in [Chats -> [Members -> Row]]
  <2>1. bucket = [d \in 0..MaxDays |-> [c \in Chats |-> [m \in Members |-> Nothing]]]
        /\ tally = [c \in Chats |-> [m \in Members |-> IF c = HomeChat THEN Past(m) ELSE Nothing]]
    BY DEF RankInit
  <2>. QED
    BY <1>2, <2>1
<1>4. user \in [Members -> UserType]
  <2>. DEFINE row(m) == [tracks |-> History[m], seconds |-> History[m],
                         level |-> IF History[m] = 0 THEN -1 ELSE LevelFromXp(History[m])]
  <2>1. user = [m \in Members |-> row(m)]
    BY DEF RankInit
  <2>2. ASSUME NEW m \in Members PROVE row(m) \in UserType
    BY <1>1, LevelIs DEF UserType
  <2>. HIDE DEF row
  <2>. QED
    BY <2>1, <2>2
<1>5. \A l \in Listens : listen[l] = [pc |-> "unheard", who |-> NoOne, chat |-> HomeChat, day |-> 0, todo |-> {},
                                      total |-> 0, era |-> 0]
  BY DEF RankInit
<1>6. listen \in [Listens -> ListenType]
  <2>1. [pc |-> "unheard", who |-> NoOne, chat |-> HomeChat, day |-> 0, todo |-> {},
         total |-> 0, era |-> 0] \in ListenType
    BY <1>1 DEF ListenType, Steps
  <2>. DEFINE x == [pc |-> "unheard", who |-> NoOne, chat |-> HomeChat, day |-> 0, todo |-> {},
                    total |-> 0, era |-> 0]
  <2>2. listen = [l \in Listens |-> x]
    BY DEF RankInit
  <2>. HIDE DEF x
  <2>3. x \in ListenType
    BY <2>1 DEF x
  <2>. QED
    BY <2>2, <2>3
<1>7. look \in LookType /\ look.pc = "told"
  BY <1>2 DEF RankInit, Told, LookType
<1>8. RankTypeOK
  <2>1. today = 0 /\ reset = [todo |-> {}, era |-> 0] /\ troubles = 0 /\ raced = {} /\ overtaken = {}
    BY DEF RankInit
  <2>2. today \in 0..MaxDays /\ reset \in [todo : SUBSET Parts, era : Nat] /\ troubles \in Nat
        /\ raced \subseteq Members /\ overtaken \subseteq Members
    BY <1>1, <2>1
  <2>. QED
    BY <1>3, <1>4, <1>6, <1>7, <2>2 DEF RankTypeOK
<1>9. CallsOK
  BY <1>5 DEF CallsOK, RankInit
<1>10. Heard = {}
  <2>1. \A l \in Listens : listen[l].pc = "unheard"
    BY DEF RankInit
  <2>. QED
    BY <2>1 DEF Heard
<1>. QED
  BY <1>8, <1>9, <1>10, FS_EmptySet DEF Basics

(* Everybody has what they had, here and there.                            *)
LEMMA InitBooks ==
    ASSUME RankingAssumption, RankInit, NEW m \in Members
    PROVE  KeptFor(m)
<1>1. Basics /\ Heard = {}
  BY InitBasics
<1>2. /\ IsFiniteSet(Chats) /\ HomeChat \in Chats /\ Past(m) \in Row /\ Nothing \in Row
      /\ Nothing.tracks = 0 /\ Nothing.seconds = 0
  BY DEF RankingAssumption, HomeChat, Past, Nothing, Row
<1>3. Total(m) = Past(m) /\ Before(m) = Past(m)
  BY DEF RankInit, Total, Past, Before
<1>4. ASSUME NEW what \in Writes PROVE Owed(what, m) = Nothing
  <2>. DEFINE rows == [l \in Heard |-> OwedFor(what, m, l)]
  <2>1. DOMAIN rows = {} /\ Owed(what, m) = Summed(rows)
    BY <1>1 DEF Owed
  <2>. HIDE DEF rows
  <2>. QED
    BY <2>1, SummedNothing, FS_EmptySet
<1>5. Tallied(m) = Past(m)
  <2>. DEFINE none == [c \in Chats |-> Nothing]
              rows == [c \in Chats |-> tally[c][m]]
  <2>1. rows = [c \in Chats |-> IF c = HomeChat THEN Past(m) ELSE Nothing]
    BY DEF RankInit
  <2>2. none \in [Chats -> Row] /\ DOMAIN none = Chats /\ \A c \in Chats : none[c] = Nothing
    BY <1>2
  <2>3. rows \in [Chats -> Row] /\ rows[HomeChat] = Past(m) /\ \A c \in Chats \ {HomeChat} : rows[c] = none[c]
    BY <1>2, <2>1
  <2>4. Tallied(m) = Summed(rows)
    BY DEF Tallied
  <2>. HIDE DEF none, rows
  <2>5. Summed(none) = Nothing
    BY <1>2, <2>2, SummedNothing
  <2>6. none[HomeChat] = Nothing
    BY <1>2, <2>2
  <2>7. /\ Summed(rows).tracks - Summed(none).tracks = rows[HomeChat].tracks - none[HomeChat].tracks
        /\ Summed(rows).seconds - Summed(none).seconds = rows[HomeChat].seconds - none[HomeChat].seconds
    BY <1>2, <2>2, <2>3, SummedGrows
  <2>8. Summed(rows) \in Row
    BY <1>2, <2>3, SummedType
  <2>9. Summed(rows).tracks = Past(m).tracks /\ Summed(rows).seconds = Past(m).seconds
    <3>. DEFINE s == Summed(rows)
                q == Past(m)
    <3>1. s.tracks - 0 = q.tracks - 0 /\ s.seconds - 0 = q.seconds - 0
      BY <1>2, <2>3, <2>5, <2>6, <2>7
    <3>2. s \in Row /\ q \in Row
      BY <1>2, <2>8
    <3>. HIDE DEF s, q
    <3>3. s.tracks = q.tracks /\ s.seconds = q.seconds
      BY <3>1, <3>2 DEF Row
    <3>. QED
      BY <3>3 DEF s, q
  <2>. QED
    BY <1>2, <2>4, <2>8, <2>9 DEF Row
<1>6. Bucketed(m) = Past(m)
  <2>. DEFINE rows == [dc \in Places |-> bucket[dc[1]][dc[2]][m]]
  <2>1. DOMAIN rows = Places /\ \A dc \in Places : rows[dc] = Nothing
    BY DEF RankInit, Places
  <2>2. Score("week", Everywhere, m) = Summed(rows)
    BY Weekly
  <2>. HIDE DEF rows
  <2>3. Score("week", Everywhere, m) = Nothing
    BY <2>1, <2>2, Weekly, SummedNothing
  <2>. QED
    BY <1>2, <1>3, <2>3 DEF Bucketed, Sum, Row
<1>7. Sum(Past(m), Nothing) = Past(m) /\ AtMost(Past(m), Past(m))
  BY <1>2 DEF Sum, AtMost, Row
<1>8. ASSUME NEW what \in Writes PROVE Keeps(m, Rows(what, m), Owed(what, m))
  <2>1. Rows(what, m) = Past(m)
    BY <1>5, <1>6 DEF Rows
  <2>. QED
    BY <1>3, <1>4, <1>7, <2>1 DEF Keeps
<1>. QED
  BY <1>8 DEF KeptFor

(* The invariant holds at the beginning.                                   *)
LEMMA RankBegins ==
    ASSUME RankingAssumption, RankInit
    PROVE  RankInv
<1>1. Basics /\ Heard = {}
  BY InitBasics
<1>2. BooksKept
  BY InitBooks DEF BooksKept
<1>3. /\ reset.todo = {} /\ reset.era = 0
      /\ \A l \in Listens : listen[l].pc = "unheard" /\ listen[l].total = 0
      /\ \A m \in Members : /\ user[m].tracks = History[m] /\ History[m] \in Nat
                            /\ user[m].level = IF History[m] = 0 THEN -1 ELSE LevelFromXp(History[m])
  BY DEF RankInit, RankingAssumption
<1>4. ASSUME NEW m \in Members PROVE CountedFor(m) = {}
  <2>1. ASSUME NEW l \in Listens PROVE ~(listen[l].total > 0)
    <3>1. listen[l].total = 0
      BY <1>3
    <3>. QED
      BY <3>1
  <2>. QED
    BY <2>1 DEF CountedFor, ListensOf
<1>5. Numbered
  <2>1. ASSUME NEW m \in Members PROVE NumberedFor(m)
    <3>1. Before(m).tracks = user[m].tracks /\ user[m].tracks \in Nat
      BY <1>3 DEF Before, Past
    <3>2. (Before(m).tracks + 1)..user[m].tracks = {}
      BY <3>1
    <3>3. Before(m).tracks <= user[m].tracks
      BY <3>1
    <3>. QED
      BY <1>4, <3>2, <3>3 DEF NumberedFor
  <2>. QED
    BY <2>1 DEF Numbered
<1>6. Spared
  BY <1>3 DEF Spared, ListensOf
<1>7. LevelFollows
  <2>1. ASSUME NEW m \in Members PROVE LevelFits(m)
    <3>1. user[m].level <= LevelFromXp(user[m].tracks)
      <4>1. CASE History[m] = 0
        BY <1>3, <4>1, LevelOfNothing
      <4>2. CASE History[m] # 0
        <5>1. LevelFromXp(History[m]) \in Nat
          BY <1>3, LevelIs
        <5>. QED
          BY <1>3, <4>2, <5>1
      <4>. QED
        BY <4>1, <4>2
    <3>. QED
      BY <1>4, <3>1 DEF LevelFits
  <2>. QED
    BY <2>1 DEF LevelFollows, LevelFits
<1>. QED
  BY <1>1, <1>2, <1>5, <1>6, <1>7 DEF RankInv

(* Where nobody's call is under way, nothing is owed: the books agree.     *)
LEMMA BooksTell ==
    ASSUME RankingAssumption, Basics, BooksKept
    PROVE  BooksAgree
<1>1. SUFFICES ASSUME reset.todo = {}, NEW m \in Members \ raced
               PROVE  /\ AtMost(Total(m), Tallied(m))
                      /\ AtMost(Total(m), Bucketed(m))
                      /\ Quiet(m) /\ ~Failed(m) => Total(m) = Tallied(m) /\ Total(m) = Bucketed(m)
  BY DEF BooksAgree, Total, Tallied, Bucketed
<1>2. Keeps(m, Tallied(m), Owed("tally", m)) /\ Keeps(m, Bucketed(m), Owed("bucket", m))
  BY <1>1 DEF BooksKept, KeptFor, Rows, Writes
<1>3. /\ Total(m) \in Row /\ Tallied(m) \in Row /\ Bucketed(m) \in Row
      /\ Owed("tally", m) \in Row /\ Owed("bucket", m) \in Row
  BY BookTypes DEF SoundBasics, AllTyped, BooksTyped, Writes
<1>4. ASSUME NEW t \in Row, NEW o \in Row, NEW r \in Row, AtMost(Sum(t, o), r) PROVE AtMost(t, r)
  BY <1>4 DEF AtMost, Sum, Row
<1>5. AtMost(Total(m), Tallied(m)) /\ AtMost(Total(m), Bucketed(m))
  BY <1>2, <1>3, <1>4 DEF Keeps
<1>6. ASSUME Quiet(m), NEW what \in Writes PROVE Owed(what, m) = Nothing
  <2>. DEFINE rows == [l \in Heard |-> OwedFor(what, m, l)]
  <2>1. ASSUME NEW l \in Heard PROVE OwedFor(what, m, l) = Nothing
    <3>1. l \in Listens
      BY DEF Heard
    <3>2. listen[l].who = m => listen[l].todo = {} /\ listen[l].pc # "counting"
      BY <1>6, <3>1 DEF Quiet, UnderWay, ListensOf
    <3>3. listen[l].who = m => listen[l].pc # "writing"
      BY <3>1, <3>2 DEF Basics, CallsOK
    <3>. QED
      BY <3>1, <3>2, <3>3, OwedIs
  <2>2. DOMAIN rows = Heard /\ (\A l \in Heard : rows[l] = Nothing) /\ Owed(what, m) = Summed(rows)
    BY <2>1 DEF Owed
  <2>3. IsFiniteSet(Heard)
    BY DEF Basics
  <2>. HIDE DEF rows
  <2>. QED
    BY <2>2, <2>3, SummedNothing
<1>7. \A t \in Row : Sum(t, Nothing) = t
  BY DEF Sum, Nothing, Row
<1>8. ASSUME Quiet(m), ~Failed(m) PROVE Total(m) = Tallied(m) /\ Total(m) = Bucketed(m)
  <2>1. Owed("tally", m) = Nothing /\ Owed("bucket", m) = Nothing
    BY <1>6, <1>8 DEF Writes
  <2>2. Sum(Total(m), Nothing) = Total(m)
    BY <1>3, <1>7
  <2>. QED
    BY <1>2, <1>8, <2>1, <2>2 DEF Keeps
<1>. QED
  BY <1>5, <1>8

-----------------------------------------------------------------------------
(* Boards.                                                                 *)

\* R puts each two members of S in order.
Orders(R, S) ==
    /\ \A x \in S : <<x, x>> \notin R
    /\ \A x, y, z \in S : <<x, y>> \in R /\ <<y, z>> \in R => <<x, z>> \in R
    /\ \A x, y \in S : x # y => <<x, y>> \in R \/ <<y, x>> \in R

SortedBy(R, board, T) ==
    /\ board \in [1..Cardinality(T) -> T]
    /\ \A i, j \in 1..Cardinality(T) : i < j => <<board[i], board[j]>> \in R

(* Somebody comes last: who has fewest behind.                             *)
LEMMA SomebodyLast ==
    ASSUME NEW S, IsFiniteSet(S), NEW R, Orders(R, S), NEW T \in SUBSET S, T # {}
    PROVE  \E z \in T : \A x \in T \ {z} : <<x, z>> \in R
<1>. DEFINE behind(z) == {x \in T : <<z, x>> \in R}
            counts == {Cardinality(behind(z)) : z \in T}
<1>1. IsFiniteSet(T)
  BY FS_Subset
<1>2. ASSUME NEW z \in T PROVE IsFiniteSet(behind(z)) /\ Cardinality(behind(z)) \in Nat
  <2>1. behind(z) \in SUBSET T
    OBVIOUS
  <2>. HIDE DEF behind
  <2>. QED
    BY <1>1, <2>1, FS_Subset, FS_CardinalityType
<1>3. counts \subseteq Nat /\ counts # {}
  BY <1>2
<1>4. PICK n \in counts : \A c \in counts : n <= c
  <2>. HIDE DEF counts
  <2>. QED
    BY <1>3, LeastNatural
<1>5. PICK z \in T : n = Cardinality(behind(z))
  OBVIOUS
<1>6. ASSUME NEW x \in T, <<z, x>> \in R PROVE FALSE
  <2>1. behind(x) \in SUBSET behind(z)
    BY <1>6 DEF Orders
  <2>2. x \in behind(z) /\ x \notin behind(x)
    BY <1>6 DEF Orders
  <2>3. Cardinality(behind(x)) \in counts
    OBVIOUS
  <2>. HIDE DEF behind, counts
  <2>4. Cardinality(behind(x)) <= Cardinality(behind(z)) /\ Cardinality(behind(x)) # Cardinality(behind(z))
    BY <1>2, <2>1, <2>2, FS_Subset
  <2>5. Cardinality(behind(z)) <= Cardinality(behind(x))
    BY <1>4, <1>5, <2>3
  <2>. QED
    BY <1>2, <2>4, <2>5
<1>7. \A x \in T \ {z} : <<x, z>> \in R
  BY <1>6 DEF Orders
<1>. QED
  BY <1>7

(* There is a board of every finite set whose members are ordered.         *)
LEMMA BoardExists ==
    ASSUME NEW S, IsFiniteSet(S), NEW R, Orders(R, S), NEW T \in SUBSET S
    PROVE  \E board : SortedBy(R, board, T)
<1>. DEFINE Bad == {U \in SUBSET S : ~\E board : SortedBy(R, board, U)}
<1>1. SUFFICES ASSUME Bad # {} PROVE FALSE
  OBVIOUS
<1>2. PICK U \in Bad : \A V \in Bad : V \subseteq U => V = U
  <2>1. Bad \subseteq SUBSET S
    OBVIOUS
  <2>. HIDE DEF Bad
  <2>. QED
    BY <1>1, <2>1, MinimalSubset
<1>3. U \in SUBSET S /\ IsFiniteSet(U) /\ ~\E board : SortedBy(R, board, U)
  BY FS_Subset
<1>4. U # {}
  <2>1. SUFFICES ASSUME U = {} PROVE FALSE
    OBVIOUS
  <2>2. Cardinality(U) = 0 /\ 1..Cardinality(U) = {}
    BY <2>1, FS_EmptySet
  <2>3. SortedBy(R, [i \in {} |-> i], U)
    BY <2>1, <2>2 DEF SortedBy
  <2>. QED
    BY <1>3, <2>3
<1>5. PICK z \in U : \A x \in U \ {z} : <<x, z>> \in R
  BY <1>3, <1>4, SomebodyLast
<1>. DEFINE V == U \ {z}
            n == Cardinality(V)
<1>6. V \in SUBSET S /\ V # U /\ V \subseteq U
  BY <1>3
<1>7. PICK short : SortedBy(R, short, V)
  BY <1>2, <1>6
<1>8. n \in Nat /\ Cardinality(U) = n + 1
  <2>1. IsFiniteSet(V) /\ Cardinality(V) = Cardinality(U) - 1 /\ Cardinality(U) \in Nat
    BY <1>3, FS_RemoveElement, FS_CardinalityType
  <2>2. n \in Nat
    BY <2>1, FS_CardinalityType
  <2>. QED
    BY <2>1, <2>2
<1>9. short \in [1..n -> V] /\ \A i, j \in 1..n : i < j => <<short[i], short[j]>> \in R
  BY <1>7 DEF SortedBy
<1>. HIDE DEF n
<1>. DEFINE board == [i \in 1..(n + 1) |-> IF i = n + 1 THEN z ELSE short[i]]
<1>10. \A i \in 1..(n + 1) : i # n + 1 => i \in 1..n /\ short[i] \in V
  BY <1>8, <1>9
<1>11. board \in [1..(n + 1) -> U]
  BY <1>10
<1>12. ASSUME NEW i \in 1..(n + 1), NEW j \in 1..(n + 1), i < j PROVE <<board[i], board[j]>> \in R
  <2>1. i # n + 1
    BY <1>8, <1>12
  <2>2. CASE j = n + 1
    <3>1. board[i] = short[i] /\ board[j] = z /\ short[i] \in V
      BY <1>10, <2>1, <2>2
    <3>. QED
      BY <1>5, <3>1
  <2>3. CASE j # n + 1
    BY <1>9, <1>10, <1>12, <2>1, <2>3
  <2>. QED
    BY <2>2, <2>3
<1>13. SortedBy(R, board, U)
  BY <1>8, <1>11, <1>12 DEF SortedBy
<1>. QED
  BY <1>3, <1>13

\* The board shows everybody, and behind as many as are in front.
PlacedBy(R, board, T) ==
    /\ Range(board) = T
    /\ \A p \in 1..Cardinality(T) : Cardinality({x \in T : <<x, board[p]>> \in R}) = p - 1

(* A sorted board does so.                                                 *)
LEMMA BoardPlaces ==
    ASSUME NEW S, IsFiniteSet(S), NEW R, Orders(R, S), NEW T \in SUBSET S,
           NEW board, SortedBy(R, board, T)
    PROVE  PlacedBy(R, board, T)
<1>. DEFINE n == Cardinality(T)
<1>1. IsFiniteSet(T) /\ n \in Nat
  BY FS_Subset, FS_CardinalityType
<1>2. board \in [1..n -> T] /\ \A i, j \in 1..n : i < j => <<board[i], board[j]>> \in R
  BY DEF SortedBy
<1>. HIDE DEF n
<1>3. \A i, j \in 1..n : board[i] = board[j] => i = j
  <2>1. SUFFICES ASSUME NEW i \in 1..n, NEW j \in 1..n, board[i] = board[j], i < j PROVE FALSE
    BY <1>1
  <2>. QED
    BY <1>2, <2>1 DEF Orders
<1>4. board \in Injection(1..n, T)
  BY <1>2, <1>3, Fun_IsInj
<1>5. IsFiniteSet(1..n) /\ Cardinality(1..n) = n
  BY <1>1, FS_Interval
<1>6. board \in Surjection(1..n, T)
  BY <1>1, <1>4, <1>5, FS_Injection DEF n
<1>7. \A x \in T : \E i \in 1..n : board[i] = x
  BY <1>6 DEF Surjection
<1>8. Range(board) = T
  BY <1>2, <1>7 DEF Range
<1>9. ASSUME NEW p \in 1..n PROVE Cardinality({x \in T : <<x, board[p]>> \in R}) = p - 1
  <2>. DEFINE front == {x \in T : <<x, board[p]>> \in R}
              f == [i \in 1..(p - 1) |-> board[i]]
  <2>1. p \in Nat /\ p >= 1 /\ p <= n /\ p - 1 \in Nat
    BY <1>1
  <2>2. \A i \in 1..(p - 1) : i \in 1..n /\ i < p
    BY <1>1, <2>1
  <2>3. f \in [1..(p - 1) -> front]
    <3>1. ASSUME NEW i \in 1..(p - 1) PROVE board[i] \in front
      BY <1>2, <2>2
    <3>. QED
      BY <3>1
  <2>4. ASSUME NEW x \in front PROVE \E i \in 1..(p - 1) : f[i] = x
    <3>1. PICK i \in 1..n : board[i] = x
      BY <1>7
    <3>2. ~(p < i) /\ i # p
      <4>1. <<board[i], board[p]>> \in R /\ board[i] \in S /\ board[p] \in S
        BY <1>2, <3>1
      <4>2. ~(<<board[p], board[i]>> \in R)
        BY <4>1 DEF Orders
      <4>. QED
        BY <1>2, <4>1, <4>2 DEF Orders
    <3>3. i \in 1..(p - 1)
      BY <1>1, <2>1, <3>2
    <3>. QED
      BY <3>1, <3>3
  <2>5. \A i, j \in 1..(p - 1) : f[i] = f[j] => i = j
    BY <1>3, <2>2
  <2>6. IsFiniteSet(1..(p - 1)) /\ Cardinality(1..(p - 1)) = p - 1
    BY <2>1, FS_Interval
  <2>. HIDE DEF f, front
  <2>7. f \in Bijection(1..(p - 1), front)
    BY <2>3, <2>4, <2>5, Fun_IsBij
  <2>8. ExistsBijection(1..(p - 1), front)
    BY <2>7 DEF ExistsBijection
  <2>. QED
    BY <2>6, <2>8, FS_Bijection DEF front
<1>. QED
  BY <1>8, <1>9 DEF n, PlacedBy

\* Who outranks whom.
Ranked(period, scope) == {mo \in Members \X Members : Outranks(period, scope, mo[1], mo[2])}

(* Of each two members one outranks the other.                             *)
LEMMA RankedOrders ==
    ASSUME RankingAssumption, RankTypeOK, NEW period \in {"today", "week", "overall"},
           NEW scope \in Chats \union {Everywhere}
    PROVE  /\ Orders(Ranked(period, scope), Members)
           /\ \A m, o \in Members : <<m, o>> \in Ranked(period, scope) <=> Outranks(period, scope, m, o)
<1>. DEFINE R == Ranked(period, scope)
            S(m) == Score(period, scope, m)
            P(m, o) == Precedes(period, scope, m, o)
<1>1. \A m, o \in Members : <<m, o>> \in R <=> Outranks(period, scope, m, o)
  BY DEF Ranked
<1>2. ASSUME NEW m \in Members PROVE S(m) \in Row
  BY ScoreType
<1>3. /\ \A m \in Members : ~P(m, m)
      /\ \A m, o, q \in Members : P(m, o) /\ P(o, q) => P(m, q)
      /\ \A m, o \in Members : m # o => P(m, o) \/ P(o, m)
  <2>1. \A m \in Members : m \in Nat /\ Spelled[m] \in Nat
    BY DEF RankingAssumption
  <2>2. \A m, o \in Members : m # o => Spelled[m] # Spelled[o]
    BY DEF RankingAssumption
  <2>3. CASE period = "overall" /\ scope = Everywhere
    BY <2>1, <2>2, <2>3 DEF Precedes
  <2>4. CASE ~(period = "overall" /\ scope = Everywhere)
    BY <2>1, <2>4 DEF Precedes
  <2>. QED
    BY <2>3, <2>4
<1>4. \A m, o \in Members :
        Outranks(period, scope, m, o) <=> \/ S(m).tracks > S(o).tracks
                                          \/ S(m).tracks = S(o).tracks /\ S(m).seconds > S(o).seconds
                                          \/ S(m) = S(o) /\ P(m, o)
  BY DEF Outranks
<1>5. \A m \in Members : /\ S(m).tracks \in Nat /\ S(m).seconds \in Nat
                         /\ S(m) = [tracks |-> S(m).tracks, seconds |-> S(m).seconds]
  BY <1>2 DEF Row
<1>6. \A m, o \in Members : S(m) = S(o) <=> S(m).tracks = S(o).tracks /\ S(m).seconds = S(o).seconds
  BY <1>5
<1>. HIDE DEF S, P, R
<1>7. \A m \in Members : ~Outranks(period, scope, m, m)
  BY <1>3, <1>4, <1>5
<1>8. ASSUME NEW m \in Members, NEW o \in Members, NEW q \in Members,
             Outranks(period, scope, m, o), Outranks(period, scope, o, q)
      PROVE  Outranks(period, scope, m, q)
  <2>1. /\ S(m).tracks \in Nat /\ S(o).tracks \in Nat /\ S(q).tracks \in Nat
        /\ S(m).seconds \in Nat /\ S(o).seconds \in Nat /\ S(q).seconds \in Nat
    BY <1>5
  <2>2. /\ S(m) = S(o) <=> S(m).tracks = S(o).tracks /\ S(m).seconds = S(o).seconds
        /\ S(o) = S(q) <=> S(o).tracks = S(q).tracks /\ S(o).seconds = S(q).seconds
        /\ S(m) = S(q) <=> S(m).tracks = S(q).tracks /\ S(m).seconds = S(q).seconds
    BY <1>6
  <2>3. P(m, o) /\ P(o, q) => P(m, q)
    BY <1>3
  <2>. QED
    BY <1>4, <1>8, <2>1, <2>2, <2>3
<1>9. ASSUME NEW m \in Members, NEW o \in Members, m # o
      PROVE  Outranks(period, scope, m, o) \/ Outranks(period, scope, o, m)
  <2>1. /\ S(m).tracks \in Nat /\ S(o).tracks \in Nat
        /\ S(m).seconds \in Nat /\ S(o).seconds \in Nat
    BY <1>5
  <2>2. S(m) = S(o) <=> S(m).tracks = S(o).tracks /\ S(m).seconds = S(o).seconds
    BY <1>6
  <2>3. P(m, o) \/ P(o, m)
    BY <1>3, <1>9
  <2>. QED
    BY <1>4, <2>1, <2>2, <2>3
<1>10. Orders(R, Members)
  BY <1>1, <1>7, <1>8, <1>9 DEF Orders
<1>. QED
  BY <1>1, <1>10 DEF R

(* The leaderboard shows who is listed, and each with those in front who   *)
(* are counted as ahead.                                                   *)
LEMMA RankOnBoard ==
    ASSUME RankingAssumption, RankTypeOK, NEW period \in {"today", "week", "overall"},
           NEW scope \in Chats \union {Everywhere}, NEW m \in Members,
           NEW mine, mine = Score(period, scope, m)
    PROVE  LET board == Leaderboard(period, scope)
           IN  IF m \in Range(board)
               THEN /\ mine # Nothing
                    /\ board[1 + Cardinality(Ahead(period, scope, m, mine))] = m
               ELSE mine = Nothing
<1>. DEFINE R == Ranked(period, scope)
            T == Listed(period, scope)
            board == Leaderboard(period, scope)
            n == Cardinality(T)
<1>1. Orders(R, Members) /\ \A o, q \in Members : <<o, q>> \in R <=> Outranks(period, scope, o, q)
  BY RankedOrders
<1>2. IsFiniteSet(Members) /\ T \in SUBSET Members /\ IsFiniteSet(T) /\ n \in Nat
  <2>1. IsFiniteSet(Members) /\ T \in SUBSET Members
    BY DEF RankingAssumption, Listed
  <2>. HIDE DEF T
  <2>. QED
    BY <2>1, FS_Subset, FS_CardinalityType
<1>3. SortedBy(R, board, T)
  <2>1. \E b : SortedBy(R, b, T)
    <3>. HIDE DEF R, T
    <3>. QED
      BY <1>1, <1>2, BoardExists
  <2>2. PICK b : SortedBy(R, b, T)
    BY <2>1
  <2>3. b \in [1..n -> T] /\ \A i, j \in DOMAIN b : i < j => Outranks(period, scope, b[i], b[j])
    <3>1. b \in [1..n -> T] /\ \A i, j \in 1..n : i < j => <<b[i], b[j]>> \in R
      BY <2>2 DEF SortedBy
    <3>2. \A i \in 1..n : b[i] \in Members
      BY <1>2, <3>1
    <3>. HIDE DEF R, T, n
    <3>. QED
      BY <1>1, <3>1, <3>2
  <2>4. board = CHOOSE c \in [1..n -> T] :
                    \A i, j \in DOMAIN c : i < j => Outranks(period, scope, c[i], c[j])
    BY DEF Leaderboard
  <2>5. board \in [1..n -> T] /\ \A i, j \in DOMAIN board : i < j => Outranks(period, scope, board[i], board[j])
    <3>. HIDE DEF board, T, n
    <3>. QED
      BY <2>3, <2>4
  <2>6. \A i \in 1..n : board[i] \in Members
    <3>. HIDE DEF board, T, n
    <3>. QED
      BY <1>2, <2>5
  <2>7. \A i, j \in 1..n : i < j => <<board[i], board[j]>> \in R
    <3>. HIDE DEF board, T, n, R
    <3>. QED
      BY <1>1, <2>5, <2>6
  <2>. HIDE DEF board, T, R
  <2>. QED
    BY <2>5, <2>7 DEF SortedBy
<1>4. PlacedBy(R, board, T)
  <2>1. IsFiniteSet(Members) /\ Orders(R, Members) /\ T \in SUBSET Members /\ SortedBy(R, board, T)
    BY <1>1, <1>2, <1>3
  <2>. HIDE DEF board, T, R
  <2>. QED
    BY <2>1, BoardPlaces
<1>5. \A o \in Members : Score(period, scope, o) \in Row
  BY ScoreType
<1>6. Range(board) = T /\ \A p \in 1..n : Cardinality({x \in T : <<x, board[p]>> \in R}) = p - 1
  <2>. HIDE DEF board, T, R
  <2>. QED
    BY <1>4 DEF PlacedBy
<1>7. m \in T <=> mine # Nothing
  <2>1. m \in T <=> mine.tracks > 0 \/ mine.seconds > 0
    BY DEF Listed
  <2>2. mine \in Row
    BY <1>5
  <2>. HIDE DEF T
  <2>. QED
    BY <2>1, <2>2 DEF Row, Nothing
<1>8. ASSUME m \in T
      PROVE  board[1 + Cardinality(Ahead(period, scope, m, mine))] = m
  <2>1. PICK p \in 1..n : board[p] = m
    <3>1. board \in [1..n -> T]
      BY <1>3 DEF SortedBy
    <3>. HIDE DEF board, T
    <3>. QED
      BY <1>6, <1>8, <3>1 DEF Range
  <2>2. Ahead(period, scope, m, mine) = {o \in Members : Outranks(period, scope, o, m)}
    BY DEF Ahead, Outranks
  <2>3. ASSUME NEW o \in Members, Outranks(period, scope, o, m) PROVE o \in T
    <3>. DEFINE s == Score(period, scope, o)
    <3>1. s \in Row /\ mine \in Row /\ mine # Nothing
      BY <1>5, <1>7, <1>8
    <3>2. s.tracks > mine.tracks \/ (s.tracks = mine.tracks /\ s.seconds > mine.seconds) \/ s = mine
      BY <2>3 DEF Outranks
    <3>3. s.tracks > 0 \/ s.seconds > 0
      <4>1. mine.tracks > 0 \/ mine.seconds > 0
        BY <3>1 DEF Row, Nothing
      <4>. HIDE DEF s
      <4>. QED
        BY <3>1, <3>2, <4>1 DEF Row
    <3>. QED
      BY <3>3 DEF Listed
  <2>4. Ahead(period, scope, m, mine) = {x \in T : <<x, board[p]>> \in R}
    <3>1. \A o \in Members : Outranks(period, scope, o, m) <=> o \in T /\ <<o, board[p]>> \in R
      <4>. HIDE DEF T, R, board
      <4>. QED
        BY <1>1, <2>1, <2>3
    <3>. HIDE DEF T, R, board
    <3>. QED
      BY <1>2, <2>2, <3>1
  <2>5. Cardinality(Ahead(period, scope, m, mine)) = p - 1
    BY <1>6, <2>4
  <2>. HIDE DEF board, n
  <2>6. 1 + (p - 1) = p
    BY <1>2
  <2>. QED
    BY <2>1, <2>5, <2>6
<1>. QED
  BY <1>6, <1>7, <1>8

-----------------------------------------------------------------------------
(* The theorems.                                                           *)

(* The inductive invariant holds in every behaviour.                       *)
THEOREM RankInvariant == RankSpec => []RankInv
<1>1. RankInit => RankInv
  BY RankBegins, RankingAssumption
<1>2. RankInv /\ [RankNext]_rankVars => RankInv'
  BY RankStep, RankingAssumption
<1>. QED
  BY <1>1, <1>2, PTL DEF RankSpec

(* Every collection, call, reset and look is of its type, with any number  *)
(* of listens, members, chats, days and troubles.                          *)
THEOREM RankTypes == RankSpec => []RankTypeOK
<1>1. RankInv => RankTypeOK
  BY DEF RankInv, Basics
<1>. QED
  BY <1>1, RankInvariant, PTL

(* Each milestone that is reached is one listen's to tell, and goes by     *)
(* untold only when the level write of that listen fails.                  *)
THEOREM RankMilestonesOnce == RankSpec => []MilestonesOnce
<1>1. RankInv => MilestonesOnce
  BY NumbersTell, RankingAssumption DEF RankInv
<1>. QED
  BY <1>1, RankInvariant, PTL

(* The stored level is never more than was earned, and the last count that *)
(* came through leaves it right, unless one overtaken stores its own later.*)
THEOREM RankLevelFollows == RankSpec => []LevelFollows
<1>1. RankInv => LevelFollows
  BY DEF RankInv
<1>. QED
  BY <1>1, RankInvariant, PTL

(* The three collections tell of the same listens.                         *)
THEOREM RankBooksAgree == RankSpec => []BooksAgree
<1>1. RankInv => BooksAgree
  BY BooksTell, RankingAssumption DEF RankInv
<1>. QED
  BY <1>1, RankInvariant, PTL

(* Who looks up a rank while the own row stands still is told the place on *)
(* the leaderboard of that moment.                                         *)
THEOREM RankPlaces == RankSpec => RankIsPlace
<1>1. ASSUME RankInv, RankNext, look.pc = "counting", look'.pc = "told",
             look.mine = Score(look.period, look.scope, look.who)
      PROVE  LET board == Leaderboard(look.period, look.scope)
             IN  IF look.who \in Range(board) THEN board[look'.rank] = look.who ELSE look'.rank = 0
  <2>1. Ranks
    <3>1. ASSUME NEW l \in Listens PROVE ~Credited(l) /\ ~ListenStep(l)
      <4>1. Credited(l) => look' = look
        BY Zenon DEF Credited
      <4>2. BucketLands(l) \/ TallyLands(l) => look' = look
        BY DEF BucketLands, TallyLands
      <4>3. WriteFails(l) \/ CountFails(l) => look' = look
        BY Zenon DEF WriteFails, CountFails
      <4>4. Counts(l) \/ Levels(l) \/ Tells(l) => look' = look
        BY DEF Counts, Levels, Tells
      <4>. QED
        BY <1>1, <4>1, <4>2, <4>3, <4>4 DEF ListenStep
    <3>2. ~Resets /\ ~ResetFails /\ ~Midnight /\ \A what : ~ResetLands(what)
      BY <1>1 DEF Resets, ResetFails, Midnight, ResetLands
    <3>3. ~LooksUp /\ ~LooksUpSeconds
      BY <1>1 DEF LooksUp, LooksUpSeconds
    <3>. QED
      BY <1>1, <3>1, <3>2, <3>3 DEF RankNext
  <2>2. RankTypeOK /\ look.period \in {"today", "week", "overall"} /\ look.scope \in Chats \union {Everywhere}
        /\ look.who \in Members
    BY <1>1 DEF RankInv, Basics, RankTypeOK, LookType
  <2>3. look'.rank = IF look.mine = Nothing THEN 0
                     ELSE 1 + Cardinality(Ahead(look.period, look.scope, look.who, look.mine))
    BY <2>1 DEF Ranks, Told
  <2>4. LET board == Leaderboard(look.period, look.scope)
        IN  IF look.who \in Range(board)
            THEN /\ look.mine # Nothing
                 /\ board[1 + Cardinality(Ahead(look.period, look.scope, look.who, look.mine))] = look.who
            ELSE look.mine = Nothing
    BY <1>1, <2>2, RankOnBoard, RankingAssumption
  <2>. QED
    BY <2>3, <2>4
<1>. DEFINE Place ==
        look.pc = "counting" /\ look'.pc = "told" /\ look.mine = Score(look.period, look.scope, look.who)
        => LET board == Leaderboard(look.period, look.scope)
           IN  IF look.who \in Range(board) THEN board[look'.rank] = look.who ELSE look'.rank = 0
<1>2. RankInv /\ [RankNext]_rankVars => [Place]_rankVars
  BY <1>1
<1>. QED
  BY <1>2, RankInvariant, PTL DEF RankSpec, RankIsPlace

=============================================================================
