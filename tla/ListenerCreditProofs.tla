------------------------ MODULE ListenerCreditProofs ------------------------
(***************************************************************************)
(* What ListenerCredit promises, for every set of users and every bound.   *)
(* One invariant carries it all: a stopwatch that shows the truth makes    *)
(* every credit given while a track is there an earned one, and every      *)
(* finished session pay what it owes, provided that time is only ever      *)
(* counted for users who have an entry.                                    *)
(***************************************************************************)
EXTENDS ListenerCredit, TLAPS

(* Time is counted for those who have an entry only.                       *)
TimeHasAnEntry == session => \A u \in Users : heard[u] > 0 => watch[u] # "none"

CreditInv ==
    /\ TypeOK
    /\ WatchesTellTheTime
    /\ TimeHasAnEntry
    /\ CreditIsEarned
    /\ FinishedIsCredited

-----------------------------------------------------------------------------
(* A session that opens has every watch at zero, running for those present *)
(* as the track plays.                                                     *)
LEMMA OpensRight ==
    ASSUME TypeOK, InitTrackSession, hasTrack', playing', UNCHANGED tabs
    PROVE  /\ WatchesTellTheTime' /\ TimeHasAnEntry'
           /\ session' \in BOOLEAN
           /\ watch' \in [Users -> {"none", "stopped", "running"}]
           /\ heard' \in [Users -> 0..MaxHeard] /\ truly' \in [Users -> 0..MaxHeard]
           /\ credited' \subseteq Users
<1>1. \A u \in Users : tabs'[u] > 0 \/ ~(tabs'[u] > 0)
  OBVIOUS
<1>2. \A u \in Users :
        /\ watch'[u] = (IF tabs[u] > 0 THEN "running" ELSE "none")
        /\ heard'[u] = 0 /\ truly'[u] = 0
  BY DEF InitTrackSession
<1>3. WatchesTellTheTime' /\ TimeHasAnEntry'
  BY <1>2 DEF WatchesTellTheTime, TimeHasAnEntry
<1>4. 0 \in 0..MaxHeard
  BY CreditAssumption
<1> QED
  BY <1>3, <1>4 DEF InitTrackSession

(* A session that closes keeps its types and promises nothing.             *)
LEMMA ClosesRight ==
    ASSUME TypeOK, CloseSession
    PROVE  /\ WatchesTellTheTime' /\ TimeHasAnEntry'
           /\ session' \in BOOLEAN
           /\ watch' \in [Users -> {"none", "stopped", "running"}]
           /\ heard' \in [Users -> 0..MaxHeard] /\ truly' \in [Users -> 0..MaxHeard]
           /\ credited' \subseteq Users
  BY DEF TypeOK, CloseSession, WatchesTellTheTime, TimeHasAnEntry

(* Whoever is credited while a track is there has heard half of it.        *)
LEMMA DueIsEarned ==
    ASSUME CreditInv, NEW S, S \subseteq Creditable
    PROVE  /\ Unearned(S) \subseteq Users \X BOOLEAN
           /\ \A u \in Users : <<u, TRUE>> \notin Unearned(S)
<1>1. S \subseteq Users
  BY DEF Creditable
<1>2. ASSUME hasTrack, NEW u \in S PROVE ~(truly[u] < Half)
  <2>1. session /\ heard[u] >= Half
    BY DEF Creditable
  <2>2. heard[u] = truly[u]
    BY <1>1, <1>2, <2>1 DEF CreditInv, WatchesTellTheTime
  <2> QED
    BY <1>1, <2>1, <2>2, CreditAssumption DEF CreditInv, TypeOK
<1>3. hasTrack \in BOOLEAN /\ unearned \subseteq Users \X BOOLEAN
  BY DEF CreditInv, TypeOK
<1>4. Unearned(S) \subseteq Users \X BOOLEAN
  BY <1>1, <1>3 DEF Unearned
<1>5. ASSUME NEW u \in Users, <<u, TRUE>> \in Unearned(S) PROVE FALSE
  <2>1. <<u, TRUE>> \notin unearned
    BY DEF CreditInv, CreditIsEarned
  <2>2. PICK v \in S : truly[v] < Half /\ <<u, TRUE>> = <<v, hasTrack>>
    BY <1>5, <2>1 DEF Unearned
  <2> QED
    BY <1>2, <2>2
<1> QED
  BY <1>4, <1>5

(* A session that is finalised pays everybody it owes.                     *)
LEMMA CreditIsRight ==
    ASSUME CreditInv, Credit
    PROVE  CreditIsEarned' /\ FinishedIsCredited' /\ unearned' \subseteq Users \X BOOLEAN
<1>1. CreditIsEarned' /\ unearned' \subseteq Users \X BOOLEAN
  BY DueIsEarned DEF Credit, CreditIsEarned
<1>2. ASSUME session, hasTrack, known, NEW u \in Users, truly[u] >= Half, u \notin credited
      PROVE  u \in Creditable
  <2>1. heard[u] = truly[u] /\ heard[u] \in 0..MaxHeard
    BY <1>2 DEF CreditInv, TypeOK, WatchesTellTheTime
  <2>2. heard[u] >= Half /\ heard[u] > 0
    BY <1>2, <2>1, CreditAssumption
  <2>3. watch[u] # "none"
    BY <1>2, <2>2 DEF CreditInv, TimeHasAnEntry
  <2> QED
    BY <1>2, <2>2, <2>3 DEF Creditable
<1>3. missed' = {}
  BY <1>2 DEF Credit, CreditInv, FinishedIsCredited
<1> QED
  BY <1>1, <1>3 DEF FinishedIsCredited

-----------------------------------------------------------------------------
(* Steps that start a track.                                               *)
LEMMA StartKeeps ==
    ASSUME CreditInv, StartTrack, UNCHANGED <<autoPaused, tabs>>, waiting' \in 0..MaxWaiting,
           CreditIsEarned', FinishedIsCredited', unearned' \subseteq Users \X BOOLEAN
    PROVE  CreditInv'
<1>1. TypeOK /\ InitTrackSession /\ hasTrack' /\ playing' /\ UNCHANGED tabs
  BY DEF CreditInv, StartTrack
<1>2. hasTrack' \in BOOLEAN /\ playing' \in BOOLEAN /\ known' \in BOOLEAN
  BY DEF StartTrack
<1>3. missed' \subseteq Users
  BY DEF FinishedIsCredited
<1> QED
  BY <1>1, <1>2, <1>3, OpensRight DEF CreditInv, TypeOK

(* Steps that close the session.                                           *)
LEMMA CloseKeeps ==
    ASSUME CreditInv, CloseSession, UNCHANGED <<autoPaused, tabs, known>>,
           waiting' \in 0..MaxWaiting, hasTrack' \in BOOLEAN, playing' \in BOOLEAN,
           CreditIsEarned', FinishedIsCredited', unearned' \subseteq Users \X BOOLEAN
    PROVE  CreditInv'
<1>1. missed' \subseteq Users
  BY DEF FinishedIsCredited
<1> QED
  BY <1>1, ClosesRight DEF CreditInv, TypeOK

(* advance(), whatever comes next, and a download that fails.              *)
LEMMA AdvanceKeeps ==
    ASSUME CreditInv, TrackOver \/ AcquireFail
    PROVE  CreditInv'
<1>1. Credit /\ UNCHANGED <<autoPaused, tabs>>
  BY DEF TrackOver, Advance, AcquireFail
<1>2. CreditIsEarned' /\ FinishedIsCredited' /\ unearned' \subseteq Users \X BOOLEAN
  BY <1>1, CreditIsRight
<1>3. waiting \in 0..MaxWaiting /\ hasTrack \in BOOLEAN /\ playing \in BOOLEAN
  BY DEF CreditInv, TypeOK
<1>4. waiting' \in 0..MaxWaiting
  BY <1>3, CreditAssumption DEF TrackOver, Advance, AcquireFail
<1>5. CASE StartTrack
  BY <1>1, <1>2, <1>4, <1>5, StartKeeps
<1>6. CASE CloseSession /\ UNCHANGED <<hasTrack, playing, known>>
  BY <1>1, <1>2, <1>3, <1>4, <1>6, CloseKeeps
<1>7. CASE CloseSession /\ hasTrack' = FALSE /\ playing' = FALSE /\ UNCHANGED known
  BY <1>1, <1>2, <1>4, <1>7, CloseKeeps
<1>8. \/ StartTrack
      \/ CloseSession /\ UNCHANGED <<hasTrack, playing, known>>
      \/ CloseSession /\ hasTrack' = FALSE /\ playing' = FALSE /\ UNCHANGED known
  BY DEF TrackOver, Advance, AcquireFail
<1> QED
  BY <1>5, <1>6, <1>7, <1>8

(* Steps that overwrite the session without looking at it.                 *)
LEMMA OverwriteKeeps ==
    ASSUME CreditInv, Enqueue \/ ForcePlay \/ AcquireDone
    PROVE  CreditInv'
<1>1. StartTrack /\ UNCHANGED <<autoPaused, tabs, creditVars>>
  BY DEF Enqueue, ForcePlay, AcquireDone
<1>2. waiting' \in 0..MaxWaiting
  BY CreditAssumption DEF Enqueue, ForcePlay, AcquireDone, CreditInv, TypeOK
<1>3. CreditIsEarned' /\ FinishedIsCredited' /\ unearned' \subseteq Users \X BOOLEAN
  BY <1>1 DEF CreditInv, TypeOK, CreditIsEarned, FinishedIsCredited, creditVars
<1> QED
  BY <1>1, <1>2, <1>3, StartKeeps

(* A loop finishes one session and opens the next.                         *)
LEMMA RestartKeeps ==
    ASSUME CreditInv, RestartCurrent
    PROVE  CreditInv'
<1>1. CreditIsEarned' /\ FinishedIsCredited' /\ unearned' \subseteq Users \X BOOLEAN
  BY CreditIsRight DEF RestartCurrent
<1>2. TypeOK /\ InitTrackSession /\ hasTrack' /\ playing' /\ UNCHANGED <<roomVars, tabs>>
  BY DEF RestartCurrent, CreditInv, roomVars
<1>3. missed' \subseteq Users
  BY <1>1 DEF FinishedIsCredited
<1> QED
  BY <1>1, <1>2, <1>3, OpensRight DEF CreditInv, TypeOK, roomVars

-----------------------------------------------------------------------------
(* Steps that stop or start watches.                                       *)

(* A step that moves no time and credits nobody.                           *)
LEMMA WatchKeeps ==
    ASSUME CreditInv, TypeOK',
           UNCHANGED <<hasTrack, session, heard, truly, creditVars>>,
           \A u \in Users : watch[u] # "none" => watch'[u] # "none",
           session /\ hasTrack =>
              \A u \in Users : watch'[u] = "running" <=> playing' /\ tabs'[u] > 0
    PROVE  CreditInv'
<1>1. CreditIsEarned' /\ FinishedIsCredited'
  BY DEF CreditInv, CreditIsEarned, FinishedIsCredited, creditVars
<1>2. TimeHasAnEntry'
  BY DEF CreditInv, TimeHasAnEntry
<1>3. WatchesTellTheTime'
  BY DEF CreditInv, WatchesTellTheTime
<1> QED
  BY <1>1, <1>2, <1>3 DEF CreditInv

(* play() sets the watches of those who are connected going.               *)
LEMMA PlayKeeps == ASSUME CreditInv, Play PROVE CreditInv'
<1>1. TypeOK'
  BY DEF CreditInv, TypeOK, Play, Resumed, creditVars
<1>2. \A u \in Users : watch[u] # "none" => watch'[u] # "none"
  BY DEF CreditInv, TypeOK, Play, Resumed
<1>3. ASSUME session, hasTrack, NEW u \in Users
      PROVE  watch'[u] = "running" <=> playing' /\ tabs'[u] > 0
  <2>1. watch[u] # "running"
    BY <1>3 DEF CreditInv, WatchesTellTheTime, Play
  <2>2. watch'[u] = IF tabs[u] > 0 THEN "running" ELSE watch[u]
    BY <1>3 DEF Play, Resumed
  <2> QED
    BY <2>1, <2>2 DEF Play
<1> QED
  BY <1>1, <1>2, <1>3, WatchKeeps DEF Play

(* pause() stops them all.                                                 *)
LEMMA PauseKeeps == ASSUME CreditInv, Pause PROVE CreditInv'
<1>1. TypeOK'
  BY DEF CreditInv, TypeOK, Pause, Stopped, creditVars
<1>2. \A u \in Users : watch[u] # "none" => watch'[u] # "none"
  BY DEF Pause, Stopped
<1>3. \A u \in Users : watch'[u] # "running"
  BY DEF Pause, Stopped
<1> QED
  BY <1>1, <1>2, <1>3, WatchKeeps DEF Pause

(* Somebody enters: a first tab starts a watch, a second one finds it      *)
(* running, and a room that had emptied goes on.                           *)
LEMMA JoinKeeps == ASSUME CreditInv, NEW w \in Users, Join(w) PROVE CreditInv'
<1>1. tabs[w] + 1 \in 0..MaxTabs /\ tabs' = [tabs EXCEPT ![w] = tabs[w] + 1]
  BY CreditAssumption DEF CreditInv, TypeOK, Join
<1>2. Joined(w) \in [Users -> {"none", "stopped", "running"}]
  BY DEF CreditInv, TypeOK, Joined
<1>3. \A u \in Users : watch[u] # "none" => Joined(w)[u] # "none"
  BY <1>2 DEF CreditInv, TypeOK, Joined
<1>4. ASSUME session, hasTrack, NEW u \in Users
      PROVE  Joined(w)[u] = "running" <=> playing /\ tabs'[u] > 0
  <2>1. watch[u] = "running" <=> playing /\ tabs[u] > 0
    BY <1>4 DEF CreditInv, WatchesTellTheTime
  <2>2. tabs[w] \in Nat /\ tabs[u] \in Nat
    BY DEF CreditInv, TypeOK
  <2>3. CASE playing
    <3>1. Joined(w) = [watch EXCEPT ![w] = "running"]
      BY <1>4, <2>3 DEF Joined
    <3>2. CASE u = w
      <4>1. tabs'[w] > 0
        BY <1>1, <2>2 DEF CreditInv, TypeOK
      <4>2. Joined(w)[w] = "running"
        BY <3>1 DEF CreditInv, TypeOK
      <4> QED
        BY <2>3, <3>2, <4>1, <4>2
    <3>3. CASE u # w
      BY <1>1, <2>1, <3>1, <3>3 DEF CreditInv, TypeOK
    <3> QED
      BY <3>2, <3>3
  <2>4. CASE ~playing
    BY <2>1, <2>4 DEF Joined
  <2> QED
    BY <2>3, <2>4
<1>5. CASE autoPaused /\ ~playing /\ hasTrack
  <2>1. playing' = TRUE /\ autoPaused' = FALSE /\ watch' = Resumed(Joined(w), tabs')
        /\ UNCHANGED <<hasTrack, known, waiting, session, heard, credited, truly, creditVars>>
    BY <1>5 DEF Join
  <2>2. watch' \in [Users -> {"none", "stopped", "running"}]
    BY <1>2, <2>1 DEF Resumed
  <2>3. TypeOK'
    BY <1>1, <2>1, <2>2 DEF CreditInv, TypeOK, creditVars
  <2>4. \A u \in Users : watch[u] # "none" => watch'[u] # "none"
    BY <1>3, <2>1 DEF Resumed
  <2>5. ASSUME session, hasTrack, NEW u \in Users
        PROVE  watch'[u] = "running" <=> playing' /\ tabs'[u] > 0
    <3>1. Joined(w)[u] # "running"
      BY <1>4, <1>5, <2>5
    <3>2. watch'[u] = IF tabs'[u] > 0 THEN "running" ELSE Joined(w)[u]
      BY <2>1, <2>5 DEF Resumed
    <3> QED
      BY <2>1, <3>1, <3>2
  <2> QED
    BY <2>1, <2>3, <2>4, <2>5, WatchKeeps
<1>6. CASE ~(autoPaused /\ ~playing /\ hasTrack)
  <2>1. watch' = Joined(w)
        /\ UNCHANGED <<playing, autoPaused, hasTrack, known, waiting, session, heard, credited,
                       truly, creditVars>>
    BY <1>6 DEF Join
  <2>2. TypeOK'
    BY <1>1, <1>2, <2>1 DEF CreditInv, TypeOK, creditVars
  <2> QED
    BY <1>3, <1>4, <2>1, <2>2, WatchKeeps
<1> QED
  BY <1>5, <1>6

(* Somebody leaves: the last tab stops the watch, the last user the room.  *)
LEMMA DepartKeeps ==
    ASSUME CreditInv, NEW w \in Users, NEW left \in 0..MaxTabs, left < tabs[w], Depart(w, left)
    PROVE  CreditInv'
<1> DEFINE leaves == session /\ left = 0 /\ watch[w] = "running"
           after  == IF leaves THEN [watch EXCEPT ![w] = "stopped"] ELSE watch
           due    == IF leaves THEN Creditable ELSE {}
           emptied == (\A v \in Users : tabs'[v] = 0) /\ playing /\ hasTrack
<1>1. /\ tabs' = [tabs EXCEPT ![w] = left]
      /\ credited' = credited \union due
      /\ unearned' = Unearned(due)
      /\ UNCHANGED <<hasTrack, known, waiting, session, heard, truly, missed>>
  BY DEF Depart
<1>2. \/ emptied /\ playing' = FALSE /\ autoPaused' = TRUE /\ watch' = Stopped(after)
      \/ ~emptied /\ watch' = after /\ UNCHANGED <<playing, autoPaused>>
  BY DEF Depart
<1>3. due \subseteq Creditable /\ due \subseteq Users
  BY DEF Creditable
<1>4. after \in [Users -> {"none", "stopped", "running"}]
  BY DEF CreditInv, TypeOK
<1>5. Stopped(after) \in [Users -> {"none", "stopped", "running"}]
  BY <1>4 DEF Stopped
<1>6. CreditIsEarned' /\ unearned' \subseteq Users \X BOOLEAN
  BY <1>1, <1>3, DueIsEarned DEF CreditIsEarned
<1>7. watch' \in [Users -> {"none", "stopped", "running"}]
  BY <1>2, <1>4, <1>5
<1>8. playing' \in BOOLEAN /\ autoPaused' \in BOOLEAN
  BY <1>2 DEF CreditInv, TypeOK
<1>9. tabs' \in [Users -> 0..MaxTabs]
  BY <1>1 DEF CreditInv, TypeOK
<1>10. TypeOK'
  BY <1>1, <1>3, <1>6, <1>7, <1>8, <1>9 DEF CreditInv, TypeOK
<1>11. \A u \in Users : watch[u] # "none" => after[u] # "none"
  BY DEF CreditInv, TypeOK
<1>12. \A u \in Users : after[u] # "none" => Stopped(after)[u] # "none"
  BY DEF Stopped
<1>13. TimeHasAnEntry'
  <2> SUFFICES ASSUME session', NEW u \in Users, heard'[u] > 0
               PROVE  watch'[u] # "none"
    BY DEF TimeHasAnEntry
  <2>1. watch[u] # "none"
    BY <1>1 DEF CreditInv, TimeHasAnEntry
  <2>2. after[u] # "none" /\ Stopped(after)[u] # "none"
    BY <2>1, <1>11, <1>12
  <2> HIDE DEF after, emptied
  <2> QED
    BY <1>2, <2>2
<1>14. ASSUME session, hasTrack, NEW u \in Users
       PROVE  after[u] = "running" <=> playing /\ tabs'[u] > 0
  <2>1. watch[u] = "running" <=> playing /\ tabs[u] > 0
    BY <1>14 DEF CreditInv, WatchesTellTheTime
  <2>2. CASE u = w
    <3>1. tabs'[w] = left /\ tabs[w] > 0
      BY <1>1 DEF CreditInv, TypeOK
    <3>2. CASE left = 0
      BY <1>14, <2>1, <2>2, <3>1, <3>2 DEF CreditInv, TypeOK
    <3>3. CASE left # 0
      BY <2>1, <2>2, <3>1, <3>3
    <3> QED
      BY <3>2, <3>3
  <2>3. CASE u # w
    BY <1>1, <2>1, <2>3 DEF CreditInv, TypeOK
  <2> QED
    BY <2>2, <2>3
<1>15. WatchesTellTheTime'
  <2> SUFFICES ASSUME session', hasTrack', NEW u \in Users
               PROVE  /\ watch'[u] = "running" <=> playing' /\ tabs'[u] > 0
                      /\ heard'[u] = truly'[u]
    BY DEF WatchesTellTheTime
  <2>1. session /\ hasTrack
    BY <1>1
  <2>2. heard'[u] = truly'[u]
    BY <1>1, <2>1 DEF CreditInv, WatchesTellTheTime
  <2>3. after[u] = "running" <=> playing /\ tabs'[u] > 0
    BY <1>14, <2>1
  <2>4. Stopped(after)[u] # "running"
    BY DEF Stopped
  <2> HIDE DEF after, emptied
  <2>5. watch'[u] = "running" <=> playing' /\ tabs'[u] > 0
    BY <1>2, <2>3, <2>4
  <2> QED
    BY <2>2, <2>5
<1>16. FinishedIsCredited'
  BY <1>1 DEF CreditInv, FinishedIsCredited
<1> QED
  BY <1>6, <1>10, <1>13, <1>15, <1>16 DEF CreditInv

(* Time passes alike for the watches and for the truth.                    *)
LEMMA TickKeeps == ASSUME CreditInv, Tick PROVE CreditInv'
<1>1. \A n \in 0..MaxHeard : Later(n) \in 0..MaxHeard
  BY CreditAssumption DEF Later
<1>2. heard' \in [Users -> 0..MaxHeard] /\ truly' \in [Users -> 0..MaxHeard]
  BY <1>1 DEF CreditInv, TypeOK, Tick
<1>3. TypeOK'
  BY <1>2 DEF CreditInv, TypeOK, Tick, roomVars, creditVars
<1>4. WatchesTellTheTime'
  <2> SUFFICES ASSUME session', hasTrack', NEW u \in Users
               PROVE  /\ watch'[u] = "running" <=> playing' /\ tabs'[u] > 0
                      /\ heard'[u] = truly'[u]
    BY DEF WatchesTellTheTime
  <2>1. session /\ hasTrack /\ UNCHANGED <<playing, tabs, watch>>
    BY DEF Tick, roomVars
  <2>2. (watch[u] = "running" <=> playing /\ tabs[u] > 0) /\ heard[u] = truly[u]
    BY <2>1 DEF CreditInv, WatchesTellTheTime
  <2>3. heard'[u] = truly'[u]
    BY <2>1, <2>2 DEF Tick
  <2> QED
    BY <2>1, <2>2, <2>3
<1>5. TimeHasAnEntry'
  BY DEF CreditInv, TimeHasAnEntry, Tick
<1>6. CreditIsEarned' /\ FinishedIsCredited'
  BY DEF CreditInv, CreditIsEarned, FinishedIsCredited, Tick, creditVars
<1> QED
  BY <1>3, <1>4, <1>5, <1>6 DEF CreditInv

(* A late duration, the end of the room's track, and a reboot.             *)
LEMMA RoomKeeps == ASSUME CreditInv, ProbeDone \/ End \/ Reboot PROVE CreditInv'
<1>1. CreditIsEarned' /\ FinishedIsCredited' /\ UNCHANGED creditVars
  BY DEF CreditInv, CreditIsEarned, FinishedIsCredited, creditVars, ProbeDone, End, Reboot
<1>2. CASE ProbeDone
  <2>1. TypeOK' /\ TimeHasAnEntry' /\ WatchesTellTheTime'
    BY <1>2 DEF CreditInv, TypeOK, TimeHasAnEntry, WatchesTellTheTime, ProbeDone, sessionVars,
                creditVars
  <2> QED
    BY <1>1, <2>1 DEF CreditInv
<1>3. CASE End
  <2>1. TypeOK' /\ TimeHasAnEntry' /\ WatchesTellTheTime'
    BY <1>3 DEF CreditInv, TypeOK, TimeHasAnEntry, WatchesTellTheTime, End, sessionVars, creditVars
  <2> QED
    BY <1>1, <2>1 DEF CreditInv
<1>4. CASE Reboot
  <2>1. TypeOK /\ CloseSession
    BY <1>4 DEF Reboot, CreditInv
  <2>2. waiting' \in 0..MaxWaiting /\ tabs' \in [Users -> 0..MaxTabs]
    BY <1>4, CreditAssumption DEF Reboot
  <2>3. TypeOK'
    BY <1>1, <1>4, <2>1, <2>2, ClosesRight DEF Reboot, TypeOK, creditVars
  <2> QED
    BY <1>1, <2>1, <2>3, ClosesRight DEF CreditInv
<1> QED
  BY <1>2, <1>3, <1>4

-----------------------------------------------------------------------------
(* The invariant holds of a new room.                                      *)
LEMMA CreditInit == Init => CreditInv
<1> SUFFICES ASSUME Init PROVE CreditInv
  OBVIOUS
<1>1. 0 \in 0..MaxHeard /\ 0 \in 0..MaxWaiting /\ 0 \in 0..MaxTabs
  BY CreditAssumption
<1>2. TypeOK
  BY <1>1 DEF Init, TypeOK
<1> QED
  BY <1>2 DEF Init, CreditInv, WatchesTellTheTime, TimeHasAnEntry, CreditIsEarned,
              FinishedIsCredited

(* Every step keeps it.                                                    *)
LEMMA CreditStep == CreditInv /\ [Next]_vars => CreditInv'
<1> SUFFICES ASSUME CreditInv, [Next]_vars PROVE CreditInv'
  OBVIOUS
<1>1. CASE TrackOver \/ AcquireFail
  BY <1>1, AdvanceKeeps
<1>2. CASE Enqueue \/ ForcePlay \/ AcquireDone
  BY <1>2, OverwriteKeeps
<1>3. CASE RestartCurrent
  BY <1>3, RestartKeeps
<1>4. CASE Play
  BY <1>4, PlayKeeps
<1>5. CASE Pause
  BY <1>5, PauseKeeps
<1>6. CASE ProbeDone \/ End \/ Reboot
  BY <1>6, RoomKeeps
<1>7. ASSUME NEW u \in Users, Join(u) PROVE CreditInv'
  BY <1>7, JoinKeeps
<1>8. ASSUME NEW u \in Users, Leave(u) \/ Evict(u) PROVE CreditInv'
  <2>1. tabs[u] \in 0..MaxTabs /\ tabs[u] > 0
    BY <1>8 DEF Leave, Evict, CreditInv, TypeOK
  <2>2. CASE Depart(u, tabs[u] - 1)
    <3>1. tabs[u] - 1 \in 0..MaxTabs /\ tabs[u] - 1 < tabs[u]
      BY <2>1, CreditAssumption
    <3> QED
      BY <2>2, <3>1, DepartKeeps
  <2>3. CASE Depart(u, 0)
    <3>1. 0 \in 0..MaxTabs /\ 0 < tabs[u]
      BY <2>1, CreditAssumption
    <3> QED
      BY <2>3, <3>1, DepartKeeps
  <2> QED
    BY <1>8, <2>2, <2>3 DEF Leave, Evict
<1>9. CASE Tick
  BY <1>9, TickKeeps
<1>10. CASE UNCHANGED vars
  BY <1>10 DEF vars, roomVars, sessionVars, creditVars, CreditInv, TypeOK, WatchesTellTheTime,
               TimeHasAnEntry, CreditIsEarned, FinishedIsCredited
<1> QED
  BY <1>1, <1>2, <1>3, <1>4, <1>5, <1>6, <1>7, <1>8, <1>9, <1>10 DEF Next

(* The invariant of the listening sessions.                                *)
LEMMA CreditAlways == Spec => []CreditInv
  BY CreditInit, CreditStep, PTL DEF Spec

(* The sessions keep the type of their state.                              *)
THEOREM CreditTypeOK == Spec => []TypeOK
<1>1. CreditInv => TypeOK
  BY DEF CreditInv
<1> QED
  BY <1>1, CreditAlways, PTL

(* A stopwatch runs for exactly those who listen, and shows how long.      *)
THEOREM CreditWatches == Spec => []WatchesTellTheTime
<1>1. CreditInv => WatchesTellTheTime
  BY DEF CreditInv
<1> QED
  BY <1>1, CreditAlways, PTL

(* Nobody is credited for a track in the room without having heard half.   *)
THEOREM CreditEarned == Spec => []CreditIsEarned
<1>1. CreditInv => CreditIsEarned
  BY DEF CreditInv
<1> QED
  BY <1>1, CreditAlways, PTL

(* Whoever heard half of a track that finished is credited.                *)
THEOREM CreditFinished == Spec => []FinishedIsCredited
<1>1. CreditInv => FinishedIsCredited
  BY DEF CreditInv
<1> QED
  BY <1>1, CreditAlways, PTL
=============================================================================
