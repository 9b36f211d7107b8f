--------------------------- MODULE ServicesProofs ---------------------------
(***************************************************************************)
(* What the services beside the rooms promise: AiChat and AiKeys for every *)
(* number of messages, calls and keys and every limit, Broadcast for every *)
(* set of commands and targets.                                            *)
(***************************************************************************)
EXTENDS AiChat, AiKeys, Broadcast, FiniteSetTheorems, TLAPS

(***************************************************************************)
(* AiChat and AiKeys.                                                      *)
(***************************************************************************)

Places == {"unasked", "opening", "thinking", "tools", "tool", "finalizing", "answering", "over"}

AiRuns == [pc : Places, turn : Nat, todo : SUBSET Tools, done : SUBSET Tools,
           target : BOOLEAN, ticking : BOOLEAN, stopped : BOOLEAN, retired : BOOLEAN, finalizing : BOOLEAN,
           edit : {"none", "tracked", "untracked"}, line : {"none", "thinking", "answer"}]

(* The answer is put in place, and was, after the push that finalize() was *)
(* to wait for.                                                            *)
AnswerIsLast(x) ==
    /\ x.pc = "answering" => x.stopped = TRUE /\ x.edit # "tracked"
    /\ x.line = "answer" => x.pc = "over" /\ x.stopped = TRUE /\ x.edit # "tracked"

ChatInv == run \in [Runs -> {x \in AiRuns : AnswerIsLast(x)}]

Keeps(x, y) == x.line = "answer" /\ x.edit # "untracked" => y.line = "answer"
AnswerStaysStep == \A r \in Runs : Keeps(run[r], run'[r])

-----------------------------------------------------------------------------

(* stop() and retire() touch neither the message nor the edit under way.   *)
LEMMA StopKeeps ==
    ASSUME NEW x \in AiRuns
    PROVE  /\ Stop(x) \in AiRuns /\ Stop(x).stopped = TRUE
           /\ Stop(x).pc = x.pc /\ Stop(x).edit = x.edit /\ Stop(x).line = x.line
           /\ Retire(x) \in AiRuns /\ Retire(x).stopped = TRUE
           /\ Retire(x).pc = x.pc /\ Retire(x).edit = x.edit /\ Retire(x).line = x.line
<1>1. PICK y : y = [x EXCEPT !.stopped = TRUE]
  OBVIOUS
<1>2. /\ y \in AiRuns /\ y.stopped = TRUE /\ y.pc = x.pc /\ y.edit = x.edit /\ y.line = x.line
  BY <1>1 DEF AiRuns
<1>3. PICK z : z = [y EXCEPT !.ticking = FALSE]
  OBVIOUS
<1>4. z \in AiRuns /\ z.stopped = TRUE /\ z.pc = x.pc /\ z.edit = x.edit /\ z.line = x.line
  BY <1>2, <1>3 DEF AiRuns
<1>5. z = Stop(x)
  BY <1>1, <1>3 DEF Stop
<1>6. PICK w : w = [z EXCEPT !.retired = TRUE]
  OBVIOUS
<1>7. w \in AiRuns /\ w.stopped = TRUE /\ w.pc = x.pc /\ w.edit = x.edit /\ w.line = x.line
  BY <1>4, <1>6 DEF AiRuns
<1> QED
  BY <1>4, <1>5, <1>6, <1>7 DEF Retire

(* A push begins an edit only where no answer is, or is about to be.       *)
LEMMA PushKeeps ==
    ASSUME NEW x \in AiRuns, AnswerIsLast(x), NEW y \in PushDraft(x)
    PROVE  y \in AiRuns /\ AnswerIsLast(y) /\ Keeps(x, y)
<1>1. CASE y = x
  BY <1>1 DEF Keeps
<1>2. CASE ~x.stopped /\ \E e \in {"tracked", "untracked"} : y = [x EXCEPT !.edit = e]
  <2>1. PICK e \in {"tracked", "untracked"} : y = [x EXCEPT !.edit = e]
    BY <1>2
  <2>2. y \in AiRuns /\ y.pc = x.pc /\ y.line = x.line
    BY <2>1 DEF AiRuns
  <2>3. x.line # "answer" /\ x.pc # "answering"
    BY <1>2 DEF AnswerIsLast
  <2> QED
    BY <2>2, <2>3 DEF AnswerIsLast, Keeps
<1> QED
  BY <1>1, <1>2 DEF PushDraft

(* A step of one run.                                                      *)
LEMMA OneRun ==
    ASSUME ChatInv, NEW r \in Runs, NEW y \in AiRuns, AnswerIsLast(y), Keeps(run[r], y),
           run' = [run EXCEPT ![r] = y]
    PROVE  ChatInv' /\ AnswerStaysStep
BY DEF ChatInv, AnswerStaysStep, Keeps

(* A run that moves on, its message and its edit left alone.               *)
LEMMA MovesOn ==
    ASSUME NEW x \in AiRuns, AnswerIsLast(x), x.pc # "over", NEW y \in AiRuns,
           y.pc # "answering", y.line = x.line
    PROVE  AnswerIsLast(y) /\ Keeps(x, y)
BY DEF AnswerIsLast, Keeps

LEMMA ChatStep ==
    ASSUME ChatInv, NEW r \in Runs,
           Asked(r) \/ RunStep(r) \/ Streamed(r) \/ Ticks(r) \/ Expires(r) \/ EditLands(r)
    PROVE  ChatInv' /\ AnswerStaysStep
<1>1. PICK x : x = run[r]
  OBVIOUS
<1>2. x \in AiRuns /\ AnswerIsLast(x)
  BY <1>1 DEF ChatInv
<1>3. CASE Asked(r)
  <2>1. \A s \in Runs : run[s] \in AiRuns /\ AnswerIsLast(run[s])
    BY DEF ChatInv
  <2>2. PICK y : y = [x EXCEPT !.pc = "opening"]
    OBVIOUS
  <2>3. y \in AiRuns /\ y.pc = "opening" /\ y.line = x.line
    BY <1>2, <2>2 DEF AiRuns, Places
  <2>4. x.pc = "unasked"
    BY <1>1, <1>3 DEF Asked
  <2>5. AnswerIsLast(y) /\ Keeps(x, y)
    BY <1>2, <2>3, <2>4, MovesOn
  <2>6. ASSUME NEW s \in Runs
        PROVE  run'[s] \in AiRuns /\ AnswerIsLast(run'[s]) /\ Keeps(run[s], run'[s])
    <3>1. run'[s] = IF s = r THEN [run[s] EXCEPT !.pc = "opening"]
                    ELSE IF s = latest THEN Retire(run[s]) ELSE run[s]
      BY <1>3 DEF Asked
    <3>2. CASE s = r
      <4>1. run'[s] = y
        BY <1>1, <2>2, <3>1, <3>2
      <4> QED
        BY <1>1, <2>3, <2>5, <3>2, <4>1
    <3>3. CASE run'[s] = run[s]
      BY <2>1, <3>3 DEF Keeps
    <3>4. CASE run'[s] = Retire(run[s])
      <4>1. PICK z : z = Retire(run[s])
        OBVIOUS
      <4>2. z \in AiRuns /\ z.stopped = TRUE /\ z.pc = run[s].pc /\ z.edit = run[s].edit /\ z.line = run[s].line
        BY <2>1, <4>1, StopKeeps
      <4>3. AnswerIsLast(z) /\ Keeps(run[s], z)
        BY <2>1, <4>2 DEF AnswerIsLast, Keeps
      <4> QED
        BY <3>4, <4>1, <4>2, <4>3
    <3> QED
      BY <3>1, <3>2, <3>3, <3>4
  <2>7. run' \in [Runs -> {z \in AiRuns : AnswerIsLast(z)}]
    BY <1>3, <2>6 DEF Asked
  <2> QED
    BY <2>6, <2>7 DEF ChatInv, AnswerStaysStep
<1>4. CASE Opened(r)
  <2>1. x.pc = "opening"
    BY <1>1, <1>4 DEF Opened
  <2>2. CASE run' = [run EXCEPT ![r] = [x EXCEPT !.pc = "thinking"]]
    <3>1. PICK y : y = [x EXCEPT !.pc = "thinking"]
      OBVIOUS
    <3>2. y \in AiRuns /\ y.pc = "thinking" /\ y.line = x.line
      BY <1>2, <3>1 DEF AiRuns, Places
    <3> QED
      BY <1>1, <1>2, <2>1, <2>2, <3>1, <3>2, MovesOn, OneRun
  <2>3. CASE run' = [run EXCEPT ![r] = [SetGroupLiveTarget(x) EXCEPT !.pc = "thinking", !.line = "thinking"]]
    <3>1. PICK y : y = [SetGroupLiveTarget(x) EXCEPT !.pc = "thinking", !.line = "thinking"]
      OBVIOUS
    <3>2. y \in AiRuns /\ y.pc = "thinking" /\ y.line = "thinking"
      BY <1>2, <3>1 DEF SetGroupLiveTarget, AiRuns, Places
    <3>3. AnswerIsLast(y) /\ Keeps(x, y)
      BY <1>2, <2>1, <3>2 DEF AnswerIsLast, Keeps
    <3> QED
      BY <1>1, <2>3, <3>1, <3>2, <3>3, OneRun
  <2> QED
    BY <1>1, <1>4, <2>2, <2>3 DEF Opened, Becoming
<1>5. CASE WantsTools(r)
  <2>1. PICK calls \in SUBSET Tools :
          Becoming(r, {[run[r] EXCEPT !.pc = "tools", !.turn = @ + 1, !.todo = calls]})
    BY <1>5, Zenon DEF WantsTools
  <2>2. PICK y : y = [run[r] EXCEPT !.pc = "tools", !.turn = @ + 1, !.todo = calls]
    OBVIOUS
  <2>3. y \in AiRuns /\ y.pc = "tools" /\ y.line = x.line
    <3>1. PICK z : z = [x EXCEPT !.pc = "tools"]
      OBVIOUS
    <3>2. z \in AiRuns /\ z.pc = "tools" /\ z.line = x.line
      BY <1>2, <3>1 DEF AiRuns, Places
    <3>3. PICK w : w = [z EXCEPT !.turn = @ + 1]
      OBVIOUS
    <3>4. w \in AiRuns /\ w.pc = "tools" /\ w.line = x.line
      BY <3>2, <3>3 DEF AiRuns
    <3>5. y = [w EXCEPT !.todo = calls]
      BY <1>1, <2>2, <3>1, <3>3
    <3> QED
      BY <3>4, <3>5 DEF AiRuns
  <2>4. x.pc = "thinking"
    BY <1>1, <1>5 DEF WantsTools
  <2>5. run' = [run EXCEPT ![r] = y]
    BY <2>1, <2>2 DEF Becoming
  <2> QED
    BY <1>1, <1>2, <2>3, <2>4, <2>5, MovesOn, OneRun
<1>6. CASE UsesTool(r)
  <2>1. x.pc = "tools"
    BY <1>1, <1>6 DEF UsesTool
  <2>2. PICK t \in x.todo :
          LET rest == [x EXCEPT !.todo = @ \ {t}]
          IN  IF t \in rest.done \/ Cardinality(rest.done) >= MaxTools THEN Becoming(r, {rest})
              ELSE Becoming(r, PushDraft([rest EXCEPT !.pc = "tool", !.done = @ \cup {t}]))
    BY <1>1, <1>6 DEF UsesTool
  <2>3. PICK rest : rest = [x EXCEPT !.todo = @ \ {t}]
    OBVIOUS
  <2>4. rest \in AiRuns /\ rest.pc = x.pc /\ rest.line = x.line
    BY <1>2, <2>3 DEF AiRuns
  <2>5. AnswerIsLast(rest) /\ Keeps(x, rest)
    BY <1>2, <2>1, <2>4, MovesOn
  <2>6. CASE Becoming(r, {rest})
    BY <1>1, <2>4, <2>5, <2>6, OneRun DEF Becoming
  <2>7. CASE Becoming(r, PushDraft([rest EXCEPT !.pc = "tool", !.done = @ \cup {t}]))
    <3>1. PICK z : z = [rest EXCEPT !.pc = "tool", !.done = @ \cup {t}]
      OBVIOUS
    <3>2. t \in Tools
      BY <1>2, <2>2 DEF AiRuns
    <3>3. z \in AiRuns /\ z.pc = "tool" /\ z.line = x.line
      BY <2>4, <3>1, <3>2 DEF AiRuns, Places
    <3>4. AnswerIsLast(z) /\ Keeps(x, z)
      BY <1>2, <2>1, <3>3, MovesOn
    <3>5. PICK y \in PushDraft(z) : run' = [run EXCEPT ![r] = y]
      BY <2>7, <3>1 DEF Becoming
    <3>6. y \in AiRuns /\ AnswerIsLast(y) /\ Keeps(z, y)
      BY <3>3, <3>4, <3>5, PushKeeps
    <3>7. Keeps(x, y)
      BY <1>2, <2>1 DEF AnswerIsLast, Keeps
    <3> QED
      BY <1>1, <3>5, <3>6, <3>7, OneRun
  <2> QED
    BY <2>2, <2>3, <2>6, <2>7
<1>7. CASE UsedTool(r) \/ TurnOver(r)
  <2>1. x.pc \in {"tools", "tool"}
    BY <1>1, <1>7 DEF UsedTool, TurnOver
  <2>2. PICK to \in {"tools", "thinking"} : Becoming(r, PushDraft([x EXCEPT !.pc = to]))
    BY <1>1, <1>7 DEF UsedTool, TurnOver
  <2>3. PICK z : z = [x EXCEPT !.pc = to]
    OBVIOUS
  <2>4. z \in AiRuns /\ z.pc = to /\ z.line = x.line
    BY <1>2, <2>3 DEF AiRuns, Places
  <2>5. AnswerIsLast(z)
    BY <1>2, <2>1, <2>4, MovesOn
  <2>6. PICK y \in PushDraft(z) : run' = [run EXCEPT ![r] = y]
    BY <2>2, <2>3 DEF Becoming
  <2>7. y \in AiRuns /\ AnswerIsLast(y)
    BY <2>4, <2>5, <2>6, PushKeeps
  <2>8. Keeps(x, y)
    BY <1>2, <2>1 DEF AnswerIsLast, Keeps
  <2> QED
    BY <1>1, <2>6, <2>7, <2>8, OneRun
<1>8. CASE Streamed(r) \/ Ticks(r)
  <2>1. PICK y \in PushDraft(x) : run' = [run EXCEPT ![r] = y]
    BY <1>1, <1>8 DEF Streamed, Ticks, Becoming
  <2> QED
    BY <1>1, <1>2, <2>1, PushKeeps, OneRun
<1>9. CASE Finalizes(r)
  <2>1. x.pc = "thinking"
    BY <1>1, <1>9 DEF Finalizes
  <2>2. PICK y : y = [x EXCEPT !.pc = "finalizing", !.finalizing = TRUE]
    OBVIOUS
  <2>3. y \in AiRuns /\ y.pc = "finalizing" /\ y.line = x.line
    BY <1>2, <2>2 DEF AiRuns, Places
  <2>4. run' = [run EXCEPT ![r] = y]
    BY <1>1, <1>9, <2>2 DEF Finalizes, Becoming
  <2> QED
    BY <1>1, <1>2, <2>1, <2>3, <2>4, MovesOn, OneRun
<1>10. CASE Settles(r)
  <2>1. x.pc = "finalizing" /\ x.edit # "tracked" /\ x.line # "answer"
    BY <1>1, <1>2, <1>10 DEF Settles, AnswerIsLast
  <2>2. Stop(x) \in AiRuns /\ Stop(x).stopped = TRUE /\ Stop(x).edit = x.edit /\ Stop(x).line = x.line
    BY <1>2, StopKeeps
  <2>3. PICK to \in {"over", "answering"} : run' = [run EXCEPT ![r] = [Stop(x) EXCEPT !.pc = to]]
    BY <1>1, <1>10 DEF Settles, Over, Becoming
  <2>4. PICK y : y = [Stop(x) EXCEPT !.pc = to]
    OBVIOUS
  <2>5. y \in AiRuns /\ y.pc = to /\ y.stopped = TRUE /\ y.edit = x.edit /\ y.line = x.line
    BY <2>2, <2>4 DEF AiRuns, Places
  <2>6. AnswerIsLast(y) /\ Keeps(x, y)
    BY <2>1, <2>5 DEF AnswerIsLast, Keeps
  <2> QED
    BY <1>1, <2>3, <2>4, <2>5, <2>6, OneRun
<1>11. CASE Answers(r)
  <2>1. x.pc = "answering" /\ x.stopped = TRUE /\ x.edit # "tracked"
    BY <1>1, <1>2, <1>11 DEF Answers, AnswerIsLast
  <2>2. PICK line \in {"answer", x.line} : run' = [run EXCEPT ![r] = [Stop([x EXCEPT !.line = line]) EXCEPT !.pc = "over"]]
    <3>1. [x EXCEPT !.line = x.line] = x
      BY <1>2 DEF AiRuns
    <3> QED
      BY <1>1, <1>11, <3>1 DEF Answers, Over
  <2>3. PICK z : z = [x EXCEPT !.line = line]
    OBVIOUS
  <2>4. z \in AiRuns /\ z.line = line /\ z.edit = x.edit
    BY <1>2, <2>3 DEF AiRuns
  <2>5. Stop(z) \in AiRuns /\ Stop(z).stopped = TRUE /\ Stop(z).edit = x.edit /\ Stop(z).line = line
    BY <2>4, StopKeeps
  <2>6. PICK y : y = [Stop(z) EXCEPT !.pc = "over"]
    OBVIOUS
  <2>7. y \in AiRuns /\ y.pc = "over" /\ y.stopped = TRUE /\ y.edit = x.edit /\ y.line = line
    BY <2>5, <2>6 DEF AiRuns, Places
  <2>8. AnswerIsLast(y) /\ Keeps(x, y)
    BY <1>2, <2>1, <2>2, <2>7 DEF AnswerIsLast, Keeps
  <2> QED
    BY <1>1, <2>2, <2>3, <2>6, <2>7, <2>8, OneRun
<1>12. CASE Expires(r)
  <2>1. run' = [run EXCEPT ![r] = Stop(x)]
    BY <1>1, <1>12 DEF Expires, Becoming
  <2>2. AnswerIsLast(Stop(x)) /\ Keeps(x, Stop(x)) /\ Stop(x) \in AiRuns
    BY <1>2, StopKeeps DEF AnswerIsLast, Keeps
  <2> QED
    BY <1>1, <2>1, <2>2, OneRun
<1>13. CASE EditLands(r)
  <2>1. PICK line \in {"thinking", x.line} : run' = [run EXCEPT ![r] = [x EXCEPT !.edit = "none", !.line = line]]
    BY <1>1, <1>13 DEF EditLands, Becoming
  <2>2. PICK y : y = [x EXCEPT !.edit = "none", !.line = line]
    OBVIOUS
  <2>3. y \in AiRuns /\ y.pc = x.pc /\ y.stopped = x.stopped /\ y.edit = "none" /\ y.line = line
    BY <1>2, <2>1, <2>2 DEF AiRuns
  <2>4. x.edit # "none"
    BY <1>1, <1>13 DEF EditLands
  <2>5. AnswerIsLast(y) /\ Keeps(x, y)
    BY <1>2, <2>1, <2>3, <2>4 DEF AnswerIsLast, Keeps, AiRuns
  <2> QED
    BY <1>1, <2>1, <2>2, <2>3, <2>5, OneRun
<1> QED
  BY <1>3, <1>4, <1>5, <1>6, <1>7, <1>8, <1>9, <1>10, <1>11, <1>12, <1>13 DEF RunStep

(* An answer in place is not overwritten by what was shown before it,      *)
(* however many messages are asked, turns taken and tools used.            *)
THEOREM ChatAnswerStays == ChatSpec => AnswerStays
<1>1. ChatInit => ChatInv
  <2> SUFFICES ASSUME ChatInit PROVE ChatInv
    OBVIOUS
  <2>1. \A r \in Runs : run[r] \in AiRuns /\ AnswerIsLast(run[r])
    BY DEF ChatInit, AiRuns, Places, AnswerIsLast
  <2> QED
    BY <2>1 DEF ChatInit, ChatInv
<1>2. ChatInv /\ [ChatNext]_chatVars
        => ChatInv' /\ [\A r \in Runs : run[r].line = "answer" /\ run[r].edit # "untracked"
                                            => run'[r].line = "answer"]_chatVars
  <2> SUFFICES ASSUME ChatInv, [ChatNext]_chatVars
               PROVE  ChatInv' /\ (AnswerStaysStep \/ UNCHANGED chatVars)
    BY DEF AnswerStaysStep, Keeps
  <2>1. CASE UNCHANGED chatVars
    BY <2>1 DEF chatVars, ChatInv
  <2>2. CASE ChatNext
    BY <2>2, ChatStep DEF ChatNext
  <2> QED
    BY <2>1, <2>2
<1> QED
  BY <1>1, <1>2, PTL DEF ChatSpec, AnswerStays

-----------------------------------------------------------------------------
(* The keys.                                                               *)

AiCalls == [pc : {"idle", "asking", "waiting", "backoff", "done", "failed"},
            round : Nat, attempt : Nat, key : Keys \cup {NoKey}]

(* The key a call asks with, or waits for, is one of the configured.       *)
HasKey(x) == x.pc \in {"asking", "waiting"} => x.key \in Keys

KeysTypeOK ==
    /\ clock \in Nat /\ until \in [Keys -> Nat] /\ refused \in [Keys -> Nat]
    /\ call \in [Calls -> {x \in AiCalls : HasKey(x)}]

(* A refused key's cooldown lasts the hour out, unless it was cut.         *)
HourHolds == \A k \in Keys : refused[k] <= until[k] \/ k \in cut

KeysInv == KeysTypeOK /\ HourHolds

RestStep == \A c \in Calls : \A k \in Keys : TurnsTo(c, k) => refused'[k] <= clock \/ k \in cut'

(* A call that turns to a key at once turns to one that is not cooling.    *)
LEMMA SelectedRests ==
    ASSUME NEW x \in AiCalls, NEW off \in [Keys -> Nat], NEW y \in Selected(x, off)
    PROVE  y \in AiCalls /\ HasKey(y) /\ (y.pc = "asking" => off[y.key] <= clock)
<1>1. CASE \E k \in Keys : off[k] <= clock /\ y = [x EXCEPT !.pc = "asking", !.key = k]
  <2>1. PICK k \in Keys : off[k] <= clock /\ y = [x EXCEPT !.pc = "asking", !.key = k]
    BY <1>1
  <2>2. PICK z : z = [x EXCEPT !.pc = "asking"]
    OBVIOUS
  <2>3. z \in AiCalls /\ z.pc = "asking"
    BY <2>2 DEF AiCalls
  <2>4. y = [z EXCEPT !.key = k]
    BY <2>1, <2>2
  <2>5. y \in AiCalls /\ y.pc = "asking" /\ y.key = k
    BY <2>3, <2>4 DEF AiCalls
  <2> QED
    BY <2>1, <2>5 DEF HasKey
<1>2. CASE \E k \in Keys : y = [x EXCEPT !.pc = "waiting", !.key = k]
  <2>1. PICK k \in Keys : y = [x EXCEPT !.pc = "waiting", !.key = k]
    BY <1>2
  <2>2. PICK z : z = [x EXCEPT !.pc = "waiting"]
    OBVIOUS
  <2>3. z \in AiCalls /\ z.pc = "waiting"
    BY <2>2 DEF AiCalls
  <2>4. y = [z EXCEPT !.key = k]
    BY <2>1, <2>2
  <2>5. y \in AiCalls /\ y.pc = "waiting" /\ y.key = k
    BY <2>3, <2>4 DEF AiCalls
  <2> QED
    BY <2>5 DEF HasKey
<1> QED
  BY <1>1, <1>2 DEF Selected

(* One call goes on, and if to a key at once, then to one that rests from  *)
(* no refusal.                                                             *)
LEMMA OneCall ==
    ASSUME KeysInv, NEW c \in Calls, NEW y \in AiCalls, HasKey(y), call' = [call EXCEPT ![c] = y],
           clock' = clock, until' \in [Keys -> Nat], refused' \in [Keys -> Nat], HourHolds',
           call[c].pc # "waiting" /\ y.pc = "asking" => until'[y.key] <= clock
    PROVE  KeysInv' /\ RestStep
<1>1. KeysTypeOK'
  BY DEF KeysInv, KeysTypeOK
<1>2. ASSUME NEW d \in Calls, NEW k \in Keys, TurnsTo(d, k)
      PROVE  refused'[k] <= clock \/ k \in cut'
  <2>1. d = c /\ call[c].pc # "waiting" /\ y.pc = "asking" /\ y.key = k
    BY <1>2 DEF TurnsTo, KeysInv, KeysTypeOK
  <2>2. until'[k] <= clock /\ clock \in Nat /\ until'[k] \in Nat /\ refused'[k] \in Nat
    BY <2>1 DEF KeysInv, KeysTypeOK
  <2>3. refused'[k] <= until'[k] \/ k \in cut'
    BY DEF HourHolds
  <2> QED
    BY <2>2, <2>3
<1> QED
  BY <1>1, <1>2 DEF KeysInv, RestStep

(* The same where no key is reported, to a call or to none.                *)
LEMMA CallGoesOn ==
    ASSUME KeysInv, NEW c \in Calls, NEW y \in AiCalls, HasKey(y), call' = [call EXCEPT ![c] = y],
           UNCHANGED <<clock, until, refused, cut>>,
           call[c].pc # "waiting" /\ y.pc = "asking" => until[y.key] <= clock
    PROVE  KeysInv' /\ RestStep
<1>1. until' \in [Keys -> Nat] /\ refused' \in [Keys -> Nat] /\ clock' = clock /\ HourHolds'
  BY DEF KeysInv, KeysTypeOK, HourHolds
<1>2. call[c].pc # "waiting" /\ y.pc = "asking" => until'[y.key] <= clock
  OBVIOUS
<1> QED
  BY <1>1, <1>2, OneCall

(* What a report leaves of the keys.                                       *)
LEMMA Reported ==
    ASSUME KeysInv, NEW k \in Keys, NEW outcome \in Rotating, NEW cooldown \in Cooldowns(outcome),
           until' = [until EXCEPT ![k] = clock + cooldown],
           refused' = IF outcome = "refused" THEN [refused EXCEPT ![k] = clock + Hour] ELSE refused,
           cut' = IF outcome = "refused" THEN cut \ {k}
                  ELSE IF refused[k] > until'[k] THEN cut \cup {k} ELSE cut
    PROVE  until' \in [Keys -> Nat] /\ refused' \in [Keys -> Nat] /\ HourHolds'
<1>1. cooldown \in Nat /\ Hour \in Nat /\ clock \in Nat /\ (outcome = "refused" => cooldown = Hour)
  BY KeysAssumption DEF Cooldowns, KeysInv, KeysTypeOK
<1>2. until \in [Keys -> Nat] /\ refused \in [Keys -> Nat]
  BY DEF KeysInv, KeysTypeOK
<1>3. until' \in [Keys -> Nat]
  BY <1>1, <1>2
<1>4. refused' \in [Keys -> Nat]
  BY <1>1, <1>2
<1>5. ASSUME NEW l \in Keys PROVE refused'[l] <= until'[l] \/ l \in cut'
  <2>1. CASE l # k
    <3>1. until'[l] = until[l] /\ refused'[l] = refused[l] /\ (l \in cut => l \in cut')
      BY <1>2, <2>1
    <3> QED
      BY <3>1 DEF KeysInv, HourHolds
  <2>2. CASE l = k /\ outcome = "refused"
    <3>1. until'[l] = clock + Hour /\ refused'[l] = clock + Hour
      BY <1>1, <1>2, <2>2
    <3> QED
      BY <1>1, <3>1
  <2>3. CASE l = k /\ outcome # "refused"
    <3>1. refused'[l] = refused[k] /\ until'[l] \in Nat /\ refused[k] \in Nat
      BY <1>2, <1>3, <2>3
    <3>2. CASE refused[k] > until'[k]
      BY <2>3, <3>2
    <3>3. CASE ~(refused[k] > until'[k])
      BY <2>3, <3>1, <3>3
    <3> QED
      BY <3>2, <3>3
  <2> QED
    BY <2>1, <2>2, <2>3
<1> QED
  BY <1>3, <1>4, <1>5 DEF HourHolds

LEMMA FailsOverRests ==
    ASSUME KeysInv, NEW c \in Calls, FailsOver(c)
    PROVE  KeysInv' /\ RestStep
<1>1. PICK x : x = call[c]
  OBVIOUS
<1>2. x \in AiCalls /\ HasKey(x) /\ x.pc = "asking" /\ x.key \in Keys
  BY <1>1 DEF KeysInv, KeysTypeOK, FailsOver, HasKey
<1>3. PICK outcome \in Rotating : \E cooldown \in Cooldowns(outcome) :
        LET k == x.key
            off == [until EXCEPT ![k] = clock + cooldown]
        IN  /\ until' = off
            /\ Turns(c, Tried(c, outcome, off))
            /\ refused' = IF outcome = "refused" THEN [refused EXCEPT ![k] = clock + Hour] ELSE refused
            /\ cut' = IF outcome = "refused" THEN cut \ {k}
                      ELSE IF refused[k] > off[k] THEN cut \cup {k} ELSE cut
  BY <1>1 DEF FailsOver
<1>4. PICK cooldown \in Cooldowns(outcome) :
        /\ until' = [until EXCEPT ![x.key] = clock + cooldown]
        /\ Turns(c, Tried(c, outcome, until'))
        /\ refused' = IF outcome = "refused" THEN [refused EXCEPT ![x.key] = clock + Hour] ELSE refused
        /\ cut' = IF outcome = "refused" THEN cut \ {x.key}
                  ELSE IF refused[x.key] > until'[x.key] THEN cut \cup {x.key} ELSE cut
  BY <1>3
<1>5. until' \in [Keys -> Nat] /\ refused' \in [Keys -> Nat] /\ HourHolds'
  BY <1>2, <1>4, Reported
<1>6. PICK y \in Tried(c, outcome, until') : call' = [call EXCEPT ![c] = y]
  BY <1>4 DEF Turns
<1>7. y \in AiCalls /\ HasKey(y) /\ (y.pc = "asking" => until'[y.key] <= clock)
  <2>1. CASE y \in Selected([x EXCEPT !.attempt = @ + 1], until')
    <3>1. PICK z : z = [x EXCEPT !.attempt = @ + 1]
      OBVIOUS
    <3>2. z \in AiCalls
      BY <1>2, <3>1 DEF AiCalls
    <3> QED
      BY <1>5, <2>1, <3>1, <3>2, SelectedRests
  <2>2. CASE \E to \in {"backoff", "failed"} : y = [x EXCEPT !.pc = to, !.key = NoKey]
    BY <1>2, <2>2 DEF AiCalls, HasKey
  <2> QED
    BY <1>1, <1>6, <2>1, <2>2 DEF Tried
<1>8. clock' = clock
  BY DEF FailsOver
<1> QED
  BY <1>5, <1>6, <1>7, <1>8, OneCall

LEMMA KeysStep ==
    ASSUME KeysInv, NEW c \in Calls, Call(c) \/ CallStep(c)
    PROVE  KeysInv' /\ RestStep
<1>1. PICK x : x = call[c]
  OBVIOUS
<1>2. x \in AiCalls /\ HasKey(x) /\ until \in [Keys -> Nat]
  BY <1>1 DEF KeysInv, KeysTypeOK
<1>3. CASE Call(c) \/ BacksOff(c)
  <2>1. PICK round \in {0, x.round + 1} : Turns(c, Selected(FirstOf(x, round), until))
    BY <1>1, <1>3 DEF Call, BacksOff
  <2>2. PICK z : z = FirstOf(x, round)
    OBVIOUS
  <2>3. z \in AiCalls
    <3>1. round \in Nat
      BY <1>2 DEF AiCalls
    <3>2. PICK w : w = [x EXCEPT !.round = round]
      OBVIOUS
    <3>3. w \in AiCalls
      BY <1>2, <3>1, <3>2 DEF AiCalls
    <3>4. z = [w EXCEPT !.attempt = 1]
      BY <2>2, <3>2 DEF FirstOf
    <3> QED
      BY <3>3, <3>4 DEF AiCalls
  <2>4. PICK y \in Selected(z, until) : call' = [call EXCEPT ![c] = y]
    BY <2>1, <2>2 DEF Turns
  <2>5. y \in AiCalls /\ HasKey(y) /\ (y.pc = "asking" => until[y.key] <= clock)
    BY <1>2, <2>3, <2>4, SelectedRests
  <2>6. UNCHANGED <<clock, until, refused, cut>>
    BY <1>3 DEF Call, BacksOff
  <2> QED
    BY <2>4, <2>5, <2>6, CallGoesOn
<1>4. CASE Waited(c)
  <2>1. PICK y : y = [x EXCEPT !.pc = "asking"]
    OBVIOUS
  <2>2. x.pc = "waiting" /\ call' = [call EXCEPT ![c] = y] /\ UNCHANGED <<clock, until, refused, cut>>
    BY <1>1, <1>4, <2>1 DEF Waited, Turns
  <2>3. y \in AiCalls /\ HasKey(y)
    BY <1>2, <2>1, <2>2 DEF AiCalls, HasKey
  <2> QED
    BY <1>1, <2>2, <2>3, CallGoesOn
<1>5. CASE Succeeds(c) \/ Rejected(c) \/ TimesOut(c)
  <2>1. PICK to \in {"done", "failed"} : call' = [call EXCEPT ![c] = [x EXCEPT !.pc = to, !.key = NoKey]]
    BY <1>1, <1>5 DEF Succeeds, Rejected, TimesOut, Turns
  <2>2. PICK y : y = [x EXCEPT !.pc = to, !.key = NoKey]
    OBVIOUS
  <2>3. y \in AiCalls /\ HasKey(y) /\ y.pc # "asking"
    BY <1>2, <2>2 DEF AiCalls, HasKey
  <2>4. UNCHANGED <<clock, until, refused, cut>>
    BY <1>5 DEF Succeeds, Rejected, TimesOut
  <2> QED
    BY <2>1, <2>2, <2>3, <2>4, CallGoesOn
<1>6. CASE FailsOver(c)
  BY <1>6, FailsOverRests
<1> QED
  BY <1>3, <1>4, <1>5, <1>6 DEF CallStep

(* A key that was refused rests for the hour, whatever the calls beside it *)
(* come to, unless one of those has cut its time.                          *)
THEOREM KeysRevokedRests == KeysSpec => RevokedRests
<1>1. KeysInit => KeysInv
  <2> SUFFICES ASSUME KeysInit PROVE KeysInv
    OBVIOUS
  <2>1. call \in [Calls -> {x \in AiCalls : HasKey(x)}]
    BY DEF KeysInit, AiCalls, HasKey
  <2> QED
    BY <2>1 DEF KeysInit, KeysInv, KeysTypeOK, HourHolds
<1>2. KeysInv /\ [KeysNext]_keyVars
        => KeysInv' /\ [\A c \in Calls : \A k \in Keys :
                            TurnsTo(c, k) => refused'[k] <= clock \/ k \in cut']_keyVars
  <2> SUFFICES ASSUME KeysInv, [KeysNext]_keyVars
               PROVE  KeysInv' /\ (RestStep \/ UNCHANGED keyVars)
    BY DEF RestStep
  <2>1. CASE UNCHANGED keyVars
    BY <2>1 DEF keyVars, KeysInv, KeysTypeOK, HourHolds
  <2>2. CASE TimePasses
    BY <2>2 DEF TimePasses, KeysInv, KeysTypeOK, HourHolds, RestStep, TurnsTo
  <2>3. ASSUME NEW c \in Calls, Call(c) \/ CallStep(c) PROVE KeysInv' /\ RestStep
    BY <2>3, KeysStep
  <2> QED
    BY <2>1, <2>2, <2>3 DEF KeysNext
<1> QED
  BY <1>1, <1>2, PTL DEF KeysSpec, RevokedRests

----------------------------------------------------------------------------
(***************************************************************************)
(* Broadcast.                                                              *)
(***************************************************************************)

Fresh == {"unasked", "answering", "collecting", "refused"}
Hand == {"judging", "delivering", "waiting", "retrying"}

Casts == [pc : Fresh \union Hand \union {"between", "over"}, todo : SUBSET Targets, trim : BOOLEAN, aborted : BOOLEAN,
          sent : Nat, trimmed : Nat, failed : Nat, skipped : Nat]

RunsOn(x) == x.pc \in Hand \union {"between"}

(* One broadcast has counted what it took.                                 *)
Sums(x) ==
    LET counted == x.sent + x.failed + x.skipped IN
    /\ x.pc \in Fresh => counted = 0 /\ ~x.aborted
    /\ RunsOn(x) => counted + Cardinality(x.todo) + (IF x.pc \in Hand THEN 1 ELSE 0) = Cardinality(Targets)
    /\ x.pc = "over" /\ ~x.aborted => counted = Cardinality(Targets)
    /\ x.trimmed <= x.sent

(* Who is active runs, and nobody else does.                               *)
Activity ==
    /\ active \in Commands \union {NoBroadcast}
    /\ active # NoBroadcast => RunsOn(cast[active])
    /\ ~overlapped => /\ \A b \in Commands : RunsOn(cast[b]) => active = b
                      /\ \A b, o \in Commands : cast[b].pc = "collecting" /\ cast[o].pc = "collecting" => b = o
                      /\ \A b \in Commands : cast[b].pc = "collecting" => active = NoBroadcast

CastInv ==
    /\ cast \in [Commands -> Casts] /\ overlapped \in BOOLEAN
    /\ \A b \in Commands : Sums(cast[b])
    /\ Activity

(* What StopHolds says of a broadcast that was x and is y.                 *)
Holds(x, y) == x.aborted /\ (x.pc \notin Hand \/ x.pc = "waiting") => y \in {x, [x EXCEPT !.pc = "over"]}
StopHoldsStep == \A b \in Commands : Holds(cast[b], cast'[b])

-----------------------------------------------------------------------------

(* A step of one broadcast touches no other.                               *)
LEMMA OneCast ==
    ASSUME CastInv, NEW b \in Commands, NEW x \in Casts, CastIs(b, x), Sums(x), Holds(cast[b], x)
    PROVE  /\ cast' \in [Commands -> Casts] /\ \A o \in Commands : Sums(cast'[o])
           /\ cast'[b] = x /\ \A o \in Commands \ {b} : cast'[o] = cast[o]
           /\ StopHoldsStep
<1>1. cast' = [cast EXCEPT ![b] = x] /\ cast \in [Commands -> Casts]
  BY DEF CastIs, CastInv
<1>2. cast' \in [Commands -> Casts] /\ cast'[b] = x /\ \A o \in Commands \ {b} : cast'[o] = cast[o]
  BY <1>1
<1>3. \A o \in Commands : Sums(cast'[o])
  BY <1>2 DEF CastInv
<1>4. StopHoldsStep
  BY <1>2 DEF StopHoldsStep, Holds
<1> QED
  BY <1>2, <1>3, <1>4

(* A step that neither begins nor ends a broadcast.                        *)
LEMMA QuietStep ==
    ASSUME CastInv, NEW b \in Commands, NEW x \in Casts, CastIs(b, x), Sums(x), Holds(cast[b], x),
           UNCHANGED active, overlapped' \in BOOLEAN, overlapped => overlapped',
           RunsOn(x) <=> RunsOn(cast[b]), x.pc = "collecting" => cast[b].pc = "collecting"
    PROVE  CastInv' /\ StopHoldsStep
<1>1. /\ cast' \in [Commands -> Casts] /\ \A o \in Commands : Sums(cast'[o])
      /\ cast'[b] = x /\ \A o \in Commands \ {b} : cast'[o] = cast[o]
      /\ StopHoldsStep
  BY OneCast
<1>2. \A o \in Commands : /\ RunsOn(cast'[o]) <=> RunsOn(cast[o])
                          /\ cast'[o].pc = "collecting" => cast[o].pc = "collecting"
  <2>1. ASSUME NEW o \in Commands
        PROVE  /\ RunsOn(cast'[o]) <=> RunsOn(cast[o])
               /\ cast'[o].pc = "collecting" => cast[o].pc = "collecting"
    <3>1. CASE o = b
      BY <1>1, <3>1 DEF RunsOn
    <3>2. CASE o # b
      BY <1>1, <3>2
    <3> QED
      BY <3>1, <3>2
  <2> QED
    BY <2>1
<1>3. Activity'
  <2>1. active' = active /\ (~overlapped' => ~overlapped)
    OBVIOUS
  <2>2. /\ active \in Commands \union {NoBroadcast}
        /\ active # NoBroadcast => RunsOn(cast[active])
        /\ ~overlapped => /\ \A c \in Commands : RunsOn(cast[c]) => active = c
                          /\ \A c, o \in Commands : cast[c].pc = "collecting" /\ cast[o].pc = "collecting" => c = o
                          /\ \A c \in Commands : cast[c].pc = "collecting" => active = NoBroadcast
    BY DEF CastInv, Activity
  <2>3. active # NoBroadcast => RunsOn(cast'[active])
    BY <1>2, <2>2
  <2>4. ~overlapped => \A c \in Commands : RunsOn(cast'[c]) => active = c
    BY <1>2, <2>2
  <2>5. ~overlapped => /\ \A c, o \in Commands : cast'[c].pc = "collecting" /\ cast'[o].pc = "collecting" => c = o
                       /\ \A c \in Commands : cast'[c].pc = "collecting" => active = NoBroadcast
    BY <1>2, <2>2
  <2> QED
    BY <2>1, <2>2, <2>3, <2>4, <2>5 DEF Activity
<1> QED
  BY <1>1, <1>3 DEF CastInv, Sums, RunsOn

(* The broadcast of b is over.                                             *)
LEMMA FinishesKeeps ==
    ASSUME CastInv, NEW b \in Commands, RunsOn(cast[b]), Finishes(b), UNCHANGED overlapped,
           cast[b].aborted \/ (cast[b].pc = "between" /\ cast[b].todo = {})
    PROVE  CastInv' /\ StopHoldsStep
<1>1. PICK x : x = [cast[b] EXCEPT !.pc = "over"]
  OBVIOUS
<1>2. cast[b] \in Casts /\ Sums(cast[b])
  BY DEF CastInv
<1>3. /\ x \in Casts /\ x.pc = "over" /\ x.aborted = cast[b].aborted
      /\ x.sent = cast[b].sent /\ x.failed = cast[b].failed /\ x.skipped = cast[b].skipped
      /\ x.trimmed = cast[b].trimmed
  BY <1>1, <1>2 DEF Casts
<1>4. Sums(x)
  <2>1. Cardinality({}) = 0
    BY FS_EmptySet
  <2>2. cast[b].pc \in Hand => cast[b].aborted
    BY DEF Hand
  <2>3. {cast[b].sent, cast[b].failed, cast[b].skipped, cast[b].trimmed} \subseteq Nat
    BY <1>2 DEF Casts
  <2>4. ~x.aborted => x.sent + x.failed + x.skipped = Cardinality(Targets)
    <3>1. SUFFICES ASSUME ~x.aborted PROVE x.sent + x.failed + x.skipped = Cardinality(Targets)
      OBVIOUS
    <3>2. cast[b].pc = "between" /\ cast[b].todo = {} /\ cast[b].pc \notin Hand
      BY <1>3, <3>1 DEF Hand
    <3>3. cast[b].sent + cast[b].failed + cast[b].skipped + Cardinality({}) + 0 = Cardinality(Targets)
      BY <1>2, <3>2 DEF Sums, RunsOn
    <3> QED
      BY <1>3, <2>1, <2>3, <3>3
  <2> QED
    BY <1>2, <1>3, <2>4 DEF Sums, RunsOn, Hand, Fresh
<1>5. CastIs(b, x) /\ active' = NoBroadcast
  BY <1>1 DEF Finishes, CastAt
<1>6. Holds(cast[b], x)
  BY <1>1 DEF Holds
<1>7. /\ cast' \in [Commands -> Casts] /\ \A o \in Commands : Sums(cast'[o])
      /\ cast'[b] = x /\ \A o \in Commands \ {b} : cast'[o] = cast[o]
      /\ StopHoldsStep
  BY <1>3, <1>4, <1>5, <1>6, OneCast
<1>8. ~RunsOn(x)
  BY <1>3 DEF RunsOn, Hand
<1>9. Activity'
  BY <1>3, <1>5, <1>7, <1>8, BroadcastAssumption DEF CastInv, Activity, RunsOn
<1> QED
  BY <1>7, <1>9 DEF CastInv, Sums, RunsOn

(* A broadcast that was set up sends to every target.                      *)
LEMMA CastFields ==
    ASSUME NEW x \in Casts
    PROVE  /\ {x.sent, x.failed, x.skipped, x.trimmed} \subseteq Nat
           /\ x.todo \in SUBSET Targets /\ IsFiniteSet(x.todo) /\ Cardinality(x.todo) \in Nat
           /\ Cardinality(Targets) \in Nat /\ x.aborted \in BOOLEAN /\ x.trim \in BOOLEAN
<1>1. x.todo \in SUBSET Targets /\ {x.sent, x.failed, x.skipped, x.trimmed} \subseteq Nat
  BY DEF Casts
<1>2. x.aborted \in BOOLEAN /\ x.trim \in BOOLEAN
  BY DEF Casts
<1>3. IsFiniteSet(Targets) /\ IsFiniteSet(x.todo)
  BY <1>1, BroadcastAssumption, FS_Subset
<1> QED
  BY <1>1, <1>2, <1>3, FS_CardinalityType

(* The target in hand is counted once.                                     *)
LEMMA OutcomeKeeps ==
    ASSUME CastInv, NEW b \in Commands, cast[b].pc \in Hand \ {"waiting"},
           Skips(b) \/ Fails(b) \/ Sends(b) \/ SendsText(b), UNCHANGED <<active, overlapped>>
    PROVE  CastInv' /\ StopHoldsStep
<1>1. PICK y : y = cast[b]
  OBVIOUS
<1>2. y \in Casts /\ Sums(y) /\ RunsOn(y) /\ y.pc \in Hand /\ y.pc # "waiting"
  BY <1>1 DEF CastInv, RunsOn, Hand
<1>3. {y.sent, y.failed, y.skipped, y.trimmed} \subseteq Nat /\ Cardinality(y.todo) \in Nat
  BY <1>2, CastFields
<1>4. PICK z : z = [y EXCEPT !.pc = "between"]
  OBVIOUS
<1>5. /\ z \in Casts /\ z.pc = "between" /\ z.todo = y.todo /\ z.trim = y.trim /\ z.aborted = y.aborted
      /\ z.sent = y.sent /\ z.failed = y.failed /\ z.skipped = y.skipped /\ z.trimmed = y.trimmed
  BY <1>2, <1>4 DEF Casts
<1>6. PICK x \in Casts : /\ CastIs(b, x) /\ x.pc = "between" /\ x.todo = y.todo /\ x.aborted = y.aborted
                         /\ x.sent + x.failed + x.skipped = y.sent + y.failed + y.skipped + 1
                         /\ x.trimmed <= x.sent
  <2>1. CASE Skips(b)
    <3>1. PICK x : x = [z EXCEPT !.skipped = @ + 1]
      OBVIOUS
    <3>2. /\ x \in Casts /\ x.pc = "between" /\ x.todo = z.todo /\ x.aborted = z.aborted
          /\ x.sent = z.sent /\ x.failed = z.failed /\ x.skipped = z.skipped + 1 /\ x.trimmed = z.trimmed
      BY <1>5, <3>1 DEF Casts
    <3>3. CastIs(b, x)
      BY <1>1, <1>4, <1>5, <2>1, <3>1, Zenon DEF Skips
    <3> QED
      BY <1>2, <1>3, <1>5, <3>2, <3>3 DEF Sums
  <2>2. CASE Fails(b)
    <3>1. PICK x : x = [z EXCEPT !.failed = @ + 1]
      OBVIOUS
    <3>2. /\ x \in Casts /\ x.pc = "between" /\ x.todo = z.todo /\ x.aborted = z.aborted
          /\ x.sent = z.sent /\ x.failed = z.failed + 1 /\ x.skipped = z.skipped /\ x.trimmed = z.trimmed
      BY <1>5, <3>1 DEF Casts
    <3>3. CastIs(b, x)
      BY <1>1, <1>4, <1>5, <2>2, <3>1, Zenon DEF Fails
    <3> QED
      BY <1>2, <1>3, <1>5, <3>2, <3>3 DEF Sums
  <2>3. CASE Sends(b)
    <3>1. PICK x : x = [z EXCEPT !.sent = @ + 1]
      OBVIOUS
    <3>2. /\ x \in Casts /\ x.pc = "between" /\ x.todo = z.todo /\ x.aborted = z.aborted
          /\ x.sent = z.sent + 1 /\ x.failed = z.failed /\ x.skipped = z.skipped /\ x.trimmed = z.trimmed
      BY <1>5, <3>1 DEF Casts
    <3>3. CastIs(b, x)
      BY <1>1, <1>4, <1>5, <2>3, <3>1, Zenon DEF Sends
    <3> QED
      BY <1>2, <1>3, <1>5, <3>2, <3>3 DEF Sums
  <2>4. CASE SendsText(b)
    <3>1. PICK w : w = [z EXCEPT !.sent = @ + 1]
      OBVIOUS
    <3>2. /\ w \in Casts /\ w.pc = "between" /\ w.todo = z.todo /\ w.aborted = z.aborted
          /\ w.sent = z.sent + 1 /\ w.failed = z.failed /\ w.skipped = z.skipped /\ w.trimmed = z.trimmed
      BY <1>5, <3>1 DEF Casts
    <3>3. PICK x : x = [w EXCEPT !.trimmed = @ + 1]
      OBVIOUS
    <3>4. /\ x \in Casts /\ x.pc = "between" /\ x.todo = w.todo /\ x.aborted = w.aborted
          /\ x.sent = w.sent /\ x.failed = w.failed /\ x.skipped = w.skipped /\ x.trimmed = w.trimmed + 1
      BY <3>2, <3>3 DEF Casts
    <3>5. CastIs(b, x)
      BY <1>1, <1>4, <1>5, <2>4, <3>1, <3>2, <3>3, Zenon DEF SendsText
    <3> QED
      BY <1>2, <1>3, <1>5, <3>2, <3>4, <3>5 DEF Sums
  <2> QED
    BY <2>1, <2>2, <2>3, <2>4
<1>7. {x.sent, x.failed, x.skipped} \subseteq Nat
  BY <1>6, CastFields
<1>8. Sums(x)
  BY <1>2, <1>3, <1>6, <1>7 DEF Sums, RunsOn, Hand, Fresh
<1>9. Holds(cast[b], x)
  BY <1>1, <1>2 DEF Holds
<1>10. overlapped' \in BOOLEAN /\ (overlapped => overlapped') /\ UNCHANGED active
  BY DEF CastInv
<1>11. (RunsOn(x) <=> RunsOn(cast[b])) /\ x.pc # "collecting"
  BY <1>1, <1>2, <1>6 DEF RunsOn
<1> QED
  BY <1>6, <1>8, <1>9, <1>10, <1>11, QuietStep

(* A step that only moves a broadcast on.                                  *)
LEMMA MovesKeeps ==
    ASSUME CastInv, NEW b \in Commands, NEW pc, CastAt(b, pc),
           UNCHANGED active, overlapped' \in BOOLEAN, overlapped => overlapped',
           \/ cast[b].pc \in Hand \ {"waiting"} /\ pc \in Hand
           \/ cast[b].pc = "waiting" /\ ~cast[b].aborted /\ pc \in Hand
           \/ cast[b].pc \in Fresh /\ pc \in Fresh \ {"collecting"}
    PROVE  CastInv' /\ StopHoldsStep
<1>1. PICK y : y = cast[b]
  OBVIOUS
<1>2. y \in Casts /\ Sums(y)
  BY <1>1 DEF CastInv
<1>3. PICK x : x = [y EXCEPT !.pc = pc]
  OBVIOUS
<1>4. /\ x \in Casts /\ x.pc = pc /\ x.todo = y.todo /\ x.aborted = y.aborted
      /\ x.sent = y.sent /\ x.failed = y.failed /\ x.skipped = y.skipped /\ x.trimmed = y.trimmed
  BY <1>1, <1>2, <1>3 DEF Casts
<1>5. Sums(x) /\ (RunsOn(x) <=> RunsOn(cast[b])) /\ (x.pc = "collecting" => cast[b].pc = "collecting")
  BY <1>1, <1>2, <1>4 DEF Sums, RunsOn, Hand, Fresh
<1>6. Holds(cast[b], x)
  BY <1>1, <1>2, <1>4 DEF Holds, Sums, Hand, Fresh
<1>7. CastIs(b, x)
  BY <1>1, <1>3 DEF CastAt
<1> QED
  BY <1>4, <1>5, <1>6, <1>7, QuietStep

(* Another broadcast collects its targets.                                 *)
LEMMA StartsKeeps ==
    ASSUME CastInv, NEW b \in Commands, Starts(b)
    PROVE  CastInv' /\ StopHoldsStep
<1>1. cast[b].pc = "answering" /\ cast[b].pc \in Fresh /\ UNCHANGED active
  BY DEF Starts, Fresh
<1>2. overlapped' \in BOOLEAN /\ (overlapped => overlapped')
  BY DEF Starts, CastInv
<1>3. CASE active # NoBroadcast
  <2>1. CastAt(b, "refused") /\ "refused" \in Fresh \ {"collecting"}
    BY <1>3 DEF Starts, Fresh
  <2> QED
    BY <1>1, <1>2, <2>1, MovesKeeps
<1>4. CASE active = NoBroadcast
  <2>1. PICK y : y = cast[b]
    OBVIOUS
  <2>2. y \in Casts /\ Sums(y) /\ y.pc = "answering"
    BY <1>1, <2>1 DEF CastInv
  <2>3. PICK x : x = [y EXCEPT !.pc = "collecting"]
    OBVIOUS
  <2>4. /\ x \in Casts /\ x.pc = "collecting" /\ x.todo = y.todo /\ x.aborted = y.aborted
        /\ x.sent = y.sent /\ x.failed = y.failed /\ x.skipped = y.skipped /\ x.trimmed = y.trimmed
    BY <2>2, <2>3 DEF Casts, Fresh
  <2>5. Sums(x) /\ ~RunsOn(x)
    BY <2>2, <2>4 DEF Sums, RunsOn, Hand, Fresh
  <2>6. Holds(cast[b], x)
    BY <2>1, <2>2 DEF Holds, Sums, Fresh
  <2>7. CastIs(b, x)
    BY <1>4, <2>1, <2>3 DEF Starts, CastAt
  <2>8. /\ cast' \in [Commands -> Casts] /\ \A o \in Commands : Sums(cast'[o])
        /\ cast'[b] = x /\ \A o \in Commands \ {b} : cast'[o] = cast[o]
        /\ StopHoldsStep
    BY <2>4, <2>5, <2>6, <2>7, OneCast
  <2>9. ~overlapped' => ~overlapped /\ \A o \in Commands : cast[o].pc # "collecting"
    BY DEF Starts
  <2>10. Activity'
    BY <1>1, <1>4, <2>4, <2>5, <2>8, <2>9, BroadcastAssumption DEF CastInv, Activity, RunsOn
  <2> QED
    BY <1>2, <2>8, <2>10 DEF CastInv, Sums, RunsOn
<1> QED
  BY <1>3, <1>4

(* The targets are there, or they are not.                                 *)
LEMMA CollectsKeeps ==
    ASSUME CastInv, NEW b \in Commands, Collects(b)
    PROVE  CastInv' /\ StopHoldsStep
<1>1. cast[b].pc = "collecting" /\ cast[b].pc \in Fresh /\ UNCHANGED overlapped
  BY DEF Collects, Fresh
<1>2. overlapped' \in BOOLEAN /\ (overlapped => overlapped')
  BY <1>1 DEF CastInv
<1>3. CASE CastAt(b, "refused") /\ UNCHANGED active
  <2>1. "refused" \in Fresh \ {"collecting"}
    BY DEF Fresh
  <2> QED
    BY <1>1, <1>2, <1>3, <2>1, MovesKeeps
<1>4. CASE CastIs(b, [cast[b] EXCEPT !.pc = "between", !.todo = Targets]) /\ active' = b
  <2>1. PICK y : y = cast[b]
    OBVIOUS
  <2>2. y \in Casts /\ Sums(y) /\ y.pc = "collecting"
    BY <1>1, <2>1 DEF CastInv
  <2>3. PICK z : z = [y EXCEPT !.pc = "between"]
    OBVIOUS
  <2>4. /\ z \in Casts /\ z.pc = "between" /\ z.todo = y.todo /\ z.aborted = y.aborted
        /\ z.sent = y.sent /\ z.failed = y.failed /\ z.skipped = y.skipped /\ z.trimmed = y.trimmed
    BY <2>2, <2>3 DEF Casts
  <2>5. PICK x : x = [z EXCEPT !.todo = Targets]
    OBVIOUS
  <2>6. /\ x \in Casts /\ x.pc = "between" /\ x.todo = Targets /\ x.aborted = z.aborted
        /\ x.sent = z.sent /\ x.failed = z.failed /\ x.skipped = z.skipped /\ x.trimmed = z.trimmed
    BY <2>4, <2>5 DEF Casts
  <2>7. Sums(x) /\ RunsOn(x)
    BY <2>2, <2>4, <2>6, CastFields DEF Sums, RunsOn, Hand, Fresh
  <2>8. Holds(cast[b], x)
    BY <2>1, <2>2 DEF Holds, Sums, Fresh
  <2>9. CastIs(b, x)
    BY <1>4, <2>1, <2>3, <2>5
  <2>10. /\ cast' \in [Commands -> Casts] /\ \A o \in Commands : Sums(cast'[o])
         /\ cast'[b] = x /\ \A o \in Commands \ {b} : cast'[o] = cast[o]
         /\ StopHoldsStep
    BY <2>6, <2>7, <2>8, <2>9, OneCast
  <2>11. Activity'
    <3>1. active' = b /\ overlapped' = overlapped /\ cast[b].pc = "collecting"
      BY <1>1, <1>4
    <3>2. ~overlapped => \A o \in Commands \ {b} : ~RunsOn(cast'[o]) /\ cast'[o].pc # "collecting"
      BY <2>10, <3>1, BroadcastAssumption DEF CastInv, Activity
    <3> QED
      BY <2>6, <2>7, <2>10, <3>1, <3>2, BroadcastAssumption DEF Activity
  <2> QED
    BY <1>2, <2>10, <2>11 DEF CastInv, Sums, RunsOn
<1> QED
  BY <1>3, <1>4 DEF Collects

(* A target is taken from those that are left.                             *)
LEMMA TakesKeeps ==
    ASSUME CastInv, NEW b \in Commands, Takes(b)
    PROVE  CastInv' /\ StopHoldsStep
<1>1. PICK y : y = cast[b]
  OBVIOUS
<1>2. y \in Casts /\ Sums(y) /\ y.pc = "between" /\ y.aborted = FALSE
  BY <1>1 DEF CastInv, Takes, Casts
<1>3. PICK t \in y.todo :
        CastIs(b, [y EXCEPT !.todo = @ \ {t}, !.trim = FALSE,
                            !.pc = IF t \in Groups THEN "judging" ELSE "delivering"])
  BY <1>1 DEF Takes
<1>4. PICK to : to = IF t \in Groups THEN "judging" ELSE "delivering"
  OBVIOUS
<1>5. to \in Hand
  BY <1>4 DEF Hand
<1>6. PICK w : w = [y EXCEPT !.todo = @ \ {t}]
  OBVIOUS
<1>7. /\ w \in Casts /\ w.todo = y.todo \ {t} /\ w.aborted = FALSE
      /\ w.sent = y.sent /\ w.failed = y.failed /\ w.skipped = y.skipped /\ w.trimmed = y.trimmed
  BY <1>2, <1>6 DEF Casts
<1>8. PICK z : z = [w EXCEPT !.trim = FALSE]
  OBVIOUS
<1>9. /\ z \in Casts /\ z.todo = w.todo /\ z.aborted = FALSE
      /\ z.sent = w.sent /\ z.failed = w.failed /\ z.skipped = w.skipped /\ z.trimmed = w.trimmed
  BY <1>7, <1>8 DEF Casts
<1>10. PICK x : x = [z EXCEPT !.pc = to]
  OBVIOUS
<1>11. /\ x \in Casts /\ x.pc = to /\ x.todo = z.todo /\ x.aborted = FALSE
       /\ x.sent = z.sent /\ x.failed = z.failed /\ x.skipped = z.skipped /\ x.trimmed = z.trimmed
  BY <1>5, <1>9, <1>10 DEF Casts
<1>12. CastIs(b, x)
  BY <1>3, <1>4, <1>6, <1>8, <1>10
<1>13. Cardinality(x.todo) = Cardinality(y.todo) - 1
  <2>1. IsFiniteSet(y.todo) /\ t \in y.todo /\ x.todo = y.todo \ {t}
    BY <1>2, <1>3, <1>7, <1>9, <1>11, CastFields
  <2>2. Cardinality(y.todo \ {t}) = Cardinality(y.todo) - 1
    BY <2>1, FS_RemoveElement
  <2> QED
    BY <2>1, <2>2
<1>14. Sums(x) /\ RunsOn(x) /\ RunsOn(y) /\ x.pc # "collecting"
  <2>1. y.sent + y.failed + y.skipped + Cardinality(y.todo) + 0 = Cardinality(Targets)
    BY <1>2 DEF Sums, RunsOn, Hand
  <2>2. RunsOn(x) /\ RunsOn(y) /\ x.pc \notin Fresh /\ x.pc # "over"
    BY <1>2, <1>5, <1>11 DEF RunsOn, Hand, Fresh
  <2>3. x.sent + x.failed + x.skipped + Cardinality(x.todo) + 1 = Cardinality(Targets)
    BY <1>2, <1>7, <1>9, <1>11, <1>13, <2>1, CastFields
  <2>4. x.trimmed <= x.sent
    BY <1>2, <1>7, <1>9, <1>11 DEF Sums
  <2> QED
    BY <1>5, <1>11, <2>2, <2>3, <2>4 DEF Sums, Fresh, Hand
<1>15. Holds(cast[b], x)
  BY <1>1, <1>2 DEF Holds
<1>16. UNCHANGED <<active, overlapped>> /\ overlapped' \in BOOLEAN
  BY DEF Takes, CastInv
<1> QED
  BY <1>1, <1>11, <1>12, <1>14, <1>15, <1>16, QuietStep

(* A group is skipped, or it is known what it may be sent.                 *)
LEMMA JudgesKeeps ==
    ASSUME CastInv, NEW b \in Commands, Judges(b)
    PROVE  CastInv' /\ StopHoldsStep
<1>1. PICK y : y = cast[b]
  OBVIOUS
<1>2. y \in Casts /\ Sums(y) /\ y.pc = "judging" /\ y.pc \in Hand \ {"waiting"}
  BY <1>1 DEF CastInv, Judges, Hand
<1>3. UNCHANGED <<active, overlapped>> /\ overlapped' \in BOOLEAN
  BY DEF Judges, CastInv
<1>4. CASE Skips(b)
  BY <1>1, <1>2, <1>3, <1>4, OutcomeKeeps
<1>5. ASSUME NEW trim \in BOOLEAN, CastIs(b, [y EXCEPT !.pc = "delivering", !.trim = trim])
      PROVE  CastInv' /\ StopHoldsStep
  <2>1. PICK z : z = [y EXCEPT !.pc = "delivering"]
    OBVIOUS
  <2>2. /\ z \in Casts /\ z.pc = "delivering" /\ z.todo = y.todo /\ z.aborted = y.aborted
        /\ z.sent = y.sent /\ z.failed = y.failed /\ z.skipped = y.skipped /\ z.trimmed = y.trimmed
    BY <1>2, <2>1 DEF Casts, Hand
  <2>3. PICK x : x = [z EXCEPT !.trim = trim]
    OBVIOUS
  <2>4. /\ x \in Casts /\ x.pc = "delivering" /\ x.todo = z.todo /\ x.aborted = z.aborted
        /\ x.sent = z.sent /\ x.failed = z.failed /\ x.skipped = z.skipped /\ x.trimmed = z.trimmed
    BY <2>2, <2>3 DEF Casts
  <2>5. Sums(x) /\ RunsOn(x) /\ RunsOn(y) /\ x.pc # "collecting"
    BY <1>2, <2>2, <2>4 DEF Sums, RunsOn, Hand, Fresh
  <2>6. Holds(cast[b], x)
    BY <1>1, <1>2 DEF Holds
  <2>7. CastIs(b, x)
    BY <1>5, <2>1, <2>3
  <2> QED
    BY <1>1, <1>3, <2>4, <2>5, <2>6, <2>7, QuietStep
<1> QED
  BY <1>1, <1>4, <1>5 DEF Judges

(* The active broadcast is told to stop.                                   *)
LEMMA AbortKeeps ==
    ASSUME CastInv, Abort
    PROVE  CastInv' /\ StopHoldsStep
<1>1. PICK b \in Commands : b = active
  BY DEF CastInv, Activity, Abort
<1>2. PICK y : y = cast[b]
  OBVIOUS
<1>3. y \in Casts /\ Sums(y) /\ RunsOn(y)
  BY <1>1, <1>2 DEF CastInv, Activity, Abort
<1>4. PICK x : x = [y EXCEPT !.aborted = TRUE]
  OBVIOUS
<1>5. /\ x \in Casts /\ x.pc = y.pc /\ x.todo = y.todo /\ x.aborted = TRUE
      /\ x.sent = y.sent /\ x.failed = y.failed /\ x.skipped = y.skipped /\ x.trimmed = y.trimmed
  BY <1>3, <1>4 DEF Casts
<1>6. Sums(x) /\ RunsOn(x) /\ x.pc # "collecting"
  BY <1>3, <1>5 DEF Sums, RunsOn, Hand, Fresh
<1>7. y.aborted => x = y
  BY <1>3, <1>4 DEF Casts
<1>8. Holds(cast[b], x)
  BY <1>2, <1>7 DEF Holds
<1>9. CastIs(b, x) /\ UNCHANGED <<active, overlapped>> /\ overlapped' \in BOOLEAN
  BY <1>1, <1>2, <1>4 DEF Abort, CastInv
<1> QED
  BY <1>2, <1>3, <1>5, <1>6, <1>8, <1>9, QuietStep

-----------------------------------------------------------------------------

LEMMA CastStarts == CastInit => CastInv
<1> SUFFICES ASSUME CastInit PROVE CastInv
  OBVIOUS
<1>1. \A b \in Commands : cast[b].pc = "unasked" /\ cast[b] \in Casts /\ Sums(cast[b])
  BY DEF CastInit, Casts, Sums, RunsOn, Fresh, Hand
<1>2. cast \in [Commands -> Casts] /\ overlapped \in BOOLEAN /\ active = NoBroadcast
  BY <1>1 DEF CastInit
<1> QED
  BY <1>1, <1>2 DEF CastInv, Activity, RunsOn, Hand

(* Every step keeps the invariant, and holds what is stopped.              *)
LEMMA CastSteps ==
    CastInv /\ [CastNext]_castVars => CastInv' /\ [StopHoldsStep]_castVars
<1> SUFFICES ASSUME CastInv, [CastNext]_castVars PROVE CastInv' /\ [StopHoldsStep]_castVars
  OBVIOUS
<1>1. CASE UNCHANGED castVars
  BY <1>1 DEF CastInv, Activity, Sums, RunsOn, castVars
<1>2. CASE Abort
  BY <1>2, AbortKeeps
<1>3. ASSUME NEW b \in Commands, Commanded(b) \/ CastStep(b)
      PROVE  CastInv' /\ StopHoldsStep
  <2>1. overlapped \in BOOLEAN
    BY DEF CastInv
  <2>2. CASE Commanded(b)
    <3>1. PICK to \in Fresh \ {"collecting"} : CastAt(b, to)
      BY <2>2 DEF Commanded, Fresh
    <3>2. cast[b].pc \in Fresh /\ UNCHANGED <<active, overlapped>>
      BY <2>2 DEF Commanded, Fresh
    <3> QED
      BY <2>1, <3>1, <3>2, MovesKeeps
  <2>3. CASE Starts(b)
    BY <2>3, StartsKeeps
  <2>4. CASE Collects(b)
    BY <2>4, CollectsKeeps
  <2>5. CASE Takes(b)
    BY <2>5, TakesKeeps
  <2>6. CASE Judges(b)
    BY <2>6, JudgesKeeps
  <2>7. CASE Tries(b)
    <3>1. cast[b].pc \in Hand \ {"waiting"} /\ UNCHANGED <<active, overlapped>> /\ "waiting" \in Hand
      BY <2>7 DEF Tries, Hand
    <3>2. CASE CastAt(b, "waiting")
      BY <2>1, <3>1, <3>2, MovesKeeps
    <3>3. CASE Skips(b) \/ Fails(b) \/ Sends(b) \/ SendsText(b)
      BY <3>1, <3>3, OutcomeKeeps
    <3> QED
      BY <2>7, <3>2, <3>3 DEF Tries, Delivers
  <2>8. CASE FloodOver(b)
    <3>1. cast[b].pc = "waiting" /\ UNCHANGED overlapped /\ RunsOn(cast[b]) /\ "retrying" \in Hand
      BY <2>8 DEF FloodOver, RunsOn, Hand
    <3>2. CASE cast[b].aborted
      BY <2>8, <3>1, <3>2, FinishesKeeps DEF FloodOver
    <3>3. CASE ~cast[b].aborted
      BY <2>1, <2>8, <3>1, <3>3, MovesKeeps DEF FloodOver
    <3> QED
      BY <3>2, <3>3
  <2>9. CASE Retries(b)
    <3>1. cast[b].pc \in Hand \ {"waiting"} /\ UNCHANGED <<active, overlapped>>
      BY <2>9 DEF Retries, Hand
    <3> QED
      BY <2>9, <3>1, OutcomeKeeps DEF Retries, Delivers
  <2>10. CASE LoopEnds(b)
    <3>1. cast[b].pc = "between" /\ (cast[b].aborted \/ cast[b].todo = {}) /\ Finishes(b) /\ UNCHANGED overlapped
      BY <2>10 DEF LoopEnds
    <3> QED
      BY <3>1, FinishesKeeps DEF RunsOn
  <2> QED
    BY <1>3, <2>2, <2>3, <2>4, <2>5, <2>6, <2>7, <2>8, <2>9, <2>10 DEF CastStep
<1> QED
  BY <1>1, <1>2, <1>3 DEF CastNext

(* The state of the broadcasts, and what each of them has counted.         *)
THEOREM CastInvariant == CastSpec => []CastInv
<1>1. CastInv /\ [CastNext]_castVars => CastInv'
  BY CastSteps
<1> QED
  BY <1>1, CastStarts, PTL DEF CastSpec

(* However many commands are given to however many chats, every target is  *)
(* counted once as sent, failed or skipped; a Stop in the middle of a      *)
(* flood wait may leave one out.                                           *)
THEOREM CastAccounted == CastSpec => []Accounted
<1>1. CastInv => Accounted
  <2> SUFFICES ASSUME CastInv, NEW b \in Commands
               PROVE  /\ Running(b) => Counted(b) + Cardinality(cast[b].todo) + (IF InHand(b) THEN 1 ELSE 0)
                                          = Cardinality(Targets)
                      /\ cast[b].pc = "over" /\ ~cast[b].aborted => Counted(b) = Cardinality(Targets)
                      /\ cast[b].trimmed <= cast[b].sent
    BY DEF Accounted
  <2>1. Sums(cast[b])
    BY DEF CastInv
  <2> QED
    BY <2>1 DEF Sums, RunsOn, Hand, Running, InHand, Counted
<1> QED
  BY <1>1, CastInvariant, PTL

(* Unless two were prepared at a time, the broadcast that runs is the one  *)
(* the Stop button reaches.                                                *)
THEOREM CastActive == CastSpec => []ActiveIsRunning
<1>1. CastInv => ActiveIsRunning
  BY BroadcastAssumption DEF CastInv, Activity, RunsOn, Hand, ActiveIsRunning, Running, InHand
<1> QED
  BY <1>1, CastInvariant, PTL

(* A stopped broadcast sends to no other target, and a target that waits   *)
(* out a flood limit is given up.                                          *)
THEOREM CastStops == CastSpec => StopHolds
<1>1. CastInv /\ [CastNext]_castVars
        => [\A b \in Commands :
              cast[b].aborted /\ (~InHand(b) \/ cast[b].pc = "waiting")
                => cast'[b] \in {cast[b], [cast[b] EXCEPT !.pc = "over"]}]_castVars
  BY CastSteps DEF StopHoldsStep, Holds, InHand, Hand
<1> QED
  BY <1>1, CastInvariant, PTL DEF CastSpec, StopHolds

============================================================================
