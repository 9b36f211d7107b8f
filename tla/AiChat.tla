------------------------------- MODULE AiChat -------------------------------
(***************************************************************************)
(* The AI's answers in a group chat: handleAiChat()                        *)
(* (services/ai/aiChatFlow.ts), one run per message it is asked, and the   *)
(* StreamingIndicator of each run (services/ai/aiIndicator.ts), which      *)
(* edits a message of the chat while the run thinks, and in the end        *)
(* replaces it with the answer.                                            *)
(*                                                                         *)
(* Runs overlap, and a new one retires the one before it.  An edit takes   *)
(* its time: what Telegram does first when two are under way is open.      *)
(***************************************************************************)
EXTENDS Naturals, FiniteSets

CONSTANTS
    Runs,        \* messages the AI is asked
    Tools,       \* what distinguishes tool calls, toolSignature()
    MaxTurns,    \* MAX_TURNS
    MaxTools     \* MAX_TOOL_EXECUTIONS

ASSUME ChatAssumption == MaxTurns \in Nat /\ MaxTools \in Nat

VARIABLES
    run,         \* per run: where handleAiChat() is, its indicator, its message
    latest       \* activeIndicators.get(chatKey)

chatVars == <<run, latest>>

NoRun == "none"

ChatInit ==
    /\ run = [r \in Runs |->
                [pc |-> "unasked", turn |-> 0, todo |-> {}, done |-> {},
                 target |-> FALSE,      \* groupLiveTarget is set
                 ticking |-> FALSE,     \* tickerInterval
                 stopped |-> FALSE, retired |-> FALSE, finalizing |-> FALSE,
                 edit |-> "none",       \* the edit under way, and whether inFlightPush is it
                 line |-> "none"]]      \* what its message in the chat shows
    /\ latest = NoRun

----------------------------------------------------------------------------
(* The indicator.                                                          *)

\* A slip: the interval outlives stop().
StopOnPaper(x) == [x EXCEPT !.stopped = TRUE]

Stop(x) == [x EXCEPT !.stopped = TRUE, !.ticking = FALSE]

Retire(x) == [Stop(x) EXCEPT !.retired = TRUE]

\* pushDraft(): what it may leave behind.  It is held back when the text or the
\* time is too close to the last, and while an edit is under way none begins:
\* inFlightPush is then a push that is over at once.
PushDraft(x) ==
    IF ~x.target \/ x.stopped \/ x.finalizing THEN {x}
    ELSE {x} \cup IF x.edit = "none" THEN {[x EXCEPT !.edit = "tracked"]}
                  ELSE {[x EXCEPT !.edit = "untracked"]}

\* setGroupLiveTarget()
SetGroupLiveTarget(x) ==
    [x EXCEPT !.target = TRUE, !.stopped = FALSE, !.ticking = TRUE, !.edit = "tracked"]

Becoming(r, X) == \E x \in X : run' = [run EXCEPT ![r] = x]

\* The ticker, every second.
Ticks(r) == /\ run[r].ticking /\ ~run[r].stopped
            /\ Becoming(r, PushDraft(run[r])) /\ UNCHANGED latest

\* INDICATOR_MAX_LIFETIME_MS pass.
Expires(r) == /\ run[r].ticking
              /\ Becoming(r, {Stop(run[r])}) /\ UNCHANGED latest

\* Telegram is done with an edit, which it may have refused.
EditLands(r) ==
    /\ run[r].edit # "none"
    /\ \E line \in {"thinking", run[r].line} :
        Becoming(r, {[run[r] EXCEPT !.edit = "none", !.line = line]})
    /\ UNCHANGED latest

----------------------------------------------------------------------------
(* handleAiChat()                                                          *)

\* A message for the AI arrives: the run before is retired, and replyText() asked.
Asked(r) ==
    /\ run[r].pc = "unasked"
    /\ latest' = r
    /\ run' = [s \in Runs |-> IF s = r THEN [run[s] EXCEPT !.pc = "opening"]
                              ELSE IF s = latest THEN Retire(run[s]) ELSE run[s]]

\* replyText() came through or did not.
Opened(r) ==
    /\ run[r].pc = "opening"
    /\ \E shown \in BOOLEAN :
        Becoming(r, {IF shown THEN [SetGroupLiveTarget(run[r]) EXCEPT !.pc = "thinking",
                                                                      !.line = "thinking"]
                     ELSE [run[r] EXCEPT !.pc = "thinking"]})
    /\ UNCHANGED latest

\* callMistral() asks for tools, those of one turn.
WantsTools(r) ==
    /\ run[r].pc = "thinking" /\ run[r].turn < MaxTurns
    /\ \E calls \in SUBSET Tools \ {{}} :
        Becoming(r, {[run[r] EXCEPT !.pc = "tools", !.turn = @ + 1, !.todo = calls]})
    /\ UNCHANGED latest

\* One call of the turn: executed unless it was before or there were too many.
UsesTool(r) ==
    /\ run[r].pc = "tools"
    /\ \E t \in run[r].todo :
        LET rest == [run[r] EXCEPT !.todo = @ \ {t}]
        IN  IF t \in rest.done \/ Cardinality(rest.done) >= MaxTools THEN Becoming(r, {rest})
            ELSE Becoming(r, PushDraft([rest EXCEPT !.pc = "tool", !.done = @ \cup {t}]))
    /\ UNCHANGED latest

\* executeAiTool() returned or threw.
UsedTool(r) ==
    /\ run[r].pc = "tool"
    /\ Becoming(r, PushDraft([run[r] EXCEPT !.pc = "tools"]))
    /\ UNCHANGED latest

TurnOver(r) ==
    /\ run[r].pc = "tools" /\ run[r].todo = {}
    /\ Becoming(r, PushDraft([run[r] EXCEPT !.pc = "thinking"]))
    /\ UNCHANGED latest

\* streamMistral() hands over a piece of the answer.
Streamed(r) ==
    /\ run[r].pc = "thinking" /\ run[r].turn < MaxTurns
    /\ Becoming(r, PushDraft(run[r])) /\ UNCHANGED latest

\* The answer, the text for too many turns, or that of an error, is handed to
\* finalize(), which waits for inFlightPush.
Finalizes(r) ==
    /\ run[r].pc = "thinking"
    /\ Becoming(r, {[run[r] EXCEPT !.pc = "finalizing", !.finalizing = TRUE]})
    /\ UNCHANGED latest

\* finally: the indicator stops and is forgotten.
Over(r, x) ==
    /\ run' = [run EXCEPT ![r] = [Stop(x) EXCEPT !.pc = "over"]]
    /\ latest' = IF latest = r THEN NoRun ELSE latest

\* A slip: finalize() does not wait.
SettlesAtOnce(r) ==
    /\ run[r].pc = "finalizing"
    /\ IF run[r].retired THEN Over(r, run[r])
       ELSE Becoming(r, {[Stop(run[r]) EXCEPT !.pc = "answering"]}) /\ UNCHANGED latest

\* finalize() once the push it waits for is over.
Settles(r) ==
    /\ run[r].pc = "finalizing" /\ run[r].edit # "tracked"
    /\ IF run[r].retired THEN Over(r, run[r])
       ELSE Becoming(r, {[Stop(run[r]) EXCEPT !.pc = "answering"]}) /\ UNCHANGED latest

\* The answer replaces the message.  When that fails it is sent beside it.
Answers(r) ==
    /\ run[r].pc = "answering"
    /\ \/ run[r].target /\ Over(r, [run[r] EXCEPT !.line = "answer"])
       \/ Over(r, run[r])

RunStep(r) ==
    \/ Opened(r) \/ WantsTools(r) \/ UsesTool(r) \/ UsedTool(r) \/ TurnOver(r)
    \/ Finalizes(r) \/ Settles(r) \/ Answers(r)

ChatNext == \E r \in Runs : Asked(r) \/ RunStep(r) \/ Streamed(r) \/ Ticks(r) \/ Expires(r) \/ EditLands(r)

ChatSpec == ChatInit /\ [][ChatNext]_chatVars

\* Calls of the model, of tools and of Telegram return, as fetch() does in the
\* end, and timers fire.
ChatFairness ==
    \A r \in Runs : WF_chatVars(RunStep(r)) /\ WF_chatVars(EditLands(r)) /\ WF_chatVars(Expires(r))

----------------------------------------------------------------------------

\* An answer in place is not overwritten by what was shown before it, unless
\* by an edit whose place in inFlightPush a push that was held back had taken.
AnswerStays ==
    [][\A r \in Runs : run[r].line = "answer" /\ run[r].edit # "untracked" => run'[r].line = "answer"]_chatVars

\* Every run comes to its end, and nothing of it goes on: no ticker that a late
\* reply started, no edit.
ChatQuiets ==
    \A r \in Runs : [](run[r].pc = "opening" => <>[](/\ run[r].pc = "over"
                                                     /\ ~run[r].ticking /\ run[r].edit = "none"))

=============================================================================
