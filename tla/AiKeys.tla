------------------------------- MODULE AiKeys -------------------------------
(***************************************************************************)
(* Calls of the model: callMistral() and streamMistral() of                *)
(* services/ai/mistralClient.ts over withRotatedKey() and the key pool of  *)
(* services/ai/aiKeyManager.ts.  Calls run side by side and share the      *)
(* cooldowns of the keys.                                                  *)
(*                                                                         *)
(* Which of the healthy keys is taken is left open: the code prefers the   *)
(* one that served least in the last minute.                               *)
(***************************************************************************)
EXTENDS Naturals

CONSTANTS
    Calls, Streams,   \* all calls, and those of streamMistral()
    Keys,             \* the configured keys
    MaxAttempts,      \* of withRotatedKey(): max(keys, 4)
    MaxRetries,       \* of callMistral()
    Brief,            \* the longest cooldown but that of a refused key
    Hour,             \* the cooldown of a key that was refused
    MaxClock          \* bound: how far the clock goes

ASSUME KeysAssumption ==
    /\ Streams \subseteq Calls /\ Keys # {}
    /\ {MaxAttempts, MaxRetries, Brief, Hour, MaxClock} \subseteq Nat
    /\ MaxAttempts > 0

VARIABLES
    clock,     \* Date.now()
    until,     \* per key: disabledUntil
    call,      \* per call: where it is, on which attempt with which key
    \* what the code does not record
    refused,   \* per key: when the hour of its last 401 or 403 ends
    cut        \* keys whose cooldown another call's report has shortened since

keyVars == <<clock, until, call, refused, cut>>

NoKey == "none"

KeysInit ==
    /\ clock = 0
    /\ until = [k \in Keys |-> 0] /\ refused = [k \in Keys |-> 0]
    /\ call = [c \in Calls |-> [pc |-> "idle", round |-> 0, attempt |-> 0, key |-> NoKey]]
    /\ cut = {}

\* What an attempt may come to.  A 400 and the timeout's reason are in none of
\* the sets: the status of a rejected key rotates, that of a busy model (429, 5xx,
\* AbortError) is worth another round as well.
Rotating == {"refused", "busy", "reset"}
Retryable == {"busy"}

\* selectKey(), and where its caller goes on: it waits a moment for a key that is cooling.
Selected(x, off) ==
    LET healthy == {k \in Keys : off[k] <= clock}
        earliest == {k \in Keys : \A o \in Keys : off[k] <= off[o]}
    IN  IF healthy # {} THEN {[x EXCEPT !.pc = "asking", !.key = k] : k \in healthy}
        ELSE {[x EXCEPT !.pc = "waiting", !.key = k] : k \in earliest}

FirstOf(x, round) == [x EXCEPT !.round = round, !.attempt = 1]
Turns(c, X) == \E x \in X : call' = [call EXCEPT ![c] = x]

\* callMistral() or streamMistral() is called.
Call(c) ==
    /\ call[c].pc = "idle"
    /\ Turns(c, Selected(FirstOf(call[c], 0), until))
    /\ UNCHANGED <<clock, until, refused, cut>>

\* The moment is over, at most 2.5 s: the key is asked though it may be cooling yet.
Waited(c) ==
    /\ call[c].pc = "waiting"
    /\ Turns(c, {[call[c] EXCEPT !.pc = "asking"]})
    /\ UNCHANGED <<clock, until, refused, cut>>

Succeeds(c) ==
    /\ call[c].pc = "asking"
    /\ Turns(c, {[call[c] EXCEPT !.pc = "done", !.key = NoKey]})
    /\ UNCHANGED <<clock, until, refused, cut>>

\* Any other failure, for which no key is blamed.  The timer of callMistral() was
\* cleared when its first attempt ended, so that it stops no later one.
TimesOut(c) ==
    /\ call[c].pc = "asking" /\ call[c].attempt = 1 /\ c \notin Streams
    /\ Turns(c, {[call[c] EXCEPT !.pc = "failed", !.key = NoKey]})
    /\ UNCHANGED <<clock, until, refused, cut>>

Rejected(c) ==
    /\ call[c].pc = "asking"
    /\ Turns(c, {[call[c] EXCEPT !.pc = "failed", !.key = NoKey]})
    /\ UNCHANGED <<clock, until, refused, cut>>

\* A slip: the header is looked at before the status.
CooldownsByHeader(outcome) == IF outcome = "refused" THEN 1..Brief \cup {Hour} ELSE 1..Brief

\* reportError(): an hour, or what Retry-After or the status says.
Cooldowns(outcome) == IF outcome = "refused" THEN {Hour} ELSE 1..Brief

\* A slip: the attempts of a round are not counted.
TriedForever(c, outcome, off) ==
    IF call[c].attempt <= MaxAttempts THEN Selected(call[c], off)
    ELSE {[call[c] EXCEPT !.pc = "failed", !.key = NoKey]}

\* What follows a failure: the next attempt, another round, or the error.
Tried(c, outcome, off) ==
    IF call[c].attempt < MaxAttempts THEN Selected([call[c] EXCEPT !.attempt = @ + 1], off)
    ELSE IF outcome \in Retryable /\ call[c].round < MaxRetries /\ c \notin Streams
    THEN {[call[c] EXCEPT !.pc = "backoff", !.key = NoKey]}
    ELSE {[call[c] EXCEPT !.pc = "failed", !.key = NoKey]}

FailsOver(c) ==
    /\ call[c].pc = "asking"
    /\ \E outcome \in Rotating : \E cooldown \in Cooldowns(outcome) :
        LET k == call[c].key
            off == [until EXCEPT ![k] = clock + cooldown]
        IN  /\ until' = off
            /\ Turns(c, Tried(c, outcome, off))
            /\ refused' = IF outcome = "refused" THEN [refused EXCEPT ![k] = clock + Hour] ELSE refused
            /\ cut' = IF outcome = "refused" THEN cut \ {k}
                      ELSE IF refused[k] > off[k] THEN cut \cup {k} ELSE cut
    /\ UNCHANGED clock

\* The pause between two rounds of callMistral() is over.
BacksOff(c) ==
    /\ call[c].pc = "backoff"
    /\ Turns(c, Selected(FirstOf(call[c], call[c].round + 1), until))
    /\ UNCHANGED <<clock, until, refused, cut>>

TimePasses ==
    /\ clock < MaxClock /\ clock' = clock + 1
    /\ UNCHANGED <<until, call, refused, cut>>

CallStep(c) == Waited(c) \/ Succeeds(c) \/ Rejected(c) \/ TimesOut(c) \/ FailsOver(c) \/ BacksOff(c)

KeysNext == TimePasses \/ \E c \in Calls : Call(c) \/ CallStep(c)

KeysSpec == KeysInit /\ [][KeysNext]_keyVars

\* Timers fire, and fetch() returns or throws in the end.
KeysFairness == \A c \in Calls : WF_keyVars(CallStep(c))

----------------------------------------------------------------------------

\* A call turns to a key at once, not after waiting for it.
TurnsTo(c, k) == /\ call'[c] # call[c] /\ call[c].pc # "waiting"
                 /\ call'[c].pc = "asking" /\ call'[c].key = k

\* "Invalid or revoked key: disable for 1 hour": a key that was refused is not taken
\* again within the hour, but by a call that finds every key cooling and waits,
\* unless the failure of a call that overlapped has set it a shorter time.
RevokedRests ==
    [][\A c \in Calls : \A k \in Keys :
        TurnsTo(c, k) => refused'[k] <= clock \/ k \in cut']_keyVars

\* Every call comes to an answer or an error, whatever the keys come to.
CallsEnd == \A c \in Calls : [](call[c].pc # "idle" => <>(call[c].pc \in {"done", "failed"}))

=============================================================================
