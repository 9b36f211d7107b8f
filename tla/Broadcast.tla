------------------------------ MODULE Broadcast -----------------------------
(***************************************************************************)
(* /broadcast and its Stop button: the handler of                          *)
(* commands/dev/broadcast.ts and services/broadcast.ts.  A post is sent to *)
(* every chat the bot knows, one after the other; `active` names the       *)
(* broadcast that runs, so that there is one and it can be stopped.        *)
(***************************************************************************)
EXTENDS Naturals, FiniteSets

CONSTANTS
    Commands,   \* /broadcast, as often as it is given
    Targets,    \* chats and users, collectTargets()
    Groups      \* those whose permissions are asked for first

NoBroadcast == "none"

ASSUME BroadcastAssumption == Groups \subseteq Targets /\ IsFiniteSet(Targets) /\ NoBroadcast \notin Commands

VARIABLES
    active,     \* the module variable: a broadcast, or NoBroadcast
    cast,       \* per command: where it is, and its BroadcastState
    overlapped  \* not in the code: two were being prepared at a time

castVars == <<active, cast, overlapped>>

CastInit ==
    /\ active = NoBroadcast
    /\ cast = [b \in Commands |->
                [pc |-> "unasked", todo |-> {}, trim |-> FALSE, aborted |-> FALSE,
                 sent |-> 0, trimmed |-> 0, failed |-> 0, skipped |-> 0]]
    /\ overlapped = FALSE

CastIs(b, x) == cast' = [cast EXCEPT ![b] = x]
CastAt(b, pc) == CastIs(b, [cast[b] EXCEPT !.pc = pc])

\* The handler asks activeBroadcast() and answers that it is collecting.
Commanded(b) ==
    /\ cast[b].pc = "unasked"
    /\ CastAt(b, IF active = NoBroadcast THEN "answering" ELSE "refused")
    /\ UNCHANGED <<active, overlapped>>

\* A slip: the handler's look is thought to be enough.
StartsUnasked(b) ==
    /\ cast[b].pc = "answering"
    /\ CastAt(b, "collecting")
    /\ overlapped' = (overlapped \/ \E o \in Commands : cast[o].pc = "collecting")
    /\ UNCHANGED active

\* The answer is sent; startBroadcast() looks once more, and collects.
Starts(b) ==
    /\ cast[b].pc = "answering"
    /\ CastAt(b, IF active = NoBroadcast THEN "collecting" ELSE "refused")
    /\ overlapped' = (overlapped \/ \E o \in Commands : cast[o].pc = "collecting")
    /\ UNCHANGED active

\* The targets are there, and the broadcast is the active one.  Or reading them failed.
Collects(b) ==
    /\ cast[b].pc = "collecting"
    /\ \/ CastIs(b, [cast[b] EXCEPT !.pc = "between", !.todo = Targets]) /\ active' = b
       \/ CastAt(b, "refused") /\ UNCHANGED active
    /\ UNCHANGED overlapped

\* The head of the loop takes the next target; a group is looked up by verdictFor().
Takes(b) ==
    /\ cast[b].pc = "between" /\ ~cast[b].aborted
    /\ \E t \in cast[b].todo :
        CastIs(b, [cast[b] EXCEPT !.todo = @ \ {t}, !.trim = FALSE,
                                   !.pc = IF t \in Groups THEN "judging" ELSE "delivering"])
    /\ UNCHANGED <<active, overlapped>>

Skips(b) == CastIs(b, [cast[b] EXCEPT !.pc = "between", !.skipped = @ + 1])
Fails(b) == CastIs(b, [cast[b] EXCEPT !.pc = "between", !.failed = @ + 1])
Sends(b) == CastIs(b, [cast[b] EXCEPT !.pc = "between", !.sent = @ + 1])
SendsText(b) == CastIs(b, [cast[b] EXCEPT !.pc = "between", !.sent = @ + 1, !.trimmed = @ + 1])

Judges(b) ==
    /\ cast[b].pc = "judging"
    /\ \/ Skips(b)
       \/ \E trim \in BOOLEAN : CastIs(b, [cast[b] EXCEPT !.pc = "delivering", !.trim = trim])
    /\ UNCHANGED <<active, overlapped>>

\* deliver(): the post, or its text alone where the post may not be sent.
Delivers(b) == SendsText(b) \/ Fails(b) \/ (~cast[b].trim /\ Sends(b))

\* What comes of a target: an outcome, a short flood wait, or another error.
Tries(b) ==
    /\ cast[b].pc = "delivering"
    /\ Delivers(b) \/ (~cast[b].trim /\ (Skips(b) \/ CastAt(b, "waiting")))
    /\ UNCHANGED <<active, overlapped>>

\* finally: whatever is active is not any more.
Finishes(b) == CastAt(b, "over") /\ active' = NoBroadcast

\* A slip: the Stop button is not looked at after the wait.
FloodOverBlind(b) ==
    /\ cast[b].pc = "waiting"
    /\ CastAt(b, "retrying") /\ UNCHANGED active
    /\ UNCHANGED overlapped

\* The wait is over; a target given up for the Stop button is not counted.
FloodOver(b) ==
    /\ cast[b].pc = "waiting"
    /\ IF cast[b].aborted THEN Finishes(b) ELSE CastAt(b, "retrying") /\ UNCHANGED active
    /\ UNCHANGED overlapped

\* A slip: a second failure goes by uncounted.
RetriesOnce(b) ==
    /\ cast[b].pc = "retrying"
    /\ SendsText(b) \/ Sends(b) \/ CastAt(b, "between")
    /\ UNCHANGED <<active, overlapped>>

\* Once more, and any error is a failure.
Retries(b) ==
    /\ cast[b].pc = "retrying"
    /\ Delivers(b)
    /\ UNCHANGED <<active, overlapped>>

LoopEnds(b) ==
    /\ cast[b].pc = "between" /\ (cast[b].aborted \/ cast[b].todo = {})
    /\ Finishes(b)
    /\ UNCHANGED overlapped

\* bc:abort
Abort ==
    /\ active # NoBroadcast
    /\ CastIs(active, [cast[active] EXCEPT !.aborted = TRUE])
    /\ UNCHANGED <<active, overlapped>>

CastStep(b) ==
    \/ Starts(b) \/ Collects(b) \/ Takes(b) \/ Judges(b) \/ Tries(b)
    \/ FloodOver(b) \/ Retries(b) \/ LoopEnds(b)

CastNext == Abort \/ \E b \in Commands : Commanded(b) \/ CastStep(b)

CastSpec == CastInit /\ [][CastNext]_castVars

----------------------------------------------------------------------------

InHand(b) == cast[b].pc \in {"judging", "delivering", "waiting", "retrying"}
Running(b) == cast[b].pc = "between" \/ InHand(b)
Counted(b) == cast[b].sent + cast[b].failed + cast[b].skipped

\* Every target is counted once, as sent, failed or skipped, through flood waits
\* and second tries; only a Stop in the middle of a flood wait leaves one out.
Accounted ==
    \A b \in Commands :
        /\ Running(b) => Counted(b) + Cardinality(cast[b].todo) + (IF InHand(b) THEN 1 ELSE 0)
                            = Cardinality(Targets)
        /\ cast[b].pc = "over" /\ ~cast[b].aborted => Counted(b) = Cardinality(Targets)
        /\ cast[b].trimmed <= cast[b].sent

\* The broadcast that runs is the one the Stop button reaches and the next
\* command meets, unless two of them were being prepared at the same time.
ActiveIsRunning ==
    ~overlapped => \A b \in Commands : Running(b) <=> active = b

\* Once stopped, a broadcast goes on with the target in hand at most, and not
\* even with that one when it waits out a flood limit.
StopHolds ==
    [][\A b \in Commands :
        cast[b].aborted /\ (~InHand(b) \/ cast[b].pc = "waiting")
            => cast'[b] \in {cast[b], [cast[b] EXCEPT !.pc = "over"]}]_castVars

=============================================================================
