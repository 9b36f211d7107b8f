---------------------------- MODULE TransferGate ----------------------------
(***************************************************************************)
(* services/media/mtprotoGate.ts: the gate every MTProto file transfer     *)
(* goes through, runMtprotoTransfer(fn).  A member of Transfers is one     *)
(* call site that may call it again and again.  JavaScript runs to         *)
(* completion, so acquire() and release() are one step each; between them  *)
(* the transfer is in fn(), for as long as Telegram takes.                 *)
(***************************************************************************)
EXTENDS Naturals, Sequences, FiniteSets

CONSTANTS Transfers,      \* callers of runMtprotoTransfer
          MaxConcurrent   \* MAX_CONCURRENT

ASSUME GateAssumption ==
    /\ IsFiniteSet(Transfers)
    /\ MaxConcurrent \in Nat \ {0}

VARIABLES active,   \* how many transfers hold a slot, as the code counts them
          queue,    \* callers parked in acquire(), oldest first
          phase     \* where each caller is

vars == <<active, queue, phase>>

Init ==
    /\ active = 0
    /\ queue = <<>>
    /\ phase = [t \in Transfers |-> "out"]

-----------------------------------------------------------------------------
(* Slips the properties below are there to notice.  No behaviour of the    *)
(* gate takes these steps; each stands in for one of its steps.            *)
EnterWithOneTooMany(t) ==        \* active <= MAX_CONCURRENT
    /\ phase[t] = "out"
    /\ active <= MaxConcurrent
    /\ active' = active + 1
    /\ phase' = [phase EXCEPT ![t] = "transferring"]
    /\ UNCHANGED queue

ReleaseWakingNobody(t) ==        \* the queue forgotten
    /\ phase[t] = "transferring"
    /\ active' = active - 1
    /\ phase' = [phase EXCEPT ![t] = "out"]
    /\ UNCHANGED queue

ReleaseWakingNewest(t) ==        \* queue.pop() for queue.shift()
    LET newest == queue[Len(queue)] IN
    /\ phase[t] = "transferring"
    /\ active' = IF queue = <<>> THEN active - 1 ELSE active
    /\ queue' = IF queue = <<>> THEN queue ELSE SubSeq(queue, 1, Len(queue) - 1)
    /\ phase' = [u \in Transfers |->
                    IF u = t THEN "out"
                    ELSE IF queue # <<>> /\ u = newest THEN "transferring" ELSE phase[u]]

-----------------------------------------------------------------------------
(* acquire() with a slot free: taken on the spot.                          *)
Enter(t) ==
    /\ phase[t] = "out"
    /\ active < MaxConcurrent
    /\ active' = active + 1
    /\ phase' = [phase EXCEPT ![t] = "transferring"]
    /\ UNCHANGED queue

(* acquire() with every slot taken: the caller's wake-up joins the queue.  *)
Park(t) ==
    /\ phase[t] = "out"
    /\ active >= MaxConcurrent
    /\ queue' = Append(queue, t)
    /\ phase' = [phase EXCEPT ![t] = "parked"]
    /\ UNCHANGED active

(* fn() settled, well or badly: the finally block calls release(), which   *)
(* wakes the oldest parked caller, and that wake-up counts itself in.      *)
Release(t) ==
    /\ phase[t] = "transferring"
    /\ \/ /\ queue = <<>>
          /\ active' = active - 1
          /\ phase' = [phase EXCEPT ![t] = "out"]
          /\ UNCHANGED queue
       \/ /\ queue # <<>>
          /\ active' = (active - 1) + 1
          /\ queue' = Tail(queue)
          /\ phase' = [phase EXCEPT ![t] = "out", ![Head(queue)] = "transferring"]

Next == \E t \in Transfers : Enter(t) \/ Park(t) \/ Release(t)

(* Every transfer settles: mtcute resolves or rejects a file transfer.     *)
(* Nothing is assumed of the callers.                                      *)
Spec ==
    /\ Init /\ [][Next]_vars
    /\ \A t \in Transfers : WF_vars(Release(t))

-----------------------------------------------------------------------------
Transferring == {t \in Transfers : phase[t] = "transferring"}

(* The type of the gate's state.                                           *)
TypeOK ==
    /\ active \in Nat
    /\ queue \in Seq(Transfers)
    /\ phase \in [Transfers -> {"out", "parked", "transferring"}]

(* The counter is the number of transfers in flight, and never exceeds the *)
(* limit that keeps the bot under Telegram's flood limit.                  *)
CountsTransfers ==
    /\ active = Cardinality(Transferring)
    /\ active <= MaxConcurrent

(* The queue holds each parked caller once and nobody else: a caller woken *)
(* twice would run uncounted, one dropped would wait for ever.             *)
QueueIsParked ==
    /\ \A i \in 1..Len(queue) : phase[queue[i]] = "parked"
    /\ \A i, j \in 1..Len(queue) : queue[i] = queue[j] => i = j
    /\ \A t \in Transfers : phase[t] = "parked" => \E i \in 1..Len(queue) : queue[i] = t

(* No lost wake-up: nobody waits while a slot is free.                     *)
NoIdleSlot == queue # <<>> => active = MaxConcurrent

(* Nobody overtakes: a transfer that starts was at the head of the queue,  *)
(* or the queue was empty when it asked.                                   *)
StartsInOrder ==
    [][\A t \in Transfers :
          (phase[t] # "transferring" /\ phase'[t] = "transferring")
            => queue = <<>> \/ t = Head(queue)]_vars

(* A parked transfer is let in, however many others keep coming.           *)
ParkedGetsIn ==
    \A t \in Transfers : phase[t] = "parked" ~> phase[t] = "transferring"

(* The gate is a pool of MaxConcurrent permits.                            *)
Pool == INSTANCE PermitPool WITH
            Clients <- Transfers, Permits <- MaxConcurrent, holders <- Transferring

ImplementsPermitPool == Pool!Spec
=============================================================================
