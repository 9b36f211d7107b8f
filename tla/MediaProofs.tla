---------------------------- MODULE MediaProofs ----------------------------
(***************************************************************************)
(* What TransferGate promises for every set of callers and every limit, and *)
(* MediaFiles for any number of fetches, attempts and slots.               *)
(***************************************************************************)
EXTENDS TransferGate, MediaFiles, FiniteSetTheorems, TLAPS

(***************************************************************************)
(* The gate.  GateInv is inductive: the count needs the queue to name each *)
(* parked caller once (or a wake-up would count somebody already counted), *)
(* and the limit needs nobody to be parked while a slot is free.           *)
(***************************************************************************)

GateInv == TypeOK /\ CountsTransfers /\ QueueIsParked /\ NoIdleSlot

(* The set of transfers in flight is finite: there are finitely many.      *)
LEMMA TransferringFinite == IsFiniteSet(Transferring)
  BY GateAssumption, FS_Subset DEF Transferring

(* The head of a queue of callers is one of them, and its tail holds the   *)
(* callers behind it.                                                      *)
LEMMA QueueHead ==
    ASSUME TypeOK, queue # <<>>
    PROVE  /\ Len(queue) \in Nat \ {0}
           /\ Head(queue) \in Transfers /\ Head(queue) = queue[1]
           /\ Tail(queue) \in Seq(Transfers) /\ Len(Tail(queue)) = Len(queue) - 1
           /\ \A i \in 1..Len(Tail(queue)) : Tail(queue)[i] = queue[i + 1]
  BY DEF TypeOK

(* Nobody transfers, waits or is counted at the start.                     *)
LEMMA GateInit == Init => GateInv
<1> SUFFICES ASSUME Init PROVE GateInv
  OBVIOUS
<1>1. Transferring = {}
  BY DEF Init, Transferring
<1>2. Cardinality(Transferring) = 0
  BY <1>1, FS_EmptySet
<1> QED
  BY <1>2, GateAssumption
     DEF Init, GateInv, TypeOK, CountsTransfers, QueueIsParked, NoIdleSlot

(* Taking a free slot keeps the invariant.                                 *)
LEMMA GateEnter ==
    ASSUME GateInv, NEW t \in Transfers, Enter(t) PROVE GateInv'
<1> USE DEF GateInv
<1>1. TypeOK'
  BY DEF TypeOK, Enter
<1>2. Transferring' = Transferring \union {t} /\ t \notin Transferring
  BY DEF Transferring, Enter, TypeOK
<1>3. Cardinality(Transferring') = Cardinality(Transferring) + 1
  BY <1>2, TransferringFinite, FS_AddElement
<1>4. CountsTransfers'
  BY <1>3, GateAssumption DEF CountsTransfers, Enter, TypeOK
<1>5. QueueIsParked'
  BY DEF QueueIsParked, Enter, TypeOK
<1>6. NoIdleSlot'
  BY GateAssumption DEF NoIdleSlot, Enter, TypeOK
<1> QED
  BY <1>1, <1>4, <1>5, <1>6

(* Joining the queue keeps the invariant.                                  *)
LEMMA GatePark ==
    ASSUME GateInv, NEW t \in Transfers, Park(t) PROVE GateInv'
<1> USE DEF GateInv
<1>1. TypeOK'
  BY DEF TypeOK, Park
<1>2. Transferring' = Transferring
  BY DEF Transferring, Park, TypeOK
<1>3. CountsTransfers'
  BY <1>2 DEF CountsTransfers, Park
<1>4. QueueIsParked'
  <2>1. /\ Len(queue') = Len(queue) + 1 /\ Len(queue) \in Nat
        /\ \A i \in 1..Len(queue) : queue'[i] = queue[i]
        /\ queue'[Len(queue) + 1] = t
    BY DEF Park, TypeOK
  <2>2. \A i \in 1..Len(queue) : queue[i] # t
    BY DEF QueueIsParked, Park
  <2>3. \A i \in 1..Len(queue') : phase'[queue'[i]] = "parked"
    BY <2>1 DEF QueueIsParked, Park, TypeOK
  <2>4. \A i, j \in 1..Len(queue') : queue'[i] = queue'[j] => i = j
    BY <2>1, <2>2 DEF QueueIsParked
  <2>5. \A u \in Transfers : phase'[u] = "parked" => \E i \in 1..Len(queue') : queue'[i] = u
    BY <2>1 DEF QueueIsParked, Park, TypeOK
  <2> QED
    BY <2>3, <2>4, <2>5 DEF QueueIsParked
<1>5. NoIdleSlot'
  BY GateAssumption DEF NoIdleSlot, CountsTransfers, Park, TypeOK
<1> QED
  BY <1>1, <1>3, <1>4, <1>5

(* Giving a slot back, or straight to the oldest caller parked, keeps the  *)
(* invariant.                                                              *)
LEMMA GateRelease ==
    ASSUME GateInv, NEW t \in Transfers, Release(t) PROVE GateInv'
<1> USE DEF GateInv
<1>1. t \in Transferring /\ Cardinality(Transferring \ {t}) = active - 1
  <2>1. t \in Transferring
    BY DEF Transferring, Release
  <2> QED
    BY <2>1, TransferringFinite, FS_RemoveElement DEF CountsTransfers
<1>2. active # 0
  BY <1>1, TransferringFinite, FS_EmptySet DEF CountsTransfers, TypeOK
<1>3. CASE queue = <<>>
  <2>1. TypeOK'
    BY <1>2, <1>3 DEF TypeOK, Release
  <2>2. Transferring' = Transferring \ {t}
    BY <1>3 DEF Transferring, Release, TypeOK
  <2>3. CountsTransfers'
    BY <1>1, <1>3, <2>2, GateAssumption DEF CountsTransfers, Release, TypeOK
  <2>4. QueueIsParked' /\ NoIdleSlot'
    BY <1>3 DEF QueueIsParked, NoIdleSlot, Release, TypeOK
  <2> QED
    BY <2>1, <2>3, <2>4
<1>4. CASE queue # <<>>
  <2> DEFINE h == Head(queue)
  <2>1. /\ h \in Transfers /\ h = queue[1] /\ phase[h] = "parked" /\ h # t
        /\ Len(queue) \in Nat \ {0}
        /\ queue' = Tail(queue) /\ Len(queue') = Len(queue) - 1
        /\ \A i \in 1..Len(queue') : queue'[i] = queue[i + 1]
    <3>1. /\ h \in Transfers /\ h = queue[1] /\ Len(queue) \in Nat \ {0}
          /\ Len(Tail(queue)) = Len(queue) - 1
          /\ \A i \in 1..Len(Tail(queue)) : Tail(queue)[i] = queue[i + 1]
      BY <1>4, QueueHead
    <3>2. phase[h] = "parked"
      BY <3>1 DEF QueueIsParked
    <3>3. queue' = Tail(queue) /\ phase[t] = "transferring"
      BY <1>4 DEF Release
    <3> HIDE DEF h
    <3> QED
      BY <3>1, <3>2, <3>3
  <2>2. /\ active' = active
        /\ phase' = [phase EXCEPT ![t] = "out", ![h] = "transferring"]
    BY <1>4 DEF Release, TypeOK
  <2>3. TypeOK'
    BY <1>4, <2>1, <2>2, QueueHead DEF TypeOK
  <2>4. Transferring' = (Transferring \ {t}) \union {h} /\ h \notin Transferring \ {t}
    BY <2>1, <2>2 DEF Transferring, TypeOK
  <2>5. Cardinality(Transferring') = Cardinality(Transferring \ {t}) + 1
    <3>1. IsFiniteSet(Transferring \ {t})
      BY TransferringFinite, FS_RemoveElement
    <3> QED
      BY <2>4, <3>1, FS_AddElement
  <2>6. CountsTransfers'
    BY <1>1, <2>2, <2>5 DEF CountsTransfers, TypeOK
  <2>7. QueueIsParked'
    <3>1. \A i \in 1..Len(queue') : queue'[i] # h /\ queue'[i] # t
      <4> TAKE i \in 1..Len(queue')
      <4>1. i + 1 \in 1..Len(queue) /\ 1 \in 1..Len(queue) /\ i + 1 # 1
        BY <2>1
      <4>2. queue'[i] = queue[i + 1] /\ phase[queue[i + 1]] = "parked"
        BY <2>1, <4>1 DEF QueueIsParked
      <4>3. queue[i + 1] # queue[1]
        BY <4>1 DEF QueueIsParked
      <4>4. phase[t] = "transferring"
        BY DEF Release
      <4> HIDE DEF h
      <4> QED
        BY <2>1, <4>2, <4>3, <4>4
    <3>2. \A i \in 1..Len(queue') : phase'[queue'[i]] = "parked"
      BY <2>1, <2>2, <3>1 DEF QueueIsParked, TypeOK
    <3>3. \A i, j \in 1..Len(queue') : queue'[i] = queue'[j] => i = j
      BY <2>1 DEF QueueIsParked
    <3>4. ASSUME NEW u \in Transfers, phase'[u] = "parked"
          PROVE  \E i \in 1..Len(queue') : queue'[i] = u
      <4>1. phase[u] = "parked" /\ u # h
        BY <2>1, <2>2, <3>4 DEF TypeOK
      <4>2. PICK i \in 1..Len(queue) : queue[i] = u
        BY <4>1 DEF QueueIsParked
      <4>3. i # 1 /\ i - 1 \in 1..Len(queue')
        BY <2>1, <4>1, <4>2
      <4>4. queue'[i - 1] = queue[(i - 1) + 1] /\ (i - 1) + 1 = i
        BY <2>1, <4>3
      <4> QED
        BY <4>2, <4>3, <4>4
    <3> QED
      BY <3>2, <3>3, <3>4 DEF QueueIsParked
  <2>8. NoIdleSlot'
    BY <1>4, <2>2 DEF NoIdleSlot
  <2> QED
    BY <2>3, <2>6, <2>7, <2>8
<1> QED
  BY <1>3, <1>4

(* GateInv is inductive.                                                   *)
LEMMA GateStep == GateInv /\ [Next]_vars => GateInv'
<1> SUFFICES ASSUME GateInv, [Next]_vars PROVE GateInv'
  OBVIOUS
<1>1. ASSUME NEW t \in Transfers, Enter(t) \/ Park(t) \/ Release(t) PROVE GateInv'
  BY <1>1, GateEnter, GatePark, GateRelease
<1>2. CASE UNCHANGED vars
  BY <1>2 DEF GateInv, TypeOK, CountsTransfers, QueueIsParked, NoIdleSlot, Transferring, vars
<1> QED
  BY <1>1, <1>2 DEF Next

(* The gate never lets more than MAX_CONCURRENT transfers run at once, and *)
(* counts exactly those that run.                                          *)
THEOREM GateCounts == Spec => []CountsTransfers
<1>1. GateInv => CountsTransfers
  BY DEF GateInv
<1> QED
  BY <1>1, GateInit, GateStep, PTL DEF Spec

(* Each caller that waits is in the queue, once, and nobody else is.       *)
THEOREM GateQueue == Spec => []QueueIsParked
<1>1. GateInv => QueueIsParked
  BY DEF GateInv
<1> QED
  BY <1>1, GateInit, GateStep, PTL DEF Spec

(* No caller waits while a slot is free.                                   *)
THEOREM GateNoIdleSlot == Spec => []NoIdleSlot
<1>1. GateInv => NoIdleSlot
  BY DEF GateInv
<1> QED
  BY <1>1, GateInit, GateStep, PTL DEF Spec

(* The gate's state keeps its type.                                        *)
THEOREM GateTypeOK == Spec => []TypeOK
<1>1. GateInv => TypeOK
  BY DEF GateInv
<1> QED
  BY <1>1, GateInit, GateStep, PTL DEF Spec

(* The pool counts as the gate does.                                       *)
LEMMA SameCount == \A S : Pool!Cardinality(S) = Cardinality(S)
  BY DEF Cardinality, Pool!Cardinality

(* Every step of the gate is a step of the pool of permits, or none: with  *)
(* its counter and its queue hidden, the gate takes, gives back and hands  *)
(* over, and never beyond the limit.                                       *)
THEOREM GateIsPool == Spec => ImplementsPermitPool
<1>1. Init => Pool!Init
  BY DEF Init, Pool!Init, Transferring
<1>2. GateInv /\ [Next]_vars => [Pool!Next]_Transferring
  <2> SUFFICES ASSUME GateInv, [Next]_vars PROVE [Pool!Next]_Transferring
    OBVIOUS
  <2> USE DEF GateInv
  <2>1. ASSUME NEW t \in Transfers, Enter(t) PROVE Pool!Take(t)
    <3>1. Transferring' = Transferring \union {t} /\ t \notin Transferring
      BY <2>1 DEF Transferring, Enter, TypeOK
    <3> QED
      BY <2>1, <3>1, SameCount DEF Pool!Take, CountsTransfers, Enter
  <2>2. ASSUME NEW t \in Transfers, Park(t) PROVE UNCHANGED Transferring
    BY <2>2 DEF Transferring, Park, TypeOK
  <2>3. ASSUME NEW t \in Transfers, Release(t), queue = <<>> PROVE Pool!GiveBack(t)
    BY <2>3 DEF Pool!GiveBack, Transferring, Release, TypeOK
  <2>4. ASSUME NEW t \in Transfers, Release(t), queue # <<>>
        PROVE  \E h \in Transfers : Pool!HandOver(t, h)
    <3>1. Head(queue) \in Transfers /\ phase[Head(queue)] = "parked"
      <4>1. /\ Head(queue) \in Transfers /\ Head(queue) = queue[1]
            /\ Len(queue) \in Nat \ {0}
        BY <2>4, QueueHead
      <4> QED
        BY <4>1 DEF QueueIsParked
    <3>2. Pool!HandOver(t, Head(queue))
      BY <2>4, <3>1 DEF Pool!HandOver, Transferring, Release, TypeOK
    <3> QED
      BY <3>1, <3>2
  <2>5. CASE UNCHANGED vars
    BY <2>5 DEF vars, Transferring
  <2> QED
    BY <2>1, <2>2, <2>3, <2>4, <2>5 DEF Next, Pool!Next
<1> QED
  BY <1>1, <1>2, GateInit, GateStep, PTL DEF Spec, ImplementsPermitPool, Pool!Spec

(* Nobody overtakes: a transfer starts from the head of the queue, or into *)
(* an empty one.                                                           *)
THEOREM GateStartsInOrder == Spec => StartsInOrder
<1> DEFINE InOrder == \A t \in Transfers :
              (phase[t] # "transferring" /\ phase'[t] = "transferring")
                => queue = <<>> \/ t = Head(queue)
<1>1. GateInv /\ [Next]_vars => [InOrder]_vars
  <2> SUFFICES ASSUME GateInv, [Next]_vars, NEW t \in Transfers,
                      phase[t] # "transferring", phase'[t] = "transferring"
               PROVE  queue = <<>> \/ t = Head(queue)
    BY DEF InOrder
  <2> USE DEF GateInv, TypeOK
  <2>1. ASSUME NEW u \in Transfers, Enter(u) PROVE queue = <<>>
    BY <2>1, GateAssumption DEF Enter, NoIdleSlot
  <2>2. ASSUME NEW u \in Transfers, Park(u) PROVE FALSE
    BY <2>2 DEF Park
  <2>3. ASSUME NEW u \in Transfers, Release(u) PROVE queue = <<>> \/ t = Head(queue)
    BY <2>3 DEF Release
  <2>4. CASE UNCHANGED vars
    BY <2>4 DEF vars
  <2> QED
    BY <2>1, <2>2, <2>3, <2>4 DEF Next
<1> QED
  BY <1>1, GateInit, GateStep, PTL DEF Spec, StartsInOrder

----------------------------------------------------------------------------
(***************************************************************************)
(* The files: they have owners, and no attempt runs for a canceled one.    *)
(***************************************************************************)

\* An attempt is under way, or the next one is waited for.
Busy == {"copying", "starting", "running", "disposing", "sweeping", "pausing"}

\* There is a directory while the process may write to it, and until it is removed.
HasDir(job) == job.pc \in {"running", "disposing"} \/ (job.pc = "sweeping" /\ job.end = "ok")

\* A job cleans up its jar, and runs for nobody who canceled.
Clean(j, job) ==
    /\ job.jar => job.pc \in {"starting", "running", "disposing", "sweeping"}
    /\ j[1] \in aborted => job.pc # "running"
    /\ job.pc = "disposing" => j = Sound(j[1]) /\ job.end # "ok"
    /\ job.pc = "pausing" => job.tries < Attempts

\* When there is a file of a fetch, and what becomes of one that nobody owns.
FileOK(f) ==
    /\ stage[f] = "downloading" <=> ytdlp[Sound(f)].pc \in Busy
    /\ f \in onDisk => stage[f] \in {"loading", "downloading", "got"}
    /\ stage[f] = "downloading" => (f \in onDisk <=> HasDir(ytdlp[Sound(f)]))
    /\ stage[f] = "loading" \/ (stage[f] = "got" /\ own[f] # "over") => f \in onDisk
    /\ own[f] \in {"room", "disposing"} => stage[f] = "got"
    /\ own[f] = "over" /\ f \notin lost => Doomed(f) \/ (stage[f] = "got" /\ f \notin onDisk)

FilesInv ==
    /\ MediaTypeOK
    /\ \A j \in Jobs : Clean(j, ytdlp[j])
    /\ \A f \in Fetches : FileOK(f)

Owners == {"nobody", "flow", "kept", "radio", "dropped", "room", "disposing", "over"}
Stages == {"unasked", "resolving", "listing", "looking", "asking", "asked", "queued", "loading", "downloading", "got", "failed"}
JobType == [pc : {"idle", "copying", "starting", "running", "disposing", "sweeping",
                  "pausing", "done", "failed"},
            tries : 0..Attempts, jar : BOOLEAN, end : {"none", "ok", "again", "final"}]

(***************************************************************************)
(* Jobs are the sounds and the pictures, and no job is two of them.        *)
(***************************************************************************)
LEMMA JobIs ==
    /\ \A f \in Fetches : Sound(f) \in Jobs /\ Picture(f) \in Jobs /\ Sound(f) # Picture(f)
    /\ \A f \in Fetches : Sound(f)[1] = f /\ Picture(f)[1] = f
    /\ \A j \in Jobs : j[1] \in Fetches /\ (j = Sound(j[1]) \/ j = Picture(j[1]))
    /\ \A f, g \in Fetches : f # g => Sound(f) # Sound(g) /\ Picture(f) # Picture(g)
    /\ \A f, g \in Fetches : Sound(f) # Picture(g)
BY DEF Sound, Picture, Jobs

(***************************************************************************)
(* The initial state: nothing is fetched, nothing on disk.                 *)
(***************************************************************************)
LEMMA FilesInitially == MediaInit => FilesInv
<1> SUFFICES ASSUME MediaInit PROVE FilesInv
    OBVIOUS
<1> USE DEF MediaInit
<1>1. MediaTypeOK
    BY FilesAssumption DEF MediaTypeOK, NoJob
<1>2. \A j \in Jobs : Clean(j, ytdlp[j])
    BY DEF Clean, NoJob
<1>3. ASSUME NEW f \in Fetches PROVE FileOK(f)
    BY JobIs DEF FileOK, NoJob, Busy
<1> QED BY <1>1, <1>2, <1>3 DEF FilesInv

(***************************************************************************)
(* What one settled or renewed job does: of its own fetch, and only there. *)
(***************************************************************************)
LEMMA JobTypes ==
    ASSUME MediaTypeOK, NEW j \in Jobs, NEW job \in JobType, ytdlp' = [ytdlp EXCEPT ![j] = job]
    PROVE  /\ ytdlp' \in [Jobs -> JobType]
           /\ ytdlp'[j] = job
           /\ \A k \in Jobs : k # j => ytdlp'[k] = ytdlp[k]
BY DEF MediaTypeOK, JobType

\* A settled promise moves its fetch on.
LEMMA Concluded ==
    ASSUME MediaTypeOK, NEW j \in Jobs, NEW job \in JobType, Concludes(j, job)
    PROVE  /\ ytdlp' = [ytdlp EXCEPT ![j] = job]
           /\ stage' \in [Fetches -> Stages]
           /\ \A g \in Fetches : j # Sound(g) => stage'[g] = stage[g]
           /\ \A g \in Fetches : j = Sound(g) =>
                /\ job.pc = "done" => stage'[g] = "got"
                /\ job.pc = "failed" => stage'[g] = "failed"
                /\ job.pc \notin {"done", "failed"} => stage'[g] = "downloading"
<1>1. ytdlp' = [ytdlp EXCEPT ![j] = job]
    BY DEF Concludes, Becomes
<1>2. CASE j # Sound(j[1])
    <2>1. stage' = stage
        BY <1>2 DEF Concludes
    <2>2. \A g \in Fetches : j # Sound(g)
        BY <1>2, JobIs
    <2> QED BY <1>1, <2>1, <2>2 DEF MediaTypeOK, Stages
<1>3. CASE j = Sound(j[1])
    <2>1. j[1] \in Fetches /\ \A g \in Fetches : j = Sound(g) => g = j[1]
        BY <1>3, JobIs
    <2>2. stage' = [stage EXCEPT ![j[1]] = CASE job.pc = "done" -> "got"
                                            [] job.pc = "failed" -> "failed"
                                            [] OTHER -> "downloading"]
        BY <1>3 DEF Concludes
    <2>3. stage \in [Fetches -> Stages]
        BY DEF MediaTypeOK, Stages
    <2> DEFINE to == CASE job.pc = "done" -> "got" [] job.pc = "failed" -> "failed"
                       [] OTHER -> "downloading"
    <2>4. /\ to \in Stages
          /\ job.pc = "done" => to = "got"
          /\ job.pc = "failed" => to = "failed"
          /\ job.pc \notin {"done", "failed"} => to = "downloading"
        BY DEF Stages
    <2>5. stage' = [stage EXCEPT ![j[1]] = to]
        BY <2>2
    <2> HIDE DEF to
    <2> QED BY <1>1, <1>3, <2>1, <2>3, <2>4, <2>5
<1> QED BY <1>2, <1>3

(***************************************************************************)
(* Who a step does not touch is as well off as before; to be canceled only *)
(* dooms a fetch the more.                                                 *)
(***************************************************************************)
LEMMA Untouched ==
    ASSUME NEW f \in Fetches, FileOK(f),
           own'[f] = own[f], stage'[f] = stage[f], ytdlp'[Sound(f)] = ytdlp[Sound(f)],
           f \in onDisk' <=> f \in onDisk, f \in lost' <=> f \in lost,
           f \in aborted => f \in aborted'
    PROVE  FileOK(f)'
BY DEF FileOK, Doomed

(***************************************************************************)
(* A step of a job that is under way: the other jobs and fetches are       *)
(* untouched, so that all depends on what the job has become.              *)
(***************************************************************************)
LEMMA JobGoesOn ==
    ASSUME FilesInv, NEW j \in Jobs, NEW job \in JobType,
           ytdlp[j].pc \in Busy, job.pc \in Busy \cup {"done", "failed"},
           Concludes(j, job) \/ (Becomes(j, job) /\ UNCHANGED stage /\ job.pc \in Busy),
           UNCHANGED <<own, aborted, lost, holders>>, onDisk' \subseteq Fetches,
           storing' \in [Fetches -> {"no", "checking", "waiting", "sending", "failing", "over"}],
           \A g \in Fetches : j # Sound(g) => (g \in onDisk' <=> g \in onDisk),
           \A g \in Fetches : j = Sound(g) => (g \in onDisk' <=> HasDir(job) \/ job.pc = "done"),
           Clean(j, job), job.pc = "done" => job.end = "ok",
           j[1] \in aborted /\ job.end = "ok" => ytdlp[j].end = "ok"
    PROVE  FilesInv'
<1>1. /\ MediaTypeOK /\ j[1] \in Fetches /\ \A g \in Fetches : j = Sound(g) => g = j[1]
      /\ \A g \in Fetches : FileOK(g)
    BY JobIs DEF FilesInv
<1>2. ytdlp' = [ytdlp EXCEPT ![j] = job]
    BY DEF Concludes, Becomes
<1>3. /\ ytdlp' \in [Jobs -> JobType] /\ ytdlp'[j] = job
      /\ \A k \in Jobs : k # j => ytdlp'[k] = ytdlp[k]
    BY <1>1, <1>2, JobTypes
<1>4. /\ stage' \in [Fetches -> Stages]
      /\ \A g \in Fetches : j # Sound(g) => stage'[g] = stage[g]
      /\ \A g \in Fetches : j = Sound(g) =>
            /\ job.pc = "done" => stage'[g] = "got"
            /\ job.pc = "failed" => stage'[g] = "failed"
            /\ job.pc \in Busy => stage'[g] = "downloading"
    <2>1. CASE Concludes(j, job)
        BY <1>1, <2>1, Concluded DEF Busy
    <2>2. CASE UNCHANGED stage /\ job.pc \in Busy
        BY <1>1, <2>2 DEF FileOK, MediaTypeOK, Stages, Busy
    <2> QED BY <2>1, <2>2
<1>5. MediaTypeOK'
    BY <1>1, <1>3, <1>4 DEF MediaTypeOK, JobType, Stages
<1>6. ASSUME NEW k \in Jobs PROVE Clean(k, ytdlp[k])'
    BY <1>3, <1>6 DEF Clean, FilesInv
<1>7. ASSUME NEW g \in Fetches PROVE FileOK(g)'
    <2>1. CASE j = Sound(g)
        <3>1. stage[g] = "downloading" /\ FileOK(g) /\ ytdlp'[Sound(g)] = job /\ g = j[1]
            BY <1>1, <1>3, <2>1 DEF FileOK
        <3> QED BY <1>4, <2>1, <3>1 DEF FileOK, Doomed, Busy, HasDir
    <2>2. CASE j # Sound(g)
        <3>1. ytdlp'[Sound(g)] = ytdlp[Sound(g)]
            BY <1>3, <2>2, JobIs
        <3> QED BY <1>1, <1>4, <2>2, <3>1, Untouched
    <2> QED BY <2>1, <2>2
<1> QED BY <1>5, <1>6, <1>7 DEF FilesInv

(***************************************************************************)
(* What an attempt becomes when it is begun and when it is rejected.       *)
(***************************************************************************)
LEMMA AttemptIs ==
    ASSUME NEW job \in JobType, job.tries < Attempts
    PROVE  /\ Attempt(job, TRUE) \in JobType /\ Attempt(job, TRUE).jar = job.jar
           /\ Attempt(job, TRUE).pc = "failed" /\ Attempt(job, TRUE).end = job.end
           /\ Attempt(job, FALSE) \in JobType /\ Attempt(job, FALSE).jar = job.jar
           /\ Attempt(job, FALSE).pc = "copying" /\ Attempt(job, FALSE).end = "none"
<1>1. /\ Attempt(job, TRUE) \in JobType /\ Attempt(job, TRUE).jar = job.jar
      /\ Attempt(job, TRUE).pc = "failed" /\ Attempt(job, TRUE).end = job.end
    BY DEF Attempt, JobType
<1>2. job.tries \in Nat /\ job.tries + 1 \in 0..Attempts /\ job.jar \in BOOLEAN
    BY FilesAssumption DEF JobType
<1>3. Attempt(job, FALSE) = [job EXCEPT !.pc = "copying", !.tries = job.tries + 1, !.end = "none"]
    BY DEF Attempt
<1> DEFINE next == [pc |-> "copying", tries |-> job.tries + 1, jar |-> job.jar, end |-> "none"]
<1>4. Attempt(job, FALSE) = next
    BY <1>3 DEF JobType
<1>5. next \in JobType
    BY <1>2 DEF JobType
<1>6. next.jar = job.jar /\ next.pc = "copying" /\ next.end = "none"
    OBVIOUS
<1> HIDE DEF next
<1> QED BY <1>1, <1>4, <1>5, <1>6, Zenon

\* A rejected attempt removes its part, or has none and sweeps.
LEMMA RejectedIs ==
    ASSUME NEW j \in Jobs, NEW job \in JobType, NEW end \in {"again", "final"}
    PROVE  /\ Rejected(j, job, end) \in JobType
           /\ Rejected(j, job, end).end = end /\ Rejected(j, job, end).jar = job.jar
           /\ j = Sound(j[1]) => Rejected(j, job, end).pc = "disposing"
           /\ j # Sound(j[1]) => Rejected(j, job, end).pc = "sweeping"
<1>1. CASE j = Sound(j[1])
    <2>1. Rejected(j, job, end) = [job EXCEPT !.pc = "disposing", !.end = end]
        BY <1>1 DEF Rejected
    <2> QED BY <1>1, <2>1 DEF JobType
<1>2. CASE j # Sound(j[1])
    <2>1. Rejected(j, job, end) = [job EXCEPT !.pc = "sweeping", !.end = end]
        BY <1>2 DEF Rejected
    <2> QED BY <1>2, <2>1 DEF JobType
<1> QED BY <1>1, <1>2

(***************************************************************************)
(* What holds of a job that is under way, and of its file.                 *)
(***************************************************************************)
LEMMA JobHas ==
    ASSUME FilesInv, NEW j \in Jobs
    PROVE  /\ MediaTypeOK /\ ytdlp[j] \in JobType /\ Clean(j, ytdlp[j]) /\ j[1] \in Fetches
           /\ \A g \in Fetches : j = Sound(g) =>
                g = j[1] /\ (ytdlp[j].pc \in Busy => (g \in onDisk <=> HasDir(ytdlp[j])))
<1>1. MediaTypeOK /\ ytdlp[j] \in JobType /\ Clean(j, ytdlp[j]) /\ j[1] \in Fetches
    BY JobIs DEF FilesInv, MediaTypeOK, JobType
<1>2. ASSUME NEW g \in Fetches, j = Sound(g)
      PROVE  g = j[1] /\ (ytdlp[j].pc \in Busy => (g \in onDisk <=> HasDir(ytdlp[j])))
    BY <1>2, JobIs DEF FilesInv, FileOK
<1> QED BY <1>1, <1>2

(***************************************************************************)
(* The steps of a job.                                                     *)
(***************************************************************************)

\* The jar is copied, or cannot be.
LEMMA CopiesJarKeeps == ASSUME FilesInv, NEW j \in Jobs, CopiesJar(j) PROVE FilesInv'
<1>0. /\ UNCHANGED <<own, aborted, lost, archived, holders, storing, onDisk>>
      /\ storing' \in [Fetches -> {"no", "checking", "waiting", "sending", "failing", "over"}]
      /\ onDisk' \subseteq Fetches /\ onDisk \subseteq Fetches
    BY JobHas DEF CopiesJar, ownVars, MediaTypeOK
<1>1. /\ ytdlp[j] \in JobType /\ Clean(j, ytdlp[j]) /\ j[1] \in Fetches
      /\ \A g \in Fetches : j = Sound(g) =>
            g = j[1] /\ (ytdlp[j].pc \in Busy => (g \in onDisk <=> HasDir(ytdlp[j])))
      /\ ytdlp[j].pc = "copying"
    BY JobHas DEF CopiesJar
<1>2. CASE Becomes(j, [ytdlp[j] EXCEPT !.pc = "starting", !.jar = TRUE]) /\ UNCHANGED stage
    <2> DEFINE job == [ytdlp[j] EXCEPT !.pc = "starting", !.jar = TRUE]
    <2>1. /\ job \in JobType
          /\ job.pc = "starting"
          /\ job.end = ytdlp[j].end
        BY <1>1, <1>2 DEF JobType
    <2>2. Becomes(j, job) /\ UNCHANGED stage
        BY <1>0, <1>1, <1>2 DEF CopiesJar
    <2> HIDE DEF job
    <2> QED BY <1>0, <1>1, <1>2, <2>1, <2>2, JobGoesOn DEF Busy, HasDir, Clean
<1>3. CASE Concludes(j, [ytdlp[j] EXCEPT !.pc = "failed"])
    <2> DEFINE job == [ytdlp[j] EXCEPT !.pc = "failed"]
    <2>1. /\ job \in JobType
          /\ job.pc = "failed"
          /\ job.end = ytdlp[j].end
          /\ job.jar = ytdlp[j].jar
        BY <1>1, <1>3 DEF JobType
    <2>2. Concludes(j, job)
        BY <1>0, <1>1, <1>3 DEF CopiesJar
    <2> HIDE DEF job
    <2> QED BY <1>0, <1>1, <1>3, <2>1, <2>2, JobGoesOn DEF Busy, HasDir, Clean
<1> QED BY <1>2, <1>3 DEF CopiesJar

\* The process is started, unless the request was canceled meanwhile.
LEMMA SpawnsKeeps == ASSUME FilesInv, NEW j \in Jobs, Spawns(j) PROVE FilesInv'
<1>0. /\ UNCHANGED <<own, aborted, lost, archived, holders, storing, stage>>
      /\ storing' \in [Fetches -> {"no", "checking", "waiting", "sending", "failing", "over"}]
      /\ onDisk' \subseteq Fetches /\ onDisk \subseteq Fetches
    BY JobHas DEF Spawns, ownVars, MediaTypeOK
<1>1. /\ ytdlp[j] \in JobType /\ Clean(j, ytdlp[j]) /\ j[1] \in Fetches
      /\ \A g \in Fetches : j = Sound(g) =>
            g = j[1] /\ (ytdlp[j].pc \in Busy => (g \in onDisk <=> HasDir(ytdlp[j])))
      /\ ytdlp[j].pc = "starting"
    BY JobHas DEF Spawns
<1>2. CASE /\ j[1] \in aborted /\ Becomes(j, Rejected(j, ytdlp[j], "final"))
           /\ onDisk' = IF j = Sound(j[1]) THEN onDisk \cup {j[1]} ELSE onDisk
    <2> DEFINE job == Rejected(j, ytdlp[j], "final")
    <2>1. /\ job \in JobType
          /\ job.end = "final"
          /\ j = Sound(j[1]) => job.pc = "disposing"
          /\ j # Sound(j[1]) => job.pc = "sweeping"
          /\ job.jar = ytdlp[j].jar
        BY <1>1, <1>2, RejectedIs
    <2>2. Becomes(j, job) /\ UNCHANGED stage
        BY <1>0, <1>1, <1>2 DEF Spawns
    <2> HIDE DEF job
    <2> QED BY <1>0, <1>1, <1>2, <2>1, <2>2, JobGoesOn DEF Busy, HasDir, Clean
<1>3. CASE /\ j[1] \notin aborted /\ Becomes(j, [ytdlp[j] EXCEPT !.pc = "running"])
           /\ onDisk' = IF j = Sound(j[1]) THEN onDisk \cup {j[1]} ELSE onDisk
    <2> DEFINE job == [ytdlp[j] EXCEPT !.pc = "running"]
    <2>1. /\ job \in JobType
          /\ job.pc = "running"
          /\ job.end = ytdlp[j].end
          /\ job.jar = ytdlp[j].jar
        BY <1>1, <1>3 DEF JobType
    <2>2. Becomes(j, job) /\ UNCHANGED stage
        BY <1>0, <1>1, <1>3 DEF Spawns
    <2> HIDE DEF job
    <2> QED BY <1>0, <1>1, <1>3, <2>1, <2>2, JobGoesOn DEF Busy, HasDir, Clean
<1>4. CASE /\ Becomes(j, [ytdlp[j] EXCEPT !.pc = "sweeping", !.end = "final"])
           /\ UNCHANGED onDisk
    <2> DEFINE job == [ytdlp[j] EXCEPT !.pc = "sweeping", !.end = "final"]
    <2>1. /\ job \in JobType
          /\ job.pc = "sweeping"
          /\ job.end = "final"
          /\ job.jar = ytdlp[j].jar
        BY <1>1, <1>4 DEF JobType
    <2>2. Becomes(j, job) /\ UNCHANGED stage
        BY <1>0, <1>1, <1>4 DEF Spawns
    <2> HIDE DEF job
    <2> QED BY <1>0, <1>1, <1>4, <2>1, <2>2, JobGoesOn DEF Busy, HasDir, Clean
<1> QED BY <1>2, <1>3, <1>4 DEF Spawns

\* The process is over: nobody who canceled has one running.
LEMMA ExitsKeeps == ASSUME FilesInv, NEW j \in Jobs, Exits(j) PROVE FilesInv'
<1>0. /\ UNCHANGED <<own, aborted, lost, archived, holders, storing, stage, onDisk>>
      /\ storing' \in [Fetches -> {"no", "checking", "waiting", "sending", "failing", "over"}]
      /\ onDisk' \subseteq Fetches /\ onDisk \subseteq Fetches
    BY JobHas DEF Exits, ownVars, MediaTypeOK
<1>1. /\ ytdlp[j] \in JobType /\ Clean(j, ytdlp[j]) /\ j[1] \in Fetches
      /\ \A g \in Fetches : j = Sound(g) =>
            g = j[1] /\ (ytdlp[j].pc \in Busy => (g \in onDisk <=> HasDir(ytdlp[j])))
      /\ ytdlp[j].pc = "running"
    BY JobHas DEF Exits
<1>2. CASE Becomes(j, [ytdlp[j] EXCEPT !.pc = "sweeping", !.end = "ok"])
    <2> DEFINE job == [ytdlp[j] EXCEPT !.pc = "sweeping", !.end = "ok"]
    <2>1. /\ job \in JobType
          /\ job.pc = "sweeping"
          /\ job.end = "ok"
          /\ job.jar = ytdlp[j].jar
        BY <1>1, <1>2 DEF JobType
    <2>2. Becomes(j, job) /\ UNCHANGED stage
        BY <1>0, <1>1, <1>2 DEF Exits
    <2> HIDE DEF job
    <2> QED BY <1>0, <1>1, <1>2, <2>1, <2>2, JobGoesOn DEF Busy, HasDir, Clean
<1>3. ASSUME NEW end \in {"again", "final"}, Becomes(j, Rejected(j, ytdlp[j], end))
      PROVE  FilesInv'
    <2> DEFINE job == Rejected(j, ytdlp[j], end)
    <2>1. /\ job \in JobType
          /\ job.end # "ok"
          /\ j = Sound(j[1]) => job.pc = "disposing"
          /\ j # Sound(j[1]) => job.pc = "sweeping"
          /\ job.jar = ytdlp[j].jar
        BY <1>1, <1>3, RejectedIs
    <2>2. Becomes(j, job) /\ UNCHANGED stage
        BY <1>0, <1>3
    <2> HIDE DEF job
    <2> QED BY <1>0, <1>1, <2>1, <2>2, JobGoesOn DEF Busy, HasDir, Clean
<1> QED BY <1>2, <1>3 DEF Exits

\* What a failed attempt left is removed.
LEMMA DisposesPartKeeps == ASSUME FilesInv, NEW j \in Jobs, DisposesPart(j) PROVE FilesInv'
<1>0. /\ UNCHANGED <<own, aborted, lost, archived, holders, storing, stage>>
      /\ storing' \in [Fetches -> {"no", "checking", "waiting", "sending", "failing", "over"}]
      /\ onDisk' \subseteq Fetches /\ onDisk \subseteq Fetches
    BY JobHas DEF DisposesPart, ownVars, MediaTypeOK
<1>1. /\ ytdlp[j] \in JobType /\ Clean(j, ytdlp[j]) /\ j[1] \in Fetches
      /\ \A g \in Fetches : j = Sound(g) =>
            g = j[1] /\ (ytdlp[j].pc \in Busy => (g \in onDisk <=> HasDir(ytdlp[j])))
      /\ ytdlp[j].pc = "disposing"
    BY JobHas DEF DisposesPart
<1>2. CASE /\ Becomes(j, [ytdlp[j] EXCEPT !.pc = "sweeping"])
           /\ onDisk' = onDisk \ {j[1]}
    <2> DEFINE job == [ytdlp[j] EXCEPT !.pc = "sweeping"]
    <2>1. /\ job \in JobType
          /\ job.pc = "sweeping"
          /\ job.end = ytdlp[j].end
          /\ job.jar = ytdlp[j].jar
        BY <1>1, <1>2 DEF JobType
    <2>2. Becomes(j, job) /\ UNCHANGED stage
        BY <1>0, <1>1, <1>2 DEF DisposesPart
    <2> HIDE DEF job
    <2> QED BY <1>0, <1>1, <1>2, <2>1, <2>2, JobGoesOn DEF Busy, HasDir, Clean
<1> QED BY <1>2 DEF DisposesPart

\* The jar goes, and the attempt with it.
LEMMA SweepsKeeps == ASSUME FilesInv, NEW j \in Jobs, Sweeps(j) PROVE FilesInv'
<1>0. /\ UNCHANGED <<own, aborted, lost, archived, holders, onDisk>>
      /\ storing' \in [Fetches -> {"no", "checking", "waiting", "sending", "failing", "over"}]
      /\ onDisk' \subseteq Fetches /\ onDisk \subseteq Fetches
    BY JobHas DEF Sweeps, ownVars, MediaTypeOK
<1>1. /\ ytdlp[j] \in JobType /\ Clean(j, ytdlp[j]) /\ j[1] \in Fetches
      /\ \A g \in Fetches : j = Sound(g) =>
            g = j[1] /\ (ytdlp[j].pc \in Busy => (g \in onDisk <=> HasDir(ytdlp[j])))
      /\ ytdlp[j].pc = "sweeping"
    BY JobHas DEF Sweeps
<1>2. CASE ytdlp[j].end = "ok"
    <2> DEFINE job == [ytdlp[j] EXCEPT !.jar = FALSE, !.pc = "done"]
    <2>1. /\ job \in JobType
          /\ job.pc = "done"
          /\ job.end = "ok"
          /\ ~job.jar
        BY <1>1, <1>2 DEF JobType
    <2>2. Concludes(j, job)
        BY <1>0, <1>1, <1>2 DEF Sweeps
    <2> HIDE DEF job
    <2> QED BY <1>0, <1>1, <1>2, <2>1, <2>2, JobGoesOn DEF Busy, HasDir, Clean
<1>3. CASE ytdlp[j].end = "again" /\ ytdlp[j].tries < Attempts
    <2> DEFINE job == [ytdlp[j] EXCEPT !.jar = FALSE, !.pc = "pausing"]
    <2>1. /\ job \in JobType
          /\ job.pc = "pausing"
          /\ job.end = "again"
          /\ ~job.jar
          /\ job.tries < Attempts
        BY <1>1, <1>3 DEF JobType
    <2>2. Concludes(j, job)
        BY <1>0, <1>1, <1>3 DEF Sweeps
    <2> HIDE DEF job
    <2> QED BY <1>0, <1>1, <1>3, <2>1, <2>2, JobGoesOn DEF Busy, HasDir, Clean
<1>4. CASE ytdlp[j].end # "ok" /\ ~(ytdlp[j].end = "again" /\ ytdlp[j].tries < Attempts)
    <2> DEFINE job == [ytdlp[j] EXCEPT !.jar = FALSE, !.pc = "failed"]
    <2>1. /\ job \in JobType
          /\ job.pc = "failed"
          /\ job.end = ytdlp[j].end
          /\ ~job.jar
        BY <1>1, <1>4 DEF JobType
    <2>2. Concludes(j, job)
        BY <1>0, <1>1, <1>4 DEF Sweeps
    <2> HIDE DEF job
    <2> QED BY <1>0, <1>1, <1>4, <2>1, <2>2, JobGoesOn DEF Busy, HasDir, Clean
<1> QED BY <1>2, <1>3, <1>4

\* The next attempt, unless the request was canceled.
LEMMA RetriesKeeps == ASSUME FilesInv, NEW j \in Jobs, Retries(j) PROVE FilesInv'
<1>0. /\ UNCHANGED <<own, aborted, lost, archived, holders, storing, onDisk>>
      /\ storing' \in [Fetches -> {"no", "checking", "waiting", "sending", "failing", "over"}]
      /\ onDisk' \subseteq Fetches /\ onDisk \subseteq Fetches
    BY JobHas DEF Retries, ownVars, MediaTypeOK
<1>1. /\ ytdlp[j] \in JobType /\ Clean(j, ytdlp[j]) /\ j[1] \in Fetches
      /\ \A g \in Fetches : j = Sound(g) =>
            g = j[1] /\ (ytdlp[j].pc \in Busy => (g \in onDisk <=> HasDir(ytdlp[j])))
      /\ ytdlp[j].pc = "pausing"
    BY JobHas DEF Retries
<1>2. CASE j[1] \in aborted
    <2> DEFINE job == Attempt(ytdlp[j], TRUE)
    <2>1. /\ job \in JobType
          /\ job.jar = ytdlp[j].jar
          /\ job.pc = "failed" /\ job.end = ytdlp[j].end
        BY <1>1, <1>2, AttemptIs DEF Clean
    <2>2. Concludes(j, job)
        BY <1>0, <1>1, <1>2 DEF Retries, Attempt
    <2> HIDE DEF job
    <2> QED BY <1>0, <1>1, <1>2, <2>1, <2>2, JobGoesOn DEF Busy, HasDir, Clean
<1>3. CASE j[1] \notin aborted
    <2> DEFINE job == Attempt(ytdlp[j], FALSE)
    <2>1. /\ job \in JobType
          /\ job.jar = ytdlp[j].jar
          /\ job.pc = "copying" /\ job.end = "none"
        BY <1>1, <1>3, AttemptIs DEF Clean
    <2>2. Concludes(j, job)
        BY <1>0, <1>1, <1>3 DEF Retries, Attempt
    <2> HIDE DEF job
    <2> QED BY <1>0, <1>1, <1>3, <2>1, <2>2, JobGoesOn DEF Busy, HasDir, Clean
<1> QED BY <1>2, <1>3

(***************************************************************************)
(* The steps that leave yt-dlp alone.                                      *)
(***************************************************************************)
LEMMA NoJobMoves ==
    ASSUME FilesInv, UNCHANGED <<ytdlp, aborted>>, MediaTypeOK', \A g \in Fetches : FileOK(g)'
    PROVE  FilesInv'
BY DEF FilesInv, Clean

\* What a fetch is owed by the invariant, and what it was before the step.
LEMMA FetchHas ==
    ASSUME FilesInv, NEW f \in Fetches
    PROVE  /\ MediaTypeOK /\ FileOK(f)
           /\ own \in [Fetches -> Owners] /\ stage \in [Fetches -> Stages]
           /\ \A g \in Fetches : FileOK(g) /\ Sound(g) \in Jobs /\ ytdlp[Sound(g)] \in JobType
BY JobIs DEF FilesInv, MediaTypeOK, Owners, Stages, JobType

\* A transfer gets in, and begins to write if it is a download.
LEMMA GetsInKeeps == ASSUME FilesInv, NEW f \in Fetches, GetsIn(f) PROVE FilesInv'
<1>1. MediaTypeOK /\ \A g \in Fetches : FileOK(g)
    BY FetchHas
<1>2. MediaTypeOK'
    BY <1>1 DEF GetsIn, MediaTypeOK, Gate!Take, ownVars
<1>3. ASSUME NEW g \in Fetches PROVE FileOK(g)'
    <2>1. CASE g = f
        BY <1>1, <2>1 DEF GetsIn, MediaTypeOK, FileOK, Doomed, Gate!Take, ownVars
    <2>2. CASE g # f
        BY <1>1, <2>2, Untouched DEF GetsIn, MediaTypeOK, Gate!Take, ownVars
    <2> QED BY <2>1, <2>2
<1> QED BY <1>2, <1>3, NoJobMoves DEF GetsIn, Gate!Take, ownVars

\* The archive is asked whether it has the track.
LEMMA ChecksKeeps == ASSUME FilesInv, NEW f \in Fetches, Checks(f) PROVE FilesInv'
<1>1. MediaTypeOK /\ \A g \in Fetches : FileOK(g)
    BY FetchHas
<1>2. MediaTypeOK'
    BY <1>1 DEF Checks, MediaTypeOK, ownVars
<1>3. ASSUME NEW g \in Fetches PROVE FileOK(g)'
    <2>1. CASE g = f
        BY <1>1, <2>1 DEF Checks, MediaTypeOK, FileOK, Doomed, ownVars
    <2>2. CASE g # f
        BY <1>1, <2>2, Untouched DEF Checks, MediaTypeOK, ownVars
    <2> QED BY <2>1, <2>2
<1> QED BY <1>2, <1>3, NoJobMoves DEF Checks, ownVars

\* The file is sent to the archive, or not.
LEMMA SentKeeps == ASSUME FilesInv, NEW f \in Fetches, Sent(f) PROVE FilesInv'
<1>1. MediaTypeOK /\ \A g \in Fetches : FileOK(g)
    BY FetchHas
<1>2. MediaTypeOK'
    BY <1>1 DEF Sent, MediaTypeOK, Gate!GiveBack, ownVars
<1>3. ASSUME NEW g \in Fetches PROVE FileOK(g)'
    <2>1. CASE g = f
        BY <1>1, <2>1 DEF Sent, MediaTypeOK, FileOK, Doomed, Gate!GiveBack, ownVars
    <2>2. CASE g # f
        BY <1>1, <2>2, Untouched DEF Sent, MediaTypeOK, Gate!GiveBack, ownVars
    <2> QED BY <2>1, <2>2
<1> QED BY <1>2, <1>3, NoJobMoves DEF Sent, Gate!GiveBack, ownVars

\* The room gets the file, or it is to be disposed of.
LEMMA HandsOverKeeps == ASSUME FilesInv, NEW f \in Fetches, HandsOver(f) PROVE FilesInv'
<1>1. MediaTypeOK /\ \A g \in Fetches : FileOK(g)
    BY FetchHas
<1>2. MediaTypeOK'
    BY <1>1 DEF HandsOver, MediaTypeOK, Goes, Arrived
<1>3. ASSUME NEW g \in Fetches PROVE FileOK(g)'
    <2>1. CASE g = f
        BY <1>1, <2>1 DEF HandsOver, MediaTypeOK, FileOK, Doomed, Goes, Arrived
    <2>2. CASE g # f
        BY <1>1, <2>2, Untouched DEF HandsOver, MediaTypeOK, Goes, Arrived
    <2> QED BY <2>1, <2>2
<1> QED BY <1>2, <1>3, NoJobMoves DEF HandsOver, Goes, Arrived

\* The first error is the end of the fetch; what is not over is lost.
LEMMA GivesUpKeeps == ASSUME FilesInv, NEW f \in Fetches, GivesUp(f) PROVE FilesInv'
<1>1. MediaTypeOK /\ \A g \in Fetches : FileOK(g)
    BY FetchHas
<1>2. MediaTypeOK'
    BY <1>1 DEF GivesUp, MediaTypeOK, Goes
<1>3. ASSUME NEW g \in Fetches PROVE FileOK(g)'
    <2>1. CASE g = f
        BY <1>1, <2>1 DEF GivesUp, MediaTypeOK, FileOK, Doomed, Goes
    <2>2. CASE g # f
        BY <1>1, <2>2, Untouched DEF GivesUp, MediaTypeOK, Goes
    <2> QED BY <2>1, <2>2
<1> QED BY <1>2, <1>3, NoJobMoves DEF GivesUp, Goes

\* The flow and autoplay remove the file.
LEMMA DisposesKeeps == ASSUME FilesInv, NEW f \in Fetches, Disposes(f) PROVE FilesInv'
<1>1. MediaTypeOK /\ \A g \in Fetches : FileOK(g)
    BY FetchHas
<1>2. MediaTypeOK'
    BY <1>1 DEF Disposes, MediaTypeOK, Goes
<1>3. ASSUME NEW g \in Fetches PROVE FileOK(g)'
    <2>1. CASE g = f
        BY <1>1, <2>1 DEF Disposes, MediaTypeOK, FileOK, Doomed, Goes
    <2>2. CASE g # f
        BY <1>1, <2>2, Untouched DEF Disposes, MediaTypeOK, Goes
    <2> QED BY <2>1, <2>2
<1> QED BY <1>2, <1>3, NoJobMoves DEF Disposes, Goes

\* The room removes the file.
LEMMA RoomDisposesKeeps == ASSUME FilesInv, NEW f \in Fetches, RoomDisposes(f) PROVE FilesInv'
<1>1. MediaTypeOK /\ \A g \in Fetches : FileOK(g)
    BY FetchHas
<1>2. MediaTypeOK'
    BY <1>1 DEF RoomDisposes, MediaTypeOK, Goes
<1>3. ASSUME NEW g \in Fetches PROVE FileOK(g)'
    <2>1. CASE g = f
        BY <1>1, <2>1 DEF RoomDisposes, MediaTypeOK, FileOK, Doomed, Goes
    <2>2. CASE g # f
        BY <1>1, <2>2, Untouched DEF RoomDisposes, MediaTypeOK, Goes
    <2> QED BY <2>1, <2>2
<1> QED BY <1>2, <1>3, NoJobMoves DEF RoomDisposes, Goes

\* What was pre-downloaded is dropped.
LEMMA DropsKeeps == ASSUME FilesInv, NEW f \in Fetches, Drops(f) PROVE FilesInv'
<1>1. MediaTypeOK /\ \A g \in Fetches : FileOK(g)
    BY FetchHas
<1>2. MediaTypeOK'
    BY <1>1 DEF Drops, MediaTypeOK, Goes, Kept
<1>3. ASSUME NEW g \in Fetches PROVE FileOK(g)'
    <2>1. CASE g = f
        BY <1>1, <2>1 DEF Drops, MediaTypeOK, FileOK, Doomed, Goes, Kept
    <2>2. CASE g # f
        BY <1>1, <2>2, Untouched DEF Drops, MediaTypeOK, Goes, Kept
    <2> QED BY <2>1, <2>2
<1> QED BY <1>2, <1>3, NoJobMoves DEF Drops, Goes, Kept

\* What was pre-downloaded is taken.
LEMMA PicksKeeps == ASSUME FilesInv, NEW f \in Fetches, Picks(f) PROVE FilesInv'
<1>1. MediaTypeOK /\ \A g \in Fetches : FileOK(g)
    BY FetchHas
<1>2. MediaTypeOK'
    BY <1>1 DEF Picks, MediaTypeOK, Goes, Kept
<1>3. ASSUME NEW g \in Fetches PROVE FileOK(g)'
    <2>1. CASE g = f
        BY <1>1, <2>1 DEF Picks, MediaTypeOK, FileOK, Doomed, Goes, Kept
    <2>2. CASE g # f
        BY <1>1, <2>2, Untouched DEF Picks, MediaTypeOK, Goes, Kept
    <2> QED BY <2>1, <2>2
<1> QED BY <1>2, <1>3, NoJobMoves DEF Picks, Goes, Kept

\* What was dropped fails.
LEMMA DropFailsKeeps == ASSUME FilesInv, NEW f \in Fetches, DropFails(f) PROVE FilesInv'
<1>1. MediaTypeOK /\ \A g \in Fetches : FileOK(g)
    BY FetchHas
<1>2. MediaTypeOK'
    BY <1>1 DEF DropFails, MediaTypeOK, Goes
<1>3. ASSUME NEW g \in Fetches PROVE FileOK(g)'
    <2>1. CASE g = f
        BY <1>1, <2>1 DEF DropFails, MediaTypeOK, FileOK, Doomed, Goes
    <2>2. CASE g # f
        BY <1>1, <2>2, Untouched DEF DropFails, MediaTypeOK, Goes
    <2> QED BY <2>1, <2>2
<1> QED BY <1>2, <1>3, NoJobMoves DEF DropFails, Goes

(***************************************************************************)
(* A job that begins: an attempt, or none for whoever canceled.            *)
(***************************************************************************)
LEMMA JobBegins ==
    ASSUME FilesInv, NEW j \in Jobs, NEW canceled \in BOOLEAN, canceled <=> j[1] \in aborted
    PROVE  /\ Attempt(NoJob, canceled) \in JobType /\ Clean(j, Attempt(NoJob, canceled))
           /\ Attempt(NoJob, canceled).pc = IF canceled THEN "failed" ELSE "copying"
<1>1. NoJob \in JobType /\ NoJob.tries < Attempts /\ ~NoJob.jar
    BY FilesAssumption DEF NoJob, JobType
<1>2. CASE canceled
    <2>1. Attempt(NoJob, canceled) = Attempt(NoJob, TRUE)
        BY <1>2
    <2> QED BY <1>1, <1>2, <2>1, AttemptIs DEF Clean
<1>3. CASE ~canceled
    <2>1. Attempt(NoJob, canceled) = Attempt(NoJob, FALSE)
        BY <1>3
    <2> QED BY <1>1, <1>3, <2>1, AttemptIs DEF Clean
<1> QED BY <1>2, <1>3

(***************************************************************************)
(* acquireAudio() turns to yt-dlp: what the archive left is gone.          *)
(***************************************************************************)
LEMMA TurnsToYtdlp ==
    ASSUME FilesInv, NEW f \in Fetches, stage[f] \in {"looking", "asked", "loading"}, Downloads(f),
           UNCHANGED <<own, aborted, lost, storing>>, holders' \subseteq Fetches,
           onDisk' \subseteq Fetches, \A g \in Fetches : g \in onDisk' <=> g \in onDisk /\ g # f
    PROVE  FilesInv'
<1> DEFINE canceled == f \in aborted
           job == Attempt(NoJob, canceled)
<1>1. Sound(f) \in Jobs /\ Sound(f)[1] = f /\ canceled \in BOOLEAN
    BY JobIs
<1>2. /\ job \in JobType /\ Clean(Sound(f), job)
      /\ job.pc = IF canceled THEN "failed" ELSE "copying"
    BY <1>1, JobBegins
<1>3. MediaTypeOK /\ FileOK(f) /\ Concludes(Sound(f), job)
    BY FetchHas DEF Downloads
<1> HIDE DEF job
<1>4. /\ ytdlp' = [ytdlp EXCEPT ![Sound(f)] = job] /\ stage' \in [Fetches -> Stages]
      /\ \A g \in Fetches : Sound(f) # Sound(g) => stage'[g] = stage[g]
      /\ stage'[f] = IF canceled THEN "failed" ELSE "downloading"
    BY <1>1, <1>2, <1>3, Concluded
<1>5. /\ ytdlp' \in [Jobs -> JobType] /\ ytdlp'[Sound(f)] = job
      /\ \A k \in Jobs : k # Sound(f) => ytdlp'[k] = ytdlp[k]
    BY <1>1, <1>2, <1>3, <1>4, JobTypes
<1>6. MediaTypeOK'
    BY <1>3, <1>4, <1>5 DEF MediaTypeOK, JobType, Stages
<1>7. ASSUME NEW k \in Jobs PROVE Clean(k, ytdlp[k])'
    BY <1>2, <1>5, <1>7 DEF Clean, FilesInv
<1>8. ASSUME NEW g \in Fetches PROVE FileOK(g)'
    <2>1. CASE g = f
        BY <1>2, <1>3, <1>4, <1>5, <2>1 DEF FileOK, Doomed, Busy, HasDir
    <2>2. CASE g # f
        <3>1. ytdlp'[Sound(g)] = ytdlp[Sound(g)] /\ stage'[g] = stage[g]
            BY <1>4, <1>5, <2>2, JobIs
        <3> QED BY <2>2, <3>1, FetchHas, Untouched
    <2> QED BY <2>1, <2>2
<1> QED BY <1>6, <1>7, <1>8 DEF FilesInv

(***************************************************************************)
(* The archive's steps, each with a way to yt-dlp.                         *)
(***************************************************************************)

\* The archive has it, or yt-dlp is asked.
LEMMA LooksUpKeeps == ASSUME FilesInv, NEW f \in Fetches, LooksUp(f) PROVE FilesInv'
<1>1. MediaTypeOK /\ \A g \in Fetches : FileOK(g)
    BY FetchHas
<1>2. CASE stage' = [stage EXCEPT ![f] = "asking"] /\ UNCHANGED ytdlp
    <2>1. MediaTypeOK'
        BY <1>1, <1>2 DEF LooksUp, MediaTypeOK, ownVars
    <2>2. ASSUME NEW g \in Fetches PROVE FileOK(g)'
        <3>1. CASE g = f
            BY <1>1, <1>2, <3>1 DEF LooksUp, MediaTypeOK, FileOK, Doomed, ownVars
        <3>2. CASE g # f
            BY <1>1, <1>2, <3>2, Untouched DEF LooksUp, MediaTypeOK, ownVars
        <3> QED BY <3>1, <3>2
    <2> QED BY <1>2, <2>1, <2>2, NoJobMoves DEF LooksUp, ownVars
<1>3. CASE Downloads(f)
    <2>1. /\ stage[f] \in {"looking", "asked", "loading"} /\ Downloads(f)
          /\ UNCHANGED <<own, aborted, lost, storing>>
          /\ holders' \subseteq Fetches /\ onDisk' \subseteq Fetches
          /\ \A g \in Fetches : g \in onDisk' <=> g \in onDisk /\ g # f
        BY <1>1, <1>3 DEF LooksUp, ownVars, MediaTypeOK, FileOK
    <2> QED BY <2>1, TurnsToYtdlp
<1> QED BY <1>2, <1>3 DEF LooksUp

\* The archived message is there, or yt-dlp is asked.
LEMMA AnsweredKeeps == ASSUME FilesInv, NEW f \in Fetches, Answered(f) PROVE FilesInv'
<1>1. MediaTypeOK /\ \A g \in Fetches : FileOK(g)
    BY FetchHas
<1>2. CASE stage' = [stage EXCEPT ![f] = "queued"] /\ UNCHANGED ytdlp
    <2>1. MediaTypeOK'
        BY <1>1, <1>2 DEF Answered, MediaTypeOK, ownVars, Gate!GiveBack
    <2>2. ASSUME NEW g \in Fetches PROVE FileOK(g)'
        <3>1. CASE g = f
            BY <1>1, <1>2, <3>1 DEF Answered, MediaTypeOK, FileOK, Doomed, ownVars, Gate!GiveBack
        <3>2. CASE g # f
            BY <1>1, <1>2, <3>2, Untouched DEF Answered, MediaTypeOK, ownVars, Gate!GiveBack
        <3> QED BY <3>1, <3>2
    <2> QED BY <1>2, <2>1, <2>2, NoJobMoves DEF Answered, ownVars
<1>3. CASE Downloads(f)
    <2>1. /\ stage[f] \in {"looking", "asked", "loading"} /\ Downloads(f)
          /\ UNCHANGED <<own, aborted, lost, storing>>
          /\ holders' \subseteq Fetches /\ onDisk' \subseteq Fetches
          /\ \A g \in Fetches : g \in onDisk' <=> g \in onDisk /\ g # f
        BY <1>1, <1>3 DEF Answered, ownVars, MediaTypeOK, FileOK, Gate!GiveBack
    <2> QED BY <2>1, TurnsToYtdlp
<1> QED BY <1>2, <1>3 DEF Answered

\* The file has come, or what came of it is removed.
LEMMA LoadedKeeps == ASSUME FilesInv, NEW f \in Fetches, Loaded(f) PROVE FilesInv'
<1>1. MediaTypeOK /\ \A g \in Fetches : FileOK(g)
    BY FetchHas
<1>2. CASE /\ UNCHANGED ytdlp
           /\ \/ stage' = [stage EXCEPT ![f] = "got"] /\ UNCHANGED onDisk
              \/ stage' = [stage EXCEPT ![f] = "failed"] /\ onDisk' = onDisk \ {f}
    <2>1. MediaTypeOK'
        BY <1>1, <1>2 DEF Loaded, MediaTypeOK, ownVars, Gate!GiveBack
    <2>2. ASSUME NEW g \in Fetches PROVE FileOK(g)'
        <3>1. CASE g = f
            BY <1>1, <1>2, <3>1 DEF Loaded, MediaTypeOK, FileOK, Doomed, ownVars, Gate!GiveBack
        <3>2. CASE g # f
            BY <1>1, <1>2, <3>2, Untouched DEF Loaded, MediaTypeOK, ownVars, Gate!GiveBack
        <3> QED BY <3>1, <3>2
    <2> QED BY <1>2, <2>1, <2>2, NoJobMoves DEF Loaded, ownVars
<1>3. CASE onDisk' = onDisk \ {f} /\ Downloads(f)
    <2>1. /\ stage[f] \in {"looking", "asked", "loading"} /\ Downloads(f)
          /\ UNCHANGED <<own, aborted, lost, storing>>
          /\ holders' \subseteq Fetches /\ onDisk' \subseteq Fetches
          /\ \A g \in Fetches : g \in onDisk' <=> g \in onDisk /\ g # f
        BY <1>1, <1>3 DEF Loaded, ownVars, MediaTypeOK, FileOK, Gate!GiveBack
    <2> QED BY <2>1, TurnsToYtdlp
<1> QED BY <1>2, <1>3 DEF Loaded

(***************************************************************************)
(* Who begins a fetch owns it, or has lost it; autoplay may forget others, *)
(* of which it knows that they came to nothing, or which are lost.         *)
(***************************************************************************)
Forgotten(g) == own'[g] = "over" /\ (g \in lost' \/ (Doomed(g) /\ g \notin lost'))
AsBefore(g) == own'[g] = own[g] /\ (g \in lost' <=> g \in lost)

\* A fetch that is as before, or forgotten, keeps its part of the invariant.
LEMMA ForgottenIsOK ==
    ASSUME FilesInv, NEW g \in Fetches, AsBefore(g) \/ Forgotten(g),
           stage'[g] = stage[g], ytdlp'[Sound(g)] = ytdlp[Sound(g)],
           UNCHANGED <<onDisk, aborted>>
    PROVE  FileOK(g)'
<1>1. CASE AsBefore(g)
    BY <1>1, FetchHas, Untouched DEF AsBefore
<1>2. CASE Forgotten(g)
    BY <1>2, FetchHas DEF FileOK, Doomed, Forgotten
<1> QED BY <1>1, <1>2

\* Before acquireAudio(): nothing is there, and yt-dlp has no job.
Before == {"unasked", "resolving", "listing"}

\* A fetch that comes to acquireAudio() keeps the invariant, with its picture if it
\* has one.
LEMMA Begun ==
    ASSUME FilesInv, NEW f \in Fetches, stage[f] \in Before, Acquires(f),
           UNCHANGED <<aborted, storing, onDisk, archived, holders>>,
           own' \in [Fetches -> Owners], lost' \subseteq Fetches,
           \/ AsBefore(f) /\ stage[f] # "unasked"
           \/ own'[f] \in {"flow", "kept", "radio"} \/ (own'[f] = "over" /\ f \in lost'),
           \A g \in Fetches : g # f => AsBefore(g) \/ Forgotten(g)
    PROVE  FilesInv'
<1>1. MediaTypeOK /\ FileOK(f) /\ Picture(f) \in Jobs /\ Picture(f)[1] = f
    BY FetchHas, JobIs
<1>2. /\ UNCHANGED <<storing, onDisk, holders, aborted>> /\ stage' \in [Fetches -> Stages]
      /\ stage'[f] = "looking" /\ \A g \in Fetches : g # f => stage'[g] = stage[g]
    BY <1>1 DEF Acquires, MediaTypeOK, Stages
<1>3. /\ ytdlp' \in [Jobs -> JobType]
      /\ \A k \in Jobs : ytdlp'[k] = ytdlp[k] \/ (~ytdlp'[k].jar /\ ytdlp'[k].pc \in {"copying", "failed"})
      /\ \A g \in Fetches : ytdlp'[Sound(g)] = ytdlp[Sound(g)]
    <2>1. CASE f \in Splits
        <3> DEFINE canceled == f \in aborted
                   job == Attempt(NoJob, canceled)
        <3>1. canceled \in BOOLEAN /\ (canceled <=> Picture(f)[1] \in aborted)
            BY <1>1
        <3>2. job \in JobType /\ ~job.jar /\ job.pc \in {"copying", "failed"}
            <4>1. /\ job \in JobType /\ Clean(Picture(f), job)
                  /\ job.pc = IF canceled THEN "failed" ELSE "copying"
                BY <1>1, <3>1, JobBegins
            <4> QED BY <3>1, <4>1 DEF Clean
        <3>3. ytdlp' = [ytdlp EXCEPT ![Picture(f)] = job]
            BY <2>1 DEF Acquires, Becomes
        <3> HIDE DEF job
        <3>4. /\ ytdlp' \in [Jobs -> JobType] /\ ytdlp'[Picture(f)] = job
              /\ \A k \in Jobs : k # Picture(f) => ytdlp'[k] = ytdlp[k]
            BY <1>1, <3>2, <3>3, JobTypes
        <3> QED BY <3>1, <3>2, <3>4, JobIs
    <2>2. CASE f \notin Splits
        BY <1>1, <2>2 DEF Acquires, MediaTypeOK, JobType
    <2> QED BY <2>1, <2>2
<1>4. MediaTypeOK'
    BY <1>1, <1>2, <1>3 DEF MediaTypeOK, JobType, Stages, Owners
<1>5. ASSUME NEW k \in Jobs PROVE Clean(k, ytdlp[k])'
    BY <1>2, <1>3, <1>5 DEF Clean, FilesInv
<1>6. ASSUME NEW g \in Fetches PROVE FileOK(g)'
    <2>1. CASE g = f
        BY <1>1, <1>2, <1>3, <2>1 DEF FileOK, Doomed, AsBefore, Before, Busy
    <2>2. CASE g # f
        BY <1>2, <1>3, <2>2, ForgottenIsOK
    <2> QED BY <2>1, <2>2
<1> QED BY <1>4, <1>5, <1>6 DEF FilesInv

\* A request begins.
LEMMA RequestsKeeps == ASSUME FilesInv, NEW f \in Fetches, Requests(f) PROVE FilesInv'
<1>1. MediaTypeOK /\ \A g \in Fetches : FileOK(g)
    BY FetchHas
<1>2. MediaTypeOK'
    BY <1>1 DEF Requests, MediaTypeOK, Goes
<1>3. ASSUME NEW g \in Fetches PROVE FileOK(g)'
    <2>1. CASE g = f
        BY <1>1, <2>1 DEF Requests, MediaTypeOK, FileOK, Doomed, Goes, Busy
    <2>2. CASE g # f
        BY <1>1, <2>2, Untouched DEF Requests, MediaTypeOK, Goes
    <2> QED BY <2>1, <2>2
<1> QED BY <1>2, <1>3, NoJobMoves DEF Requests, Goes

\* What is searched for is found, or not, and a list is made or not.
LEMMA SearchKeeps ==
    ASSUME FilesInv, NEW f \in Fetches, Resolves(f) \/ Lists(f)
    PROVE  FilesInv'
<1>1. /\ MediaTypeOK /\ (\A g \in Fetches : FileOK(g)) /\ own \in [Fetches -> Owners]
      /\ lost \subseteq Fetches
    BY FetchHas DEF MediaTypeOK
<1>2. /\ stage[f] \in {"resolving", "listing"}
      /\ UNCHANGED <<own, aborted, lost, storing, onDisk, archived, holders>>
      /\ \/ Acquires(f)
         \/ /\ UNCHANGED ytdlp
            /\ \/ stage' = [stage EXCEPT ![f] = "listing"]
               \/ stage' = [stage EXCEPT ![f] = "failed"]
    BY DEF Resolves, Lists, ownVars
<1>3. CASE Acquires(f)
    BY <1>1, <1>2, <1>3, Begun DEF Before, AsBefore
<1>4. ASSUME NEW to \in {"listing", "failed"}, stage' = [stage EXCEPT ![f] = to], UNCHANGED ytdlp
      PROVE  FilesInv'
    <2>1. MediaTypeOK'
        BY <1>1, <1>2, <1>4 DEF MediaTypeOK
    <2>2. ASSUME NEW g \in Fetches PROVE FileOK(g)'
        <3>1. CASE g = f
            BY <1>1, <1>2, <1>4, <3>1 DEF MediaTypeOK, FileOK, Doomed, Busy
        <3>2. CASE g # f
            BY <1>1, <1>2, <1>4, <3>2, Untouched DEF MediaTypeOK
        <3> QED BY <3>1, <3>2
    <2> QED BY <1>2, <1>4, <2>1, <2>2, NoJobMoves
<1> QED BY <1>2, <1>3, <1>4

\* Autoplay begins, and may know nothing more of it.
LEMMA RecommendsKeeps == ASSUME FilesInv, NEW f \in Fetches, Recommends(f) PROVE FilesInv'
<1>1. own \in [Fetches -> Owners] /\ lost \subseteq Fetches
    BY FetchHas DEF MediaTypeOK
<1>2. /\ stage[f] \in Before /\ Acquires(f) /\ UNCHANGED <<aborted, storing, onDisk, archived, holders>>
      /\ own' \in [Fetches -> Owners] /\ lost' \subseteq Fetches
      /\ own'[f] = "radio" \/ (own'[f] = "over" /\ f \in lost')
      /\ \A g \in Fetches : g # f => AsBefore(g)
    BY <1>1 DEF Recommends, Begins, Before, Goes, AsBefore, Owners
<1> QED BY <1>2, Begun

\* Autoplay pre-downloads, and forgets what it pre-downloaded before.
LEMMA PrefetchesKeeps == ASSUME FilesInv, NEW f \in Fetches, Prefetches(f) PROVE FilesInv'
<1>1. own \in [Fetches -> Owners] /\ lost \subseteq Fetches
    BY FetchHas DEF MediaTypeOK
<1>2. /\ stage[f] \in Before /\ Acquires(f) /\ UNCHANGED <<aborted, storing, onDisk, archived, holders>>
      /\ own' \in [Fetches -> Owners] /\ lost' \subseteq Fetches
      /\ own'[f] = "kept" /\ \A g \in Fetches : g # f => AsBefore(g) \/ Forgotten(g)
    BY <1>1, FilesAssumption DEF Prefetches, Begins, Before, Forget, Kept, AsBefore, Forgotten, Owners
<1> QED BY <1>2, Begun

\* The room goes, and forgets what was pre-downloaded.
LEMMA RebootsKeeps == ASSUME FilesInv, Reboots PROVE FilesInv'
<1>1. MediaTypeOK /\ own \in [Fetches -> Owners] /\ lost \subseteq Fetches
    BY DEF FilesInv, MediaTypeOK, Owners
<1>2. MediaTypeOK'
    BY <1>1, FilesAssumption DEF Reboots, Forget, Kept, MediaTypeOK
<1>3. ASSUME NEW g \in Fetches PROVE FileOK(g)'
    <2>1. AsBefore(g) \/ Forgotten(g)
        BY <1>1, <1>3 DEF Reboots, Forget, Kept, AsBefore, Forgotten
    <2> QED BY <2>1, ForgottenIsOK DEF Reboots
<1> QED BY <1>2, <1>3, NoJobMoves DEF Reboots

(***************************************************************************)
(* The button: what runs for the request is killed, and rejected.          *)
(***************************************************************************)
LEMMA CancelsKeeps == ASSUME FilesInv, NEW f \in Fetches, Cancels(f) PROVE FilesInv'
<1> DEFINE killed(j) == j[1] = f /\ ytdlp[j].pc = "running"
<1>1. /\ MediaTypeOK /\ aborted' = aborted \cup {f} /\ own[f] = "flow"
      /\ UNCHANGED <<own, lost, stage, storing, onDisk, holders>>
      /\ ytdlp' = [j \in Jobs |-> IF killed(j) THEN Rejected(j, ytdlp[j], "final") ELSE ytdlp[j]]
      /\ \A j \in Jobs : ytdlp[j] \in JobType /\ Clean(j, ytdlp[j])
    BY DEF Cancels, FilesInv, MediaTypeOK, JobType
<1>2. ASSUME NEW j \in Jobs
      PROVE  /\ ytdlp'[j] \in JobType /\ Clean(j, ytdlp[j])'
             /\ ytdlp'[j] = ytdlp[j] \/ (killed(j) /\ ytdlp'[j].end = "final"
                                          /\ (j = Sound(j[1]) => ytdlp'[j].pc = "disposing"))
    <2>1. CASE killed(j)
        <3>1. ytdlp'[j] = Rejected(j, ytdlp[j], "final")
            BY <1>1, <2>1
        <3>2. /\ ytdlp'[j] \in JobType /\ ytdlp'[j].end = "final" /\ ytdlp'[j].jar = ytdlp[j].jar
              /\ j = Sound(j[1]) => ytdlp'[j].pc = "disposing"
              /\ j # Sound(j[1]) => ytdlp'[j].pc = "sweeping"
            BY <1>1, <3>1, RejectedIs
        <3> QED BY <2>1, <3>2 DEF Clean
    <2>2. CASE ~killed(j)
        <3>1. ytdlp'[j] = ytdlp[j]
            BY <1>1, <2>2
        <3> QED BY <1>1, <2>2, <3>1 DEF Clean
    <2> QED BY <2>1, <2>2
<1>3. ytdlp' \in [Jobs -> JobType]
    BY <1>1, <1>2
<1>4. MediaTypeOK'
    BY <1>1, <1>3 DEF MediaTypeOK, JobType
<1>5. ASSUME NEW g \in Fetches PROVE FileOK(g)'
    <2>1. /\ FileOK(g) /\ Sound(g) \in Jobs /\ Sound(g)[1] = g
          /\ \/ ytdlp'[Sound(g)] = ytdlp[Sound(g)]
             \/ /\ ytdlp[Sound(g)].pc = "running" /\ ytdlp'[Sound(g)].pc = "disposing"
                /\ ytdlp'[Sound(g)].end = "final" /\ g = f
        BY <1>2, FetchHas, JobIs
    <2>2. CASE ytdlp'[Sound(g)] = ytdlp[Sound(g)]
        BY <1>1, <2>1, <2>2, Untouched
    <2>3. CASE ytdlp'[Sound(g)] # ytdlp[Sound(g)]
        BY <1>1, <2>1, <2>3 DEF FileOK, Busy, HasDir
    <2> QED BY <2>2, <2>3
<1> QED BY <1>2, <1>4, <1>5 DEF FilesInv

(***************************************************************************)
(* Every step keeps the invariant.                                         *)
(***************************************************************************)
LEMMA FilesStep == FilesInv /\ [MediaNext]_mediaVars => FilesInv'
<1> SUFFICES ASSUME FilesInv, [MediaNext]_mediaVars PROVE FilesInv'
    OBVIOUS
<1>1. CASE UNCHANGED mediaVars
    BY <1>1 DEF FilesInv, MediaTypeOK, Clean, FileOK, Doomed, mediaVars
<1>2. CASE Reboots
    BY <1>2, RebootsKeeps
<1>3. ASSUME NEW f \in Fetches, TransferStep(f) PROVE FilesInv'
    BY <1>3, LooksUpKeeps, GetsInKeeps, AnsweredKeeps, LoadedKeeps, ChecksKeeps, SentKeeps
    DEF TransferStep
<1>4. ASSUME NEW f \in Fetches, OwnerStep(f) PROVE FilesInv'
    BY <1>4, HandsOverKeeps, GivesUpKeeps, DisposesKeeps, DropFailsKeeps DEF OwnerStep
<1>5. ASSUME NEW f \in Fetches, NEW j \in {Sound(f), Picture(f)}, JobStep(j) PROVE FilesInv'
    BY <1>5, JobIs, CopiesJarKeeps, SpawnsKeeps, ExitsKeeps, DisposesPartKeeps, SweepsKeeps, RetriesKeeps
    DEF JobStep
<1>6. ASSUME NEW f \in Fetches,
             \/ Requests(f) \/ Cancels(f) \/ RoomDisposes(f)
             \/ Prefetches(f) \/ Drops(f) \/ Picks(f) \/ Recommends(f)
      PROVE  FilesInv'
    BY <1>6, RequestsKeeps, CancelsKeeps, RoomDisposesKeeps, PrefetchesKeeps, DropsKeeps, PicksKeeps,
       RecommendsKeeps
<1>7. ASSUME NEW f \in Fetches, Resolves(f) \/ Lists(f) PROVE FilesInv'
    BY <1>7, SearchKeeps
<1> QED BY <1>1, <1>2, <1>3, <1>4, <1>5, <1>6, <1>7 DEF MediaNext, FetchStep

(***************************************************************************)
(* The types, of every fetch and job.                                      *)
(***************************************************************************)
THEOREM FilesTypes == MediaSpec => []MediaTypeOK
<1>1. FilesInv => MediaTypeOK
    BY DEF FilesInv
<1> QED BY <1>1, FilesInitially, FilesStep, PTL DEF MediaSpec

(***************************************************************************)
(* Files follow their owners: what is handed out is there, what is there   *)
(* has somebody to remove it or is lost, and a copy of the cookies does    *)
(* not outlive its attempt.                                                *)
(***************************************************************************)
THEOREM FilesFollow == MediaSpec => []FilesFollowOwners
<1>1. FilesInv => FilesFollowOwners
    <2> SUFFICES ASSUME FilesInv PROVE FilesFollowOwners
        OBVIOUS
    <2>1. \A j \in Jobs : ytdlp[j].jar => ytdlp[j].pc \in {"starting", "running", "disposing", "sweeping"}
        BY DEF FilesInv, Clean
    <2>2. ASSUME NEW f \in Fetches
          PROVE  /\ stage[f] = "got" /\ own[f] # "over" => f \in onDisk
                 /\ own[f] = "room" => stage[f] = "got"
                 /\ f \in onDisk /\ own[f] = "over" => f \in lost \/ ytdlp[Sound(f)].pc = "disposing"
        <3>1. FileOK(f) /\ Clean(Sound(f), ytdlp[Sound(f)]) /\ Sound(f)[1] = f
            BY <2>2, JobIs DEF FilesInv
        <3> QED BY <3>1 DEF FileOK, Clean, Doomed, HasDir, Busy
    <2> QED BY <2>1, <2>2 DEF FilesFollowOwners
<1> QED BY <1>1, FilesInitially, FilesStep, PTL DEF MediaSpec

(***************************************************************************)
(* Neither a download nor the lookup of a picture's URL runs for a request *)
(* that was canceled, whether before, in, or between attempts.  Of the     *)
(* process that lists a playlist it says nothing: that one runs on.        *)
(***************************************************************************)
THEOREM FilesCanceled == MediaSpec => []NoAttemptOnceCanceled
<1>1. FilesInv => NoAttemptOnceCanceled
    BY DEF FilesInv, Clean, NoAttemptOnceCanceled
<1> QED BY <1>1, FilesInitially, FilesStep, PTL DEF MediaSpec

============================================================================
