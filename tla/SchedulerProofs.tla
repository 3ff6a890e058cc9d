--------------------------- MODULE SchedulerProofs ---------------------------
(***************************************************************************)
(* Theorems about Scheduler: it uses the job queue as JobQueue allows, so  *)
(* what is proved of the queue holds here; its schedules fire no more than *)
(* once per interval when one server runs.                                 *)
(***************************************************************************)
EXTENDS Scheduler, JobQueueProofs

USE DEF tickVars, schedVars

LEMMA FreshUnused == Unused # {} => Fresh \in Job
  BY DEF Unused, Fresh

\* A step of the two threads of the processes is a step of the queue or leaves
\* the queue alone.
LEMMA QueueStep == [Next]_vars => [QueueNext]_queueVars
<1> SUFFICES ASSUME [Next]_vars PROVE QueueNext \/ UNCHANGED queueVars
  OBVIOUS
<1>1. ASSUME NEW j \in Direct, Enqueue(j) PROVE QueueNext
  BY <1>1, SchedulerAssumption DEF QueueNext
<1>2. ASSUME NEW w \in Worker, WorkerStep(w) \/ Raises(w) \/ Stop(w) PROVE QueueNext
  BY <1>2 DEF QueueNext
<1>3. ASSUME NEW w \in Worker, TickEnqueue(w) PROVE QueueNext
  BY <1>3, FreshUnused DEF TickEnqueue, QueueNext
<1>4. ASSUME NEW w \in Worker, TickRead(w) \/ TickMove(w) \/ TickCommit(w)
                               \/ TickRaises(w) \/ TickerStops(w)
      PROVE  UNCHANGED queueVars
  BY <1>4 DEF TickRead, TickMove, TickCommit, TickRaises, TickerStops
<1>5. ASSUME NEW w \in Worker, ProcessStarts(w) \/ ProcessDies(w)
      PROVE  QueueNext \/ UNCHANGED queueVars
  BY <1>5 DEF ProcessStarts, ProcessDies, QueueNext
<1>6. ASSUME TimePasses \/ \E s \in Sched : AddInterval(s) PROVE UNCHANGED queueVars
  BY <1>6 DEF TimePasses, AddInterval
<1>7. UNCHANGED vars => UNCHANGED queueVars
  BY DEF vars
<1> QED
  BY <1>1, <1>2, <1>3, <1>4, <1>5, <1>6, <1>7 DEF Next, TickerStep

\* The scheduler and its processes implement the specification of the queue.
THEOREM UsesQueue == Spec => QueueSpec
<1>1. Init => QueueInit
  BY DEF Init
<1> QED
  BY <1>1, QueueStep, PTL DEF Spec, QueueSpec

\* With one server the queue under the scheduler implements DurableQueue.
THEOREM DurableUnderScheduler ==
  ASSUME NEW w, Worker = {w}, OneShot = {}
  PROVE  Spec => DoneForGood
<1>1. QueueSpec => DoneForGood
  BY QueueIsDurable
<1> QED
  BY <1>1, UsesQueue, PTL

\* With one server no job is left running under the scheduler.
THEOREM NoneLeftUnderScheduler ==
  ASSUME NEW w, Worker = {w}, OneShot = {}
  PROVE  Spec => []NoneLeftRunning
<1>1. QueueSpec => []NoneLeftRunning
  BY NoneIsLeftRunning
<1> QED
  BY <1>1, UsesQueue, PTL
-----------------------------------------------------------------------------
LEMMA TickerType == TypeOK /\ [Next]_vars => TypeOK'
<1> SUFFICES ASSUME TypeOK, [Next]_vars PROVE TypeOK'
  OBVIOUS
<1>0. QueueTypeOK'
  BY StepType, QueueStep DEF TypeOK
<1> USE <1>0, SchedulerAssumption DEF TypeOK, TickTo
<1>1. ASSUME UNCHANGED schedVars PROVE TypeOK'
  BY <1>1
<1>2. ASSUME NEW w \in Worker, TickRead(w) PROVE TypeOK'
  BY <1>2 DEF TickRead
<1>3. ASSUME NEW w \in Worker, TickEnqueue(w) PROVE TypeOK'
  BY <1>3 DEF TickEnqueue
<1>4. ASSUME NEW w \in Worker, TickMove(w) \/ TickerStops(w) PROVE TypeOK'
  BY <1>4 DEF TickMove, TickerStops
<1>5. ASSUME NEW w \in Worker, TickCommit(w) PROVE TypeOK'
  BY <1>5 DEF TickCommit
<1>6. ASSUME NEW w \in Worker, NEW to \in {"off", "sleep"}, TickLost(w, to) PROVE TypeOK'
  BY <1>6 DEF TickLost
<1>7. ASSUME TimePasses PROVE TypeOK'
  BY <1>7 DEF TimePasses
<1>8. ASSUME NEW s \in Sched, AddInterval(s) PROVE TypeOK'
  BY <1>8 DEF AddInterval
<1>9. UNCHANGED vars => UNCHANGED schedVars
  BY DEF vars
<1> QED
  BY <1>1, <1>2, <1>3, <1>4, <1>5, <1>6, <1>7, <1>8, <1>9
  DEF Next, TickerStep, TickRaises, ProcessStarts, ProcessDies

\* Every variable of the scheduler and of its queue keeps its type.
THEOREM SchedulerTypeCorrect == Spec => []TypeOK
<1>1. Init => TypeOK
  BY InitType, SchedulerAssumption DEF Init, TypeOK
<1> QED
  BY <1>1, TickerType, PTL DEF Spec
-----------------------------------------------------------------------------
(* A schedule has been paid for up to Paid(s): the time its runs stand for.  *)
(* A row that no tick has enqueued is due at least one interval later; a row *)
(* that the tick has enqueued is due after that time, and its commit or its  *)
(* loss makes the interval good.                                             *)

Paid(s) == (fired[s] - redo[s]) * Interval

\* The rows a tick has in hand were due when it read the clock.
TickInv(w) ==
  /\ tpc[w] \in {"off", "sleep"} => rows[w] = {} /\ moved[w] = {}
  /\ rows[w] \cap moved[w] = {}
  /\ tickNow[w] <= time
  /\ \A s \in rows[w] \cup moved[w] : nextRun[s] # 0 /\ nextRun[s] <= tickNow[w]

PaidInv(w) ==
  \A s \in Sched :
    /\ Paid(s) < time
    /\ s \in moved[w] => Paid(s) < nextRun[s]
    /\ s \notin moved[w] => \/ nextRun[s] = 0 /\ Paid(s) = 0
                            \/ nextRun[s] # 0 /\ Paid(s) + Interval < nextRun[s]

\* One run more, or one less, is one interval more or less.
LEMMA OneMore == \A c, d \in Int : (c + 1 - d) * Interval = (c - d) * Interval + Interval
  BY SchedulerAssumption
LEMMA OneLess == \A c, d \in Int : (c - (d + 1)) * Interval = (c - d) * Interval - Interval
  BY SchedulerAssumption

LEMMA PaidType == TypeOK => \A s \in Sched : Paid(s) \in Int
  BY SchedulerAssumption DEF TypeOK, Paid

LEMMA InitPaid ==
  ASSUME NEW w, Worker = {w}, Init
  PROVE  TickInv(w) /\ PaidInv(w)
  BY SchedulerAssumption DEF Init, TickInv, PaidInv, Paid

LEMMA StepTick ==
  ASSUME NEW w, Worker = {w}, TypeOK, TypeOK', TickInv(w), [Next]_vars
  PROVE  TickInv(w)'
<1> USE DEF TypeOK, TickInv, TickTo
<1>1. ASSUME UNCHANGED schedVars PROVE TickInv(w)'
  BY <1>1
<1>2. ASSUME TickRead(w) PROVE TickInv(w)'
  BY <1>2 DEF TickRead, Due
<1>3. ASSUME TickEnqueue(w) PROVE TickInv(w)'
  BY <1>3 DEF TickEnqueue
<1>4. ASSUME TickMove(w) \/ TickerStops(w) PROVE TickInv(w)'
  BY <1>4 DEF TickMove, TickerStops
<1>5. ASSUME TickCommit(w) PROVE TickInv(w)'
  BY <1>5 DEF TickCommit
<1>6. ASSUME NEW to \in {"off", "sleep"}, TickLost(w, to) PROVE TickInv(w)'
  BY <1>6 DEF TickLost
<1>7. ASSUME TimePasses PROVE TickInv(w)'
  BY <1>7 DEF TimePasses
<1>8. ASSUME NEW s \in Sched, AddInterval(s) PROVE TickInv(w)'
  BY <1>8 DEF AddInterval
<1>9. UNCHANGED vars => UNCHANGED schedVars
  BY DEF vars
<1> QED
  BY <1>1, <1>2, <1>3, <1>4, <1>5, <1>6, <1>7, <1>8, <1>9
  DEF Next, TickerStep, TickRaises, ProcessStarts, ProcessDies

LEMMA StepPaid ==
  ASSUME NEW w, Worker = {w}, TypeOK, TypeOK', TickInv(w), PaidInv(w), [Next]_vars
  PROVE  PaidInv(w)'
<1> USE SchedulerAssumption DEF TypeOK, TickTo
<1>0. \A s \in Sched : Paid(s) \in Int /\ Paid(s)' \in Int
  BY DEF Paid
<1>a. ASSUME UNCHANGED <<fired, redo>> PROVE \A s \in Sched : Paid(s)' = Paid(s)
  BY <1>a DEF Paid
<1>1. ASSUME UNCHANGED schedVars PROVE PaidInv(w)'
  BY <1>1, <1>a DEF PaidInv
<1>2. ASSUME TickRead(w) PROVE PaidInv(w)'
  BY <1>2, <1>a DEF TickRead, PaidInv
<1>3. ASSUME TickEnqueue(w) PROVE PaidInv(w)'
  <2>1. PICK r \in rows[w] : /\ moved' = [moved EXCEPT ![w] = @ \cup {r}]
                             /\ fired' = [fired EXCEPT ![r] = @ + 1]
    BY <1>3 DEF TickEnqueue
  <2>2. r \in Sched /\ r \notin moved[w] /\ nextRun[r] # 0 /\ nextRun[r] <= time
    BY DEF TickInv
  <2>3. UNCHANGED <<time, nextRun, redo>>
    BY <1>3 DEF TickEnqueue
  <2>4. Paid(r)' = Paid(r) + Interval
    BY <2>1, <2>2, <2>3, OneMore DEF Paid
  <2>5. \A s \in Sched \ {r} : Paid(s)' = Paid(s) /\ (s \in moved'[w] <=> s \in moved[w])
    BY <2>1, <2>3 DEF Paid
  <2> QED
    BY <1>0, <2>1, <2>2, <2>3, <2>4, <2>5 DEF PaidInv
<1>4. ASSUME TickMove(w) \/ TickerStops(w) PROVE PaidInv(w)'
  BY <1>4, <1>a DEF TickMove, TickerStops, PaidInv
<1>5. ASSUME TickCommit(w) PROVE PaidInv(w)'
  <2>1. \A s \in Sched : Paid(s)' = Paid(s) /\ s \notin moved'[w]
    BY <1>5, <1>a DEF TickCommit
  <2>2. \A s \in Sched : nextRun'[s] = IF s \in moved[w] THEN tickNow[w] + Interval
                                                         ELSE nextRun[s]
    BY <1>5 DEF TickCommit
  <2>3. \A s \in moved[w] : s \in Sched /\ Paid(s) < tickNow[w]
    BY <1>0 DEF TickInv, PaidInv
  <2>4. time' = time
    BY <1>5 DEF TickCommit
  <2> QED
    BY <1>0, <2>1, <2>2, <2>3, <2>4 DEF PaidInv
<1>6. ASSUME NEW to \in {"off", "sleep"}, TickLost(w, to) PROVE PaidInv(w)'
  <2>1. \A s \in Sched : redo'[s] = IF s \in moved[w] THEN redo[s] + 1 ELSE redo[s]
    BY <1>6 DEF TickLost
  <2>2. UNCHANGED <<time, nextRun, fired>> /\ moved'[w] = {}
    BY <1>6 DEF TickLost
  <2>3. \A s \in moved[w] : Paid(s)' = Paid(s) - Interval /\ nextRun[s] # 0
    BY <2>1, <2>2, OneLess DEF Paid, TickInv
  <2>4. \A s \in Sched \ moved[w] : Paid(s)' = Paid(s)
    BY <2>1, <2>2 DEF Paid
  <2> QED
    BY <1>0, <2>2, <2>3, <2>4 DEF PaidInv
<1>7. ASSUME TimePasses PROVE PaidInv(w)'
  BY <1>0, <1>7, <1>a DEF TimePasses, PaidInv
<1>8. ASSUME NEW s \in Sched, AddInterval(s) PROVE PaidInv(w)'
  BY <1>0, <1>8, <1>a DEF AddInterval, PaidInv, TickInv
<1>9. UNCHANGED vars => UNCHANGED schedVars
  BY DEF vars
<1> QED
  BY <1>1, <1>2, <1>3, <1>4, <1>5, <1>6, <1>7, <1>8, <1>9
  DEF Next, TickerStep, TickRaises, ProcessStarts, ProcessDies

\* With one server a schedule fires at most once per interval, for any number of
\* schedules, any interval, and however the clock and the ticks interleave.
THEOREM FiresOncePerInterval ==
  ASSUME NEW w, Worker = {w}
  PROVE  Spec => []OncePerInterval
<1> DEFINE IInv == TypeOK /\ TickInv(w) /\ PaidInv(w)
<1>1. Init => IInv
  BY InitType, SchedulerAssumption, InitPaid DEF Init, TypeOK
<1>2. IInv /\ [Next]_vars => IInv'
  BY TickerType, StepTick, StepPaid
<1>3. IInv => OncePerInterval
  BY DEF PaidInv, OncePerInterval, Paid
<1> QED
  BY <1>1, <1>2, <1>3, PTL DEF Spec
=============================================================================
