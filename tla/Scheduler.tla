------------------------------ MODULE Scheduler ------------------------------
(***************************************************************************)
(* The interval scheduler, runtime/scheduler.py, on top of the job queue   *)
(* it feeds: every process runs one scheduler thread beside its worker.    *)
(*                                                                         *)
(* The schedules are in schedules.db, the jobs in jobs.db: a tick inserts  *)
(* a job per due row in transactions of their own and moves the rows on in *)
(* one transaction that is committed at the end.                           *)
(***************************************************************************)
EXTENDS JobQueue

CONSTANTS
  Sched,      \* ids that add_interval may hand out
  Direct,     \* jobs that a turn or the API enqueues; ticks enqueue the others
  Interval,   \* the interval of a schedule; 1 stands for the minimum of 60 s
  MaxTime     \* bound on the clock

ASSUME SchedulerAssumption ==
  /\ Direct \subseteq Job
  /\ Interval \in Nat \ {0}
  /\ MaxTime \in Nat \ {0}

VARIABLES
  time,      \* the wall clock
  \* schedules.db
  nextRun,   \* next_run, 0 when there is no such row
  writer,    \* threads with an open write transaction
  \* the scheduler threads
  tpc,       \* where a thread is
  tickNow,   \* now, as the tick read it
  rows,      \* due rows the tick has still to handle
  moved,     \* rows it has enqueued, to be moved on by its commit
  \* observation
  fired,     \* jobs enqueued for a schedule
  redo       \* of these, the ones whose tick was lost before its commit

tickVars  == <<writer, tpc, tickNow, rows, moved>>
schedVars == <<time, nextRun, tickVars, fired, redo>>
vars      == <<queueVars, schedVars>>

TypeOK ==
  /\ QueueTypeOK
  /\ time \in 1..MaxTime
  /\ nextRun \in [Sched -> Nat]
  /\ writer \subseteq Worker
  /\ tpc \in [Worker -> {"off", "sleep", "row", "move"}]
  /\ tickNow \in [Worker -> 0..MaxTime]
  /\ rows \in [Worker -> SUBSET Sched]
  /\ moved \in [Worker -> SUBSET Sched]
  /\ fired \in [Sched -> Nat]
  /\ redo \in [Sched -> Nat]

Init ==
  /\ QueueInit
  /\ time = 1
  /\ nextRun = [s \in Sched |-> 0]
  /\ writer = {}
  /\ tpc = [w \in Worker |-> "off"]
  /\ tickNow = [w \in Worker |-> 0]
  /\ rows = [w \in Worker |-> {}]
  /\ moved = [w \in Worker |-> {}]
  /\ fired = [s \in Sched |-> 0]
  /\ redo = [s \in Sched |-> 0]
-----------------------------------------------------------------------------
TimePasses ==
  /\ time < MaxTime
  /\ time' = time + 1
  /\ UNCHANGED <<queueVars, nextRun, tickVars, fired, redo>>

\* add_interval, called by a tool of some turn; the first run is one interval
\* away. It waits for an open write transaction.
AddInterval(s) ==
  /\ nextRun[s] = 0
  /\ writer = {}
  /\ nextRun' = [nextRun EXCEPT ![s] = time + Interval]
  /\ UNCHANGED <<queueVars, time, tickVars, fired, redo>>

\* The rows that tick selects.
Due(s) == nextRun[s] # 0 /\ nextRun[s] <= time

TickTo(w, to) == tpc' = [tpc EXCEPT ![w] = to]

\* Variant: the comparison of the query is the wrong way round.
TickRead_Inverted(w) ==
  /\ tpc[w] = "sleep"
  /\ w \notin stopping
  /\ \E s \in Sched : Due(s)
  /\ tickNow' = [tickNow EXCEPT ![w] = time]
  /\ rows' = [rows EXCEPT ![w] = {s \in Sched : nextRun[s] > time}]
  /\ TickTo(w, "row")
  /\ UNCHANGED <<queueVars, time, nextRun, writer, moved, fired, redo>>

TickRead(w) ==
  /\ tpc[w] = "sleep"
  /\ w \notin stopping
  /\ \E s \in Sched : Due(s)
  /\ tickNow' = [tickNow EXCEPT ![w] = time]
  /\ rows' = [rows EXCEPT ![w] = {s \in Sched : Due(s)}]
  /\ TickTo(w, "row")
  /\ UNCHANGED <<queueVars, time, nextRun, writer, moved, fired, redo>>

\* The ids that uuid4 may still hand out to a tick, and one of them.
Unused == {j \in Job \ Direct : stamp[j] = 0}
Fresh  == CHOOSE j \in Unused : TRUE

\* The job of one row is enqueued in jobs.db, for good.
TickEnqueue(w) ==
  /\ tpc[w] = "row"
  /\ Unused # {}
  /\ Enqueue(Fresh)
  /\ \E s \in rows[w] :
       /\ rows' = [rows EXCEPT ![w] = @ \ {s}]
       /\ moved' = [moved EXCEPT ![w] = @ \cup {s}]
       /\ fired' = [fired EXCEPT ![s] = @ + 1]
  /\ TickTo(w, "move")
  /\ UNCHANGED <<time, nextRun, writer, tickNow, redo>>

\* The row is updated: the first update opens the write transaction.
TickMove(w) ==
  /\ tpc[w] = "move"
  /\ writer \subseteq {w}
  /\ writer' = writer \cup {w}
  /\ TickTo(w, "row")
  /\ UNCHANGED <<queueVars, time, nextRun, tickNow, rows, moved, fired, redo>>

\* Variant: the connection is closed without a commit.
TickCommit_Forgets(w) ==
  /\ tpc[w] = "row"
  /\ rows[w] = {}
  /\ writer' = writer \ {w}
  /\ moved' = [moved EXCEPT ![w] = {}]
  /\ TickTo(w, "sleep")
  /\ UNCHANGED <<queueVars, time, nextRun, tickNow, rows, fired, redo>>

TickCommit(w) ==
  /\ tpc[w] = "row"
  /\ rows[w] = {}
  /\ nextRun' = [s \in Sched |-> IF s \in moved[w] THEN tickNow[w] + Interval
                                                   ELSE nextRun[s]]
  /\ writer' = writer \ {w}
  /\ moved' = [moved EXCEPT ![w] = {}]
  /\ TickTo(w, "sleep")
  /\ UNCHANGED <<queueVars, time, tickNow, rows, fired, redo>>

\* The tick is lost: its transaction is rolled back, its jobs stay.
TickLost(w, to) ==
  /\ TickTo(w, to)
  /\ writer' = writer \ {w}
  /\ rows' = [rows EXCEPT ![w] = {}]
  /\ moved' = [moved EXCEPT ![w] = {}]
  /\ redo' = [s \in Sched |-> IF s \in moved[w] THEN redo[s] + 1 ELSE redo[s]]
  /\ UNCHANGED <<time, nextRun, tickNow, fired>>

\* A statement of the tick raises: SchedulerRunner has no except clause, the
\* thread ends.
TickRaises(w) ==
  /\ StoreFails
  /\ tpc[w] # "off"
  /\ TickLost(w, "off")
  /\ UNCHANGED queueVars

\* SchedulerRunner.stop was called and no tick is under way.
TickerStops(w) ==
  /\ tpc[w] = "sleep"
  /\ w \in stopping
  /\ TickTo(w, "off")
  /\ UNCHANGED <<queueVars, time, nextRun, writer, tickNow, rows, moved, fired, redo>>

\* A process starts its two threads. What is left of the one before is gone.
ProcessStarts(w) ==
  /\ Start(w)
  /\ TickLost(w, IF w \in OneShot THEN "off" ELSE "sleep")

ProcessDies(w) ==
  /\ \/ Crash(w)
     \/ wpc[w] = "off" /\ tpc[w] # "off" /\ UNCHANGED queueVars
  /\ TickLost(w, "off")
-----------------------------------------------------------------------------
TickerStep(w) ==
  \/ TickRead(w) \/ TickEnqueue(w) \/ TickMove(w) \/ TickCommit(w)
  \/ TickerStops(w)

Next ==
  \/ \E j \in Direct : Enqueue(j) /\ UNCHANGED schedVars
  \/ \E w \in Worker :
       \/ (WorkerStep(w) \/ Raises(w) \/ Stop(w)) /\ UNCHANGED schedVars
       \/ TickerStep(w) \/ TickRaises(w)
       \/ ProcessStarts(w)
       \/ ProcessDies(w)
  \/ TimePasses
  \/ \E s \in Sched : AddInterval(s)

Spec == Init /\ [][Next]_vars

\* The two threads of a process are scheduled and their handlers return: a turn
\* is bounded by its step cap and the timeouts of its provider and tools. The
\* store never has to fail.
Fairness ==
  \A w \in Worker :
    /\ WF_vars(WorkerStep(w) /\ UNCHANGED schedVars)
    /\ WF_vars(TickerStep(w))

FairSpec == Spec /\ Fairness
-----------------------------------------------------------------------------
(* Properties *)

\* A schedule fires at most once per interval since the start of the clock; only
\* a tick that dies between its jobs and its commit may repeat a run. Missed
\* runs are not made up for.
OncePerInterval ==
  \A s \in Sched : (fired[s] - redo[s]) * Interval < time

\* The process runs and is not about to stop.
Serving(w) == wpc[w] # "off" /\ tpc[w] # "off" /\ w \notin stopping

\* If a server stays up in the end, every queued job ends complete or failed,
\* whatever crashed before and however its handler fails.
EveryJobEnds ==
  \A w \in Worker : <>[]Serving(w) =>
    \A j \in Job : status[j] = "queued" ~> status[j] \in Finished

\* If a server stays up in the end, a schedule that is due is enqueued and
\* moved on.
DueIsFired ==
  \A w \in Worker : <>[]Serving(w) => \A s \in Sched : Due(s) ~> ~Due(s)
=============================================================================
