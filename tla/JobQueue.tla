------------------------------ MODULE JobQueue ------------------------------
(***************************************************************************)
(* The persistent job queue and the threads that work on it:               *)
(* runtime/queue.py, runtime/worker.py.                                    *)
(*                                                                         *)
(* Every process that builds an AgentLoop has one worker thread; a process *)
(* started with --worker-once has a worker that makes one round. Each      *)
(* statement on jobs.db is a step (claim is one transaction), so is every  *)
(* part of a round between two of them.                                    *)
(***************************************************************************)
EXTENDS Naturals, FiniteSets

CONSTANTS
  Job,          \* ids that enqueue may hand out
  NoJob,        \* no job
  Worker,       \* worker threads, one per process
  OneShot,      \* those that only call run_once
  MaxAttempts,  \* max_attempts of every job
  MaxStarts,    \* bound on the starts of worker threads
  StoreFails    \* whether a statement on jobs.db may raise

ASSUME QueueAssumption ==
  /\ IsFiniteSet(Worker)
  /\ NoJob \notin Job
  /\ OneShot \subseteq Worker
  /\ MaxAttempts \in Nat \ {0}
  /\ MaxStarts \in Nat
  /\ StoreFails \in BOOLEAN

VARIABLES
  \* jobs.db
  status,    \* the status column; "absent" before the insert
  stamp,     \* created_at, 0 until enqueue has read the clock
  attempts,  \* the attempts column
  \* the worker threads
  wpc,       \* where a thread is
  held,      \* the job of its round
  verdict,   \* the status fail is about to write
  stopping,  \* threads whose stop_event is set
  \* observation
  now,       \* readings of the clock by enqueue
  requeued,  \* how often recover has put a job back
  starts     \* starts of worker threads

jobVars    == <<status, stamp, attempts>>
workerVars == <<wpc, held, verdict, stopping>>
obsVars    == <<now, requeued, starts>>
queueVars  == <<jobVars, workerVars, obsVars>>

Finished  == {"complete", "failed"}
JobStatus == {"absent", "queued", "running"} \cup Finished
InRound   == {"handling", "completing", "failing", "writing"}
WorkerPc  == {"off", "recover", "loop"} \cup InRound

QueueTypeOK ==
  /\ status \in [Job -> JobStatus]
  /\ stamp \in [Job -> Nat]
  /\ attempts \in [Job -> Nat]
  /\ wpc \in [Worker -> WorkerPc]
  /\ held \in [Worker -> Job \cup {NoJob}]
  /\ \A w \in Worker : held[w] = NoJob <=> wpc[w] \notin InRound
  /\ verdict \in [Worker -> {"queued", "failed"}]
  /\ stopping \subseteq Worker
  /\ now \in Nat
  /\ requeued \in [Job -> Nat]
  /\ starts \in Nat

QueueInit ==
  /\ status = [j \in Job |-> "absent"]
  /\ stamp = [j \in Job |-> 0]
  /\ attempts = [j \in Job |-> 0]
  /\ wpc = [w \in Worker |-> "off"]
  /\ held = [w \in Worker |-> NoJob]
  /\ verdict = [w \in Worker |-> "failed"]
  /\ stopping = {}
  /\ now = 0
  /\ requeued = [j \in Job |-> 0]
  /\ starts = 0
-----------------------------------------------------------------------------
(* enqueue: the clock is read, then the row is inserted. *)

Stamp(j) ==
  /\ stamp[j] = 0
  /\ now' = now + 1
  /\ stamp' = [stamp EXCEPT ![j] = now']
  /\ UNCHANGED <<status, attempts, workerVars, requeued, starts>>

Insert(j) ==
  /\ stamp[j] # 0
  /\ status[j] = "absent"
  /\ status' = [status EXCEPT ![j] = "queued"]
  /\ UNCHANGED <<stamp, attempts, workerVars, obsVars>>

\* Both, when nothing comes between them.
Enqueue(j) ==
  /\ stamp[j] = 0
  /\ status[j] = "absent"
  /\ now' = now + 1
  /\ stamp' = [stamp EXCEPT ![j] = now']
  /\ status' = [status EXCEPT ![j] = "queued"]
  /\ UNCHANGED <<attempts, workerVars, requeued, starts>>
-----------------------------------------------------------------------------
(* A worker thread *)

Go(w, to) == wpc' = [wpc EXCEPT ![w] = to]

\* A process starts: Worker.start, or run_once on the main thread.
Start(w) ==
  /\ wpc[w] = "off"
  /\ starts < MaxStarts
  /\ starts' = starts + 1
  /\ Go(w, IF w \in OneShot THEN "loop" ELSE "recover")
  /\ stopping' = stopping \ {w}
  /\ UNCHANGED <<jobVars, held, verdict, now, requeued>>

\* Variant: recover leaves the jobs of a dead process alone.
Recover_Skips(w) ==
  /\ wpc[w] = "recover"
  /\ Go(w, "loop")
  /\ UNCHANGED <<jobVars, held, verdict, stopping, obsVars>>

\* Variant: recover retries the failed jobs too.
Recover_Revives(w) ==
  /\ wpc[w] = "recover"
  /\ status' = [j \in Job |-> IF status[j] \in {"running", "failed"} THEN "queued"
                                                               ELSE status[j]]
  /\ requeued' = [j \in Job |-> IF status[j] = "running" THEN requeued[j] + 1
                                                         ELSE requeued[j]]
  /\ Go(w, "loop")
  /\ UNCHANGED <<stamp, attempts, held, verdict, stopping, now, starts>>

\* Every running job is queued again, whoever runs it.
Recover(w) ==
  /\ wpc[w] = "recover"
  /\ status' = [j \in Job |-> IF status[j] = "running" THEN "queued" ELSE status[j]]
  /\ requeued' = [j \in Job |-> IF status[j] = "running" THEN requeued[j] + 1
                                                         ELSE requeued[j]]
  /\ Go(w, "loop")
  /\ UNCHANGED <<stamp, attempts, held, verdict, stopping, now, starts>>

\* The jobs claim selects: the oldest of the queued ones (all have the default
\* priority, and run_after is their creation).
Oldest ==
  {j \in Job : status[j] = "queued"
               /\ \A k \in Job : status[k] = "queued" => stamp[j] <= stamp[k]}

Claim(w) ==
  /\ wpc[w] = "loop"
  /\ w \notin stopping
  /\ \E j \in Oldest :
       /\ status' = [status EXCEPT ![j] = "running"]
       /\ attempts' = [attempts EXCEPT ![j] = @ + 1]
       /\ held' = [held EXCEPT ![w] = j]
  /\ Go(w, "handling")
  /\ UNCHANGED <<stamp, verdict, stopping, obsVars>>

\* The handler returns, or raises (as does a lookup of an unknown kind).
Handle(w) ==
  /\ wpc[w] = "handling"
  /\ Go(w, "completing") \/ Go(w, "failing")
  /\ UNCHANGED <<jobVars, held, verdict, stopping, obsVars>>

\* The round is over: the next one, or the end of run_once.
EndRound(w) ==
  /\ Go(w, IF w \in OneShot THEN "off" ELSE "loop")
  /\ held' = [held EXCEPT ![w] = NoJob]

Complete(w) ==
  /\ wpc[w] = "completing"
  /\ status' = [status EXCEPT ![held[w]] = "complete"]
  /\ EndRound(w)
  /\ UNCHANGED <<stamp, attempts, verdict, stopping, obsVars>>

\* complete raises: run_once takes it for a failure of the handler.
CompleteRaises(w) ==
  /\ StoreFails
  /\ wpc[w] = "completing"
  /\ Go(w, "failing")
  /\ UNCHANGED <<jobVars, held, verdict, stopping, obsVars>>

\* Variant: one attempt too many.
FailRead_OffByOne(w) ==
  /\ wpc[w] = "failing"
  /\ verdict' = [verdict EXCEPT
       ![w] = IF attempts[held[w]] <= MaxAttempts THEN "queued" ELSE "failed"]
  /\ Go(w, "writing")
  /\ UNCHANGED <<jobVars, held, stopping, obsVars>>

\* Variant: the attempts are compared with those claim handed out, one ahead.
FailRead_GivesUp(w) ==
  /\ wpc[w] = "failing"
  /\ verdict' = [verdict EXCEPT
       ![w] = IF attempts[held[w]] + 1 < MaxAttempts THEN "queued" ELSE "failed"]
  /\ Go(w, "writing")
  /\ UNCHANGED <<jobVars, held, stopping, obsVars>>

\* fail reads the attempts, then writes.
FailRead(w) ==
  /\ wpc[w] = "failing"
  /\ verdict' = [verdict EXCEPT
       ![w] = IF attempts[held[w]] < MaxAttempts THEN "queued" ELSE "failed"]
  /\ Go(w, "writing")
  /\ UNCHANGED <<jobVars, held, stopping, obsVars>>

FailWrite(w) ==
  /\ wpc[w] = "writing"
  /\ status' = [status EXCEPT ![held[w]] = verdict[w]]
  /\ EndRound(w)
  /\ UNCHANGED <<stamp, attempts, verdict, stopping, obsVars>>

\* run_once found nothing to do and this was its only round, or stop_event is set.
Leave(w) ==
  /\ wpc[w] = "loop"
  /\ \/ w \in stopping
     \/ w \in OneShot /\ Oldest = {}
  /\ Go(w, "off")
  /\ UNCHANGED <<jobVars, held, verdict, stopping, obsVars>>

\* The thread is gone, and its round with it.
Gone(w) ==
  /\ Go(w, "off")
  /\ held' = [held EXCEPT ![w] = NoJob]

\* recover, claim or fail raises: nothing catches it, the thread ends.
Raises(w) ==
  /\ StoreFails
  /\ wpc[w] \in {"recover", "loop", "failing", "writing"}
  /\ Gone(w)
  /\ UNCHANGED <<jobVars, verdict, stopping, obsVars>>

\* Worker.stop. It waits three seconds for the thread, no longer.
Stop(w) ==
  /\ wpc[w] # "off"
  /\ stopping' = stopping \cup {w}
  /\ UNCHANGED <<jobVars, wpc, held, verdict, obsVars>>

\* The process dies.
Crash(w) ==
  /\ wpc[w] # "off"
  /\ Gone(w)
  /\ UNCHANGED <<jobVars, verdict, stopping, obsVars>>
-----------------------------------------------------------------------------
WorkerStep(w) ==
  \/ Recover(w) \/ Claim(w) \/ Handle(w)
  \/ Complete(w) \/ CompleteRaises(w) \/ FailRead(w) \/ FailWrite(w)
  \/ Leave(w)

QueueNext ==
  \/ \E j \in Job : Stamp(j) \/ Insert(j) \/ Enqueue(j)
  \/ \E w \in Worker : Start(w) \/ WorkerStep(w) \/ Raises(w) \/ Stop(w) \/ Crash(w)

QueueSpec == QueueInit /\ [][QueueNext]_queueVars
-----------------------------------------------------------------------------
(* Safety *)

\* A job is tried at most max_attempts times, plus once for every time recover
\* took it from a process that may have died in the attempt. Without a crash
\* the limit is exact; a handler that kills its process is never given up.
AttemptsBounded ==
  \A j \in Job : attempts[j] <= MaxAttempts + requeued[j]

\* A job is given up only after max_attempts attempts, whichever worker's
\* failure is the one that is written, and however late.
FailedAfterAllAttempts ==
  \A j \in Job : status[j] = "failed" => attempts[j] >= MaxAttempts

\* Neither too many attempts nor too few, although several threads write
\* verdicts about one job from attempts they read earlier.
AttemptsRespected == AttemptsBounded /\ FailedAfterAllAttempts

\* Nobody else works on the job of a worker: claim gives a job to one thread.
OneWorkerPerJob ==
  \A v, w \in Worker : v # w /\ held[v] # NoJob => held[v] # held[w]

\* While the only worker thread looks for work no job is recorded as running:
\* what a crash or a failing store left behind, its start has queued again.
NoneLeftRunning ==
  \A w \in Worker : wpc[w] = "loop" => \A j \in Job : status[j] # "running"

\* The phase of a job: worked on only while a thread holds it.
Phase(j) ==
  IF status[j] \in Finished THEN "done"
  ELSE IF status[j] = "running" /\ \E w \in Worker : held[w] = j THEN "working"
  ELSE IF status[j] = "absent" THEN "absent"
  ELSE "waiting"

Durable == INSTANCE DurableQueue WITH phase <- [j \in Job |-> Phase(j)]

\* The queue is durable: crashes and restarts only take jobs back to waiting,
\* and a job that is done stays done.
DoneForGood == Durable!Spec
=============================================================================
