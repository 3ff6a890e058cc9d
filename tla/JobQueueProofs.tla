--------------------------- MODULE JobQueueProofs ---------------------------
(***************************************************************************)
(* Theorems about JobQueue: for every number of jobs and workers the bound *)
(* on attempts; for a single worker thread, that the queue implements      *)
(* DurableQueue.                                                           *)
(***************************************************************************)
EXTENDS JobQueue, FiniteSetTheorems, TLAPS

USE DEF jobVars, workerVars, obsVars

LEMMA InitType == QueueInit => QueueTypeOK
  BY DEF QueueInit, QueueTypeOK, JobStatus, WorkerPc, InRound

LEMMA StepType == QueueTypeOK /\ [QueueNext]_queueVars => QueueTypeOK'
<1> SUFFICES ASSUME QueueTypeOK, [QueueNext]_queueVars PROVE QueueTypeOK'
  OBVIOUS
<1> USE DEF QueueTypeOK, JobStatus, Finished, WorkerPc, InRound, Go
<1>1. ASSUME NEW j \in Job, Stamp(j) \/ Insert(j) \/ Enqueue(j) PROVE QueueTypeOK'
  BY <1>1 DEF Stamp, Insert, Enqueue
<1>2. ASSUME NEW w \in Worker, Start(w) PROVE QueueTypeOK'
  BY <1>2 DEF Start
<1>3. ASSUME NEW w \in Worker, Recover(w) PROVE QueueTypeOK'
  BY <1>3 DEF Recover
<1>4. ASSUME NEW w \in Worker, Claim(w) PROVE QueueTypeOK'
  <2>1. PICK j \in Oldest :
          /\ status' = [status EXCEPT ![j] = "running"]
          /\ attempts' = [attempts EXCEPT ![j] = @ + 1]
          /\ held' = [held EXCEPT ![w] = j]
    BY <1>4 DEF Claim
  <2>2. j \in Job /\ j # NoJob
    BY QueueAssumption DEF Oldest
  <2> QED
    BY <1>4, <2>1, <2>2 DEF Claim
<1>5. ASSUME NEW w \in Worker, Handle(w) PROVE QueueTypeOK'
  BY <1>5 DEF Handle
<1>6. ASSUME NEW w \in Worker, Complete(w) \/ FailWrite(w) PROVE QueueTypeOK'
  BY <1>6 DEF Complete, FailWrite, EndRound
<1>7. ASSUME NEW w \in Worker, CompleteRaises(w) \/ FailRead(w) PROVE QueueTypeOK'
  BY <1>7 DEF CompleteRaises, FailRead
<1>8. ASSUME NEW w \in Worker, Leave(w) \/ Raises(w) \/ Stop(w) \/ Crash(w) PROVE QueueTypeOK'
  BY <1>8 DEF Leave, Raises, Stop, Crash, Gone
<1>9. CASE UNCHANGED queueVars
  BY <1>9 DEF queueVars
<1> QED
  BY <1>1, <1>2, <1>3, <1>4, <1>5, <1>6, <1>7, <1>8, <1>9 DEF QueueNext, WorkerStep

\* Every variable keeps its type, and a thread holds a job exactly during its
\* rounds.
THEOREM QueueTypeCorrect == QueueSpec => []QueueTypeOK
  BY InitType, StepType, PTL DEF QueueSpec
-----------------------------------------------------------------------------
(* A job is given up only after all its attempts. *)

\* A worker that has read the attempts and decided to give up was right.
VerdictsRight ==
  \A w \in Worker :
    wpc[w] = "writing" /\ verdict[w] = "failed" => attempts[held[w]] >= MaxAttempts

GiveUpInv == QueueTypeOK /\ VerdictsRight /\ FailedAfterAllAttempts

LEMMA StepGiveUp == GiveUpInv /\ [QueueNext]_queueVars => GiveUpInv'
<1> SUFFICES ASSUME GiveUpInv, [QueueNext]_queueVars
             PROVE  VerdictsRight' /\ FailedAfterAllAttempts'
  BY StepType DEF GiveUpInv
<1> USE QueueAssumption DEF GiveUpInv, QueueTypeOK, VerdictsRight, FailedAfterAllAttempts,
        Go, InRound, Finished
<1> DEFINE Goal == VerdictsRight' /\ FailedAfterAllAttempts'
<1>1. ASSUME NEW j \in Job, Stamp(j) \/ Insert(j) \/ Enqueue(j) PROVE Goal
  BY <1>1 DEF Stamp, Insert, Enqueue
<1>2. ASSUME NEW w \in Worker, Start(w) PROVE Goal
  BY <1>2 DEF Start
<1>3. ASSUME NEW w \in Worker, Recover(w) PROVE Goal
  BY <1>3 DEF Recover
<1>4. ASSUME NEW w \in Worker, Claim(w) PROVE Goal
  <2>1. PICK j \in Oldest :
          /\ status' = [status EXCEPT ![j] = "running"]
          /\ attempts' = [attempts EXCEPT ![j] = @ + 1]
          /\ held' = [held EXCEPT ![w] = j]
    BY <1>4 DEF Claim
  <2>2. j \in Job
    BY DEF Oldest
  <2>3. \A k \in Job : attempts'[k] >= attempts[k]
    BY <2>1, <2>2
  <2> QED
    BY <1>4, <2>1, <2>2, <2>3 DEF Claim
<1>5. ASSUME NEW w \in Worker, Handle(w) PROVE Goal
  BY <1>5 DEF Handle
<1>6. ASSUME NEW w \in Worker, Complete(w) \/ FailWrite(w) PROVE Goal
  BY <1>6 DEF Complete, FailWrite, EndRound
<1>7. ASSUME NEW w \in Worker, CompleteRaises(w) \/ FailRead(w) PROVE Goal
  BY <1>7 DEF CompleteRaises, FailRead
<1>8. ASSUME NEW w \in Worker, Leave(w) \/ Raises(w) \/ Stop(w) \/ Crash(w) PROVE Goal
  BY <1>8 DEF Leave, Raises, Stop, Crash, Gone
<1>9. CASE UNCHANGED queueVars
  BY <1>9 DEF queueVars
<1> QED
  BY <1>1, <1>2, <1>3, <1>4, <1>5, <1>6, <1>7, <1>8, <1>9 DEF QueueNext, WorkerStep

\* A job is recorded as failed only after max_attempts attempts, with any number
\* of processes that recover, claim and fail each other's jobs.
THEOREM GivenUpLast == QueueSpec => []FailedAfterAllAttempts
<1>1. QueueInit => GiveUpInv
  BY InitType DEF QueueInit, GiveUpInv, VerdictsRight, FailedAfterAllAttempts
<1>2. GiveUpInv => FailedAfterAllAttempts
  BY DEF GiveUpInv
<1> QED
  BY <1>1, <1>2, StepGiveUp, PTL DEF QueueSpec
-----------------------------------------------------------------------------
(* The bound on attempts. A job that is queued or held has a ticket: it has *)
(* one from its insertion, and gets another only when recover queues it     *)
(* again behind the back of a worker that may still hold it.                *)

Holders(j) == {w \in Worker : held[w] = j}

\* The workers about to queue the job again, on attempts they have read.
Retrying(j) == {w \in Holders(j) : wpc[w] = "writing" /\ verdict[w] = "queued"}

Waits(j) == IF status[j] = "queued" THEN 1 ELSE 0

Tickets(j) == Cardinality(Holders(j)) + Waits(j) <= 1 + requeued[j]

\* Once the attempts are used up, every further one needs a ticket of a worker
\* that read them before.
Spent(j) ==
  attempts[j] >= MaxAttempts =>
    attempts[j] + Cardinality(Retrying(j)) + Waits(j) <= MaxAttempts + requeued[j]

Untouched(j) == status[j] = "absent" => Holders(j) = {} /\ attempts[j] = 0

Budget(j) == Tickets(j) /\ Spent(j) /\ Untouched(j)

BudgetInv == QueueTypeOK /\ \A j \in Job : Budget(j)

LEMMA HoldersFinite ==
  ASSUME NEW j \in Job
  PROVE  /\ IsFiniteSet(Holders(j)) /\ IsFiniteSet(Retrying(j))
         /\ Cardinality(Holders(j)) \in Nat /\ Cardinality(Retrying(j)) \in Nat
         /\ Cardinality(Retrying(j)) <= Cardinality(Holders(j))
<1>1. Holders(j) \subseteq Worker /\ Retrying(j) \subseteq Holders(j)
  BY DEF Holders, Retrying
<1>2. IsFiniteSet(Holders(j))
  BY <1>1, QueueAssumption, FS_Subset
<1> QED
  BY <1>1, <1>2, FS_Subset, FS_CardinalityType

\* A job keeps its budget when it gains no holder and no attempt, and waits only
\* if it waited or was queued by recover.
LEMMA KeepBudget ==
  ASSUME QueueTypeOK, QueueTypeOK', NEW j \in Job, Budget(j),
         Holders(j)' \subseteq Holders(j),
         attempts'[j] = attempts[j],
         attempts[j] >= MaxAttempts => Retrying(j)' \subseteq Retrying(j),
         \/ status'[j] # "queued" /\ requeued'[j] = requeued[j]
         \/ status[j] = "queued" /\ requeued'[j] = requeued[j]
         \/ requeued'[j] = requeued[j] + 1,
         status'[j] = "absent" => status[j] = "absent"
  PROVE  Budget(j)'
<1>1. /\ Cardinality(Holders(j)) \in Nat /\ Cardinality(Retrying(j)) \in Nat
      /\ IsFiniteSet(Holders(j)) /\ IsFiniteSet(Retrying(j))
  BY HoldersFinite
<1>2. Cardinality(Holders(j)') \in Nat /\ Cardinality(Holders(j)') <= Cardinality(Holders(j))
  BY <1>1, FS_Subset, FS_CardinalityType
<1>3. attempts[j] >= MaxAttempts =>
        /\ Cardinality(Retrying(j)') \in Nat
        /\ Cardinality(Retrying(j)') <= Cardinality(Retrying(j))
  BY <1>1, FS_Subset, FS_CardinalityType
<1>4. requeued[j] \in Nat /\ requeued'[j] \in Nat /\ attempts[j] \in Nat /\ MaxAttempts \in Nat
  BY QueueAssumption DEF QueueTypeOK
<1>5. Waits(j)' - requeued'[j] <= Waits(j) - requeued[j] /\ Waits(j) \in Nat /\ Waits(j)' \in Nat
  BY <1>4 DEF Waits
<1>6. Tickets(j)'
  BY <1>1, <1>2, <1>4, <1>5 DEF Budget, Tickets
<1>7. Spent(j)'
  BY <1>1, <1>3, <1>4, <1>5 DEF Budget, Spent
<1>8. Untouched(j)'
  BY DEF Budget, Untouched
<1> QED
  BY <1>6, <1>7, <1>8 DEF Budget

LEMMA ClaimBudget ==
  ASSUME BudgetInv, QueueTypeOK', NEW w \in Worker, Claim(w), NEW j \in Job
  PROVE  Budget(j)'
<1> USE DEF BudgetInv
<1>1. PICK k \in Oldest :
        /\ status' = [status EXCEPT ![k] = "running"]
        /\ attempts' = [attempts EXCEPT ![k] = @ + 1]
        /\ held' = [held EXCEPT ![w] = k]
        /\ wpc' = [wpc EXCEPT ![w] = "handling"]
        /\ UNCHANGED <<verdict, requeued>>
  BY DEF Claim, Go
<1>2. k \in Job /\ status[k] = "queued" /\ k # NoJob /\ held[w] = NoJob /\ wpc[w] = "loop"
  BY QueueAssumption DEF Oldest, QueueTypeOK, Claim, InRound
<1>3. CASE j # k
  <2>1. Holders(j)' = Holders(j) /\ Retrying(j)' \subseteq Retrying(j)
    BY <1>1, <1>2, <1>3, QueueAssumption DEF Holders, Retrying, QueueTypeOK
  <2>2. UNCHANGED <<status[j], attempts[j], requeued[j]>>
    BY <1>1, <1>2, <1>3 DEF QueueTypeOK
  <2> QED
    BY <2>1, <2>2, KeepBudget
<1>4. CASE j = k
  <2>1. Holders(j)' = Holders(j) \cup {w} /\ w \notin Holders(j)
    BY <1>1, <1>2, <1>4 DEF Holders, QueueTypeOK
  <2>2. Retrying(j)' = Retrying(j)
    BY <1>1, <1>2, <1>4, <2>1 DEF Holders, Retrying, QueueTypeOK
  <2>3. /\ IsFiniteSet(Holders(j)) /\ Cardinality(Holders(j)) \in Nat
        /\ Cardinality(Retrying(j)) \in Nat
        /\ Cardinality(Retrying(j)) <= Cardinality(Holders(j))
    BY HoldersFinite
  <2>4. Cardinality(Holders(j)') = Cardinality(Holders(j)) + 1
    BY <2>1, <2>3, FS_AddElement
  <2>5. Waits(j) = 1 /\ Waits(j)' = 0 /\ attempts'[j] = attempts[j] + 1
        /\ attempts[j] \in Nat /\ requeued[j] \in Nat /\ requeued'[j] = requeued[j]
        /\ MaxAttempts \in Nat \ {0}
    BY <1>1, <1>2, <1>4, QueueAssumption DEF Waits, QueueTypeOK
  <2>6. Tickets(j)'
    BY <2>3, <2>4, <2>5 DEF Budget, Tickets
  <2>7. Spent(j)'
    BY <2>2, <2>3, <2>5 DEF Budget, Tickets, Spent
  <2>8. Untouched(j)'
    BY <1>1, <1>2, <1>4 DEF Untouched, QueueTypeOK
  <2> QED
    BY <2>6, <2>7, <2>8 DEF Budget
<1> QED
  BY <1>3, <1>4

LEMMA RetryBudget ==
  ASSUME BudgetInv, QueueTypeOK', NEW w \in Worker, FailWrite(w), NEW j \in Job
  PROVE  Budget(j)'
<1> USE DEF BudgetInv
<1>1. /\ status' = [status EXCEPT ![held[w]] = verdict[w]]
      /\ held' = [held EXCEPT ![w] = NoJob]
      /\ wpc[w] = "writing"
      /\ \E to \in {"off", "loop"} : wpc' = [wpc EXCEPT ![w] = to]
      /\ UNCHANGED <<attempts, verdict, requeued>>
  BY DEF FailWrite, EndRound, Go
<1>2. held[w] \in Job /\ NoJob \notin Job /\ verdict[w] \in {"queued", "failed"}
  BY <1>1, QueueAssumption DEF QueueTypeOK, InRound
<1>3. Holders(j)' = Holders(j) \ {w} /\ Retrying(j)' = Retrying(j) \ {w}
  BY <1>1, <1>2 DEF Holders, Retrying, QueueTypeOK
<1>4. CASE j # held[w] \/ verdict[w] = "failed"
  <2>1. \/ status'[j] = "failed"
        \/ status'[j] = status[j]
    BY <1>1, <1>2, <1>4 DEF QueueTypeOK
  <2>2. attempts'[j] = attempts[j] /\ requeued'[j] = requeued[j]
    BY <1>1
  <2> QED
    BY <1>3, <2>1, <2>2, KeepBudget
<1>5. CASE j = held[w] /\ verdict[w] = "queued"
  <2>1. w \in Holders(j) /\ w \in Retrying(j)
    BY <1>1, <1>5 DEF Holders, Retrying
  <2>2. /\ IsFiniteSet(Holders(j)) /\ Cardinality(Holders(j)) \in Nat
        /\ IsFiniteSet(Retrying(j)) /\ Cardinality(Retrying(j)) \in Nat
    BY HoldersFinite
  <2>3. /\ Cardinality(Holders(j)') = Cardinality(Holders(j)) - 1
        /\ Cardinality(Retrying(j)') = Cardinality(Retrying(j)) - 1
    BY <1>3, <2>1, <2>2, FS_RemoveElement
  <2>4. Waits(j) \in {0, 1} /\ Waits(j)' = 1 /\ attempts'[j] = attempts[j]
        /\ requeued'[j] = requeued[j] /\ attempts[j] \in Nat /\ requeued[j] \in Nat
        /\ MaxAttempts \in Nat
    BY <1>1, <1>2, <1>5, QueueAssumption DEF Waits, QueueTypeOK
  <2>5. Tickets(j)'
    BY <2>2, <2>3, <2>4 DEF Budget, Tickets
  <2>6. Spent(j)'
    BY <2>2, <2>3, <2>4 DEF Budget, Spent
  <2>7. Untouched(j)'
    BY <1>1, <1>2, <1>5 DEF Untouched, QueueTypeOK
  <2> QED
    BY <2>5, <2>6, <2>7 DEF Budget
<1> QED
  BY <1>2, <1>4, <1>5

LEMMA EnqueueBudget ==
  ASSUME BudgetInv, QueueTypeOK', NEW k \in Job, Stamp(k) \/ Insert(k) \/ Enqueue(k),
         NEW j \in Job
  PROVE  Budget(j)'
<1> USE DEF BudgetInv
<1>1. Holders(j)' = Holders(j) /\ Retrying(j)' = Retrying(j)
  BY DEF Stamp, Insert, Enqueue, Holders, Retrying
<1>2. attempts'[j] = attempts[j] /\ requeued'[j] = requeued[j]
  BY DEF Stamp, Insert, Enqueue
<1>3. CASE status'[j] = status[j]
  BY <1>1, <1>2, <1>3, KeepBudget
<1>4. CASE status[j] = "absent" /\ status'[j] = "queued"
  <2>1. Holders(j)' = {} /\ attempts'[j] = 0
    BY <1>1, <1>2, <1>4 DEF Budget, Untouched
  <2>2. Cardinality(Holders(j)') = 0
    BY <2>1, FS_EmptySet
  <2>3. MaxAttempts \in Nat \ {0} /\ requeued[j] \in Nat
    BY QueueAssumption DEF QueueTypeOK
  <2>4. Tickets(j)'
    BY <1>2, <1>4, <2>2, <2>3 DEF Tickets, Waits
  <2>5. Spent(j)'
    BY <2>1, <2>3 DEF Spent
  <2> QED
    BY <1>4, <2>4, <2>5 DEF Budget, Untouched
<1> QED
  BY <1>3, <1>4 DEF Stamp, Insert, Enqueue, QueueTypeOK

LEMMA StepBudget == BudgetInv /\ [QueueNext]_queueVars => BudgetInv'
<1> SUFFICES ASSUME BudgetInv, [QueueNext]_queueVars, NEW j \in Job
             PROVE  Budget(j)'
  BY StepType DEF BudgetInv
<1>0. QueueTypeOK' /\ QueueTypeOK /\ Budget(j)
  BY StepType DEF BudgetInv
<1>1. ASSUME NEW k \in Job, Stamp(k) \/ Insert(k) \/ Enqueue(k) PROVE Budget(j)'
  BY <1>0, <1>1, EnqueueBudget
<1>2. ASSUME NEW w \in Worker, Claim(w) PROVE Budget(j)'
  BY <1>0, <1>2, ClaimBudget
<1>3. ASSUME NEW w \in Worker, FailWrite(w) PROVE Budget(j)'
  BY <1>0, <1>3, RetryBudget
<1>4. ASSUME NEW w \in Worker, Start(w) \/ Handle(w) \/ CompleteRaises(w) \/ Leave(w)
                               \/ Stop(w) \/ Raises(w) \/ Crash(w)
      PROVE  Budget(j)'
  <2>1. UNCHANGED <<status, attempts, requeued, verdict>>
    BY <1>4 DEF Start, Handle, CompleteRaises, Leave, Stop, Raises, Crash
  <2>2. held' \in {held, [held EXCEPT ![w] = NoJob]}
    BY <1>4 DEF Start, Handle, CompleteRaises, Leave, Stop, Raises, Crash, Gone
  <2>3. Holders(j)' \subseteq Holders(j)
    BY <1>0, <2>2, QueueAssumption DEF Holders, QueueTypeOK
  <2>4. \A v \in Worker : wpc'[v] = "writing" => wpc[v] = "writing"
    BY <1>0, <1>4
    DEF Start, Handle, CompleteRaises, Leave, Stop, Raises, Crash, Gone, Go, QueueTypeOK
  <2>5. Retrying(j)' \subseteq Retrying(j)
    BY <2>1, <2>3, <2>4 DEF Retrying, Holders
  <2> QED
    BY <1>0, <2>1, <2>3, <2>5, KeepBudget
<1>5. ASSUME NEW w \in Worker, Recover(w) PROVE Budget(j)'
  <2>1. Holders(j)' = Holders(j)
    BY <1>5 DEF Recover, Holders
  <2>2. Retrying(j)' \subseteq Retrying(j)
    BY <1>0, <1>5, <2>1 DEF Recover, Retrying, Holders, Go, QueueTypeOK
  <2>3. \/ status'[j] = status[j] /\ requeued'[j] = requeued[j]
        \/ status'[j] = "queued" /\ status[j] = "running" /\ requeued'[j] = requeued[j] + 1
    BY <1>5 DEF Recover
  <2>4. attempts' = attempts
    BY <1>5 DEF Recover
  <2> QED
    BY <1>0, <2>1, <2>2, <2>3, <2>4, KeepBudget
<1>6. ASSUME NEW w \in Worker, Complete(w) PROVE Budget(j)'
  <2>1. held[w] \in Job /\ wpc[w] = "completing"
    BY <1>0, <1>6 DEF Complete, QueueTypeOK, InRound
  <2>2. Holders(j)' \subseteq Holders(j) /\ Retrying(j)' \subseteq Retrying(j)
    BY <1>0, <1>6, <2>1, QueueAssumption
    DEF Complete, EndRound, Go, Holders, Retrying, QueueTypeOK
  <2>3. status'[j] \in {status[j], "complete"} /\ attempts' = attempts /\ requeued' = requeued
    BY <1>0, <1>6, <2>1 DEF Complete, QueueTypeOK
  <2> QED
    BY <1>0, <2>2, <2>3, KeepBudget
<1>7. ASSUME NEW w \in Worker, FailRead(w) PROVE Budget(j)'
  <2>1. UNCHANGED <<status, attempts, requeued, held>>
    BY <1>7 DEF FailRead
  <2>2. Holders(j)' = Holders(j)
    BY <2>1 DEF Holders
  <2>3. \A v \in Worker : v # w => verdict'[v] = verdict[v] /\ wpc'[v] = wpc[v]
    BY <1>0, <1>7 DEF FailRead, Go, QueueTypeOK
  <2>4. attempts[held[w]] >= MaxAttempts => verdict'[w] = "failed"
    BY <1>0, <1>7, QueueAssumption DEF FailRead, QueueTypeOK, InRound
  <2>5. attempts[j] >= MaxAttempts => Retrying(j)' \subseteq Retrying(j)
    BY <2>1, <2>2, <2>3, <2>4 DEF Retrying, Holders
  <2> QED
    BY <1>0, <2>1, <2>2, <2>5, KeepBudget
<1>8. CASE UNCHANGED queueVars
  <2>1. Holders(j)' = Holders(j) /\ Retrying(j)' = Retrying(j)
    BY <1>8 DEF queueVars, Holders, Retrying
  <2> QED
    BY <1>0, <1>8, <2>1, KeepBudget DEF queueVars
<1> QED
  BY <1>1, <1>2, <1>3, <1>4, <1>5, <1>6, <1>7, <1>8 DEF QueueNext, WorkerStep

\* No job is tried more often than max_attempts plus the times recover took it
\* from a process: for any number of processes that share the database, however
\* stale the failures they report.
THEOREM AttemptsAreBounded == QueueSpec => []AttemptsBounded
<1>1. QueueInit => BudgetInv
  <2> SUFFICES ASSUME QueueInit, NEW j \in Job PROVE Budget(j)
    BY InitType DEF BudgetInv
  <2>1. Holders(j) = {}
    BY QueueAssumption DEF QueueInit, Holders
  <2>2. Cardinality(Holders(j)) = 0
    BY <2>1, FS_EmptySet
  <2>3. MaxAttempts \in Nat \ {0}
    BY QueueAssumption
  <2> QED
    BY <2>1, <2>2, <2>3 DEF QueueInit, Budget, Tickets, Spent, Untouched, Waits
<1>2. BudgetInv => AttemptsBounded
  <2> SUFFICES ASSUME BudgetInv, NEW j \in Job
               PROVE  attempts[j] <= MaxAttempts + requeued[j]
    BY DEF AttemptsBounded
  <2>1. Cardinality(Retrying(j)) \in Nat /\ Waits(j) \in Nat
    BY HoldersFinite DEF Waits
  <2>2. attempts[j] \in Nat /\ requeued[j] \in Nat /\ MaxAttempts \in Nat
    BY QueueAssumption DEF BudgetInv, QueueTypeOK
  <2> QED
    BY <2>1, <2>2 DEF BudgetInv, Budget, Spent
<1> QED
  BY <1>1, <1>2, StepBudget, PTL DEF QueueSpec

\* A job is tried at least as often as promised before it is given up, and at
\* most as often as promised plus its recoveries.
THEOREM AttemptsAreRespected == QueueSpec => []AttemptsRespected
<1>1. AttemptsBounded /\ FailedAfterAllAttempts => AttemptsRespected
  BY DEF AttemptsRespected
<1> QED
  BY <1>1, AttemptsAreBounded, GivenUpLast, PTL
-----------------------------------------------------------------------------
(* One server: a single worker thread that recovers when it starts. *)

\* While it runs rounds, the running jobs are the one it holds.
SoloInv(w) ==
  /\ wpc[w] \in InRound => status[held[w]] = "running"
  /\ wpc[w] \notin {"off", "recover"} =>
       \A j \in Job : status[j] = "running" => held[w] = j

LEMMA SoloStep ==
  ASSUME NEW w, Worker = {w}, OneShot = {},
         QueueTypeOK, SoloInv(w), [QueueNext]_queueVars
  PROVE  SoloInv(w)'
<1> USE QueueAssumption DEF SoloInv, QueueTypeOK, InRound, Go
<1>1. ASSUME NEW j \in Job, Stamp(j) \/ Insert(j) \/ Enqueue(j) PROVE SoloInv(w)'
  BY <1>1 DEF Stamp, Insert, Enqueue
<1>2. CASE Claim(w)
  <2>1. PICK k \in Oldest :
          /\ status' = [status EXCEPT ![k] = "running"]
          /\ held' = [held EXCEPT ![w] = k]
    BY <1>2 DEF Claim
  <2>2. k \in Job /\ wpc[w] = "loop" /\ wpc'[w] = "handling" /\ held[w] = NoJob
    BY <1>2 DEF Oldest, Claim
  <2> QED
    BY <2>1, <2>2
<1>3. CASE Complete(w) \/ FailWrite(w)
  BY <1>3 DEF Complete, FailWrite, EndRound
<1>4. CASE Start(w) \/ Recover(w)
  BY <1>4 DEF Start, Recover
<1>5. CASE Handle(w) \/ CompleteRaises(w) \/ FailRead(w) \/ Leave(w) \/ Stop(w)
  BY <1>5 DEF Handle, CompleteRaises, FailRead, Leave, Stop
<1>6. CASE Raises(w) \/ Crash(w)
  BY <1>6 DEF Raises, Crash, Gone
<1>7. CASE UNCHANGED queueVars
  BY <1>7 DEF queueVars
<1> QED
  BY <1>1, <1>2, <1>3, <1>4, <1>5, <1>6, <1>7 DEF QueueNext, WorkerStep

\* With one server no job is recorded as running while the server looks for
\* work: its start has recovered what a crash left behind.
THEOREM NoneIsLeftRunning ==
  ASSUME NEW w, Worker = {w}, OneShot = {}
  PROVE  QueueSpec => []NoneLeftRunning
<1>1. QueueInit => QueueTypeOK /\ SoloInv(w)
  BY InitType DEF QueueInit, SoloInv, InRound
<1>2. QueueTypeOK /\ SoloInv(w) /\ [QueueNext]_queueVars => (QueueTypeOK /\ SoloInv(w))'
  BY StepType, SoloStep
<1>3. QueueTypeOK /\ SoloInv(w) => NoneLeftRunning
  BY QueueAssumption DEF QueueTypeOK, SoloInv, NoneLeftRunning, InRound
<1> QED
  BY <1>1, <1>2, <1>3, PTL DEF QueueSpec

LEMMA MovePhase ==
  ASSUME NEW k \in Job, \A j \in Job \ {k} : Phase(j)' = Phase(j),
         \/ Phase(k) = "absent" /\ Phase(k)' = "waiting"
         \/ Phase(k) = "waiting" /\ Phase(k)' = "working"
         \/ Phase(k) = "working" /\ Phase(k)' \in {"waiting", "done"}
  PROVE  Durable!Next
<1>1. [j \in Job |-> Phase(j)]' = [[j \in Job |-> Phase(j)] EXCEPT ![k] = Phase(k)']
  OBVIOUS
<1> QED
  BY <1>1 DEF Durable!Next, Durable!Submit, Durable!Take, Durable!GiveBack,
              Durable!Finish, Durable!Move

LEMMA SamePhase ==
  ASSUME \A j \in Job : Phase(j)' = Phase(j)
  PROVE  UNCHANGED [j \in Job |-> Phase(j)]
  OBVIOUS

\* Each step of the only worker is a step of DurableQueue or changes no phase.
LEMMA SoloRefines ==
  ASSUME NEW w, Worker = {w}, OneShot = {},
         QueueTypeOK, SoloInv(w), [QueueNext]_queueVars
  PROVE  Durable!Next \/ UNCHANGED [j \in Job |-> Phase(j)]
<1> DEFINE Goal == Durable!Next \/ UNCHANGED [j \in Job |-> Phase(j)]
<1>0. NoJob \notin Job /\ (wpc[w] \in InRound => held[w] \in Job)
      /\ (wpc[w] \notin InRound => held[w] = NoJob)
  BY QueueAssumption DEF QueueTypeOK
<1>1. ASSUME NEW k \in Job, Stamp(k) \/ Insert(k) \/ Enqueue(k) PROVE Goal
  <2>1. CASE status' = status /\ held' = held
    BY <2>1, SamePhase DEF Phase
  <2>2. CASE status[k] = "absent" /\ status' = [status EXCEPT ![k] = "queued"] /\ held' = held
    <3>1. \A j \in Job \ {k} : Phase(j)' = Phase(j)
      BY <2>2 DEF Phase, QueueTypeOK
    <3>2. Phase(k) = "absent" /\ Phase(k)' = "waiting"
      BY <2>2 DEF Phase, QueueTypeOK, Finished
    <3> QED
      BY <3>1, <3>2, MovePhase
  <2> QED
    BY <1>1, <2>1, <2>2 DEF Stamp, Insert, Enqueue
<1>2. CASE Claim(w)
  <2>1. PICK k \in Oldest :
          status' = [status EXCEPT ![k] = "running"] /\ held' = [held EXCEPT ![w] = k]
    BY <1>2 DEF Claim
  <2>2. k \in Job /\ status[k] = "queued" /\ held[w] = NoJob
    BY <1>0, <1>2 DEF Oldest, Claim, InRound
  <2>3. \A j \in Job \ {k} : Phase(j)' = Phase(j)
    BY <1>0, <2>1, <2>2 DEF Phase, QueueTypeOK
  <2>4. Phase(k) = "waiting" /\ Phase(k)' = "working"
    BY <2>1, <2>2 DEF Phase, QueueTypeOK, Finished
  <2> QED
    BY <2>2, <2>3, <2>4, MovePhase
<1>3. CASE Complete(w) \/ FailWrite(w)
  <2>1. PICK k \in Job : k = held[w] /\ status[k] = "running"
    BY <1>0, <1>3 DEF Complete, FailWrite, SoloInv, InRound
  <2>2. /\ held' = [held EXCEPT ![w] = NoJob]
        /\ \E to \in Finished \cup {"queued"} : status' = [status EXCEPT ![k] = to]
    BY <1>3, <2>1 DEF Complete, FailWrite, EndRound, QueueTypeOK, Finished
  <2>3. \A j \in Job \ {k} : Phase(j)' = Phase(j)
    BY <1>0, <2>1, <2>2 DEF Phase, QueueTypeOK
  <2>4. Phase(k) = "working" /\ Phase(k)' \in {"waiting", "done"}
    BY <2>1, <2>2 DEF Phase, QueueTypeOK, Finished
  <2> QED
    BY <2>1, <2>3, <2>4, MovePhase
<1>4. CASE Recover(w)
  <2>1. held' = held /\ held[w] = NoJob
    BY <1>0, <1>4 DEF Recover, InRound
  <2>2. \A j \in Job : status'[j] = IF status[j] = "running" THEN "queued" ELSE status[j]
    BY <1>4 DEF Recover
  <2>3. \A j \in Job : Phase(j)' = Phase(j)
    BY <1>0, <2>1, <2>2 DEF Phase, Finished
  <2> QED
    BY <2>3, SamePhase
<1>5. CASE \/ Start(w) \/ Handle(w) \/ CompleteRaises(w) \/ FailRead(w) \/ Leave(w)
           \/ Stop(w) \/ UNCHANGED queueVars
  <2>1. status' = status /\ held' = held
    BY <1>5 DEF Start, Handle, CompleteRaises, FailRead, Leave, Stop, queueVars
  <2> QED
    BY <2>1, SamePhase DEF Phase
<1>6. CASE Raises(w) \/ Crash(w)
  <2>1. status' = status /\ held' = [held EXCEPT ![w] = NoJob]
    BY <1>6 DEF Raises, Crash, Gone
  <2>2. CASE wpc[w] \notin InRound
    <3>1. \A j \in Job : Phase(j)' = Phase(j)
      BY <1>0, <2>1, <2>2 DEF Phase, QueueTypeOK
    <3> QED
      BY <3>1, SamePhase
  <2>3. CASE wpc[w] \in InRound
    <3>1. PICK k \in Job : k = held[w] /\ status[k] = "running"
      BY <1>0, <2>3 DEF SoloInv
    <3>2. \A j \in Job \ {k} : Phase(j)' = Phase(j)
      BY <1>0, <2>1, <3>1 DEF Phase, QueueTypeOK
    <3>3. Phase(k) = "working" /\ Phase(k)' = "waiting"
      BY <1>0, <2>1, <3>1 DEF Phase, QueueTypeOK, Finished
    <3> QED
      BY <3>1, <3>2, <3>3, MovePhase
  <2> QED
    BY <2>2, <2>3
<1> QED
  BY <1>1, <1>2, <1>3, <1>4, <1>5, <1>6 DEF QueueNext, WorkerStep

\* With one server the queue implements DurableQueue: whatever crashes, store
\* errors and restarts come in between, a job is lost by none and is done once.
THEOREM QueueIsDurable ==
  ASSUME NEW w, Worker = {w}, OneShot = {}
  PROVE  QueueSpec => DoneForGood
<1>1. QueueInit => QueueTypeOK /\ SoloInv(w) /\ Durable!Init
  BY InitType DEF QueueInit, SoloInv, InRound, Durable!Init, Phase, Finished
<1>2. QueueTypeOK /\ SoloInv(w) /\ [QueueNext]_queueVars => (QueueTypeOK /\ SoloInv(w))'
  BY StepType, SoloStep
<1>3. QueueTypeOK /\ SoloInv(w) /\ [QueueNext]_queueVars
        => Durable!Next \/ UNCHANGED [j \in Job |-> Phase(j)]
  BY SoloRefines
<1> QED
  BY <1>1, <1>2, <1>3, PTL DEF QueueSpec, DoneForGood, Durable!Spec
=============================================================================
