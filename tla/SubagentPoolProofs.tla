------------------------- MODULE SubagentPoolProofs -------------------------
(***************************************************************************)
(* Theorems about SubagentPool, for every number of ids, parents, callers, *)
(* operators, every limit and every event.                                 *)
(***************************************************************************)
EXTENDS SubagentPool, FiniteSetTheorems, TLAPS

-----------------------------------------------------------------------------
(* Type correctness *)

InCall == {"consent"} \cup Dispatching

\* A caller inside delegate, or a fill loop that picked an id, has an id; so
\* has an operator inside cancel.
Named ==
  /\ \A c \in Caller : cpc[c] \in InCall => cur[c] \in Sub
  /\ \A k \in Operator : kpc[k] # "idle" => target[k] \in Sub

\* A call under way leaves room for the step it will count.
StepRoom == \A s \in Sub : wpc[s] = "calling" => steps[s] < MaxSteps

TypeInv == TypeOK /\ Named /\ StepRoom

LEMMA InitType == Init => TypeInv
BY PoolAssumption DEF Init, TypeInv, Named, StepRoom, InCall, Dispatching, TypeOK, Status, Terminal,
   WorkerPc, OnThread, CallerPc

\* After Return the caller holds no id and the other callers are where they were.
LEMMA ReturnEffect ==
  ASSUME TypeOK, NEW c \in Caller, Return(c)
  PROVE  /\ cpc' \in [Caller -> CallerPc]
         /\ cur' \in [Caller -> Sub \cup {NoSub}]
         /\ cpc'[c] \notin InCall
         /\ \A d \in Caller \ {c} : cpc'[d] = cpc[d] /\ cur'[d] = cur[d]
<1>1. PICK to \in {"fill", "create"} : cpc' = [cpc EXCEPT ![c] = to]
  BY Zenon DEF Return, Call
<1>2. cur' = [cur EXCEPT ![c] = NoSub]
  BY DEF Return
<1> QED
  BY <1>1, <1>2 DEF TypeOK, CallerPc, InCall, Dispatching

LEMMA CallerType ==
  ASSUME TypeInv, NEW c \in Caller, StartBatch(c) \/ CallerStep(c) \/ CallerRaises(c)
  PROVE  TypeInv'
<1> USE PoolAssumption DEF TypeInv, Named, StepRoom, InCall, TypeOK, Status, Terminal, CallerPc,
        Dispatching, storeVars, poolVars, workerVars, callerVars, otherVars,
        WorkerPc, Call, Return, SetStatus, ParentOf
<1>1. CASE StartBatch(c)
  BY <1>1 DEF StartBatch
<1>2. CASE Create(c)
  BY <1>2 DEF Create
<1>3. CASE RecordConsent(c)
  BY <1>3 DEF RecordConsent
<1>4. CASE CheckSlot(c)
  <2>1. CASE CanDispatch(cur[c])
    BY <1>4, <2>1 DEF CheckSlot
  <2>2. CASE ~CanDispatch(cur[c])
    <3>1. Return(c)
      BY <1>4, <2>2 DEF CheckSlot
    <3> HIDE DEF Return
    <3> QED
      BY <1>4, <3>1, ReturnEffect DEF CheckSlot
  <2> QED
    BY <2>1, <2>2
<1>5. CASE DispatchRead(c)
  <2>1. CASE status[cur[c]] = "queued" /\ accepting
    BY <1>5, <2>1 DEF DispatchRead
  <2>2. CASE ~(status[cur[c]] = "queued" /\ accepting)
    <3>1. Return(c)
      BY <1>5, <2>2 DEF DispatchRead
    <3> HIDE DEF Return
    <3> QED
      BY <1>5, <3>1, ReturnEffect DEF DispatchRead
  <2> QED
    BY <2>1, <2>2
<1>6. CASE DispatchMark(c)
  BY <1>6 DEF DispatchMark
<1>7. CASE DispatchBegin(c)
  BY <1>7 DEF DispatchBegin, TakeSlot
<1>8. CASE DispatchSubmit(c)
  <2>1. CASE executorUp
    <3>1. Return(c) /\ wpc' = [wpc EXCEPT ![cur[c]] = "submitted"]
      BY <1>8, <2>1 DEF DispatchSubmit
    <3> HIDE DEF Return
    <3> QED
      BY <1>8, <3>1, ReturnEffect DEF DispatchSubmit
  <2>2. CASE ~executorUp
    BY <1>8, <2>2 DEF DispatchSubmit
  <2> QED
    BY <2>1, <2>2
<1>9. CASE RollbackPop(c)
  BY <1>9 DEF RollbackPop
<1>10. CASE RollbackDrop(c)
  BY <1>10 DEF RollbackDrop, DropSlot
<1>11. CASE RollbackUnmark(c)
  BY <1>11 DEF RollbackUnmark
<1>12. CASE FillPick(c)
  BY <1>12 DEF FillPick
<1>13. CASE FillEnds(c)
  BY <1>13 DEF FillEnds
<1>14. CASE CollectResults(c)
  BY <1>14 DEF CollectResults
<1>15. CASE CollectPending(c)
  BY <1>15 DEF CollectPending
<1>16. CASE CallerRaises(c)
  BY <1>16 DEF CallerRaises, AtStore
<1> QED
  BY <1>1, <1>2, <1>3, <1>4, <1>5, <1>6, <1>7, <1>8, <1>9, <1>10, <1>11, <1>12, <1>13, <1>14, <1>15, <1>16 DEF CallerStep

LEMMA WorkerType ==
  ASSUME TypeInv, NEW s \in Sub, WorkerStep(s)
  PROVE  TypeInv'
<1> USE PoolAssumption DEF TypeInv, Named, StepRoom, InCall, TypeOK, Status, Terminal, CallerPc,
        Dispatching, storeVars, poolVars, workerVars, callerVars, otherVars,
        WorkerPc, OnThread, WriteStage, Go, Leave, SetStatus, ParentOf
<1>1. CASE Pickup(s)
  BY <1>1 DEF Pickup
<1>2. CASE BeginRun(s)
  <2>1. Narrowed(s) \subseteq Tool
    BY DEF Narrowed
  <2>2. CASE Go(s, "ending") /\ UNCHANGED <<outcome, usable>>
    BY <1>2, <2>2 DEF BeginRun
  <2>3. CASE Leave(s, "cancelled", "except") /\ UNCHANGED usable
    BY <1>2, <2>3 DEF BeginRun
  <2>4. CASE usable' = [usable EXCEPT ![s] = Narrowed(s)] /\ Go(s, "boundary")
             /\ UNCHANGED outcome
    BY <1>2, <2>1, <2>4 DEF BeginRun
  <2> QED
    BY <1>2, <2>2, <2>3, <2>4 DEF BeginRun
<1>3. CASE LoopHead(s)
  <2>1. CASE \E o \in {"cancelled", "timed_out", "failed"} : Leave(s, o, "except")
    BY <1>3, <2>1 DEF LoopHead
  <2>2. CASE steps[s] < MaxSteps /\ Go(s, "calling") /\ UNCHANGED outcome
    BY <1>3, <2>2 DEF LoopHead
  <2> QED
    BY <1>3, <2>1, <2>2 DEF LoopHead
<1>4. CASE ProviderReplies(s)
  BY <1>4 DEF ProviderReplies
<1>5. CASE Act(s)
  <2>1. CASE \E o \in {"cancelled", "timed_out", "failed"} : Leave(s, o, "except")
    BY <1>5, <2>1 DEF Act
  <2>2. CASE Leave(s, "completed", "try")
    BY <1>5, <2>2 DEF Act
  <2>3. CASE Go(s, "boundary") /\ UNCHANGED outcome
    BY <1>5, <2>3 DEF Act
  <2>4. CASE Go(s, "tool") /\ UNCHANGED outcome
    BY <1>5, <2>4 DEF Act
  <2> QED
    BY <1>5, <2>1, <2>2, <2>3, <2>4 DEF Act
<1>6. CASE ToolReturns(s)
  BY <1>6 DEF ToolReturns
<1>7. CASE WriteOutcome(s)
  BY <1>7 DEF WriteOutcome
<1>8. CASE WriteFails(s)
  <2>1. CASE Leave(s, "failed", "except")
    BY <1>8, <2>1 DEF WriteFails
  <2>2. CASE Leave(s, "failed", "guard")
    BY <1>8, <2>2 DEF WriteFails
  <2>3. CASE Go(s, "ending") /\ UNCHANGED outcome
    BY <1>8, <2>3 DEF WriteFails
  <2> QED
    BY <1>8, <2>1, <2>2, <2>3 DEF WriteFails
<1>9. CASE PopSlot(s)
  BY <1>9 DEF PopSlot
<1>10. CASE ReleaseSlot(s)
  BY <1>10 DEF ReleaseSlot, DropSlot
<1> QED
  BY <1>1, <1>2, <1>3, <1>4, <1>5, <1>6, <1>7, <1>8, <1>9, <1>10 DEF WorkerStep

LEMMA OperatorType ==
  ASSUME TypeInv, NEW k \in Operator, OperatorStep(k)
  PROVE  TypeInv'
<1> USE PoolAssumption DEF TypeInv, Named, StepRoom, InCall, TypeOK, Status, Terminal, CallerPc,
        Dispatching, storeVars, poolVars, workerVars, callerVars, otherVars, SetStatus
<1>1. CASE CancelRead(k)
  <2>1. PICK t \in Sub, to \in {"flagQueued", "flagRunning"} :
          target' = [target EXCEPT ![k] = t] /\ kpc' = [kpc EXCEPT ![k] = to]
    BY <1>1 DEF CancelRead
  <2> QED
    BY <1>1, <2>1 DEF CancelRead
<1>2. CASE CancelFlag(k)
  BY <1>2 DEF CancelFlag
<1>3. CASE CancelWrite(k)
  BY <1>3 DEF CancelWrite
<1>4. CASE CancelRaises(k)
  BY <1>4 DEF CancelRaises
<1> QED
  BY <1>1, <1>2, <1>3, <1>4 DEF OperatorStep

LEMMA ProcessType ==
  ASSUME TypeInv, CloseStep \/ Restart \/ PeerStarts
  PROVE  TypeInv'
<1> USE PoolAssumption DEF TypeInv, Named, StepRoom, InCall, TypeOK, Status, Terminal, CallerPc,
        Dispatching, storeVars, poolVars, workerVars, callerVars, otherVars
<1>1. CASE CloseStep
  BY <1>1 DEF CloseStep, CloseBegins, CloseExecutor, CloseFlags, CloseReturns
<1>2. CASE Restart
  BY <1>2 DEF Restart, RecoverInterrupted, WorkerPc
<1>3. CASE PeerStarts
  BY <1>3 DEF PeerStarts, RecoverInterrupted
<1> QED
  BY <1>1, <1>2, <1>3

LEMMA StepType == TypeInv /\ [Next]_vars => TypeInv'
<1> SUFFICES ASSUME TypeInv, [Next]_vars PROVE TypeInv'
  OBVIOUS
<1>1. CASE Next
  BY <1>1, CallerType, WorkerType, OperatorType, ProcessType DEF Next
<1>2. CASE UNCHANGED vars
  BY <1>2 DEF vars, storeVars, poolVars, workerVars, callerVars, otherVars,
     TypeInv, Named, StepRoom, TypeOK
<1> QED
  BY <1>1, <1>2

\* Every variable stays in its type: in particular no worker ever makes more
\* provider calls than its step cap.
THEOREM TypeCorrect == Spec => []TypeOK
<1>1. TypeInv => TypeOK
  BY DEF TypeInv
<1> QED
  BY <1>1, InitType, StepType, PTL DEF Spec
-----------------------------------------------------------------------------
(* Who owns an id *)

\* Ids still to be created do not exist and belong to one caller; every other
\* id of a batch exists.
BatchOwned ==
  /\ \A c \in Caller : todo[c] \subseteq batch[c]
  /\ \A c \in Caller : \A s \in todo[c] : status[s] = "absent"
  /\ \A c \in Caller : \A s \in batch[c] : s \in todo[c] \/ status[s] # "absent"
  /\ \A c, d \in Caller : c # d => batch[c] \cap batch[d] = {}
  /\ \A c, d \in Caller : c # d => todo[c] \cap todo[d] = {}

\* A caller works on an id of its own batch that has no worker yet, and that is
\* not queued once it is marked.
CallOwned ==
  \A c \in Caller :
    /\ cpc[c] \in InCall =>
         cur[c] \in batch[c] /\ status[cur[c]] # "absent" /\ wpc[cur[c]] = "none"
    /\ cpc[c] \in {"begin", "submit", "popBack", "dropBack", "unmark"} =>
         status[cur[c]] # "queued"

\* An id that is not created, or queued, has no worker; a cancelled id exists.
QueuedIdle ==
  /\ \A s \in Sub : status[s] \in {"absent", "queued"} => wpc[s] = "none"
  /\ \A k \in Operator : kpc[k] # "idle" => status[target[k]] # "absent"

OwnInv == BatchOwned /\ CallOwned /\ QueuedIdle

LEMMA InitOwn == Init => OwnInv
BY DEF Init, OwnInv, BatchOwned, CallOwned, QueuedIdle, InCall, Dispatching

LEMMA CallerOwn ==
  ASSUME TypeInv, OwnInv, NEW c \in Caller, StartBatch(c) \/ CallerStep(c) \/ CallerRaises(c)
  PROVE  OwnInv'
<1> USE DEF OwnInv, BatchOwned, CallOwned, QueuedIdle, TypeInv, Named, InCall, Dispatching,
        TypeOK, storeVars, poolVars, workerVars, callerVars, otherVars, Call, SetStatus
<1>1. CASE StartBatch(c)
  BY <1>1 DEF StartBatch
<1>2. CASE Create(c)
  <2>1. PICK s \in todo[c] : /\ status' = [status EXCEPT ![s] = "queued"]
                            /\ todo' = [todo EXCEPT ![c] = @ \ {s}]
                            /\ cur' = [cur EXCEPT ![c] = s]
    BY <1>2 DEF Create
  <2>2. s \in batch[c] /\ wpc[s] = "none" /\ status[s] = "absent"
    BY <1>2
  <2>3. BatchOwned'
    BY <1>2, <2>1, <2>2 DEF Create
  <2>4. CallOwned'
    BY <1>2, <2>1, <2>2 DEF Create
  <2>5. QueuedIdle'
    BY <1>2, <2>1, <2>2 DEF Create
  <2> QED
    BY <2>3, <2>4, <2>5
<1>3. CASE RecordConsent(c)
  BY <1>3 DEF RecordConsent
<1>4. CASE CheckSlot(c)
  BY <1>4, ReturnEffect DEF CheckSlot
<1>5. CASE DispatchRead(c)
  BY <1>5, ReturnEffect DEF DispatchRead
<1>6. CASE DispatchMark(c)
  BY <1>6 DEF DispatchMark
<1>7. CASE DispatchBegin(c)
  BY <1>7 DEF DispatchBegin
<1>8. CASE DispatchSubmit(c)
  <2>1. CASE executorUp
    <3>1. Return(c) /\ wpc' = [wpc EXCEPT ![cur[c]] = "submitted"]
      BY <1>8, <2>1 DEF DispatchSubmit
    <3> QED
      BY <1>8, <3>1, ReturnEffect DEF DispatchSubmit
  <2>2. CASE ~executorUp
    BY <1>8, <2>2 DEF DispatchSubmit
  <2> QED
    BY <2>1, <2>2
<1>9. CASE RollbackPop(c)
  BY <1>9 DEF RollbackPop
<1>10. CASE RollbackDrop(c)
  BY <1>10 DEF RollbackDrop
<1>11. CASE RollbackUnmark(c)
  BY <1>11, ReturnEffect DEF RollbackUnmark
<1>12. CASE FillPick(c)
  BY <1>12 DEF FillPick
<1>13. CASE FillEnds(c)
  BY <1>13 DEF FillEnds
<1>14. CASE CollectResults(c)
  BY <1>14 DEF CollectResults
<1>15. CASE CollectPending(c)
  BY <1>15 DEF CollectPending
<1>16. CASE CallerRaises(c)
  BY <1>16 DEF CallerRaises, AtStore
<1> QED
  BY <1>1, <1>2, <1>3, <1>4, <1>5, <1>6, <1>7, <1>8, <1>9, <1>10, <1>11, <1>12,
     <1>13, <1>14, <1>15, <1>16 DEF CallerStep

LEMMA WorkerOwn ==
  ASSUME TypeInv, OwnInv, NEW s \in Sub, WorkerStep(s)
  PROVE  OwnInv'
<1> USE DEF OwnInv, BatchOwned, CallOwned, QueuedIdle, TypeInv, Named, InCall, Dispatching,
        TypeOK, Status, Terminal, storeVars, poolVars, workerVars, callerVars, otherVars,
        WorkerPc, OnThread, WriteStage, Go, Leave, SetStatus
<1>1. wpc[s] # "none"
  BY DEF WorkerStep, Pickup, BeginRun, LoopHead, ProviderReplies, Act, ToolReturns,
         WriteOutcome, WriteFails, PopSlot, ReleaseSlot
<1>2. CASE WriteOutcome(s)
  BY <1>1, <1>2 DEF WriteOutcome
<1>3. CASE ~WriteOutcome(s)
  <2>1. /\ UNCHANGED <<status, batch, todo, cur, cpc, kpc, target>>
        /\ \A t \in Sub \ {s} : wpc'[t] = wpc[t]
    BY <1>3 DEF WorkerStep, Pickup, BeginRun, LoopHead, ProviderReplies, Act, ToolReturns,
         WriteFails, PopSlot, ReleaseSlot
  <2> QED
    BY <1>1, <2>1
<1> QED
  BY <1>2, <1>3

LEMMA OtherOwn ==
  ASSUME TypeInv, OwnInv,
         \/ \E k \in Operator : OperatorStep(k)
         \/ CloseStep \/ Restart \/ PeerStarts
  PROVE  OwnInv'
<1> USE DEF OwnInv, BatchOwned, CallOwned, QueuedIdle, TypeInv, Named, InCall, Dispatching,
        TypeOK, storeVars, poolVars, workerVars, callerVars, otherVars, SetStatus
<1>1. ASSUME NEW k \in Operator, CancelRead(k) PROVE OwnInv'
  BY <1>1 DEF CancelRead
<1>2. ASSUME NEW k \in Operator, CancelFlag(k) PROVE OwnInv'
  BY <1>2 DEF CancelFlag
<1>3. ASSUME NEW k \in Operator, CancelWrite(k) \/ CancelRaises(k) PROVE OwnInv'
  BY <1>3 DEF CancelWrite, CancelRaises
<1>4. CASE CloseStep
  BY <1>4 DEF CloseStep, CloseBegins, CloseExecutor, CloseFlags, CloseReturns
<1>5. CASE Restart
  BY <1>5 DEF Restart, RecoverInterrupted
<1>6. CASE PeerStarts
  BY <1>6 DEF PeerStarts, RecoverInterrupted
<1> QED
  BY <1>1, <1>2, <1>3, <1>4, <1>5, <1>6 DEF OperatorStep

LEMMA StepOwn == TypeInv /\ OwnInv /\ [Next]_vars => OwnInv'
<1> SUFFICES ASSUME TypeInv, OwnInv, [Next]_vars PROVE OwnInv'
  OBVIOUS
<1>1. CASE Next
  BY <1>1, CallerOwn, WorkerOwn, OtherOwn DEF Next
<1>2. CASE UNCHANGED vars
  BY <1>2 DEF vars, storeVars, poolVars, workerVars, callerVars, otherVars,
     OwnInv, BatchOwned, CallOwned, QueuedIdle
<1> QED
  BY <1>1, <1>2
-----------------------------------------------------------------------------
(* The slots *)

Held == {s \in Sub : HeldByCaller(s) \/ HeldByWorker(s)}

\* An id is a key of _active from _begin to the pop of _end.
ActiveExact ==
  active = {s \in Sub :
              \/ \E c \in Caller : cur[c] = s /\ cpc[c] \in {"submit", "popBack"}
              \/ HeldByWorker(s) /\ wpc[s] # "releasing"}

LEMMA ChargedType ==
  ASSUME NEW p \in Parent
  PROVE  IsFiniteSet(Charged(p)) /\ Cardinality(Charged(p)) \in Nat
<1>1. Charged(p) \in SUBSET Sub
  BY DEF Charged
<1> QED
  BY <1>1, PoolAssumption, FS_Subset, FS_CardinalityType

LEMMA ChargedOfHeld == \A p \in Parent : Charged(p) = {s \in Held : ParentOf(s) = p}
BY DEF Charged, Held

LEMMA KeepAccount ==
  ASSUME SlotsAccounted, Held' = Held, UNCHANGED <<request, perParent>>
  PROVE  SlotsAccounted'
<1>1. \A p \in Parent : Charged(p)' = Charged(p)
  BY DEF Charged, Held, ParentOf
<1> QED
  BY <1>1 DEF SlotsAccounted

LEMMA GainAccount ==
  ASSUME TypeOK, SlotsAccounted, NEW s \in Sub, s \notin Held, Held' = Held \cup {s},
         perParent' = [perParent EXCEPT ![ParentOf(s)] = @ + 1], UNCHANGED request
  PROVE  SlotsAccounted'
<1> SUFFICES ASSUME NEW p \in Parent
             PROVE  perParent'[p] = Cardinality(Charged(p)')
  BY DEF SlotsAccounted
<1>1. ParentOf(s) \in Parent
  BY PoolAssumption DEF TypeOK, ParentOf
<1>2. CASE p = ParentOf(s)
  <2>1. Charged(p)' = Charged(p) \cup {s} /\ s \notin Charged(p)
    BY <1>2 DEF Charged, Held, ParentOf
  <2>2. Cardinality(Charged(p)') = Cardinality(Charged(p)) + 1
    BY <2>1, ChargedType, FS_AddElement
  <2> QED
    BY <1>1, <1>2, <2>2 DEF SlotsAccounted, TypeOK
<1>3. CASE p # ParentOf(s)
  <2>1. Charged(p)' = Charged(p)
    BY <1>3 DEF Charged, Held, ParentOf
  <2> QED
    BY <1>3, <2>1 DEF SlotsAccounted, TypeOK
<1> QED
  BY <1>2, <1>3

LEMMA LoseAccount ==
  ASSUME TypeOK, SlotsAccounted, NEW s \in Held, Held' = Held \ {s},
         DropSlot(s), UNCHANGED request
  PROVE  SlotsAccounted'
<1> SUFFICES ASSUME NEW p \in Parent
             PROVE  perParent'[p] = Cardinality(Charged(p)')
  BY DEF SlotsAccounted
<1>1. s \in Sub /\ ParentOf(s) \in Parent
  BY PoolAssumption DEF TypeOK, ParentOf, Held
<1>2. CASE p = ParentOf(s)
  <2>1. Charged(p)' = Charged(p) \ {s} /\ s \in Charged(p)
    BY <1>1, <1>2 DEF Charged, Held, ParentOf
  <2>2. Cardinality(Charged(p)') = Cardinality(Charged(p)) - 1
    BY <2>1, ChargedType, FS_RemoveElement
  <2>3. Cardinality(Charged(p)) # 0
    BY <2>1, ChargedType, FS_EmptySet
  <2>4. perParent[p] = Cardinality(Charged(p)) /\ perParent[p] \in Nat
    BY DEF SlotsAccounted, TypeOK
  <2>5. perParent'[p] = perParent[p] - 1
    BY <1>1, <1>2, <2>3, <2>4 DEF DropSlot, TypeOK
  <2> QED
    BY <2>2, <2>4, <2>5
<1>3. CASE p # ParentOf(s)
  <2>1. Charged(p)' = Charged(p)
    BY <1>3 DEF Charged, Held, ParentOf
  <2> QED
    BY <1>3, <2>1 DEF SlotsAccounted, TypeOK, DropSlot
<1> QED
  BY <1>2, <1>3

CallerHolds == {"submit", "popBack", "dropBack"}

\* A step of a caller between two stages in which it holds no slot.
LEMMA CallerKeeps ==
  ASSUME NEW c \in Caller, ActiveExact, SlotsAccounted,
         cpc[c] \notin CallerHolds, cpc'[c] \notin CallerHolds,
         \A d \in Caller \ {c} : cpc'[d] = cpc[d] /\ cur'[d] = cur[d],
         UNCHANGED <<wpc, active, perParent, request>>
  PROVE  ActiveExact' /\ SlotsAccounted'
<1>1. \A s \in Sub :
        /\ HeldByCaller(s)' <=> HeldByCaller(s)
        /\ (\E d \in Caller : cur[d] = s /\ cpc[d] \in {"submit", "popBack"})'
             <=> (\E d \in Caller : cur[d] = s /\ cpc[d] \in {"submit", "popBack"})
        /\ HeldByWorker(s)' <=> HeldByWorker(s)
  BY DEF HeldByCaller, HeldByWorker, CallerHolds
<1>2. Held' = Held
  BY <1>1 DEF Held
<1>3. ActiveExact'
  BY <1>1 DEF ActiveExact
<1> QED
  BY <1>2, <1>3, KeepAccount

\* The id a caller is dispatching is held by no other caller and by no worker.
LEMMA OnlyHolder ==
  ASSUME TypeInv, OwnInv, NEW c \in Caller, cpc[c] \in InCall
  PROVE  /\ cur[c] \in Sub
         /\ ~HeldByWorker(cur[c])
         /\ \A d \in Caller \ {c} : cpc[d] \in InCall => cur[d] # cur[c]
BY DEF TypeInv, Named, OwnInv, CallOwned, BatchOwned, HeldByWorker, OnThread, WriteStage

LEMMA CallerSlots ==
  ASSUME TypeInv, OwnInv, ActiveExact, SlotsAccounted,
         NEW c \in Caller, StartBatch(c) \/ CallerStep(c) \/ CallerRaises(c)
  PROVE  ActiveExact' /\ SlotsAccounted'
<1> USE DEF TypeInv, TypeOK, InCall, Dispatching, CallerHolds,
        storeVars, poolVars, workerVars, callerVars, otherVars
<1>1. CASE DispatchBegin(c)
  <2> DEFINE s == cur[c]
  <2>1. s \in Sub /\ ~HeldByWorker(s) /\ s \notin Held
    BY <1>1, OnlyHolder DEF DispatchBegin, Held, HeldByCaller
  <2>2. \A t \in Sub : /\ HeldByCaller(t)' <=> HeldByCaller(t) \/ t = s
                       /\ HeldByWorker(t)' <=> HeldByWorker(t)
    BY <1>1 DEF DispatchBegin, Call, HeldByCaller, HeldByWorker
  <2>3. Held' = Held \cup {s}
    BY <2>1, <2>2 DEF Held
  <2>4. SlotsAccounted'
    BY <1>1, <2>1, <2>3, GainAccount DEF DispatchBegin, TakeSlot
  <2>5. \A t \in Sub :
          (\E d \in Caller : cur[d] = t /\ cpc[d] \in {"submit", "popBack"})'
            <=> (\E d \in Caller : cur[d] = t /\ cpc[d] \in {"submit", "popBack"}) \/ t = s
    BY <1>1 DEF DispatchBegin, Call
  <2>6. ActiveExact'
    BY <1>1, <2>1, <2>2, <2>5 DEF ActiveExact, DispatchBegin, TakeSlot, HeldByWorker
  <2> QED
    BY <2>4, <2>6
<1>2. CASE DispatchSubmit(c) /\ executorUp
  <2> DEFINE s == cur[c]
  <2>1. Return(c) /\ wpc' = [wpc EXCEPT ![s] = "submitted"] /\ cpc[c] = "submit"
        /\ UNCHANGED <<active, perParent, request>>
    BY <1>2 DEF DispatchSubmit
  <2>2. s \in Sub /\ \A d \in Caller \ {c} : cpc[d] \in InCall => cur[d] # s
    BY <2>1, OnlyHolder
  <2>3. cpc'[c] \notin CallerHolds /\ \A d \in Caller \ {c} : cpc'[d] = cpc[d] /\ cur'[d] = cur[d]
    BY <2>1, ReturnEffect
  <2>4. \A t \in Sub : /\ HeldByCaller(t)' <=> HeldByCaller(t) /\ t # s
                       /\ HeldByWorker(t)' <=> HeldByWorker(t) \/ t = s
    BY <2>1, <2>2, <2>3 DEF HeldByCaller, HeldByWorker
  <2>5. HeldByCaller(s)
    BY <2>1 DEF HeldByCaller
  <2>6. Held' = Held
    BY <2>2, <2>4, <2>5 DEF Held
  <2>7. ActiveExact'
    BY <2>1, <2>2, <2>3, <2>4 DEF ActiveExact
  <2> QED
    BY <2>1, <2>6, <2>7, KeepAccount
<1>3. CASE DispatchSubmit(c) /\ ~executorUp
  <2>1. cpc[c] = "submit" /\ cpc' = [cpc EXCEPT ![c] = "popBack"]
        /\ UNCHANGED <<cur, wpc, active, perParent, request>>
    BY <1>3 DEF DispatchSubmit, Call
  <2>2. \A t \in Sub : /\ HeldByCaller(t)' <=> HeldByCaller(t)
                       /\ HeldByWorker(t)' <=> HeldByWorker(t)
    BY <2>1 DEF HeldByCaller, HeldByWorker
  <2>3. Held' = Held
    BY <2>2 DEF Held
  <2>4. ActiveExact'
    BY <2>1, <2>2 DEF ActiveExact
  <2> QED
    BY <2>1, <2>3, <2>4, KeepAccount
<1>4. CASE RollbackPop(c)
  <2> DEFINE s == cur[c]
  <2>1. cpc[c] = "popBack" /\ cpc' = [cpc EXCEPT ![c] = "dropBack"] /\ active' = active \ {s}
        /\ UNCHANGED <<cur, wpc, perParent, request>>
    BY <1>4 DEF RollbackPop, Call
  <2>2. s \in Sub /\ ~HeldByWorker(s) /\ \A d \in Caller \ {c} : cpc[d] \in InCall => cur[d] # s
    BY <2>1, OnlyHolder
  <2>3. \A t \in Sub : /\ HeldByCaller(t)' <=> HeldByCaller(t)
                       /\ HeldByWorker(t)' <=> HeldByWorker(t)
    BY <2>1 DEF HeldByCaller, HeldByWorker
  <2>4. Held' = Held
    BY <2>3 DEF Held
  <2>5. ActiveExact'
    BY <2>1, <2>2, <2>3 DEF ActiveExact
  <2> QED
    BY <2>1, <2>4, <2>5, KeepAccount
<1>5. CASE RollbackDrop(c)
  <2> DEFINE s == cur[c]
  <2>1. cpc[c] = "dropBack" /\ cpc' = [cpc EXCEPT ![c] = "unmark"] /\ DropSlot(s)
        /\ UNCHANGED <<cur, wpc, active, request>>
    BY <1>5 DEF RollbackDrop, Call
  <2>2. s \in Sub /\ ~HeldByWorker(s) /\ \A d \in Caller \ {c} : cpc[d] \in InCall => cur[d] # s
    BY <2>1, OnlyHolder
  <2>3. \A t \in Sub : /\ HeldByCaller(t)' <=> HeldByCaller(t) /\ t # s
                       /\ HeldByWorker(t)' <=> HeldByWorker(t)
    BY <2>1, <2>2 DEF HeldByCaller, HeldByWorker
  <2>4. s \in Held /\ Held' = Held \ {s}
    BY <2>1, <2>2, <2>3 DEF Held, HeldByCaller
  <2>5. ActiveExact'
    BY <2>1, <2>2, <2>3 DEF ActiveExact
  <2> QED
    BY <2>1, <2>4, <2>5, LoseAccount
<1>6. CASE CheckSlot(c) \/ DispatchRead(c) \/ RollbackUnmark(c)
  <2>1. CASE Return(c)
    BY <1>6, <2>1, ReturnEffect, CallerKeeps DEF CheckSlot, DispatchRead, RollbackUnmark, SetStatus
  <2>2. CASE ~Return(c)
    BY <1>6, <2>2, CallerKeeps DEF CheckSlot, DispatchRead, RollbackUnmark, Call
  <2> QED
    BY <2>1, <2>2
<1>7. CASE StartBatch(c) \/ Create(c) \/ RecordConsent(c) \/ DispatchMark(c) \/ FillPick(c)
           \/ FillEnds(c) \/ CollectResults(c) \/ CollectPending(c) \/ CallerRaises(c)
  <2>1. /\ cpc[c] \notin CallerHolds /\ cpc'[c] \notin CallerHolds
        /\ \A d \in Caller \ {c} : cpc'[d] = cpc[d] /\ cur'[d] = cur[d]
        /\ UNCHANGED <<wpc, active, perParent, request>>
    BY <1>7 DEF StartBatch, Create, RecordConsent, DispatchMark, FillPick, FillEnds,
       CollectResults, CollectPending, CallerRaises, AtStore, Call, SetStatus
  <2> QED
    BY <2>1, CallerKeeps
<1> QED
  BY <1>1, <1>2, <1>3, <1>4, <1>5, <1>6, <1>7 DEF CallerStep

LEMMA WorkerSlots ==
  ASSUME TypeInv, OwnInv, ActiveExact, SlotsAccounted, NEW s \in Sub, WorkerStep(s)
  PROVE  ActiveExact' /\ SlotsAccounted'
<1> USE DEF TypeInv, TypeOK, OnThread, WriteStage, Go, Leave, SetStatus,
        storeVars, poolVars, workerVars, callerVars, otherVars
<1>1. HeldByWorker(s) /\ UNCHANGED <<cpc, cur, request>>
  BY DEF WorkerStep, Pickup, BeginRun, LoopHead, ProviderReplies, Act, ToolReturns,
         WriteOutcome, WriteFails, PopSlot, ReleaseSlot, HeldByWorker
<1>2. \A d \in Caller : cpc[d] \in InCall => cur[d] # s
  BY <1>1 DEF OwnInv, CallOwned, HeldByWorker
<1>3. \A t \in Sub : HeldByCaller(t)' <=> HeldByCaller(t)
  BY <1>1 DEF HeldByCaller
<1>4. CASE ReleaseSlot(s)
  <2>1. wpc[s] = "releasing" /\ wpc' = [wpc EXCEPT ![s] = "done"] /\ DropSlot(s) /\ UNCHANGED active
    BY <1>4 DEF ReleaseSlot
  <2>2. ~HeldByCaller(s)
    BY <1>2 DEF HeldByCaller, InCall, Dispatching
  <2>3. \A t \in Sub : HeldByWorker(t)' <=> HeldByWorker(t) /\ t # s
    BY <2>1 DEF HeldByWorker
  <2>4. s \in Held /\ Held' = Held \ {s}
    BY <1>1, <1>3, <2>2, <2>3 DEF Held
  <2>5. ActiveExact'
    BY <1>1, <2>1, <2>3 DEF ActiveExact
  <2> QED
    BY <1>1, <2>1, <2>4, <2>5, LoseAccount
<1>5. CASE PopSlot(s)
  <2>1. s \in active
    BY <1>1, <1>5 DEF ActiveExact, PopSlot
  <2>2. wpc' = [wpc EXCEPT ![s] = "releasing"] /\ active' = active \ {s} /\ UNCHANGED perParent
    BY <1>5, <2>1 DEF PopSlot
  <2>3. \A t \in Sub : HeldByWorker(t)' <=> HeldByWorker(t)
    BY <1>1, <2>2 DEF HeldByWorker
  <2>4. Held' = Held
    BY <1>3, <2>3 DEF Held
  <2>5. ~\E d \in Caller : cur[d] = s /\ cpc[d] \in {"submit", "popBack"}
    BY <1>2 DEF InCall, Dispatching
  <2>6. ActiveExact'
    BY <1>1, <2>2, <2>3, <2>5 DEF ActiveExact
  <2> QED
    BY <1>1, <2>2, <2>4, <2>6, KeepAccount
<1>6. CASE ~ReleaseSlot(s) /\ ~PopSlot(s)
  <2>1. /\ UNCHANGED <<active, perParent>>
        /\ wpc[s] # "releasing" /\ wpc'[s] # "releasing" /\ HeldByWorker(s)'
        /\ \A t \in Sub \ {s} : wpc'[t] = wpc[t]
    BY <1>6 DEF WorkerStep, Pickup, BeginRun, LoopHead, ProviderReplies, Act, ToolReturns,
         WriteOutcome, WriteFails, HeldByWorker
  <2>2. \A t \in Sub : HeldByWorker(t)' <=> HeldByWorker(t)
    BY <1>1, <2>1 DEF HeldByWorker
  <2>3. Held' = Held
    BY <1>3, <2>2 DEF Held
  <2>4. ActiveExact'
    BY <1>1, <2>1, <2>2 DEF ActiveExact
  <2> QED
    BY <1>1, <2>1, <2>3, <2>4, KeepAccount
<1> QED
  BY <1>4, <1>5, <1>6

LEMMA OtherSlots ==
  ASSUME TypeInv, ActiveExact, SlotsAccounted,
         \/ \E k \in Operator : OperatorStep(k)
         \/ CloseStep \/ Restart \/ PeerStarts \/ UNCHANGED vars
  PROVE  ActiveExact' /\ SlotsAccounted'
<1> USE DEF storeVars, poolVars, workerVars, callerVars, otherVars
<1>1. CASE Restart
  <2>1. Held' = {}
    BY <1>1 DEF Restart, Held, HeldByCaller, HeldByWorker, OnThread, WriteStage
  <2>2. \A p \in Parent : Charged(p)' = {}
    BY <2>1 DEF Charged, Held
  <2>3. SlotsAccounted'
    BY <1>1, <2>2, FS_EmptySet DEF SlotsAccounted, Restart
  <2>4. ActiveExact'
    BY <1>1 DEF Restart, ActiveExact, HeldByWorker, OnThread, WriteStage
  <2> QED
    BY <2>3, <2>4
<1>2. CASE ~Restart
  <2>1. UNCHANGED <<cpc, cur, wpc, active, perParent, request>>
    BY <1>2 DEF OperatorStep, CancelRead, CancelFlag, CancelWrite, CancelRaises, CloseStep, CloseBegins,
       CloseExecutor, CloseFlags, CloseReturns, PeerStarts, SetStatus, vars
  <2>2. Held' = Held
    BY <2>1 DEF Held, HeldByCaller, HeldByWorker
  <2>3. ActiveExact'
    BY <2>1 DEF ActiveExact, HeldByWorker
  <2> QED
    BY <2>1, <2>2, <2>3, KeepAccount
<1> QED
  BY <1>1, <1>2

LEMMA InitSlots == Init => ActiveExact /\ SlotsAccounted
<1> SUFFICES ASSUME Init PROVE ActiveExact /\ SlotsAccounted
  OBVIOUS
<1>1. \A s \in Sub : ~HeldByCaller(s) /\ ~HeldByWorker(s)
  BY DEF Init, HeldByCaller, HeldByWorker, OnThread, WriteStage
<1>2. \A p \in Parent : Charged(p) = {}
  BY <1>1 DEF Charged
<1>3. SlotsAccounted
  BY <1>2, FS_EmptySet DEF SlotsAccounted, Init
<1>4. ActiveExact
  BY <1>1 DEF ActiveExact, Init
<1> QED
  BY <1>3, <1>4

SlotInv == TypeInv /\ OwnInv /\ ActiveExact /\ SlotsAccounted

LEMMA StepSlots == SlotInv /\ [Next]_vars => SlotInv'
<1> SUFFICES ASSUME SlotInv, [Next]_vars PROVE ActiveExact' /\ SlotsAccounted'
  BY StepType, StepOwn DEF SlotInv
<1> QED
  BY CallerSlots, WorkerSlots, OtherSlots DEF SlotInv, Next

\* No slot is leaked and none is freed twice: each parent's counter is the
\* number of its ids that a caller or a worker holds, through rejected submits,
\* cancels, shutdown, a failing store, restarts and second processes.
THEOREM SlotsAreAccounted == Spec => []SlotsAccounted
<1>1. Init => SlotInv
  BY InitType, InitOwn, InitSlots DEF SlotInv
<1>2. SlotInv => SlotsAccounted
  BY DEF SlotInv
<1> QED
  BY <1>1, <1>2, StepSlots, PTL DEF Spec

\* A pool that takes work refuses an id only while as many ids as the limit that
\* refuses it are held by workers, or by callers in the middle of a dispatch.
RefusalIsBusy ==
  accepting => \A s \in Sub :
    \/ CanDispatch(s)
    \/ Cardinality(Held) >= GlobalLimit
    \/ Cardinality(Charged(ParentOf(s))) >= PerParentLimit

\* can_dispatch never refuses for slots nobody holds: whatever failures, cancels
\* and rejected submits came before, a fill loop of run_many that finds no slot
\* has as many holders to wait for as the limit admits.
THEOREM FullMeansBusy == Spec => []RefusalIsBusy
<1>1. Init => SlotInv
  BY InitType, InitOwn, InitSlots DEF SlotInv
<1>2. SlotInv => RefusalIsBusy
  <2> SUFFICES ASSUME SlotInv, accepting, NEW s \in Sub, ~CanDispatch(s)
               PROVE  \/ Cardinality(Held) >= GlobalLimit
                      \/ Cardinality(Charged(ParentOf(s))) >= PerParentLimit
    BY DEF RefusalIsBusy
  <2>1. ParentOf(s) \in Parent
    BY PoolAssumption DEF SlotInv, TypeInv, TypeOK, ParentOf
  <2>2. active \subseteq Held /\ Held \subseteq Sub
    BY DEF SlotInv, ActiveExact, Held, HeldByCaller
  <2>3. /\ Cardinality(active) <= Cardinality(Held)
        /\ Cardinality(active) \in Nat /\ Cardinality(Held) \in Nat
    BY <2>2, PoolAssumption, FS_Subset, FS_CardinalityType
  <2>4. /\ perParent[ParentOf(s)] = Cardinality(Charged(ParentOf(s)))
        /\ Cardinality(Charged(ParentOf(s))) \in Nat
    BY <2>1, ChargedType DEF SlotInv, SlotsAccounted
  <2> QED
    BY <2>3, <2>4, PoolAssumption DEF CanDispatch
<1> QED
  BY <1>1, <1>2, StepSlots, PTL DEF Spec
-----------------------------------------------------------------------------
(* Handed over once *)

\* No id is handed to the executor a second time, whatever rollbacks, cancels,
\* second processes and restarts come in between: a caller that dispatches has
\* an id without a worker (CallOwned).
THEOREM NeverTwice == Spec => NeverRunTwice
<1> DEFINE Once == \A s \in Sub : wpc'[s] = "submitted" => wpc[s] \in {"none", "submitted"}
<1>1. Init => SlotInv
  BY InitType, InitOwn, InitSlots DEF SlotInv
<1>2. SlotInv /\ [Next]_vars => [Once]_vars
  <2> SUFFICES ASSUME SlotInv, Next PROVE Once
    OBVIOUS
  <2> USE DEF SlotInv, TypeInv, TypeOK, storeVars, poolVars, workerVars, callerVars, otherVars
  <2>1. ASSUME NEW c \in Caller, DispatchSubmit(c) PROVE Once
    BY <2>1 DEF DispatchSubmit, OwnInv, CallOwned, InCall, Dispatching
  <2>2. ASSUME NEW c \in Caller, StartBatch(c) \/ CallerStep(c) \/ CallerRaises(c), ~DispatchSubmit(c) PROVE Once
    BY <2>2 DEF StartBatch, CallerStep, Create, RecordConsent, CheckSlot, DispatchRead, DispatchMark,
       DispatchBegin, RollbackPop, RollbackDrop, RollbackUnmark, FillPick, FillEnds,
       CollectResults, CollectPending, CallerRaises
  <2>3. ASSUME NEW s \in Sub, WorkerStep(s) PROVE Once
    BY <2>3 DEF WorkerStep, Pickup, BeginRun, LoopHead, ProviderReplies, Act, ToolReturns,
       WriteOutcome, WriteFails, PopSlot, ReleaseSlot, Go, Leave
  <2>4. ASSUME NEW k \in Operator, OperatorStep(k) PROVE Once
    BY <2>4 DEF OperatorStep, CancelRead, CancelFlag, CancelWrite, CancelRaises
  <2>5. CASE CloseStep \/ PeerStarts
    BY <2>5 DEF CloseStep, CloseBegins, CloseExecutor, CloseFlags, CloseReturns, PeerStarts
  <2>6. CASE Restart
    BY <2>6 DEF Restart
  <2> QED
    BY <2>1, <2>2, <2>3, <2>4, <2>5, <2>6 DEF Next
<1> QED
  BY <1>1, <1>2, StepSlots, PTL DEF Spec, NeverRunTwice
-----------------------------------------------------------------------------
(* What a caller is told *)

\* A caller that has left the fill loop has created all its ids; what it has
\* collected is of its batch, and whatever its two scans passed over had ended.
ReportInv ==
  \A c \in Caller :
    /\ cpc[c] \in {"fill", "results", "pending", "idle"} => todo[c] = {}
    /\ cpc[c] \notin {"pending", "idle"} => results[c] = {}
    /\ cpc[c] # "idle" => pending[c] = {}
    /\ results[c] \subseteq batch[c]

\* The status of an id that has ended changes back only under a caller that is
\* dispatching it.
LEMMA EndedStays ==
  ASSUME TypeInv, OwnInv, [Next]_vars, NEW s \in Sub, status[s] \in Terminal,
         \A c \in Caller : cpc[c] \in InCall => cur[c] # s
  PROVE  status'[s] \in Terminal
<1> USE DEF TypeInv, TypeOK, Terminal, InCall, Dispatching, SetStatus,
        storeVars, poolVars, workerVars, callerVars, otherVars
<1>1. ASSUME NEW c \in Caller, StartBatch(c) \/ CallerStep(c) \/ CallerRaises(c) PROVE status'[s] \in Terminal
  <2>1. CASE Create(c)
    <3>1. PICK t \in todo[c] : status' = [status EXCEPT ![t] = "queued"]
      BY <2>1 DEF Create
    <3>2. status[t] = "absent"
      BY <3>1 DEF OwnInv, BatchOwned
    <3> QED
      BY <3>1, <3>2
  <2>2. CASE DispatchMark(c)
    BY <2>2 DEF DispatchMark
  <2>3. CASE RollbackUnmark(c)
    BY <2>3 DEF RollbackUnmark
  <2>4. CASE ~Create(c) /\ ~DispatchMark(c) /\ ~RollbackUnmark(c)
    BY <1>1, <2>4 DEF StartBatch, CallerStep, RecordConsent, CheckSlot, DispatchRead,
       DispatchBegin, DispatchSubmit, RollbackPop, RollbackDrop, FillPick, FillEnds,
       CollectResults, CollectPending, CallerRaises
  <2> QED
    BY <2>1, <2>2, <2>3, <2>4
<1>2. ASSUME NEW t \in Sub, WorkerStep(t) PROVE status'[s] \in Terminal
  BY <1>2 DEF WorkerStep, Pickup, BeginRun, LoopHead, ProviderReplies, Act, ToolReturns,
     WriteOutcome, WriteFails, PopSlot, ReleaseSlot
<1>3. ASSUME NEW k \in Operator, OperatorStep(k) PROVE status'[s] \in Terminal
  BY <1>3 DEF OperatorStep, CancelRead, CancelFlag, CancelWrite, CancelRaises
<1>4. CASE CloseStep \/ Restart \/ PeerStarts \/ UNCHANGED vars
  BY <1>4 DEF CloseStep, CloseBegins, CloseExecutor, CloseFlags, CloseReturns, Restart,
     PeerStarts, RecoverInterrupted, vars
<1> QED
  BY <1>1, <1>2, <1>3, <1>4 DEF Next

LEMMA StepReportInv == TypeInv /\ OwnInv /\ ReportInv /\ [Next]_vars => ReportInv'
<1> SUFFICES ASSUME TypeInv, OwnInv, ReportInv, [Next]_vars PROVE ReportInv'
  OBVIOUS
<1> USE DEF TypeInv, TypeOK, ReportInv, InCall, Dispatching, Call,
        storeVars, poolVars, workerVars, callerVars, otherVars
<1>1. ASSUME NEW c \in Caller, StartBatch(c) \/ CallerStep(c) \/ CallerRaises(c) PROVE ReportInv'
  <2>1. CASE CheckSlot(c) \/ DispatchRead(c) \/ DispatchSubmit(c) \/ RollbackUnmark(c)
    <3>1. /\ cpc[c] \notin {"pending", "idle"} /\ UNCHANGED <<todo, batch, results, pending>>
          /\ Return(c) \/ Call(c, "read") \/ Call(c, "mark") \/ Call(c, "popBack")
      BY <2>1 DEF CheckSlot, DispatchRead, DispatchSubmit, RollbackUnmark
    <3>2. /\ cpc'[c] \notin {"pending", "idle", "results"}
          /\ cpc'[c] = "fill" => todo[c] = {}
          /\ \A d \in Caller \ {c} : cpc'[d] = cpc[d]
      BY <3>1 DEF Return
    <3> QED
      BY <3>1, <3>2
  <2>2. CASE Create(c) \/ RecordConsent(c) \/ FillPick(c) \/ FillEnds(c)
    BY <2>2 DEF Create, RecordConsent, FillPick, FillEnds
  <2>3. CASE DispatchMark(c) \/ DispatchBegin(c) \/ RollbackPop(c) \/ RollbackDrop(c)
    BY <2>3 DEF DispatchMark, DispatchBegin, RollbackPop, RollbackDrop
  <2>4. CASE StartBatch(c)
    BY <2>4 DEF StartBatch
  <2>5. CASE CollectResults(c) \/ CollectPending(c) \/ CallerRaises(c)
    BY <2>5 DEF CollectResults, CollectPending, CallerRaises
  <2> QED
    BY <1>1, <2>1, <2>2, <2>3, <2>4, <2>5 DEF CallerStep
<1>2. CASE UNCHANGED callerVars
  BY <1>2
<1>3. CASE Restart
  BY <1>3 DEF Restart
<1>4. ASSUME NEW s \in Sub, WorkerStep(s) PROVE UNCHANGED callerVars
  BY <1>4 DEF WorkerStep, Pickup, BeginRun, LoopHead, ProviderReplies, Act, ToolReturns,
     WriteOutcome, WriteFails, PopSlot, ReleaseSlot
<1>5. ASSUME (\E k \in Operator : OperatorStep(k)) \/ CloseStep \/ PeerStarts \/ UNCHANGED vars
      PROVE  UNCHANGED callerVars
  BY <1>5 DEF OperatorStep, CancelRead, CancelFlag, CancelWrite, CancelRaises, CloseStep, CloseBegins,
     CloseExecutor, CloseFlags, CloseReturns, PeerStarts, vars
<1> QED
  BY <1>1, <1>2, <1>3, <1>4, <1>5 DEF Next

LEMMA StepReport ==
  TypeInv /\ OwnInv /\ ReportInv /\ ReportIsTrue /\ [Next]_vars => ReportIsTrue'
<1> SUFFICES ASSUME TypeInv, OwnInv, ReportInv, ReportIsTrue, [Next]_vars, TypeOK', ReportInv',
                    NEW c \in Caller
             PROVE  ( /\ \A s \in results[c] : status[s] \in Terminal
                      /\ results[c] \cap pending[c] = {}
                      /\ cpc[c] = "idle" =>
                           \A s \in batch[c] \ (results[c] \cup pending[c]) :
                             status[s] \in Terminal )'
  BY StepType, StepReportInv DEF ReportIsTrue, TypeInv
<1> USE DEF TypeInv, TypeOK, storeVars, poolVars, workerVars, callerVars, otherVars, Call
<1> DEFINE Goal == /\ \A s \in results'[c] : status'[s] \in Terminal
                   /\ results'[c] \cap pending'[c] = {}
                   /\ cpc'[c] = "idle" =>
                        \A s \in batch'[c] \ (results'[c] \cup pending'[c]) :
                          status'[s] \in Terminal
\* Nobody dispatches an id of a batch whose caller is past the fill loop.
<1>1. cpc[c] \in {"results", "pending", "idle"} =>
        \A s \in batch[c] : /\ s \in Sub
                            /\ status[s] \in Terminal => status'[s] \in Terminal
  <2> SUFFICES ASSUME cpc[c] \in {"results", "pending", "idle"}, NEW s \in batch[c],
                      status[s] \in Terminal
               PROVE  status'[s] \in Terminal
    OBVIOUS
  <2>1. \A d \in Caller : cpc[d] \in InCall => cur[d] # s
    <3> SUFFICES ASSUME NEW d \in Caller, cpc[d] \in InCall, cur[d] = s PROVE FALSE
      OBVIOUS
    <3>1. s \in batch[d]
      BY DEF OwnInv, CallOwned
    <3>2. d = c
      BY <3>1 DEF OwnInv, BatchOwned
    <3> QED
      BY <3>2 DEF InCall, Dispatching
  <2> QED
    BY <2>1, EndedStays
<1>2. CASE StartBatch(c) \/ CallerRaises(c) \/ Restart
  <2>1. results'[c] = {} /\ cpc'[c] \in {"create", "idle"}
        /\ (cpc'[c] = "idle" => batch'[c] = {})
    BY <1>2 DEF StartBatch, CallerRaises, Restart
  <2> QED
    BY <2>1
<1>3. CASE CollectResults(c)
  <2>1. /\ results'[c] = {s \in batch[c] : status[s] \in Terminal}
        /\ cpc[c] = "results" /\ cpc'[c] = "pending" /\ status' = status
    BY <1>3 DEF CollectResults
  <2>2. pending'[c] = {}
    BY <2>1 DEF ReportInv
  <2> QED
    BY <2>1, <2>2
<1>4. CASE CollectPending(c)
  <2>1. /\ pending'[c] = {s \in batch[c] : status[s] \notin Terminal}
        /\ cpc[c] = "pending" /\ UNCHANGED <<status, batch, results>>
    BY <1>4 DEF CollectPending
  <2> QED
    BY <2>1 DEF ReportIsTrue
<1>5. CASE UNCHANGED <<results[c], pending[c], batch[c]>>
           /\ (cpc'[c] = "idle" => cpc[c] = "idle")
  <2>1. CASE cpc[c] \in {"pending", "idle"}
    BY <1>1, <1>5, <2>1 DEF ReportIsTrue, ReportInv
  <2>2. CASE cpc[c] \notin {"pending", "idle"}
    <3>1. results[c] = {}
      BY <2>2 DEF ReportInv
    <3> QED
      BY <1>5, <2>2, <3>1
  <2> QED
    BY <2>1, <2>2
<1>6. \/ StartBatch(c) \/ CallerRaises(c) \/ Restart \/ CollectResults(c) \/ CollectPending(c)
      \/ /\ UNCHANGED <<results[c], pending[c], batch[c]>>
         /\ cpc'[c] = "idle" => cpc[c] = "idle"
  <2>1. ASSUME NEW d \in Caller, StartBatch(d) \/ CallerStep(d) \/ CallerRaises(d), d # c
        PROVE  UNCHANGED <<results[c], pending[c], batch[c], cpc[c]>>
    BY <2>1 DEF StartBatch, CallerStep, Create, RecordConsent, CheckSlot, DispatchRead,
       DispatchMark, DispatchBegin, DispatchSubmit, RollbackPop, RollbackDrop, RollbackUnmark,
       FillPick, FillEnds, CollectResults, CollectPending, CallerRaises, Return
  <2>2. ASSUME CallerStep(c), ~CollectResults(c), ~CollectPending(c)
        PROVE  UNCHANGED <<results, pending, batch>> /\ cpc'[c] # "idle"
    BY <2>2 DEF CallerStep, Create, RecordConsent, CheckSlot, DispatchRead,
       DispatchMark, DispatchBegin, DispatchSubmit, RollbackPop, RollbackDrop, RollbackUnmark,
       FillPick, FillEnds, Return
  <2>3. ASSUME NEW s \in Sub, WorkerStep(s) PROVE UNCHANGED callerVars
    BY <2>3 DEF WorkerStep, Pickup, BeginRun, LoopHead, ProviderReplies, Act, ToolReturns,
       WriteOutcome, WriteFails, PopSlot, ReleaseSlot
  <2>4. ASSUME (\E k \in Operator : OperatorStep(k)) \/ CloseStep \/ PeerStarts
               \/ UNCHANGED vars
        PROVE  UNCHANGED callerVars
    BY <2>4 DEF OperatorStep, CancelRead, CancelFlag, CancelWrite, CancelRaises, CloseStep, CloseBegins,
       CloseExecutor, CloseFlags, CloseReturns, PeerStarts, vars
  <2> QED
    BY <2>1, <2>2, <2>3, <2>4 DEF Next
<1> QED
  BY <1>2, <1>3, <1>4, <1>5, <1>6

\* What run_many returns is true and stays so: for any number of callers, ids and
\* operators, with second processes, restarts and whatever the store refuses.
THEOREM ReportsAreTrue == Spec => []ReportIsTrue
<1>1. Init => SlotInv /\ ReportInv /\ ReportIsTrue
  BY InitType, InitOwn, InitSlots DEF SlotInv, Init, ReportInv, ReportIsTrue
<1>2. SlotInv /\ ReportInv /\ ReportIsTrue /\ [Next]_vars
        => (SlotInv /\ ReportInv /\ ReportIsTrue)'
  BY StepSlots, StepReportInv, StepReport DEF SlotInv
<1> QED
  BY <1>1, <1>2, PTL DEF Spec

-----------------------------------------------------------------------------
(* What a record, a late answer, a consent and a shutdown have reached *)

\* The stages of a caller that has marked its id RUNNING.
Marked == Dispatching \ {"check", "read", "mark"}

\* A RUNNING record without a worker is being dispatched, or its rollback was
\* refused; a worker that is over left no RUNNING record but one the store
\* refused to change.
RunInv ==
  /\ \A s \in Sub : status[s] = "running" /\ wpc[s] = "none" =>
       s \in unwritten \/ \E c \in Caller : cur[c] = s /\ cpc[c] \in Marked
  /\ \A s \in Sub : wpc[s] \in {"ending", "releasing", "done"} =>
       status[s] # "running" \/ s \in unwritten

\* Until a worker leaves its run it has no outcome; the flag a late answer was
\* seen under stays set, and the run is left with another outcome.
LateInv ==
  /\ \A s \in Sub : wpc[s] \in {"none", "submitted", "starting", "boundary", "calling",
                               "replied", "tool"} => outcome[s] = "failed"
  /\ \A s \in late : /\ s \in cancel /\ outcome[s] # "completed"
                     /\ wpc[s] \in {"replied", "except", "guard", "ending", "releasing", "done"}

\* Consent is recorded for whoever asked for it, and for a created id of a batch
\* unless its caller is about to.
ConsentInv ==
  /\ \A s \in consents : request[s].consent
  /\ \A c \in Caller : \A s \in batch[c] \ todo[c] :
       request[s].consent => s \in consents \/ (cpc[c] = "consent" /\ cur[c] = s)
  /\ \A s \in Sub : wpc[s] \notin {"none", "done"} /\ request[s].consent => s \in consents

\* A shutdown that has closed the executor keeps it closed.
CloseInv ==
  /\ spc \in {"flagging", "draining", "closed"} => ~executorUp
  /\ CloseReachesEveryWorker

ReachInv == RunInv /\ LateInv /\ ConsentInv /\ CloseInv /\ WorkerConfined

LEMMA InitReach == Init => ReachInv
BY DEF Init, ReachInv, RunInv, LateInv, ConsentInv, CloseInv, WorkerConfined,
   CloseReachesEveryWorker, HeldByWorker, OnThread, WriteStage

LEMMA CallerRun ==
  ASSUME SlotInv, RunInv, NEW c \in Caller, StartBatch(c) \/ CallerStep(c) \/ CallerRaises(c)
  PROVE  RunInv'
<1> USE DEF SlotInv, TypeInv, TypeOK, Named, InCall, Dispatching, Marked, RunInv, Call, SetStatus,
        storeVars, poolVars, workerVars, callerVars, otherVars
<1>1. CASE StartBatch(c) \/ RecordConsent(c) \/ FillPick(c) \/ FillEnds(c)
           \/ CollectResults(c) \/ CollectPending(c)
  BY <1>1 DEF StartBatch, RecordConsent, FillPick, FillEnds, CollectResults, CollectPending, CallerRaises
<1>2. CASE Create(c)
  BY <1>2 DEF Create
<1>3. CASE CheckSlot(c) \/ DispatchRead(c)
  BY <1>3, ReturnEffect DEF CheckSlot, DispatchRead
<1>4. CASE DispatchMark(c)
  <2>1. wpc[cur[c]] = "none" /\ cur[c] \in Sub
    BY <1>4 DEF DispatchMark, OwnInv, CallOwned
  <2> QED
    BY <1>4, <2>1 DEF DispatchMark
<1>5. CASE DispatchBegin(c) \/ RollbackPop(c) \/ RollbackDrop(c)
  BY <1>5 DEF DispatchBegin, RollbackPop, RollbackDrop
<1>6. CASE DispatchSubmit(c) /\ executorUp
  <2>1. Return(c) /\ wpc' = [wpc EXCEPT ![cur[c]] = "submitted"] /\ cpc[c] = "submit"
        /\ UNCHANGED <<status, unwritten>>
    BY <1>6 DEF DispatchSubmit
  <2> QED
    BY <2>1, ReturnEffect
<1>7. CASE DispatchSubmit(c) /\ ~executorUp
  BY <1>7 DEF DispatchSubmit
<1>8. CASE RollbackUnmark(c)
  <2>1. Return(c) /\ status' = [status EXCEPT ![cur[c]] = "queued"] /\ cpc[c] = "unmark"
        /\ UNCHANGED <<wpc, unwritten>>
    BY <1>8 DEF RollbackUnmark
  <2> QED
    BY <2>1, ReturnEffect
<1>9. CASE CallerRaises(c)
  BY <1>9 DEF CallerRaises, AtStore
<1> QED
  BY <1>9, <1>1, <1>2, <1>3, <1>4, <1>5, <1>6, <1>7, <1>8 DEF CallerStep

LEMMA WorkerRun ==
  ASSUME SlotInv, RunInv, NEW s \in Sub, WorkerStep(s)
  PROVE  RunInv'
<1> USE DEF SlotInv, TypeInv, TypeOK, RunInv, Go, Leave, SetStatus, Terminal, WriteStage,
        storeVars, poolVars, workerVars, callerVars, otherVars
<1>1. CASE Pickup(s) \/ LoopHead(s) \/ ProviderReplies(s) \/ Act(s) \/ ToolReturns(s)
  BY <1>1 DEF Pickup, LoopHead, ProviderReplies, Act, ToolReturns
<1>2. CASE BeginRun(s)
  BY <1>2 DEF BeginRun
<1>3. CASE WriteOutcome(s)
  BY <1>3 DEF WriteOutcome
<1>4. CASE WriteFails(s)
  BY <1>4 DEF WriteFails
<1>5. CASE PopSlot(s) \/ ReleaseSlot(s)
  BY <1>5 DEF PopSlot, ReleaseSlot
<1> QED
  BY <1>1, <1>2, <1>3, <1>4, <1>5 DEF WorkerStep

LEMMA OtherRun ==
  ASSUME SlotInv, RunInv,
         \/ \E k \in Operator : OperatorStep(k)
         \/ CloseStep \/ Restart \/ PeerStarts \/ UNCHANGED vars
  PROVE  RunInv'
<1> USE DEF SlotInv, TypeInv, TypeOK, Named, RunInv, storeVars, poolVars, workerVars, callerVars,
        otherVars, SetStatus
<1>1. ASSUME NEW k \in Operator, OperatorStep(k) PROVE RunInv'
  BY <1>1 DEF OperatorStep, CancelRead, CancelFlag, CancelWrite, CancelRaises
<1>2. CASE CloseStep \/ UNCHANGED vars
  BY <1>2 DEF CloseStep, CloseBegins, CloseExecutor, CloseFlags, CloseReturns, vars
<1>3. CASE Restart \/ PeerStarts
  BY <1>3 DEF Restart, PeerStarts, RecoverInterrupted
<1> QED
  BY <1>1, <1>2, <1>3

LEMMA StepRun == SlotInv /\ RunInv /\ [Next]_vars => RunInv'
BY CallerRun, WorkerRun, OtherRun DEF Next

LEMMA StepLate == SlotInv /\ LateInv /\ [Next]_vars => LateInv'
<1> SUFFICES ASSUME SlotInv, LateInv, [Next]_vars PROVE LateInv'
  OBVIOUS
<1> USE DEF SlotInv, TypeInv, TypeOK, Named, LateInv, Go, Leave,
        storeVars, poolVars, workerVars, callerVars, otherVars
<1>1. ASSUME NEW c \in Caller, DispatchSubmit(c) PROVE LateInv'
  <2>1. cur[c] \in Sub /\ wpc[cur[c]] = "none"
    BY <1>1 DEF DispatchSubmit, OwnInv, CallOwned, InCall, Dispatching
  <2>2. cur[c] \notin late /\ outcome[cur[c]] = "failed"
    BY <2>1
  <2> QED
    BY <1>1, <2>1, <2>2 DEF DispatchSubmit
<1>2. ASSUME NEW c \in Caller, StartBatch(c) \/ CallerStep(c) \/ CallerRaises(c), ~DispatchSubmit(c) PROVE LateInv'
  BY <1>2 DEF StartBatch, CallerStep, Create, RecordConsent, CheckSlot, DispatchRead, DispatchMark,
     DispatchBegin, RollbackPop, RollbackDrop, RollbackUnmark, FillPick, FillEnds,
     CollectResults, CollectPending, CallerRaises
<1>3. ASSUME NEW s \in Sub, WorkerStep(s) PROVE LateInv'
  <2>1. CASE Pickup(s) \/ ToolReturns(s) \/ PopSlot(s) \/ ReleaseSlot(s)
    BY <2>1 DEF Pickup, ToolReturns, PopSlot, ReleaseSlot
  <2>2. CASE BeginRun(s)
    BY <2>2 DEF BeginRun
  <2>3. CASE LoopHead(s)
    BY <2>3 DEF LoopHead
  <2>4. CASE ProviderReplies(s)
    BY <2>4 DEF ProviderReplies
  <2>5. CASE Act(s)
    BY <2>5 DEF Act
  <2>6. CASE WriteOutcome(s)
    BY <2>6 DEF WriteOutcome, WriteStage
  <2>7. CASE WriteFails(s)
    BY <2>7 DEF WriteFails
  <2> QED
    BY <1>3, <2>1, <2>2, <2>3, <2>4, <2>5, <2>6, <2>7 DEF WorkerStep
<1>4. ASSUME NEW k \in Operator, OperatorStep(k) PROVE LateInv'
  BY <1>4 DEF OperatorStep, CancelRead, CancelFlag, CancelWrite, CancelRaises
<1>5. CASE CloseStep \/ PeerStarts \/ UNCHANGED vars
  BY <1>5 DEF CloseStep, CloseBegins, CloseExecutor, CloseFlags, CloseReturns, PeerStarts, vars
<1>6. CASE Restart
  BY <1>6 DEF Restart
<1> QED
  BY <1>1, <1>2, <1>3, <1>4, <1>5, <1>6 DEF Next

LEMMA StepConsent == SlotInv /\ ConsentInv /\ [Next]_vars => ConsentInv'
<1> SUFFICES ASSUME SlotInv, ConsentInv, [Next]_vars PROVE ConsentInv'
  OBVIOUS
<1> USE DEF SlotInv, TypeInv, TypeOK, Named, ConsentInv, InCall, Dispatching, Call, SetStatus,
        storeVars, poolVars, workerVars, callerVars, otherVars
<1>1. ASSUME NEW c \in Caller, StartBatch(c) \/ CallerStep(c) \/ CallerRaises(c) PROVE ConsentInv'
  <2>0. /\ \A s \in todo[c] : status[s] = "absent" /\ wpc[s] = "none"
        /\ cpc[c] \in InCall => cur[c] \in batch[c] \ todo[c]
        /\ \A d \in Caller \ {c} : batch[c] \cap batch[d] = {} /\ todo[c] \cap todo[d] = {}
        /\ todo[c] \subseteq batch[c]
    BY DEF OwnInv, CallOwned, BatchOwned, QueuedIdle
  <2>1. CASE StartBatch(c)
    BY <2>1 DEF StartBatch
  <2>2. CASE Create(c)
    BY <2>0, <2>2 DEF Create
  <2>3. CASE RecordConsent(c)
    BY <2>0, <2>3 DEF RecordConsent
  <2>4. CASE CheckSlot(c) \/ DispatchRead(c) \/ RollbackUnmark(c)
    <3>1. /\ cpc[c] # "consent"
          /\ \A d \in Caller \ {c} : cpc'[d] = cpc[d] /\ cur'[d] = cur[d]
          /\ UNCHANGED <<consents, request, batch, todo, wpc>>
      BY <2>4, ReturnEffect DEF CheckSlot, DispatchRead, RollbackUnmark
    <3> QED
      BY <3>1
  <2>5. CASE DispatchSubmit(c)
    <3>1. /\ cpc[c] = "submit"
          /\ \A d \in Caller \ {c} : cpc'[d] = cpc[d] /\ cur'[d] = cur[d]
          /\ UNCHANGED <<consents, request, batch, todo>>
          /\ wpc' \in {wpc, [wpc EXCEPT ![cur[c]] = "submitted"]}
      BY <2>5, ReturnEffect DEF DispatchSubmit
    <3>2. request[cur[c]].consent => cur[c] \in consents
      BY <2>0, <3>1
    <3> QED
      BY <3>1, <3>2
  <2>6. CASE DispatchMark(c) \/ DispatchBegin(c) \/ RollbackPop(c) \/ RollbackDrop(c)
             \/ FillPick(c) \/ FillEnds(c) \/ CollectResults(c) \/ CollectPending(c)
             \/ CallerRaises(c)
    BY <2>6 DEF DispatchMark, DispatchBegin, RollbackPop, RollbackDrop, FillPick, FillEnds,
       CollectResults, CollectPending, CallerRaises
  <2> QED
    BY <1>1, <2>1, <2>2, <2>3, <2>4, <2>5, <2>6 DEF CallerStep
<1>2. ASSUME NEW s \in Sub, WorkerStep(s) PROVE ConsentInv'
  <2>1. /\ UNCHANGED <<consents, request, batch, todo, cpc, cur>>
        /\ wpc[s] \notin {"none", "done"} /\ \A t \in Sub \ {s} : wpc'[t] = wpc[t]
    BY <1>2 DEF WorkerStep, Pickup, BeginRun, LoopHead, ProviderReplies, Act, ToolReturns,
       WriteOutcome, WriteFails, PopSlot, ReleaseSlot, Go, Leave, WriteStage
  <2> QED
    BY <2>1
<1>3. ASSUME NEW k \in Operator, OperatorStep(k) PROVE ConsentInv'
  BY <1>3 DEF OperatorStep, CancelRead, CancelFlag, CancelWrite, CancelRaises
<1>4. CASE CloseStep \/ PeerStarts \/ UNCHANGED vars
  BY <1>4 DEF CloseStep, CloseBegins, CloseExecutor, CloseFlags, CloseReturns, PeerStarts, vars
<1>5. CASE Restart
  BY <1>5 DEF Restart
<1> QED
  BY <1>1, <1>2, <1>3, <1>4, <1>5 DEF Next

LEMMA StepClose == SlotInv /\ CloseInv /\ [Next]_vars => CloseInv'
<1> SUFFICES ASSUME SlotInv, CloseInv, [Next]_vars PROVE CloseInv'
  OBVIOUS
<1> USE DEF SlotInv, TypeInv, TypeOK, Named, CloseInv, CloseReachesEveryWorker, HeldByWorker,
        OnThread, WriteStage, storeVars, poolVars, workerVars, callerVars, otherVars
<1>1. ASSUME NEW c \in Caller, DispatchSubmit(c) PROVE CloseInv'
  BY <1>1 DEF DispatchSubmit
<1>2. ASSUME NEW c \in Caller, StartBatch(c) \/ CallerStep(c) \/ CallerRaises(c), ~DispatchSubmit(c) PROVE CloseInv'
  BY <1>2 DEF StartBatch, CallerStep, Create, RecordConsent, CheckSlot, DispatchRead, DispatchMark,
     DispatchBegin, RollbackPop, RollbackDrop, RollbackUnmark, FillPick, FillEnds,
     CollectResults, CollectPending, CallerRaises, TakeSlot
<1>3. ASSUME NEW s \in Sub, WorkerStep(s) PROVE CloseInv'
  <2>1. /\ UNCHANGED <<spc, executorUp, cancel>>
        /\ HeldByWorker(s) /\ \A t \in Sub \ {s} : wpc'[t] = wpc[t]
        /\ wpc[s] \in {"ending", "releasing"} => wpc'[s] \in {"releasing", "done"}
    BY <1>3 DEF WorkerStep, Pickup, BeginRun, LoopHead, ProviderReplies, Act, ToolReturns,
       WriteOutcome, WriteFails, PopSlot, ReleaseSlot, Go, Leave
  <2> QED
    BY <2>1
<1>4. ASSUME NEW k \in Operator, OperatorStep(k) PROVE CloseInv'
  BY <1>4 DEF OperatorStep, CancelRead, CancelFlag, CancelWrite, CancelRaises
<1>5. CASE CloseFlags
  BY <1>5 DEF CloseFlags, ActiveExact
<1>6. CASE CloseBegins \/ CloseExecutor \/ CloseReturns \/ PeerStarts \/ UNCHANGED vars
  BY <1>6 DEF CloseBegins, CloseExecutor, CloseReturns, PeerStarts, vars
<1>7. CASE Restart
  BY <1>7 DEF Restart
<1> QED
  BY <1>1, <1>2, <1>3, <1>4, <1>5, <1>6, <1>7 DEF Next, CloseStep

LEMMA StepConfined == SlotInv /\ ConsentInv /\ WorkerConfined /\ [Next]_vars => WorkerConfined'
<1> SUFFICES ASSUME SlotInv, ConsentInv, WorkerConfined, [Next]_vars PROVE WorkerConfined'
  OBVIOUS
<1> USE DEF SlotInv, TypeInv, TypeOK, WorkerConfined, Go, Leave, SetStatus,
        storeVars, poolVars, workerVars, callerVars, otherVars
<1>1. ASSUME NEW c \in Caller, StartBatch(c) \/ CallerStep(c) \/ CallerRaises(c) PROVE WorkerConfined'
  <2>1. UNCHANGED <<request, usable>> /\ \A s \in Sub : wpc'[s] \in {wpc[s], "submitted"}
    BY <1>1 DEF StartBatch, CallerStep, Create, RecordConsent, CheckSlot, DispatchRead, DispatchMark,
       DispatchBegin, DispatchSubmit, RollbackPop, RollbackDrop, RollbackUnmark, FillPick, FillEnds,
       CollectResults, CollectPending, CallerRaises
  <2> QED
    BY <2>1
<1>2. ASSUME NEW s \in Sub, BeginRun(s) PROVE WorkerConfined'
  <2>1. CASE usable' = [usable EXCEPT ![s] = Narrowed(s)]
    <3>1. \A t \in Narrowed(s) : /\ t \in request[s].tools /\ t \in PolicyTool /\ t \notin SpawnTool
                                 /\ t \in GuardedTool => request[s].consent
      BY DEF Narrowed, ConsentInv
    <3>2. request[s].consent => (request[s].tools \cap PolicyTool) \ SpawnTool \subseteq Narrowed(s)
      BY <1>2 DEF BeginRun, Narrowed, ConsentInv
    <3> QED
      BY <1>2, <2>1, <3>1, <3>2 DEF BeginRun
  <2>2. CASE UNCHANGED usable /\ wpc'[s] \in {"ending", "except"}
    BY <1>2, <2>2 DEF BeginRun
  <2> QED
    BY <1>2, <2>1, <2>2 DEF BeginRun
<1>3. ASSUME NEW s \in Sub, WorkerStep(s), ~BeginRun(s) PROVE WorkerConfined'
  <2>1. /\ UNCHANGED <<request, usable>> /\ \A t \in Sub \ {s} : wpc'[t] = wpc[t]
        /\ wpc'[s] \in {"boundary", "calling", "replied", "tool"} =>
             wpc[s] \in {"boundary", "calling", "replied", "tool"}
    BY <1>3 DEF WorkerStep, Pickup, LoopHead, ProviderReplies, Act, ToolReturns,
       WriteOutcome, WriteFails, PopSlot, ReleaseSlot, WriteStage
  <2> QED
    BY <2>1
<1>4. ASSUME NEW k \in Operator, OperatorStep(k) PROVE WorkerConfined'
  BY <1>4 DEF OperatorStep, CancelRead, CancelFlag, CancelWrite, CancelRaises
<1>5. CASE CloseStep \/ PeerStarts \/ UNCHANGED vars
  BY <1>5 DEF CloseStep, CloseBegins, CloseExecutor, CloseFlags, CloseReturns, PeerStarts, vars
<1>6. CASE Restart
  BY <1>6 DEF Restart
<1> QED
  BY <1>1, <1>2, <1>3, <1>4, <1>5, <1>6 DEF Next

LEMMA ReachHolds == Spec => [](SlotInv /\ ReachInv)
<1>1. Init => SlotInv /\ ReachInv
  BY InitType, InitOwn, InitSlots, InitReach DEF SlotInv
<1>2. SlotInv /\ ReachInv /\ [Next]_vars => (SlotInv /\ ReachInv)'
  BY StepSlots, StepRun, StepLate, StepConsent, StepClose, StepConfined DEF ReachInv
<1> QED
  BY <1>1, <1>2, PTL DEF Spec

\* No record stays RUNNING without a worker or a dispatch under way, but for one
\* whose last status the store refused: a worker's outcome three times, or the
\* QUEUED of a rollback. Rejected submits, whatever else of the store fails,
\* restarts, second processes and cancels strand none.
THEOREM NoneIsStranded == Spec => []RunningHasWorker
<1>1. SlotInv /\ RunInv => RunningHasWorker
  BY DEF SlotInv, TypeInv, TypeOK, WorkerPc, RunInv, RunningHasWorker, HeldByWorker, OnThread, Marked
<1> QED
  BY <1>1, ReachHolds, PTL DEF ReachInv

\* An answer that was in flight when the abort flag was set starts no tool and
\* completes no worker, also when the store then fails.
THEOREM LateRepliesAreInert == Spec => []LateReplyIsInert
<1>1. LateInv => LateReplyIsInert
  BY DEF LateInv, LateReplyIsInert
<1> QED
  BY <1>1, ReachHolds, PTL DEF ReachInv

\* A worker has no tool that was not listed, permitted and, where guarded,
\* consented to; and it has every tool that was.
THEOREM WorkersAreConfined == Spec => []WorkerConfined
BY ReachHolds, PTL DEF ReachInv

\* From the flagging of a shutdown on, every worker that has not stopped is
\* flagged, though callers dispatch while the executor closes.
THEOREM CloseReachesAll == Spec => []CloseReachesEveryWorker
<1>1. CloseInv => CloseReachesEveryWorker
  BY DEF CloseInv
<1> QED
  BY <1>1, ReachHolds, PTL DEF ReachInv
-----------------------------------------------------------------------------
(* The limits, with one delegating thread *)

OneCaller == \A c, d \in Caller : c = d

ActiveOf(p) == {s \in active : ParentOf(s) = p}

\* Between the test of can_dispatch and _begin the tested room stays.
RoomInv ==
  \A c \in Caller : cpc[c] \in {"read", "mark", "begin"} =>
    /\ Cardinality(active) < GlobalLimit
    /\ Cardinality(ActiveOf(ParentOf(cur[c]))) < PerParentLimit

LimitInv == RoomInv /\ LimitsRespected

LEMMA ActiveFinite ==
  ASSUME TypeOK
  PROVE  /\ IsFiniteSet(active) /\ Cardinality(active) \in Nat
         /\ \A p : IsFiniteSet(ActiveOf(p)) /\ Cardinality(ActiveOf(p)) \in Nat
<1>1. active \subseteq Sub /\ \A p : ActiveOf(p) \subseteq Sub
  BY DEF TypeOK, ActiveOf
<1> QED
  BY <1>1, PoolAssumption, FS_Subset, FS_CardinalityType

\* The keys of a parent are among the ids its counter counts.
LEMMA ActiveCharged ==
  ASSUME SlotInv, NEW p \in Parent
  PROVE  Cardinality(ActiveOf(p)) <= perParent[p]
<1>1. ActiveOf(p) \subseteq Charged(p)
  BY DEF SlotInv, ActiveExact, ActiveOf, Charged, HeldByCaller, HeldByWorker
<1>2. Cardinality(ActiveOf(p)) <= Cardinality(Charged(p))
  BY <1>1, ChargedType, FS_Subset
<1> QED
  BY <1>2 DEF SlotInv, SlotsAccounted

LEMMA LimitsOfActive ==
  LimitsRespected <=> /\ Cardinality(active) <= GlobalLimit
                      /\ \A p \in Parent : Cardinality(ActiveOf(p)) <= PerParentLimit
BY DEF LimitsRespected, ActiveOf

\* A step that adds no key and brings no caller past the test.
LEMMA RoomKept ==
  ASSUME TypeInv, LimitInv, active' \subseteq active, UNCHANGED request,
         \A c \in Caller : cpc'[c] \in {"read", "mark", "begin"} =>
           cpc[c] \in {"read", "mark", "begin"} /\ cur'[c] = cur[c]
  PROVE  LimitInv'
<1>1. /\ Cardinality(active') <= Cardinality(active)
      /\ Cardinality(active') \in Nat /\ Cardinality(active) \in Nat
  BY ActiveFinite, FS_Subset, FS_CardinalityType DEF TypeInv
<1>2. ASSUME NEW p
      PROVE  /\ Cardinality(ActiveOf(p)') <= Cardinality(ActiveOf(p))
             /\ Cardinality(ActiveOf(p)') \in Nat /\ Cardinality(ActiveOf(p)) \in Nat
  <2>1. ActiveOf(p)' \subseteq ActiveOf(p)
    BY DEF ActiveOf, ParentOf
  <2> QED
    BY <2>1, ActiveFinite, FS_Subset, FS_CardinalityType DEF TypeInv
<1>3. LimitsRespected'
  <2>1. Cardinality(active') <= GlobalLimit
    BY <1>1, LimitsOfActive, PoolAssumption DEF LimitInv
  <2>2. ASSUME NEW p \in Parent PROVE Cardinality(ActiveOf(p)') <= PerParentLimit
    <3>1. Cardinality(ActiveOf(p)) <= PerParentLimit
      BY LimitsOfActive DEF LimitInv
    <3> QED
      BY <3>1, <1>2, PoolAssumption
  <2> QED
    BY <2>1, <2>2 DEF LimitsRespected, ActiveOf
<1>4. RoomInv'
  <2> SUFFICES ASSUME NEW c \in Caller, cpc'[c] \in {"read", "mark", "begin"}
               PROVE  /\ Cardinality(active') < GlobalLimit
                      /\ Cardinality(ActiveOf(ParentOf(cur[c]))') < PerParentLimit
    BY DEF RoomInv
  <2>1. cur'[c] = cur[c] /\ Cardinality(active) < GlobalLimit
        /\ Cardinality(ActiveOf(ParentOf(cur[c]))) < PerParentLimit
    BY DEF LimitInv, RoomInv
  <2>2. ParentOf(cur[c])' = ParentOf(cur[c])
    BY <2>1 DEF ParentOf
  <2>3. ActiveOf(ParentOf(cur[c]))' \subseteq ActiveOf(ParentOf(cur[c]))
    BY <2>2 DEF ActiveOf, ParentOf
  <2>4. /\ Cardinality(ActiveOf(ParentOf(cur[c]))') <= Cardinality(ActiveOf(ParentOf(cur[c])))
        /\ Cardinality(ActiveOf(ParentOf(cur[c]))') \in Nat
    BY <2>3, ActiveFinite, FS_Subset, FS_CardinalityType DEF TypeInv
  <2> QED
    BY <1>1, <2>1, <2>4, ActiveFinite, PoolAssumption DEF TypeInv
<1> QED
  BY <1>3, <1>4 DEF LimitInv

LEMMA StepLimit ==
  ASSUME OneCaller, SlotInv, LimitInv, [Next]_vars
  PROVE  LimitInv'
<1> USE DEF SlotInv, TypeInv, TypeOK, InCall, Dispatching, Call, SetStatus,
        storeVars, poolVars, workerVars, callerVars, otherVars
<1>1. ASSUME NEW c \in Caller, DispatchBegin(c) PROVE LimitInv'
  <2> DEFINE s == cur[c]
             q == ParentOf(cur[c])
  <2>1. s \in Sub /\ s \notin active
    BY <1>1, OnlyHolder DEF DispatchBegin, ActiveExact, HeldByWorker
  <2>2. Cardinality(active) < GlobalLimit /\ Cardinality(ActiveOf(q)) < PerParentLimit
    BY <1>1 DEF DispatchBegin, LimitInv, RoomInv
  <2>3. active' = active \cup {s} /\ UNCHANGED request
    BY <1>1 DEF DispatchBegin, TakeSlot
  <2>4. Cardinality(active') <= GlobalLimit
    <3>1. Cardinality(active \cup {s}) = Cardinality(active) + 1
      BY <2>1, ActiveFinite, FS_AddElement
    <3> QED
      BY <2>2, <2>3, <3>1, ActiveFinite, PoolAssumption
  <2>5. ASSUME NEW p \in Parent PROVE Cardinality(ActiveOf(p)') <= PerParentLimit
    <3>1. CASE p = q
      <4>1. ActiveOf(p)' = ActiveOf(p) \cup {s} /\ s \notin ActiveOf(p)
        BY <2>1, <2>3, <3>1 DEF ActiveOf, ParentOf
      <4>2. Cardinality(ActiveOf(p) \cup {s}) = Cardinality(ActiveOf(p)) + 1
        BY <4>1, ActiveFinite, FS_AddElement
      <4> QED
        BY <2>2, <3>1, <4>1, <4>2, ActiveFinite, PoolAssumption
    <3>2. CASE p # q
      <4>1. ActiveOf(p)' = ActiveOf(p)
        BY <2>1, <2>3, <3>2 DEF ActiveOf, ParentOf
      <4> QED
        BY <4>1, LimitsOfActive DEF LimitInv
    <3> QED
      BY <3>1, <3>2
  <2>6. LimitsRespected'
    BY <2>4, <2>5 DEF LimitsRespected, ActiveOf
  <2>7. RoomInv'
    BY <1>1 DEF DispatchBegin, OneCaller, RoomInv
  <2> QED
    BY <2>6, <2>7 DEF LimitInv
<1>2. ASSUME NEW c \in Caller, CheckSlot(c) PROVE LimitInv'
  <2>1. CASE CanDispatch(cur[c]) /\ Call(c, "read") /\ UNCHANGED cur
    <3>1. cur[c] \in Sub /\ ParentOf(cur[c]) \in Parent /\ UNCHANGED <<active, request>>
      BY <1>2, PoolAssumption DEF CheckSlot, Named, ParentOf
    <3>2. /\ Cardinality(active) < GlobalLimit
          /\ Cardinality(ActiveOf(ParentOf(cur[c]))) < PerParentLimit
      BY <2>1, <3>1, ActiveCharged, ActiveFinite, PoolAssumption DEF CanDispatch
    <3>3. LimitsRespected'
      BY <3>1 DEF LimitInv, LimitsRespected, ParentOf
    <3>4. RoomInv'
      BY <2>1, <3>1, <3>2 DEF RoomInv, OneCaller, ActiveOf, ParentOf
    <3> QED
      BY <3>3, <3>4 DEF LimitInv
  <2>2. CASE Return(c)
    <3>1. \A d \in Caller : cpc'[d] \in {"read", "mark", "begin"} =>
            cpc[d] \in {"read", "mark", "begin"} /\ cur'[d] = cur[d]
      BY <2>2, ReturnEffect
    <3> QED
      BY <1>2, <3>1, RoomKept DEF CheckSlot
  <2> QED
    BY <1>2, <2>1, <2>2 DEF CheckSlot
<1>3. ASSUME NEW c \in Caller, DispatchRead(c) \/ DispatchSubmit(c) \/ RollbackUnmark(c)
      PROVE  LimitInv'
  <2>1. active' = active /\ UNCHANGED request
    BY <1>3 DEF DispatchRead, DispatchSubmit, RollbackUnmark
  <2>2. \A d \in Caller : cpc'[d] \in {"read", "mark", "begin"} =>
          cpc[d] \in {"read", "mark", "begin"} /\ cur'[d] = cur[d]
    BY <1>3, ReturnEffect DEF DispatchRead, DispatchSubmit, RollbackUnmark
  <2> QED
    BY <2>1, <2>2, RoomKept
<1>4. ASSUME NEW c \in Caller,
             \/ StartBatch(c) \/ Create(c) \/ RecordConsent(c) \/ DispatchMark(c)
             \/ RollbackPop(c) \/ RollbackDrop(c) \/ FillPick(c) \/ FillEnds(c)
             \/ CollectResults(c) \/ CollectPending(c) \/ CallerRaises(c)
      PROVE  LimitInv'
  <2>1. active' \subseteq active /\ UNCHANGED request
    BY <1>4 DEF StartBatch, Create, RecordConsent, DispatchMark, RollbackPop, RollbackDrop,
       FillPick, FillEnds, CollectResults, CollectPending, CallerRaises
  <2>2. \A d \in Caller : cpc'[d] \in {"read", "mark", "begin"} =>
          cpc[d] \in {"read", "mark", "begin"} /\ cur'[d] = cur[d]
    BY <1>4 DEF StartBatch, Create, RecordConsent, DispatchMark, RollbackPop, RollbackDrop,
       FillPick, FillEnds, CollectResults, CollectPending, CallerRaises
  <2> QED
    BY <2>1, <2>2, RoomKept
<1>5. ASSUME NEW s \in Sub, WorkerStep(s) PROVE LimitInv'
  <2>1. active' \subseteq active /\ UNCHANGED <<request, cpc, cur>>
    BY <1>5 DEF WorkerStep, Pickup, BeginRun, LoopHead, ProviderReplies, Act, ToolReturns,
       WriteOutcome, WriteFails, PopSlot, ReleaseSlot
  <2> QED
    BY <2>1, RoomKept
<1>6. CASE (\E k \in Operator : OperatorStep(k)) \/ CloseStep \/ PeerStarts \/ UNCHANGED vars
  <2>1. UNCHANGED <<active, request, cpc, cur>>
    BY <1>6 DEF OperatorStep, CancelRead, CancelFlag, CancelWrite, CancelRaises, CloseStep, CloseBegins,
       CloseExecutor, CloseFlags, CloseReturns, PeerStarts, vars
  <2> QED
    BY <2>1, RoomKept
<1>7. CASE Restart
  BY <1>7, RoomKept DEF Restart
<1> QED
  BY <1>1, <1>2, <1>3, <1>4, <1>5, <1>6, <1>7 DEF Next, CallerStep

LEMMA LimitHolds ==
  ASSUME OneCaller
  PROVE  Spec => [](SlotInv /\ LimitInv)
<1>1. Init => SlotInv /\ LimitInv
  <2> SUFFICES ASSUME Init PROVE LimitInv
    BY InitType, InitOwn, InitSlots DEF SlotInv
  <2>1. Cardinality(active) = 0 /\ \A p : Cardinality(ActiveOf(p)) = 0
    BY FS_EmptySet DEF Init, ActiveOf
  <2> QED
    BY <2>1, PoolAssumption, LimitsOfActive DEF Init, LimitInv, RoomInv
<1>2. SlotInv /\ LimitInv /\ [Next]_vars => (SlotInv /\ LimitInv)'
  BY StepSlots, StepLimit
<1> QED
  BY <1>1, <1>2, PTL DEF Spec

\* With one delegating thread neither limit is exceeded, although the test and
\* the taking of a slot are separate steps and workers, cancels, a shutdown and
\* second processes come in between.
THEOREM LimitsHold ==
  ASSUME OneCaller
  PROVE  Spec => []LimitsRespected
<1>1. LimitInv => LimitsRespected
  BY DEF LimitInv
<1> QED
  BY <1>1, LimitHolds, PTL

-----------------------------------------------------------------------------
(* The pool is a two-level semaphore *)

\* SlotPool counts with the same Cardinality.
LEMMA SlotsCount == \A S : Slots!Cardinality(S) = Cardinality(S)
BY DEF Slots!Cardinality, Cardinality

\* Every step of the pool takes a free slot, gives one back, resets all of them
\* or leaves the held ones alone.
LEMMA SlotsRefine ==
  ASSUME SlotInv, LimitInv, [Next]_vars
  PROVE  [Slots!Next]_(Slots!vars)
<1> USE DEF SlotInv, TypeInv, TypeOK, InCall, Dispatching,
        storeVars, poolVars, workerVars, callerVars, otherVars
<1>1. request' = request
  BY DEF Next, StartBatch, CallerStep, Create, RecordConsent, CheckSlot, DispatchRead,
     DispatchMark, DispatchBegin, DispatchSubmit, RollbackPop, RollbackDrop, RollbackUnmark,
     FillPick, FillEnds, CollectResults, CollectPending, CallerRaises, WorkerStep, Pickup, BeginRun, LoopHead,
     ProviderReplies, Act, ToolReturns, WriteOutcome, WriteFails, PopSlot, ReleaseSlot,
     OperatorStep, CancelRead, CancelFlag, CancelWrite, CancelRaises, CloseStep, CloseBegins, CloseExecutor,
     CloseFlags, CloseReturns, Restart, PeerStarts, SetStatus, vars
<1>2. [s \in Sub |-> ParentOf(s)]' = [s \in Sub |-> ParentOf(s)]
  BY <1>1 DEF ParentOf
<1>3. ASSUME NEW c \in Caller, DispatchBegin(c) PROVE Slots!Next
  <2> DEFINE s == cur[c]
  <2>1. s \in Sub /\ s \notin active
    BY <1>3, OnlyHolder DEF DispatchBegin, ActiveExact, HeldByWorker
  <2>2. Cardinality(active) < GlobalLimit /\ Cardinality(ActiveOf(ParentOf(s))) < PerParentLimit
    BY <1>3 DEF DispatchBegin, LimitInv, RoomInv
  <2>3. Slots!Siblings(s) = ActiveOf(ParentOf(s))
    BY <2>1 DEF Slots!Siblings, ActiveOf
  <2>4. Slots!Acquire(s)
    <3>1. active' = active \cup {s}
      BY <1>3 DEF DispatchBegin, TakeSlot
    <3> QED
      BY <1>2, <2>1, <2>2, <2>3, <3>1, SlotsCount DEF Slots!Acquire
  <2> QED
    BY <2>1, <2>4 DEF Slots!Next
<1>4. ASSUME NEW c \in Caller, RollbackPop(c) PROVE Slots!Next
  <2>1. cur[c] \in Sub /\ cur[c] \in active /\ active' = active \ {cur[c]}
    BY <1>4, OnlyHolder DEF RollbackPop, ActiveExact
  <2> QED
    BY <1>2, <2>1 DEF Slots!Next, Slots!Release
<1>5. ASSUME NEW s \in Sub, PopSlot(s) PROVE [Slots!Next]_(Slots!vars)
  BY <1>2, <1>5 DEF PopSlot, Slots!Next, Slots!Release, Slots!vars
<1>6. CASE Restart
  BY <1>2, <1>6 DEF Restart, Slots!Next, Slots!Reset
<1>7. CASE active' = active
  BY <1>2, <1>7 DEF Slots!vars
<1>8. \/ \E c \in Caller : DispatchBegin(c) \/ RollbackPop(c)
      \/ \E s \in Sub : PopSlot(s)
      \/ Restart
      \/ active' = active
  BY DEF Next, StartBatch, CallerStep, Create, RecordConsent, CheckSlot, DispatchRead,
     DispatchMark, DispatchSubmit, RollbackDrop, RollbackUnmark,
     FillPick, FillEnds, CollectResults, CollectPending, CallerRaises, WorkerStep, Pickup, BeginRun, LoopHead,
     ProviderReplies, Act, ToolReturns, WriteOutcome, WriteFails, ReleaseSlot,
     OperatorStep, CancelRead, CancelFlag, CancelWrite, CancelRaises, CloseStep, CloseBegins, CloseExecutor,
     CloseFlags, CloseReturns, PeerStarts, vars
<1> QED
  BY <1>3, <1>4, <1>5, <1>6, <1>7, <1>8

\* With one delegating thread the pool, with its threads, counters and store,
\* does nothing SlotPool does not do: the safety part of BoundedSlots.
THEOREM PoolRefinesSlots ==
  ASSUME OneCaller
  PROVE  Spec => Slots!Init /\ [][Slots!Next]_(Slots!vars)
<1>1. Init => Slots!Init
  BY DEF Init, Slots!Init
<1>2. SlotInv /\ LimitInv /\ [Next]_vars => [Slots!Next]_(Slots!vars)
  BY SlotsRefine
<1> QED
  BY <1>1, <1>2, LimitHolds, PTL DEF Spec
=============================================================================
