---------------------------- MODULE SubagentPool ----------------------------
(***************************************************************************)
(* The bounded pool of internal subagents: the sqlite store, the in-memory *)
(* pool and the executor threads of agent/subagents.py, and the manager    *)
(* that delegates to them, agent/subagent_manager.py, as agent/loop.py     *)
(* wires them.                                                             *)
(*                                                                         *)
(* Actors: callers inside run_many (a call of delegate is a batch of one   *)
(* whose wait expires at once), one executor thread per running worker,    *)
(* operators inside cancel, one thread inside shutdown, a process that     *)
(* dies and restarts, and another process that opens the same database.    *)
(* Every update of the store or of a field of the pool is a step; the      *)
(* reads of one test, one scan or one loop over ids are a step too.        *)
(***************************************************************************)
EXTENDS Naturals, FiniteSets

CONSTANTS
  Sub,            \* ids that SubagentStore.create may hand out
  NoSub,          \* no id
  Parent,         \* parent task ids ("ROOT" when there is none)
  Tool,           \* tool names
  SpawnTool,      \* _SUBPARENT_TOOLS: never given to a worker
  PolicyTool,     \* enabled by the SecurityPolicy and known to the registry
  GuardedTool,    \* requires_approval or in _SENSITIVE_CAPABILITY_TOOLS
  Request,        \* the delegations that may be asked for
  Caller,         \* threads that call run_many
  Operator,       \* threads that call cancel
  GlobalLimit,    \* pool.global_limit, also the executor's max_workers
  PerParentLimit, \* pool.per_parent_limit
  MaxSteps,       \* a record's max_steps
  MaxRestarts,    \* bound on process restarts
  Scenario        \* the sets of things the environment may do, of Events

Events == {"cancel", "close", "peer", "storeFails", "waitExpires"}

ASSUME PoolAssumption ==
  /\ IsFiniteSet(Sub)
  /\ NoSub \notin Sub
  /\ Request \subseteq [parent : Parent, tools : SUBSET Tool, consent : BOOLEAN]
  /\ GlobalLimit \in Nat \ {0}
  /\ PerParentLimit \in Nat \ {0}
  /\ MaxSteps \in Nat \ {0}
  /\ MaxRestarts \in Nat
  /\ Scenario \subseteq SUBSET Events

VARIABLES
  \* the store, on disk
  status,      \* the status column; "absent" before create
  request,     \* what the id's delegation asks for, fixed from the start
  \* SubagentManager._consents
  consents,    \* ids whose delegation recorded operator consent
  \* SubagentPool
  active,      \* keys of _active
  perParent,   \* _per_parent_active
  cancel,      \* _cancel
  accepting,   \* _accepting
  executorUp,  \* FALSE once executor.shutdown was called
  \* one executor work item per id
  wpc,         \* where its worker is
  outcome,     \* the status the worker is about to write
  steps,       \* provider calls made
  usable,      \* the narrowed tool set
  spoiled,     \* ids whose last provider call failed
  late,        \* ids whose last reply arrived after the abort flag was set
  unwritten,   \* ids the store refused the last status of: an outcome, or a
               \* rolled back dispatch
  \* callers in run_many
  cpc, cur, todo, batch, results, pending,
  \* operators in cancel
  kpc, target,
  \* the thread in shutdown, and the restarts so far
  spc, restarts,
  \* what the environment may do in this behaviour
  event

storeVars  == <<status, request>>
poolVars   == <<active, perParent, cancel, accepting, executorUp>>
workerVars == <<wpc, outcome, steps, usable, spoiled, late, unwritten>>
callerVars == <<cpc, cur, todo, batch, results, pending>>
otherVars  == <<kpc, target, spc, restarts, event>>
vars == <<storeVars, consents, poolVars, workerVars, callerVars, otherVars>>
-----------------------------------------------------------------------------
Terminal == {"completed", "failed", "cancelled", "timed_out"}
Status   == {"absent", "queued", "running"} \cup Terminal

WriteStage == {"try", "except", "guard"}
OnThread == {"starting", "boundary", "calling", "replied", "tool",
             "ending", "releasing"} \cup WriteStage
WorkerPc == {"none", "submitted", "done"} \cup OnThread

\* The stages of a caller between the first test of can_dispatch and the
\* return of dispatch.
Dispatching == {"check", "read", "mark", "begin", "submit",
                "popBack", "dropBack", "unmark"}
CallerPc == {"idle", "create", "consent", "fill", "results", "pending"}
              \cup Dispatching

TypeOK ==
  /\ status \in [Sub -> Status]
  /\ request \in [Sub -> Request]
  /\ consents \subseteq Sub
  /\ active \subseteq Sub
  /\ perParent \in [Parent -> Nat]
  /\ cancel \subseteq Sub
  /\ accepting \in BOOLEAN
  /\ executorUp \in BOOLEAN
  /\ wpc \in [Sub -> WorkerPc]
  /\ outcome \in [Sub -> Terminal]
  /\ steps \in [Sub -> 0..MaxSteps]
  /\ usable \in [Sub -> SUBSET Tool]
  /\ spoiled \subseteq Sub
  /\ late \subseteq Sub
  /\ unwritten \subseteq Sub
  /\ cpc \in [Caller -> CallerPc]
  /\ cur \in [Caller -> Sub \cup {NoSub}]
  /\ todo \in [Caller -> SUBSET Sub]
  /\ batch \in [Caller -> SUBSET Sub]
  /\ results \in [Caller -> SUBSET Sub]
  /\ pending \in [Caller -> SUBSET Sub]
  /\ kpc \in [Operator -> {"idle", "flagRunning", "flagQueued", "write", "raised"}]
  /\ target \in [Operator -> Sub \cup {NoSub}]
  /\ spc \in {"open", "stopping", "flagging", "draining", "closed"}
  /\ restarts \in 0..MaxRestarts
  /\ event \in Scenario
-----------------------------------------------------------------------------
Init ==
  /\ status = [s \in Sub |-> "absent"]
  /\ request \in [Sub -> Request]
  /\ consents = {}
  /\ active = {}
  /\ perParent = [p \in Parent |-> 0]
  /\ cancel = {}
  /\ accepting = TRUE
  /\ executorUp = TRUE
  /\ wpc = [s \in Sub |-> "none"]
  /\ outcome = [s \in Sub |-> "failed"]
  /\ steps = [s \in Sub |-> 0]
  /\ usable = [s \in Sub |-> {}]
  /\ spoiled = {}
  /\ late = {}
  /\ unwritten = {}
  /\ cpc = [c \in Caller |-> "idle"]
  /\ cur = [c \in Caller |-> NoSub]
  /\ todo = [c \in Caller |-> {}]
  /\ batch = [c \in Caller |-> {}]
  /\ results = [c \in Caller |-> {}]
  /\ pending = [c \in Caller |-> {}]
  /\ kpc = [k \in Operator |-> "idle"]
  /\ target = [k \in Operator |-> NoSub]
  /\ spc = "open"
  /\ restarts = 0
  /\ event \in Scenario
-----------------------------------------------------------------------------
(* The store and the slots *)

SetStatus(s, st) == status' = [status EXCEPT ![s] = st]

ParentOf(s) == request[s].parent

\* Variant: both limits off by one.
CanDispatch_OffByOne(s) ==
  /\ accepting
  /\ Cardinality(active) <= GlobalLimit
  /\ perParent[ParentOf(s)] <= PerParentLimit

CanDispatch(s) ==
  /\ accepting
  /\ Cardinality(active) < GlobalLimit
  /\ perParent[ParentOf(s)] < PerParentLimit

TakeSlot(s) ==
  /\ active' = active \cup {s}
  /\ perParent' = [perParent EXCEPT ![ParentOf(s)] = @ + 1]

\* Variant: the per-parent count is never lowered.
DropSlot_Leaks(s) == UNCHANGED perParent

\* The second half of _end: the per-parent count, under the pool's lock.
DropSlot(s) ==
  perParent' = [perParent EXCEPT ![ParentOf(s)] = IF @ > 0 THEN @ - 1 ELSE 0]
-----------------------------------------------------------------------------
(* A caller in run_many *)

Call(c, to) == cpc' = [cpc EXCEPT ![c] = to]

\* dispatch, or the decision not to, returns: delegate the next objective or
\* enter the fill loop.
Return(c) ==
  /\ Call(c, IF todo[c] = {} THEN "fill" ELSE "create")
  /\ cur' = [cur EXCEPT ![c] = NoSub]

\* run_many is called with a batch of objectives: one parent, one list of
\* tools, one consent for all of them.
StartBatch(c) ==
  /\ cpc[c] = "idle"
  /\ \E ids \in SUBSET {s \in Sub : status[s] = "absent"} :
       /\ ids # {}
       /\ \A s, t \in ids : request[s] = request[t]
       /\ ids \cap UNION {todo[d] : d \in Caller} = {}
       /\ todo' = [todo EXCEPT ![c] = ids]
       /\ batch' = [batch EXCEPT ![c] = ids]
  /\ results' = [results EXCEPT ![c] = {}]
  /\ pending' = [pending EXCEPT ![c] = {}]
  /\ Call(c, "create")
  /\ UNCHANGED <<storeVars, consents, poolVars, workerVars, cur, otherVars>>

\* Variant: dispatch before the consent is recorded.
Create_SkipsConsent(c) ==
  /\ cpc[c] = "create"
  /\ \E s \in todo[c] :
       /\ SetStatus(s, "queued")
       /\ todo' = [todo EXCEPT ![c] = @ \ {s}]
       /\ cur' = [cur EXCEPT ![c] = s]
  /\ Call(c, "check")
  /\ UNCHANGED <<request, consents, poolVars, workerVars,
                 batch, results, pending, otherVars>>

Create(c) ==
  /\ cpc[c] = "create"
  /\ \E s \in todo[c] :
       /\ SetStatus(s, "queued")
       /\ todo' = [todo EXCEPT ![c] = @ \ {s}]
       /\ cur' = [cur EXCEPT ![c] = s]
  /\ Call(c, "consent")
  /\ UNCHANGED <<request, consents, poolVars, workerVars,
                 batch, results, pending, otherVars>>

RecordConsent(c) ==
  /\ cpc[c] = "consent"
  /\ consents' = IF request[cur[c]].consent THEN consents \cup {cur[c]} ELSE consents
  /\ Call(c, "check")
  /\ UNCHANGED <<storeVars, poolVars, workerVars,
                 cur, todo, batch, results, pending, otherVars>>

\* _maybe_dispatch
CheckSlot(c) ==
  /\ cpc[c] = "check"
  /\ \/ /\ CanDispatch(cur[c])
        /\ Call(c, "read")
        /\ UNCHANGED cur
     \/ /\ ~CanDispatch(cur[c])
        /\ Return(c)
  /\ UNCHANGED <<storeVars, consents, poolVars, workerVars,
                 todo, batch, results, pending, otherVars>>

\* dispatch reads the record, then _accepting.
DispatchRead(c) ==
  /\ cpc[c] = "read"
  /\ \/ /\ status[cur[c]] = "queued" /\ accepting
        /\ Call(c, "mark")
        /\ UNCHANGED cur
     \/ /\ ~(status[cur[c]] = "queued" /\ accepting)
        /\ Return(c)
  /\ UNCHANGED <<storeVars, consents, poolVars, workerVars,
                 todo, batch, results, pending, otherVars>>

\* Variant: the record stays QUEUED until the worker starts.
DispatchMark_Forgets(c) ==
  /\ cpc[c] = "mark"
  /\ Call(c, "begin")
  /\ UNCHANGED <<storeVars, consents, poolVars, workerVars,
                 cur, todo, batch, results, pending, otherVars>>

DispatchMark(c) ==
  /\ cpc[c] = "mark"
  /\ SetStatus(cur[c], "running")
  /\ Call(c, "begin")
  /\ UNCHANGED <<request, consents, poolVars, workerVars,
                 cur, todo, batch, results, pending, otherVars>>

DispatchBegin(c) ==
  /\ cpc[c] = "begin"
  /\ TakeSlot(cur[c])
  /\ Call(c, "submit")
  /\ UNCHANGED <<storeVars, consents, cancel, accepting, executorUp, workerVars,
                 cur, todo, batch, results, pending, otherVars>>

\* submit raises RuntimeError once the executor is shut down.
DispatchSubmit(c) ==
  /\ cpc[c] = "submit"
  /\ \/ /\ executorUp
        /\ wpc' = [wpc EXCEPT ![cur[c]] = "submitted"]
        /\ Return(c)
     \/ /\ ~executorUp
        /\ Call(c, "popBack")
        /\ UNCHANGED <<wpc, cur>>
  /\ UNCHANGED <<storeVars, consents, poolVars, outcome, steps, usable, spoiled,
                 late, unwritten, todo, batch, results, pending, otherVars>>

\* The rollback of a rejected submit: _end, then the status.
RollbackPop(c) ==
  /\ cpc[c] = "popBack"
  /\ active' = active \ {cur[c]}
  /\ Call(c, "dropBack")
  /\ UNCHANGED <<storeVars, consents, perParent, cancel, accepting, executorUp,
                 workerVars, cur, todo, batch, results, pending, otherVars>>

\* Variant: a rejected submit keeps its parent charged.
RollbackDrop_Leaks(c) ==
  /\ cpc[c] = "dropBack"
  /\ Call(c, "unmark")
  /\ UNCHANGED <<storeVars, consents, poolVars,
                 workerVars, cur, todo, batch, results, pending, otherVars>>

RollbackDrop(c) ==
  /\ cpc[c] = "dropBack"
  /\ DropSlot(cur[c])
  /\ Call(c, "unmark")
  /\ UNCHANGED <<storeVars, consents, active, cancel, accepting, executorUp,
                 workerVars, cur, todo, batch, results, pending, otherVars>>

\* Variant: a rejected submit leaves the record RUNNING.
RollbackUnmark_Strands(c) ==
  /\ cpc[c] = "unmark"
  /\ Return(c)
  /\ UNCHANGED <<storeVars, consents, poolVars, workerVars,
                 todo, batch, results, pending, otherVars>>

RollbackUnmark(c) ==
  /\ cpc[c] = "unmark"
  /\ SetStatus(cur[c], "queued")
  /\ Return(c)
  /\ UNCHANGED <<request, consents, poolVars, workerVars,
                 todo, batch, results, pending, otherVars>>

\* The fill loop finds a queued id of its batch and a free slot.
FillPick(c) ==
  /\ cpc[c] = "fill"
  /\ \E s \in batch[c] :
       /\ status[s] = "queued"
       /\ CanDispatch(s)
       /\ cur' = [cur EXCEPT ![c] = s]
  /\ Call(c, "check")
  /\ UNCHANGED <<storeVars, consents, poolVars, workerVars,
                 todo, batch, results, pending, otherVars>>

\* The fill loop ends: every id is terminal, or wait_s has passed.
FillEnds(c) ==
  /\ cpc[c] = "fill"
  /\ \/ \A s \in batch[c] : status[s] \in Terminal
     \/ "waitExpires" \in event
  /\ Call(c, "results")
  /\ UNCHANGED <<storeVars, consents, poolVars, workerVars,
                 cur, todo, batch, results, pending, otherVars>>

\* The two reports are made of two scans of the store.
CollectResults(c) ==
  /\ cpc[c] = "results"
  /\ results' = [results EXCEPT ![c] = {s \in batch[c] : status[s] \in Terminal}]
  /\ Call(c, "pending")
  /\ UNCHANGED <<storeVars, consents, poolVars, workerVars,
                 cur, todo, batch, pending, otherVars>>

\* Variant: only what still waits for a slot is pending.
CollectPending_Queued(c) ==
  /\ cpc[c] = "pending"
  /\ pending' = [pending EXCEPT ![c] = {s \in batch[c] : status[s] = "queued"}]
  /\ Call(c, "idle")
  /\ UNCHANGED <<storeVars, consents, poolVars, workerVars,
                 cur, todo, batch, results, otherVars>>

CollectPending(c) ==
  /\ cpc[c] = "pending"
  /\ pending' = [pending EXCEPT ![c] = {s \in batch[c] : status[s] \notin Terminal}]
  /\ Call(c, "idle")
  /\ UNCHANGED <<storeVars, consents, poolVars, workerVars,
                 cur, todo, batch, results, otherVars>>
\* The stages in which a caller reads or writes the store.
AtStore == {"create", "check", "read", "mark", "unmark", "fill", "results", "pending"}

\* The store raises, and nothing between there and the caller of run_many
\* catches it: the ids created so far stay as they are, and nobody waits for
\* them. A rollback has by then given the slot back.
CallerRaises(c) ==
  /\ "storeFails" \in event
  /\ cpc[c] \in AtStore
  /\ unwritten' = IF cpc[c] = "unmark" THEN unwritten \cup {cur[c]} ELSE unwritten
  /\ Call(c, "idle")
  /\ cur' = [cur EXCEPT ![c] = NoSub]
  /\ todo' = [todo EXCEPT ![c] = {}]
  /\ batch' = [batch EXCEPT ![c] = {}]
  /\ results' = [results EXCEPT ![c] = {}]
  /\ pending' = [pending EXCEPT ![c] = {}]
  /\ UNCHANGED <<storeVars, consents, poolVars, wpc, outcome, steps, usable, spoiled,
                 late, otherVars>>
-----------------------------------------------------------------------------
(* A worker: _run_guarded on an executor thread *)

Go(s, to) == wpc' = [wpc EXCEPT ![s] = to]

\* A thread of the executor takes the work item.
Pickup(s) ==
  /\ wpc[s] = "submitted"
  /\ Cardinality({t \in Sub : wpc[t] \in OnThread}) < GlobalLimit
  /\ Go(s, "starting")
  /\ UNCHANGED <<storeVars, consents, poolVars, outcome, steps, usable, spoiled,
                 late, unwritten, callerVars, otherVars>>

\* Variant: listing a guarded tool is taken for consent.
Narrowed_Unguarded(s) == (request[s].tools \cap PolicyTool) \ SpawnTool

\* The tools a worker may use: listed by the parent, allowed by the policy, no
\* spawn surface, and consented to when they are guarded.
Narrowed(s) ==
  {t \in (request[s].tools \cap PolicyTool) \ SpawnTool :
     t \in GuardedTool => s \in consents}

\* Leave the run with status o to be written at the given stage.
Leave(s, o, stage) ==
  /\ outcome' = [outcome EXCEPT ![s] = o]
  /\ Go(s, stage)

BeginRun(s) ==
  /\ wpc[s] = "starting"
  /\ \/ /\ status[s] = "cancelled"
        /\ Go(s, "ending")
        /\ UNCHANGED <<outcome, usable>>
     \/ /\ status[s] # "cancelled" /\ s \in cancel
        /\ Leave(s, "cancelled", "except")
        /\ UNCHANGED usable
     \/ /\ status[s] # "cancelled" /\ s \notin cancel
        /\ usable' = [usable EXCEPT ![s] = Narrowed(s)]
        /\ Go(s, "boundary")
        /\ UNCHANGED outcome
  /\ UNCHANGED <<storeVars, consents, poolVars, steps, spoiled, late, unwritten,
                 callerVars, otherVars>>

\* The head of the loop: the step cap, then the boundary check, then the
\* provider call.
LoopHead(s) ==
  /\ wpc[s] = "boundary"
  /\ \/ /\ steps[s] = MaxSteps
        /\ Leave(s, "failed", "except")
     \/ /\ steps[s] < MaxSteps /\ s \in cancel
        /\ Leave(s, "cancelled", "except")
     \/ /\ steps[s] < MaxSteps /\ s \notin cancel
        /\ \/ Leave(s, "timed_out", "except")   \* the deadline has passed
           \/ Go(s, "calling") /\ UNCHANGED outcome
  /\ UNCHANGED <<storeVars, consents, poolVars, steps, usable, spoiled, late, unwritten,
                 callerVars, otherVars>>

\* Variant: only answers that act count as steps.
ProviderReplies_Uncounted(s) ==
  /\ wpc[s] = "calling"
  /\ Go(s, "replied")
  /\ late' = IF s \in cancel THEN late \cup {s} ELSE late
  /\ spoiled' \in {spoiled, spoiled \cup {s}}
  /\ UNCHANGED <<storeVars, consents, poolVars, outcome, steps, usable, unwritten,
                 callerVars, otherVars>>

\* The provider answers. The loop's wrapper turns a provider's exception into
\* the text of an answer.
ProviderReplies(s) ==
  /\ wpc[s] = "calling"
  /\ Go(s, "replied")
  /\ steps' = [steps EXCEPT ![s] = @ + 1]
  /\ late' = IF s \in cancel THEN late \cup {s} ELSE late
  /\ spoiled' \in {spoiled, spoiled \cup {s}}
  /\ UNCHANGED <<storeVars, consents, poolVars, outcome, usable, unwritten,
                 callerVars, otherVars>>

\* Variant: no boundary check after the provider call.
Act_Unchecked(s) ==
  /\ wpc[s] = "replied"
  /\ \/ Leave(s, "failed", "except")
     \/ Leave(s, "completed", "try")
     \/ s \notin spoiled /\ usable[s] # {} /\ Go(s, "tool") /\ UNCHANGED outcome
  /\ UNCHANGED <<storeVars, consents, poolVars, steps, usable, spoiled, late, unwritten,
                 callerVars, otherVars>>

\* The second boundary check, the cost budget, then the action itself. An
\* error text is not JSON, so it is a final answer.
Act(s) ==
  /\ wpc[s] = "replied"
  /\ \/ /\ s \in cancel
        /\ Leave(s, "cancelled", "except")
     \/ /\ s \notin cancel
        /\ \/ Leave(s, "timed_out", "except")   \* the deadline has passed
           \/ Leave(s, "failed", "except")      \* max_cost is exceeded
           \/ Leave(s, "completed", "try")      \* a final answer
           \/ /\ s \notin spoiled               \* nothing usable in the answer
              /\ Go(s, "boundary") /\ UNCHANGED outcome
           \/ /\ s \notin spoiled /\ usable[s] # {}
              /\ Go(s, "tool") /\ UNCHANGED outcome
  /\ UNCHANGED <<storeVars, consents, poolVars, steps, usable, spoiled, late, unwritten,
                 callerVars, otherVars>>

ToolReturns(s) ==
  /\ wpc[s] = "tool"
  /\ Go(s, "boundary")
  /\ UNCHANGED <<storeVars, consents, poolVars, outcome, steps, usable, spoiled,
                 late, unwritten, callerVars, otherVars>>

WriteOutcome(s) ==
  /\ wpc[s] \in WriteStage
  /\ SetStatus(s, outcome[s])
  /\ Go(s, "ending")
  /\ UNCHANGED <<request, consents, poolVars, outcome, steps, usable, spoiled,
                 late, unwritten, callerVars, otherVars>>

\* The store raises. The write of COMPLETED is retried as FAILED by the except
\* clause of _run; any other, and the first read of _run, is followed by the
\* write of FAILED in _run_guarded, whose own failure is swallowed.
WriteFails(s) ==
  /\ "storeFails" \in event
  /\ \/ wpc[s] = "try" /\ Leave(s, "failed", "except") /\ UNCHANGED unwritten
     \/ wpc[s] \in {"starting", "except"} /\ Leave(s, "failed", "guard") /\ UNCHANGED unwritten
     \/ /\ wpc[s] = "guard"
        /\ Go(s, "ending")
        /\ unwritten' = unwritten \cup {s}
        /\ UNCHANGED outcome
  /\ UNCHANGED <<storeVars, consents, poolVars, steps, usable, spoiled, late,
                 callerVars, otherVars>>

\* The first half of _end: the unlocked pop.
PopSlot(s) ==
  /\ wpc[s] = "ending"
  /\ active' = active \ {s}
  /\ Go(s, IF s \in active THEN "releasing" ELSE "done")
  /\ UNCHANGED <<storeVars, consents, perParent, cancel, accepting, executorUp,
                 outcome, steps, usable, spoiled, late, unwritten, callerVars, otherVars>>

ReleaseSlot(s) ==
  /\ wpc[s] = "releasing"
  /\ DropSlot(s)
  /\ Go(s, "done")
  /\ UNCHANGED <<storeVars, consents, active, cancel, accepting, executorUp,
                 outcome, steps, usable, spoiled, late, unwritten, callerVars, otherVars>>
-----------------------------------------------------------------------------
(* An operator in cancel *)

CancelRead(k) ==
  /\ "cancel" \in event
  /\ kpc[k] \in {"idle", "raised"}
  /\ \E s \in Sub :
       /\ \/ status[s] = "queued" /\ kpc' = [kpc EXCEPT ![k] = "flagQueued"]
          \/ status[s] = "running" /\ kpc' = [kpc EXCEPT ![k] = "flagRunning"]
       /\ target' = [target EXCEPT ![k] = s]
  /\ UNCHANGED <<storeVars, consents, poolVars, workerVars, callerVars,
                 spc, restarts, event>>

\* Variant: cancel only sets the flag.
CancelFlag_Only(k) ==
  /\ kpc[k] \in {"flagQueued", "flagRunning"}
  /\ cancel' = cancel \cup {target[k]}
  /\ kpc' = [kpc EXCEPT ![k] = "idle"]
  /\ target' = [target EXCEPT ![k] = NoSub]
  /\ UNCHANGED <<storeVars, consents, active, perParent, accepting, executorUp,
                 workerVars, callerVars, spc, restarts, event>>

CancelFlag(k) ==
  /\ kpc[k] \in {"flagQueued", "flagRunning"}
  /\ cancel' = cancel \cup {target[k]}
  /\ \/ /\ kpc[k] = "flagQueued"
        /\ kpc' = [kpc EXCEPT ![k] = "write"]
        /\ UNCHANGED target
     \/ /\ kpc[k] = "flagRunning"
        /\ kpc' = [kpc EXCEPT ![k] = "idle"]
        /\ target' = [target EXCEPT ![k] = NoSub]
  /\ UNCHANGED <<storeVars, consents, active, perParent, accepting, executorUp,
                 workerVars, callerVars, spc, restarts, event>>

\* The record was queued when it was read.
CancelWrite(k) ==
  /\ kpc[k] = "write"
  /\ SetStatus(target[k], "cancelled")
  /\ kpc' = [kpc EXCEPT ![k] = "idle"]
  /\ target' = [target EXCEPT ![k] = NoSub]
  /\ UNCHANGED <<request, consents, poolVars, workerVars, callerVars,
                 spc, restarts, event>>
\* The store refuses the write, and cancel raises with the flag set. Until it
\* calls again the operator knows the id it could not cancel.
CancelRaises(k) ==
  /\ "storeFails" \in event
  /\ kpc[k] = "write"
  /\ kpc' = [kpc EXCEPT ![k] = "raised"]
  /\ UNCHANGED <<storeVars, consents, poolVars, workerVars, callerVars,
                 target, spc, restarts, event>>
-----------------------------------------------------------------------------
(* The thread in shutdown(wait=True) *)

CloseBegins ==
  /\ "close" \in event
  /\ spc = "open"
  /\ accepting' = FALSE
  /\ spc' = "stopping"
  /\ UNCHANGED <<storeVars, consents, active, perParent, cancel, executorUp,
                 workerVars, callerVars, kpc, target, restarts, event>>

\* Variant: shutdown relies on _accepting alone.
CloseExecutor_StaysUp ==
  /\ spc = "stopping"
  /\ spc' = "flagging"
  /\ UNCHANGED <<storeVars, consents, poolVars,
                 workerVars, callerVars, kpc, target, restarts, event>>

CloseExecutor ==
  /\ spc = "stopping"
  /\ executorUp' = FALSE
  /\ spc' = "flagging"
  /\ UNCHANGED <<storeVars, consents, active, perParent, cancel, accepting,
                 workerVars, callerVars, kpc, target, restarts, event>>

CloseFlags ==
  /\ spc = "flagging"
  /\ cancel' = cancel \cup active
  /\ spc' = "draining"
  /\ UNCHANGED <<storeVars, consents, active, perParent, accepting, executorUp,
                 workerVars, callerVars, kpc, target, restarts, event>>

\* The pool is idle, or the two seconds of grace are over.
CloseReturns ==
  /\ spc = "draining"
  /\ spc' = "closed"
  /\ UNCHANGED <<storeVars, consents, poolVars, workerVars, callerVars,
                 kpc, target, restarts, event>>
-----------------------------------------------------------------------------
(* Processes *)

\* Variant: a new process does not look at what the last one left.
RecoverInterrupted_Skips == UNCHANGED status

\* recover_interrupted, run by the constructor of every SubagentManager.
RecoverInterrupted ==
  status' = [s \in Sub |-> IF status[s] = "running" THEN "timed_out" ELSE status[s]]

\* The process dies and a new one starts on the same database: the memory is
\* gone, nothing asks for the queued ids again.
Restart ==
  /\ restarts < MaxRestarts
  /\ restarts' = restarts + 1
  /\ RecoverInterrupted
  /\ consents' = {}
  /\ active' = {}
  /\ perParent' = [p \in Parent |-> 0]
  /\ cancel' = {}
  /\ accepting' = TRUE
  /\ executorUp' = TRUE
  /\ wpc' = [s \in Sub |-> IF wpc[s] = "none" THEN "none" ELSE "done"]
  /\ outcome' = [s \in Sub |-> "failed"]
  /\ steps' = [s \in Sub |-> 0]
  /\ usable' = [s \in Sub |-> {}]
  /\ spoiled' = {}
  /\ late' = {}
  /\ unwritten' = {}
  /\ cpc' = [c \in Caller |-> "idle"]
  /\ cur' = [c \in Caller |-> NoSub]
  /\ todo' = [c \in Caller |-> {}]
  /\ batch' = [c \in Caller |-> {}]
  /\ results' = [c \in Caller |-> {}]
  /\ pending' = [c \in Caller |-> {}]
  /\ kpc' = [k \in Operator |-> "idle"]
  /\ target' = [k \in Operator |-> NoSub]
  /\ spc' = "open"
  /\ UNCHANGED <<request, event>>

\* Another process builds an AgentLoop on the same database, as every
\* "aiba tools", "aiba sessions" or "aiba subagents" command does.
PeerStarts ==
  /\ "peer" \in event
  /\ RecoverInterrupted
  /\ UNCHANGED <<request, consents, poolVars, workerVars, callerVars, otherVars>>
-----------------------------------------------------------------------------
CallerStep(c) ==
  \/ Create(c) \/ RecordConsent(c) \/ CheckSlot(c) \/ DispatchRead(c)
  \/ DispatchMark(c) \/ DispatchBegin(c) \/ DispatchSubmit(c)
  \/ RollbackPop(c) \/ RollbackDrop(c) \/ RollbackUnmark(c)
  \/ FillPick(c) \/ FillEnds(c) \/ CollectResults(c) \/ CollectPending(c)

WorkerStep(s) ==
  \/ Pickup(s) \/ BeginRun(s) \/ LoopHead(s) \/ ProviderReplies(s) \/ Act(s)
  \/ ToolReturns(s) \/ WriteOutcome(s) \/ WriteFails(s)
  \/ PopSlot(s) \/ ReleaseSlot(s)

OperatorStep(k) ==
  CancelRead(k) \/ CancelFlag(k) \/ CancelWrite(k) \/ CancelRaises(k)

CloseStep == CloseBegins \/ CloseExecutor \/ CloseFlags \/ CloseReturns

Next ==
  \/ \E c \in Caller : StartBatch(c) \/ CallerStep(c) \/ CallerRaises(c)
  \/ \E s \in Sub : WorkerStep(s)
  \/ \E k \in Operator : OperatorStep(k)
  \/ CloseStep
  \/ Restart
  \/ PeerStarts

Spec == Init /\ [][Next]_vars

(* Fairness: threads are scheduled, provider calls and tools time out, so a  *)
(* caller, a worker, an operator inside cancel and a shutdown under way do   *)
(* take their next step. Nobody has to start a batch, cancel, shut down,     *)
(* restart or start a second process, and no call of the store has to raise. *)
Fairness ==
  /\ \A c \in Caller : WF_vars(CallerStep(c))
  /\ \A s \in Sub : WF_vars(WorkerStep(s))
  /\ \A k \in Operator : WF_vars(CancelFlag(k) \/ CancelWrite(k))
  /\ WF_vars(CloseExecutor \/ CloseFlags \/ CloseReturns)

FairSpec == Spec /\ Fairness
-----------------------------------------------------------------------------
(* Safety *)

\* A caller has charged s's parent and has not handed s to the executor.
HeldByCaller(s) ==
  \E c \in Caller : cur[c] = s /\ cpc[c] \in {"submit", "popBack", "dropBack"}

HeldByWorker(s) == wpc[s] \in OnThread \cup {"submitted"}

\* The ids whose slot is charged to p.
Charged(p) == {s \in Sub : ParentOf(s) = p /\ (HeldByCaller(s) \/ HeldByWorker(s))}

\* Every parent's counter is the number of its ids that are being handed to the
\* executor, on it, or in between: whatever the callers, cancels, failures of
\* the store and the shutdown do, no slot is leaked and none is freed twice.
SlotsAccounted ==
  \A p \in Parent : perParent[p] = Cardinality(Charged(p))

\* With one delegating thread, as AgentLoop's run lock ensures, neither limit
\* is exceeded although the test and the taking of a slot are separate steps.
LimitsRespected ==
  /\ Cardinality(active) <= GlobalLimit
  /\ \A p \in Parent :
       Cardinality({s \in active : ParentOf(s) = p}) <= PerParentLimit

\* A record is RUNNING only while a dispatch is under way for it or a worker
\* has it, unless the store refused its last status: the worker's outcome three
\* times, or the QUEUED with which a rejected submit is rolled back, whose error
\* leaves run_many. A rejected submit strands no other (docstring of dispatch),
\* and nothing but the next process changes the ones that are.
RunningHasWorker ==
  \A s \in Sub : status[s] = "running" =>
    \/ HeldByWorker(s)
    \/ s \in unwritten
    \/ \E c \in Caller : cur[c] = s /\ cpc[c] \in Dispatching \ {"check", "read", "mark"}

\* An answer that was still in flight when the abort flag was set starts no
\* tool and completes no worker.
LateReplyIsInert ==
  \A s \in late : wpc[s] # "tool" /\ outcome[s] # "completed"

\* A worker never has a tool its parent did not list, the policy refuses or
\* that can spawn, and a guarded tool only with the delegation's consent; and
\* consent given with a delegation has reached the worker by the time it
\* narrows its tools, however soon it starts.
WorkerConfined ==
  \A s \in Sub :
    /\ \A t \in usable[s] :
         /\ t \in request[s].tools
         /\ t \in PolicyTool
         /\ t \notin SpawnTool
         /\ t \in GuardedTool => request[s].consent
    /\ wpc[s] \in {"boundary", "calling", "replied", "tool"} /\ request[s].consent =>
         (request[s].tools \cap PolicyTool) \ SpawnTool \subseteq usable[s]

\* Once a shutdown drains, every worker that has not yet stopped is flagged: no
\* dispatch slips past both the closed executor and the flagging.
CloseReachesEveryWorker ==
  spc \in {"draining", "closed"} =>
    \A s \in Sub : HeldByWorker(s) /\ wpc[s] \notin {"ending", "releasing"} => s \in cancel

\* What run_many returned, or has collected so far, is true of the store also
\* after workers, cancels and second processes have gone on: what it reported has
\* ended for good, none of that is called pending, and an id it says nothing of
\* ended between the two scans ("concise results for workers that reached a
\* terminal state plus ids still busy").
ReportIsTrue ==
  \A c \in Caller :
    /\ \A s \in results[c] : status[s] \in Terminal
    /\ results[c] \cap pending[c] = {}
    /\ cpc[c] = "idle" =>
         \A s \in batch[c] \ (results[c] \cup pending[c]) : status[s] \in Terminal

\* An id is handed to the executor at most once, across rollbacks, cancels and
\* restarts.
NeverRunTwice ==
  [][\A s \in Sub : wpc'[s] = "submitted" => wpc[s] \in {"none", "submitted"}]_vars
-----------------------------------------------------------------------------
(* Liveness *)

\* run_many raised, or its process died: it reports nothing.
Raised(c) == cpc[c] = "idle" /\ batch[c] = {}

\* Without a deadline or a shutdown run_many returns with a result for every
\* worker: the fill loop finds the slots that finished workers gave back. Where
\* the store fails it may raise instead; and a worker whose outcome the store
\* refused three times stays RUNNING, so that run_many waits for it until its
\* deadline.
BatchCompletes ==
  [](event \cap {"close", "waitExpires"} = {}) => \A c \in Caller :
    cpc[c] = "create" ~> \/ cpc[c] = "idle" /\ results[c] = batch[c] /\ pending[c] = {}
                         \/ Raised(c)
                         \/ \E s \in batch[c] : s \in unwritten

\* A worker that was handed to the executor leaves it and gives its slot back.
EveryWorkerStops ==
  \A s \in Sub : wpc[s] = "submitted" ~> (wpc[s] = "done" /\ s \notin active)

\* In a process that stays up and is not shut down, an id that cancel has
\* accepted ends in a terminal state for good, whether or not anyone still waits
\* for it, unless the store refused cancel's own write, and cancel raised, or
\* three times the outcome of the worker it flagged.
CancelTakesEffect ==
  []("close" \notin event /\ restarts = 0) => \A s \in Sub :
    (\E k \in Operator : target[k] = s /\ kpc[k] # "raised") ~>
      \/ [](status[s] \in Terminal)
      \/ s \in unwritten
      \/ \E k \in Operator : target[k] = s /\ kpc[k] = "raised"

\* The pool is a two-level semaphore.
Slots == INSTANCE SlotPool WITH
  parentOf <- [s \in Sub |-> ParentOf(s)],
  held <- active

BoundedSlots == Slots!Spec
=============================================================================
