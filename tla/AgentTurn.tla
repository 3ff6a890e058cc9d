------------------------------ MODULE AgentTurn ------------------------------
(***************************************************************************)
(* A handled message, from AgentLoop.handle to its reply:                  *)
(* agent/enhanced_loop.py with the stores it writes, agent/tasks.py,       *)
(* agent/sessions.py, agent/conversation_store.py, memory/vault.py, the    *)
(* loop of reasoning/engine.py, and the switch of personality/experience.py*)
(* that pauses the memory.                                                 *)
(*                                                                         *)
(* Threads of connectors, of the API and of the job worker call handle at  *)
(* the same time. What a turn does before it takes the run lock, and the   *)
(* commands of a user, interleave with the turn that holds it.             *)
(***************************************************************************)
EXTENDS Naturals, Sequences

CONSTANTS
  Turn,       \* calls of handle
  Conv,       \* conversations, each a pair of a user and an id
  UserOf,     \* the user of a conversation
  Operator,   \* users whose memory scope is the whole vault
  Shared,     \* the owner of what operators and reflections write
  NoTurn,     \* nobody holds the lock
  MaxSteps,   \* engine.max_steps
  Window,     \* messages that recent returns at most
  MaxStarts,  \* bound on the processes started
  Scenario    \* the sets of things the environment may do, of Events

User == {UserOf[c] : c \in Conv}

\* A user pauses the memory; the process dies; a second one starts; a statement
\* on a database or a write to a file raises.
Events == {"pause", "crash", "peer", "storeFails"}

ASSUME TurnAssumption ==
  /\ NoTurn \notin Turn
  /\ DOMAIN UserOf = Conv
  /\ Operator \subseteq User
  /\ Shared \notin User
  /\ MaxSteps \in Nat
  /\ Window \in Nat \ {0}
  /\ MaxStarts \in Nat
  /\ Scenario \subseteq SUBSET Events

VARIABLES
  \* a call of handle
  pc,       \* where it is
  conv,     \* its conversation
  history,  \* the messages it read before it took the lock
  blocked,  \* remember is among the tools blocked for its engine
  steps,    \* steps its engine has taken
  reply,    \* "none", "text", "silent" (a question went out), "failure"
  recalled, \* owners of the memories in its prompt
  heard,    \* observation: turns of its conversation that had returned when it began
  \* the process
  up,       \* it is running
  lock,     \* _run_lock
  scope,    \* engine.retrieval.scope, one field for all turns
  \* the stores
  log,      \* conversation_messages, by conversation
  task,     \* tasks.status
  session,  \* sessions.status
  rows,     \* memories: who wrote them, for whom, how
  paused,   \* users with memory_active = False
  \* observation
  starts,   \* processes started
  event,    \* what may happen in this behaviour
  allowed   \* its user's memory was active at some time since it began

localVars == <<history, blocked, steps, recalled, heard>>
callVars  == <<pc, conv, localVars, reply>>
storeVars == <<log, task, session, rows, paused>>
vars == <<callVars, up, lock, scope, storeVars, starts, event, allowed>>

\* The places where a turn holds the lock, in the order of the code.
Locked == {"create", "open", "ask", "enter", "think", "finish", "fail",
           "answer", "close", "check", "learn", "reflect"}
Ended == {"done", "raised", "dead"}
Pc == {"idle", "recall", "waiting"} \cup Locked \cup Ended

Reply == {"none", "text", "silent", "failure"}
TaskStatus == {"none", "running", "complete", "failed", "interrupted"}
SessionStatus == {"none", "active", "closed"}

Message(t, r) == [turn |-> t, role |-> r]
Messages == [turn : Turn, role : {"user", "assistant"}]
Owner == User \cup {Shared}
Rows == [turn : Turn, owner : Owner, how : {"remembered", "around", "learned", "reflected"}]

TypeOK ==
  /\ pc \in [Turn -> Pc]
  /\ conv \in [Turn -> Conv]
  /\ history \in [Turn -> Seq(Messages)]
  /\ blocked \in [Turn -> BOOLEAN]
  /\ steps \in [Turn -> 0..MaxSteps]
  /\ reply \in [Turn -> Reply]
  /\ recalled \in [Turn -> SUBSET Owner]
  /\ up \in BOOLEAN
  /\ lock \in Turn \cup {NoTurn}
  /\ scope \in SUBSET Owner
  /\ log \in [Conv -> Seq(Messages)]
  /\ task \in [Turn -> TaskStatus]
  /\ session \in [Turn -> SessionStatus]
  /\ rows \in SUBSET Rows
  /\ paused \subseteq User
  /\ starts \in 0..MaxStarts
  /\ event \in Scenario
  /\ heard \in [Turn -> SUBSET Turn]
  /\ allowed \in [Turn -> BOOLEAN]

Init ==
  /\ pc = [t \in Turn |-> "idle"]
  /\ conv \in [Turn -> Conv]
  /\ history = [t \in Turn |-> <<>>]
  /\ blocked = [t \in Turn |-> FALSE]
  /\ steps = [t \in Turn |-> 0]
  /\ reply = [t \in Turn |-> "none"]
  /\ recalled = [t \in Turn |-> {}]
  /\ up = FALSE
  /\ lock = NoTurn
  /\ scope = Owner
  /\ log = [c \in Conv |-> <<>>]
  /\ task = [t \in Turn |-> "none"]
  /\ session = [t \in Turn |-> "none"]
  /\ rows = {}
  /\ paused = {}
  /\ starts = 0
  /\ event \in Scenario
  /\ heard = [t \in Turn |-> {}]
  /\ allowed = [t \in Turn |-> FALSE]
-----------------------------------------------------------------------------
Me(t) == UserOf[conv[t]]

\* _memory_scope: the owners whose rows a user reads. None is every owner.
ScopeOf(u) == IF u \in Operator THEN Owner ELSE {u}

\* _memory_writer_owner
WriterOf(u) == IF u \in Operator THEN Shared ELSE u

Go(t, to) == pc' = [pc EXCEPT ![t] = to]

\* The locals of handle are gone when it ends.
Forget(t) ==
  /\ history' = [history EXCEPT ![t] = <<>>]
  /\ blocked' = [blocked EXCEPT ![t] = FALSE]
  /\ steps' = [steps EXCEPT ![t] = 0]
  /\ recalled' = [recalled EXCEPT ![t] = {}]
  /\ heard' = [heard EXCEPT ![t] = {}]

\* A variant that returns without releasing the lock.
Leave_KeepsLock(t, to) ==
  /\ Go(t, to)
  /\ Forget(t)
  /\ UNCHANGED lock

\* handle ends: the finally clauses and the lock.
Leave(t, to) ==
  /\ Go(t, to)
  /\ Forget(t)
  /\ lock' = NoTurn

\* A statement raises and nothing in handle catches it.
Raise(t) ==
  /\ "storeFails" \in event
  /\ Leave(t, "raised")

\* The turn goes on to its next place.
Proceed(t, to) ==
  /\ Go(t, to)
  /\ UNCHANGED <<localVars, lock>>

\* A variant with the order of the query reversed: the oldest messages.
Recent_Oldest(c) ==
  IF log[c] = <<>> THEN {<<>>}
  ELSE {SubSeq(log[c], 1, i) : i \in {j \in 1..Len(log[c]) : j <= Window}}

\* recent: the last messages, as many as the window and the characters allow.
Recent(c) ==
  LET n == Len(log[c]) IN
  IF n = 0 THEN {<<>>}
  ELSE {SubSeq(log[c], i, n) : i \in {j \in 1..n : n - j < Window}}
-----------------------------------------------------------------------------
(* Before the lock. *)

\* handle resolves the conversation (ensure).
Arrive(t) ==
  /\ up
  /\ pc[t] = "idle"
  /\ Go(t, "recall")
  /\ heard' = [heard EXCEPT ![t] = {d \in Turn : pc[d] = "done" /\ conv[d] = conv[t]}]
  /\ allowed' = [allowed EXCEPT ![t] = Me(t) \notin paused]
  /\ UNCHANGED <<conv, history, blocked, steps, recalled, reply, up, lock, scope,
                 storeVars, starts, event>>

\* It reads the recent dialogue; ensure or the read may raise.
Recall(t) ==
  /\ pc[t] = "recall"
  /\ \/ /\ \E h \in Recent(conv[t]) : history' = [history EXCEPT ![t] = h]
        /\ Go(t, "waiting")
        /\ UNCHANGED <<blocked, steps, recalled, heard>>
     \/ /\ "storeFails" \in event
        /\ Go(t, "raised")
        /\ Forget(t)
  /\ UNCHANGED <<conv, reply, up, lock, scope, storeVars, starts, event, allowed>>

\* A variant without the run lock.
Acquire_Unlocked(t) ==
  /\ pc[t] = "waiting"
  /\ lock' = t
  /\ Go(t, "create")
  /\ UNCHANGED <<conv, localVars, reply, up, scope, storeVars, starts, event, allowed>>

Acquire(t) ==
  /\ pc[t] = "waiting"
  /\ lock = NoTurn
  /\ lock' = t
  /\ Go(t, "create")
  /\ UNCHANGED <<conv, localVars, reply, up, scope, storeVars, starts, event, allowed>>
-----------------------------------------------------------------------------
(* Under the lock. *)

CreateTask(t) ==
  /\ pc[t] = "create"
  /\ \/ /\ task' = [task EXCEPT ![t] = "running"]
        /\ Proceed(t, "open")
     \/ /\ Raise(t)
        /\ UNCHANGED task
  /\ UNCHANGED <<conv, reply, up, scope, log, session, rows, paused, starts, event,
                 allowed>>

\* A variant that leaves the scope of the turn before.
OpenSession_KeepsScope(t) ==
  /\ pc[t] = "open"
  /\ session' = [session EXCEPT ![t] = "active"]
  /\ Proceed(t, "ask")
  /\ UNCHANGED <<conv, reply, up, scope, log, task, rows, paused, starts, event, allowed>>

\* The scope of the retrieval, and the session row, which may be missing.
OpenSession(t) ==
  /\ pc[t] = "open"
  /\ scope' = ScopeOf(Me(t))
  /\ \/ session' = [session EXCEPT ![t] = "active"]
     \/ /\ "storeFails" \in event
        /\ UNCHANGED session
  /\ Proceed(t, "ask")
  /\ UNCHANGED <<conv, reply, up, log, task, rows, paused, starts, event, allowed>>

\* The question becomes a message before the engine runs.
AppendUser(t) ==
  /\ pc[t] = "ask"
  /\ \/ /\ log' = [log EXCEPT ![conv[t]] = Append(@, Message(t, "user"))]
        /\ Proceed(t, "enter")
     \/ /\ Raise(t)
        /\ UNCHANGED log
  /\ UNCHANGED <<conv, reply, up, scope, task, session, rows, paused, starts, event,
                 allowed>>

\* The engine starts: the blocked tools are computed once, and the prompt gets
\* the memories in scope. Either may raise.
EnterEngine(t) ==
  /\ pc[t] = "enter"
  /\ \/ /\ blocked' = [blocked EXCEPT ![t] = Me(t) \in paused]
        /\ recalled' = [recalled EXCEPT ![t] = {r.owner : r \in {x \in rows : x.owner \in scope}}]
        /\ Go(t, "think")
     \/ /\ "storeFails" \in event
        /\ Go(t, "fail")
        /\ UNCHANGED <<blocked, recalled>>
  /\ UNCHANGED <<conv, history, steps, heard, reply, up, lock, scope, storeVars, starts,
                 event, allowed>>

\* The model answers, or asks the user back through the clarify tool.
Conclude(t) ==
  /\ \E r \in {"text", "silent"} : reply' = [reply EXCEPT ![t] = r]
  /\ Go(t, "finish")
  /\ UNCHANGED rows

Note(t, h) == [turn |-> t, owner |-> WriterOf(Me(t)), how |-> h]

\* A round calls remember, unless it is blocked for the turn.
Remember(t) ==
  /\ ~blocked[t]
  /\ rows' = rows \cup {Note(t, "remembered")}

\* A step of a skill, and a worker the round waits for, call remember through
\* the registry, which knows nothing of the turn's blocked tools.
RememberAround(t) == rows' = rows \cup {Note(t, "around")}

\* update_memory, which is never blocked, puts this turn's words into a row of
\* the scope; delete_memory removes one.
EditMemory(t) ==
  \E r \in {x \in rows : x.owner \in scope} :
    rows' \in {rows \ {r}, (rows \ {r}) \cup {[r EXCEPT !.turn = t, !.how = "around"]}}

\* It calls a tool that touches the memory, or another one.
CallTool(t) ==
  /\ Remember(t) \/ RememberAround(t) \/ EditMemory(t) \/ UNCHANGED rows
  /\ UNCHANGED <<pc, reply>>

\* One round of the loop. The provider or the record of the step may raise, and
\* so does a round beyond the last.
Think(t) ==
  /\ pc[t] = "think"
  /\ \/ /\ steps[t] < MaxSteps
        /\ steps' = [steps EXCEPT ![t] = @ + 1]
        /\ Conclude(t) \/ CallTool(t)
     \/ /\ Go(t, "fail")
        /\ UNCHANGED <<steps, reply, rows>>
  /\ UNCHANGED <<conv, history, blocked, recalled, heard, up, lock, scope, log, task,
                 session, paused, starts, event, allowed>>

\* tasks.finish inside the try block: a failure of it is a failure of the turn.
FinishTask(t) ==
  /\ pc[t] = "finish"
  /\ \/ /\ task' = [task EXCEPT ![t] = "complete"]
        /\ Proceed(t, "answer")
     \/ /\ "storeFails" \in event
        /\ Proceed(t, "fail")
        /\ UNCHANGED task
  /\ UNCHANGED <<conv, reply, up, scope, log, session, rows, paused, starts, event,
                 allowed>>

\* A variant that records the failure under the default status.
RecordFailure_DefaultStatus(t) ==
  /\ pc[t] = "fail"
  /\ \/ /\ task' = [task EXCEPT ![t] = "complete"]
        /\ reply' = [reply EXCEPT ![t] = "failure"]
        /\ Proceed(t, "answer")
     \/ /\ Raise(t)
        /\ UNCHANGED <<task, reply>>
  /\ UNCHANGED <<conv, up, scope, log, session, rows, paused, starts, event, allowed>>

\* The except clause: the answer is the failure, and may not be recorded.
RecordFailure(t) ==
  /\ pc[t] = "fail"
  /\ \/ /\ task' = [task EXCEPT ![t] = "failed"]
        /\ reply' = [reply EXCEPT ![t] = "failure"]
        /\ Proceed(t, "answer")
     \/ /\ Raise(t)
        /\ UNCHANGED <<task, reply>>
  /\ UNCHANGED <<conv, up, scope, log, session, rows, paused, starts, event, allowed>>

\* An empty answer is no message.
AppendAnswer(t) ==
  /\ pc[t] = "answer"
  /\ \/ /\ log' = IF reply[t] = "silent" THEN log
                  ELSE [log EXCEPT ![conv[t]] = Append(@, Message(t, "assistant"))]
        /\ Proceed(t, "close")
     \/ /\ reply[t] # "silent"
        /\ Raise(t)
        /\ UNCHANGED log
  /\ UNCHANGED <<conv, reply, up, scope, task, session, rows, paused, starts, event,
                 allowed>>

\* Summary and end of the session, as far as they can be written.
CloseSession(t) ==
  /\ pc[t] = "close"
  /\ \/ session' = [session EXCEPT ![t] = IF @ = "active" THEN "closed" ELSE @]
     \/ /\ "storeFails" \in event
        /\ UNCHANGED session
  /\ Proceed(t, "check")
  /\ UNCHANGED <<conv, reply, up, scope, log, task, rows, paused, starts, event, allowed>>

\* A variant that does not look it up.
CheckPause_Ignored(t) ==
  /\ pc[t] = "check"
  /\ Proceed(t, IF reply[t] # "failure" THEN "learn" ELSE "reflect")
  /\ UNCHANGED <<conv, reply, up, scope, storeVars, starts, event, allowed>>

\* The pause is looked up again, after the answer.
CheckPause(t) ==
  /\ pc[t] = "check"
  /\ Proceed(t, IF Me(t) \notin paused /\ reply[t] # "failure" THEN "learn" ELSE "reflect")
  /\ UNCHANGED <<conv, reply, up, scope, storeVars, starts, event, allowed>>

\* The learner stores what the message states, if it states something and the
\* vault does not have it.
Learn(t) ==
  /\ pc[t] = "learn"
  /\ rows' \in {rows, rows \cup {[turn |-> t, owner |-> WriterOf(Me(t)), how |-> "learned"]}}
  /\ Proceed(t, "reflect")
  /\ UNCHANGED <<conv, reply, up, scope, log, task, session, paused, starts, event,
                 allowed>>

\* The reflection is a file of the vault, which the next line makes a row;
\* then handle returns. None of it is in a try block.
Reflect(t) ==
  /\ pc[t] = "reflect"
  /\ \/ /\ rows' = rows \cup {[turn |-> t, owner |-> Shared, how |-> "reflected"]}
        /\ Leave(t, "done") \/ Raise(t)
     \/ /\ Raise(t)
        /\ UNCHANGED rows
  /\ UNCHANGED <<conv, reply, up, scope, log, task, session, paused, starts, event,
                 allowed>>
-----------------------------------------------------------------------------
(* Around the turns. *)

\* "/memory pause", handled by intercept in another thread.
Pause(u) ==
  /\ "pause" \in event
  /\ up
  /\ u \notin paused
  /\ paused' = paused \cup {u}
  /\ UNCHANGED <<callVars, up, lock, scope, log, task, session, rows, starts, event,
                 allowed>>

Resume(u) ==
  /\ up
  /\ u \in paused
  /\ paused' = paused \ {u}
  /\ allowed' = [t \in Turn |-> allowed[t] \/ (pc[t] \notin Ended \cup {"idle"} /\ Me(t) = u)]
  /\ UNCHANGED <<callVars, up, lock, scope, log, task, session, rows, starts, event>>

\* A variant that marks nothing.
Recover_Skips == task' = task

\* The tasks found running are marked, whoever runs them.
Recover == task' = [t \in Turn |-> IF task[t] = "running" THEN "interrupted" ELSE task[t]]

\* A process builds its AgentLoop.
Start ==
  /\ ~up
  /\ starts < MaxStarts
  /\ starts' = starts + 1
  /\ up' = TRUE
  /\ Recover
  /\ UNCHANGED <<callVars, lock, scope, log, session, rows, paused, event, allowed>>

\* A command line process builds one as well, beside the server.
PeerStarts ==
  /\ "peer" \in event
  /\ up
  /\ starts < MaxStarts
  /\ starts' = starts + 1
  /\ Recover
  /\ UNCHANGED <<callVars, up, lock, scope, log, session, rows, paused, event, allowed>>

Crash ==
  /\ "crash" \in event
  /\ up
  /\ up' = FALSE
  /\ pc' = [t \in Turn |-> IF pc[t] \in Ended \cup {"idle"} THEN pc[t] ELSE "dead"]
  /\ history' = [t \in Turn |-> <<>>]
  /\ blocked' = [t \in Turn |-> FALSE]
  /\ steps' = [t \in Turn |-> 0]
  /\ recalled' = [t \in Turn |-> {}]
  /\ heard' = [t \in Turn |-> {}]
  /\ lock' = NoTurn
  /\ scope' = Owner
  /\ UNCHANGED <<conv, reply, storeVars, starts, event, allowed>>
-----------------------------------------------------------------------------
\* What a thread inside handle does next.
TurnStep(t) ==
  \/ Recall(t) \/ Acquire(t) \/ CreateTask(t) \/ OpenSession(t) \/ AppendUser(t)
  \/ EnterEngine(t) \/ Think(t) \/ FinishTask(t) \/ RecordFailure(t) \/ AppendAnswer(t)
  \/ CloseSession(t) \/ CheckPause(t) \/ Learn(t) \/ Reflect(t)

Next ==
  \/ \E t \in Turn : Arrive(t) \/ TurnStep(t)
  \/ \E u \in User : Pause(u) \/ Resume(u)
  \/ Start \/ PeerStarts \/ Crash

Spec == Init /\ [][Next]_vars

\* A thread inside handle goes on: the lock is free again after finitely many
\* steps, calls of the model are bounded by their timeouts and the engine by
\* its steps.
FairSpec == Spec /\ \A t \in Turn : WF_vars(TurnStep(t))
-----------------------------------------------------------------------------
(* Properties *)

\* Whatever a turn that had returned said or was told before this one began is
\* in the dialogue this one read, or was pushed out of it by later messages:
\* the history is a piece of the conversation behind which there is nothing
\* of theirs, although it is read before the lock is taken.
HistoryFollowsAnswers ==
  \A t \in Turn : pc[t] = "waiting" \/ pc[t] \in Locked =>
    LET said == log[conv[t]] IN
    \E j \in 0..Len(said) :
      /\ \E i \in 1..Len(said) + 1 :
           /\ history[t] = SubSeq(said, i, j)
           /\ j > 0 => i <= j
      /\ \A k \in j + 1..Len(said) : said[k].turn \notin heard[t]

\* The prompt of a user who is not an operator holds no memory of another
\* user and no shared one, although all turns retrieve through one engine.
RecallIsOwn == \A t \in Turn : Me(t) \notin Operator => recalled[t] \subseteq {Me(t)}

\* When handle returns, the task says how it ended and the answer stands in
\* the conversation right behind the question, whichever writes failed on the
\* way and whichever process marked the task meanwhile.
ReplyIsRecorded ==
  \A t \in Turn : pc[t] = "done" =>
    /\ task[t] = IF reply[t] = "failure" THEN "failed" ELSE "complete"
    /\ reply[t] = "silent" \/
       \E i \in 1..Len(log[conv[t]]) - 1 :
         /\ log[conv[t]][i] = Message(t, "user")
         /\ log[conv[t]][i + 1] = Message(t, "assistant")

\* No task of a dead process is shown as running once another one is up.
DeadTasksAreMarked == \A t \in Turn : up /\ task[t] = "running" => pc[t] # "dead"

\* The tables agree with what the calls did, whether they returned or died.
TasksAreTrue == ReplyIsRecorded /\ DeadTasksAreMarked

\* In a turn whose user had the memory paused from its beginning on, neither a
\* remember that the model calls nor the learner stores what the user said,
\* though the pause is read at two moments and may be lifted and set between
\* them. The three ways on which the code does not look at the pause are left
\* out: the reflection, remember called by a skill's step or a worker, and
\* update_memory.
PauseHolds == \A r \in rows : r.how \in {"remembered", "learned"} => allowed[r.turn]

\* personality/experience.py:22: a paused user "cannot write new durable memory";
\* 337: "I'll stop keeping new notes about you". The code writes a reflection of
\* every turn, with its message, into the vault, and two ways around the blocked
\* tool are open.
PausedStoresNothing == \A r \in rows : allowed[r.turn]

\* A call of handle ends, by a reply, an exception or the end of the process.
EveryTurnEnds == \A t \in Turn : pc[t] = "recall" ~> pc[t] \in Ended

\* The exchange under way is that of the turn with the lock, from its question
\* to its answer.
Open ==
  IF lock # NoTurn /\ pc[lock] \in {"enter", "think", "finish", "fail", "answer"}
  THEN lock ELSE NoTurn

\* Turns of all users and threads together are a dialogue: one exchange at a
\* time, each answer right behind its question.
D == INSTANCE Dialogue WITH open <- Open
OneExchangeAtATime == D!Spec
=============================================================================
