--------------------------- MODULE AgentTurnProofs ---------------------------
(***************************************************************************)
(* Theorems about AgentTurn. All of them rest on the lock: the steps a     *)
(* turn takes between two of its own leave what it relies on alone.        *)
(***************************************************************************)
EXTENDS AgentTurn, SequenceTheorems, TLAPS

\* The users a turn acts for, and the owners it may write for.
LEMMA Identity ==
  ASSUME TurnAssumption, NEW c \in Conv
  PROVE  /\ UserOf[c] \in User
         /\ ScopeOf(UserOf[c]) \subseteq Owner
         /\ WriterOf(UserOf[c]) \in Owner
         /\ UserOf[c] \notin Operator =>
              ScopeOf(UserOf[c]) = {UserOf[c]} /\ WriterOf(UserOf[c]) = UserOf[c]
<1>1. UserOf[c] \in User
  BY DEF User
<1> QED
  BY <1>1 DEF TurnAssumption, ScopeOf, WriterOf, Owner

\* What the read before the lock returns: a piece of the conversation that
\* reaches its end.
LEMMA RecentIsSuffix ==
  ASSUME TypeOK, NEW c \in Conv, NEW h \in Recent(c)
  PROVE  /\ h \in Seq(Messages)
         /\ \E i \in 1..Len(log[c]) + 1 :
              /\ h = SubSeq(log[c], i, Len(log[c]))
              /\ Len(log[c]) > 0 => i <= Len(log[c])
<1> DEFINE n == Len(log[c])
<1>1. log[c] \in Seq(Messages) /\ n \in Nat
  BY DEF TypeOK
<1>2. CASE n = 0
  <2>1. h = <<>> /\ log[c] = <<>>
    BY <1>1, <1>2, EmptySeq DEF Recent
  <2>2. SubSeq(log[c], 1, 0) = <<>>
    BY <1>1, SubSeqEmpty
  <2> QED
    BY <1>2, <2>1, <2>2
<1>3. CASE n # 0
  <2>1. PICK i \in 1..n : h = SubSeq(log[c], i, n)
    BY <1>1, <1>3 DEF Recent
  <2>2. SubSeq(log[c], i, n) \in Seq(Messages)
    BY <1>1, <2>1, SubSeqProperties
  <2> QED
    BY <1>1, <2>1, <2>2
<1> QED
  BY <1>2, <1>3
-----------------------------------------------------------------------------
LEMMA InitType == TurnAssumption /\ Init => TypeOK
<1> SUFFICES ASSUME TurnAssumption, Init PROVE TypeOK
  OBVIOUS
<1>1. \A S : <<>> \in Seq(S)
  OBVIOUS
<1>2. history \in [Turn -> Seq(Messages)] /\ log \in [Conv -> Seq(Messages)]
  BY <1>1 DEF Init
<1>3. "idle" \in Pc /\ "none" \in Reply /\ "none" \in TaskStatus /\ "none" \in SessionStatus
  BY DEF Pc, Reply, TaskStatus, SessionStatus
<1>4. 0 \in 0..MaxSteps /\ 0 \in 0..MaxStarts
  BY DEF TurnAssumption
<1> QED
  BY <1>2, <1>3, <1>4 DEF Init, TypeOK

\* The types of what every step of a call assigns, and of the rest.
CallType ==
  /\ pc \in [Turn -> Pc]
  /\ history \in [Turn -> Seq(Messages)]
  /\ blocked \in [Turn -> BOOLEAN]
  /\ steps \in [Turn -> 0..MaxSteps]
  /\ recalled \in [Turn -> SUBSET Owner]
  /\ heard \in [Turn -> SUBSET Turn]
  /\ lock \in Turn \cup {NoTurn}

RestType ==
  /\ conv \in [Turn -> Conv]
  /\ reply \in [Turn -> Reply]
  /\ up \in BOOLEAN
  /\ scope \in SUBSET Owner
  /\ log \in [Conv -> Seq(Messages)]
  /\ task \in [Turn -> TaskStatus]
  /\ session \in [Turn -> SessionStatus]
  /\ rows \in SUBSET Rows
  /\ paused \subseteq User
  /\ starts \in 0..MaxStarts
  /\ event \in Scenario
  /\ allowed \in [Turn -> BOOLEAN]

LEMMA TypeParts == TypeOK <=> CallType /\ RestType
  BY DEF TypeOK, CallType, RestType

LEMMA PcMembers ==
  /\ Locked \subseteq Pc /\ Ended \subseteq Pc /\ "recall" \in Pc /\ "waiting" \in Pc
  BY DEF Pc

LEMMA LockedMembers ==
  /\ "create" \in Locked /\ "open" \in Locked /\ "ask" \in Locked /\ "enter" \in Locked
  /\ "think" \in Locked /\ "finish" \in Locked /\ "fail" \in Locked /\ "answer" \in Locked
  /\ "close" \in Locked /\ "check" \in Locked /\ "learn" \in Locked /\ "reflect" \in Locked
  BY DEF Locked

\* The forms in which a step moves a call keep the types.
LEMMA ForgetType ==
  ASSUME TurnAssumption, CallType, NEW t \in Turn, NEW to \in Pc, Go(t, to), Forget(t),
         lock' \in Turn \cup {NoTurn}
  PROVE  CallType'
<1>1. <<>> \in Seq(Messages) /\ 0 \in 0..MaxSteps
  BY DEF TurnAssumption
<1> QED
  BY <1>1 DEF CallType, Forget, Go

LEMMA RaiseType ==
  ASSUME TurnAssumption, CallType, NEW t \in Turn, Raise(t) \/ Leave(t, "done")
  PROVE  CallType'
<1>1. "raised" \in Pc /\ "done" \in Pc
  BY DEF Pc, Ended
<1> QED
  BY <1>1, ForgetType DEF Raise, Leave

LEMMA ProceedType ==
  ASSUME CallType, NEW t \in Turn, NEW to \in Locked, Proceed(t, to)
  PROVE  CallType'
  BY PcMembers DEF CallType, Proceed, Go, localVars

LEMMA StepType == TurnAssumption /\ TypeOK /\ [Next]_vars => TypeOK'
<1> SUFFICES ASSUME TurnAssumption, CallType, RestType, [Next]_vars PROVE CallType' /\ RestType'
  BY DEF TypeOK, CallType, RestType
<1>a. \A t \in Turn : conv[t] \in Conv /\ Me(t) \in User /\ ScopeOf(Me(t)) \subseteq Owner
                      /\ WriterOf(Me(t)) \in Owner
  BY Identity DEF Me, RestType
<1>b. \A t \in Turn, r \in {"user", "assistant"} : Message(t, r) \in Messages
  BY DEF Message, Messages
<1>c. \A t \in Turn, r \in {"user", "assistant"} :
        [log EXCEPT ![conv[t]] = Append(@, Message(t, r))] \in [Conv -> Seq(Messages)]
  BY <1>a, <1>b, AppendProperties DEF RestType
<1>d. \A t \in Turn, s \in {"running", "complete", "failed"} :
        [task EXCEPT ![t] = s] \in [Turn -> TaskStatus]
  BY DEF RestType, TaskStatus
<1>e. \A t \in Turn, s \in {"text", "silent", "failure"} :
        [reply EXCEPT ![t] = s] \in [Turn -> Reply]
  BY DEF RestType, Reply
<1>f. \A t \in Turn, h \in {"remembered", "around", "learned"} :
        rows \cup {[turn |-> t, owner |-> WriterOf(Me(t)), how |-> h]} \in SUBSET Rows
  BY <1>a DEF Rows, RestType
<1>1. ASSUME NEW t \in Turn, Arrive(t) PROVE CallType' /\ RestType'
  <2>1. CallType'
    BY <1>1, PcMembers DEF Arrive, Go, CallType, storeVars
  <2>2. allowed' \in [Turn -> BOOLEAN]
    BY <1>1 DEF Arrive, RestType
  <2> QED
    BY <1>1, <2>1, <2>2 DEF Arrive, RestType, storeVars
<1>2. ASSUME NEW t \in Turn, Recall(t) PROVE CallType' /\ RestType'
  <2>1. CASE Go(t, "raised") /\ Forget(t)
    BY <1>2, <2>1, PcMembers, ForgetType DEF Recall, RestType, CallType, Ended, storeVars
  <2>2. CASE \E h \in Recent(conv[t]) :
               history' = [history EXCEPT ![t] = h] /\ Go(t, "waiting")
               /\ UNCHANGED <<blocked, steps, recalled, heard>>
    <3>1. \A h \in Recent(conv[t]) : h \in Seq(Messages)
      BY <1>a, TypeParts, RecentIsSuffix
    <3>2. CallType'
      BY <1>2, <2>2, <3>1, PcMembers DEF Recall, CallType, Go
    <3> QED
      BY <1>2, <3>2 DEF Recall, RestType, storeVars
  <2> QED
    BY <1>2, <2>1, <2>2 DEF Recall
<1>3. ASSUME NEW t \in Turn, Acquire(t) PROVE CallType' /\ RestType'
  <2>1. CallType'
    BY <1>3, PcMembers, LockedMembers DEF Acquire, CallType, Go, localVars
  <2> QED
    BY <1>3, <2>1 DEF Acquire, RestType, storeVars
<1>4. ASSUME NEW t \in Turn, CreateTask(t) PROVE CallType' /\ RestType'
  <2>1. CallType'
    BY <1>4, LockedMembers, ProceedType, RaiseType DEF CreateTask
  <2> QED
    BY <1>4, <1>d, <2>1 DEF CreateTask, RestType
<1>5. ASSUME NEW t \in Turn, OpenSession(t) PROVE CallType' /\ RestType'
  <2>1. CallType'
    BY <1>5, LockedMembers, ProceedType DEF OpenSession
  <2>2. session' \in [Turn -> SessionStatus]
    BY <1>5 DEF OpenSession, RestType, SessionStatus
  <2> QED
    BY <1>5, <1>a, <2>1, <2>2 DEF OpenSession, RestType
<1>6. ASSUME NEW t \in Turn, AppendUser(t) PROVE CallType' /\ RestType'
  <2>1. CallType'
    BY <1>6, LockedMembers, ProceedType, RaiseType DEF AppendUser
  <2> QED
    BY <1>6, <1>c, <2>1 DEF AppendUser, RestType
<1>7. ASSUME NEW t \in Turn, EnterEngine(t) PROVE CallType' /\ RestType'
  <2>1. {r.owner : r \in {x \in rows : x.owner \in scope}} \subseteq Owner
    BY DEF RestType
  <2>2. recalled' \in [Turn -> SUBSET Owner]
    <3>1. recalled \in [Turn -> SUBSET Owner]
      BY DEF CallType
    <3>2. \/ recalled' = recalled
          \/ recalled' = [recalled EXCEPT ![t] = {r.owner : r \in {x \in rows : x.owner \in scope}}]
      BY <1>7 DEF EnterEngine
    <3> DEFINE R == {r.owner : r \in {x \in rows : x.owner \in scope}}
    <3>3. R \subseteq Owner
      BY <2>1
    <3> HIDE DEF R
    <3>4. recalled' = recalled \/ recalled' = [recalled EXCEPT ![t] = R]
      BY <3>2 DEF R
    <3> QED
      BY <3>1, <3>3, <3>4
  <2>3. (Me(t) \in paused) \in BOOLEAN
    OBVIOUS
  <2>4. blocked' \in [Turn -> BOOLEAN]
    BY <1>7, <2>3 DEF EnterEngine, CallType
  <2>5. CallType'
    BY <1>7, <2>2, <2>4, PcMembers, LockedMembers DEF EnterEngine, CallType, Go
  <2> QED
    BY <1>7, <2>5 DEF EnterEngine, RestType, storeVars
<1>8. ASSUME NEW t \in Turn, Think(t) PROVE CallType' /\ RestType'
  <2>1. pc' \in [Turn -> Pc]
    BY <1>8, PcMembers, LockedMembers DEF Think, Conclude, CallTool, Go, CallType
  <2>2. steps' \in [Turn -> 0..MaxSteps]
    <3>1. steps[t] \in 0..MaxSteps /\ MaxSteps \in Nat
      BY DEF CallType, TurnAssumption
    <3>2. steps[t] < MaxSteps => steps[t] + 1 \in 0..MaxSteps
      BY <3>1
    <3> QED
      BY <1>8, <3>2 DEF Think, CallType
  <2>3. reply' \in [Turn -> Reply]
    <3>1. reply' = reply \/ \E r \in {"text", "silent"} : reply' = [reply EXCEPT ![t] = r]
      BY <1>8 DEF Think, Conclude, CallTool
    <3>2. CASE reply' = reply
      BY <3>2 DEF RestType
    <3>3. ASSUME NEW r \in {"text", "silent"}, reply' = [reply EXCEPT ![t] = r]
          PROVE  reply' \in [Turn -> Reply]
      BY <1>e, <3>3
    <3> QED
      BY <3>1, <3>2, <3>3
  <2>4. rows' \in SUBSET Rows
    <3>1. rows \in SUBSET Rows
      BY DEF RestType
    <3>2. CASE UNCHANGED rows
      BY <3>1, <3>2
    <3>3. CASE Remember(t)
      BY <1>f, <3>3 DEF Remember, Note
    <3>4. CASE RememberAround(t)
      BY <1>f, <3>4 DEF RememberAround, Note
    <3>5. CASE EditMemory(t)
      <4>1. PICK r \in rows : \/ rows' = rows \ {r}
                             \/ rows' = (rows \ {r}) \cup {[r EXCEPT !.turn = t, !.how = "around"]}
        BY <3>5 DEF EditMemory
      <4>2. [r EXCEPT !.turn = t, !.how = "around"] \in Rows
        BY <3>1 DEF Rows
      <4> QED
        BY <3>1, <4>1, <4>2
    <3> QED
      BY <1>8, <3>2, <3>3, <3>4, <3>5 DEF Think, Conclude, CallTool
  <2> QED
    BY <1>8, <2>1, <2>2, <2>3, <2>4 DEF Think, CallType, RestType
<1>9. ASSUME NEW t \in Turn, FinishTask(t) PROVE CallType' /\ RestType'
  <2>1. CallType'
    BY <1>9, LockedMembers, ProceedType DEF FinishTask
  <2> QED
    BY <1>9, <1>d, <2>1 DEF FinishTask, RestType
<1>10. ASSUME NEW t \in Turn, RecordFailure(t) PROVE CallType' /\ RestType'
  <2>1. CallType'
    BY <1>10, LockedMembers, ProceedType, RaiseType DEF RecordFailure
  <2>2. task' \in [Turn -> TaskStatus]
    BY <1>10, <1>d DEF RecordFailure, RestType
  <2>3. reply' \in [Turn -> Reply]
    BY <1>10, <1>e DEF RecordFailure, RestType
  <2> QED
    BY <1>10, <2>1, <2>2, <2>3 DEF RecordFailure, RestType
<1>11. ASSUME NEW t \in Turn, AppendAnswer(t) PROVE CallType' /\ RestType'
  <2>1. CallType'
    BY <1>11, LockedMembers, ProceedType, RaiseType DEF AppendAnswer
  <2> QED
    BY <1>11, <1>c, <2>1 DEF AppendAnswer, RestType
<1>12. ASSUME NEW t \in Turn, CloseSession(t) PROVE CallType' /\ RestType'
  <2>1. CallType'
    BY <1>12, LockedMembers, ProceedType DEF CloseSession
  <2>2. session' \in [Turn -> SessionStatus]
    BY <1>12 DEF CloseSession, RestType, SessionStatus
  <2> QED
    BY <1>12, <2>1, <2>2 DEF CloseSession, RestType
<1>13. ASSUME NEW t \in Turn, CheckPause(t) PROVE CallType' /\ RestType'
  <2>1. CallType'
    BY <1>13, LockedMembers, ProceedType DEF CheckPause
  <2> QED
    BY <1>13, <2>1 DEF CheckPause, RestType, storeVars
<1>14. ASSUME NEW t \in Turn, Learn(t) PROVE CallType' /\ RestType'
  <2>1. CallType'
    BY <1>14, LockedMembers, ProceedType DEF Learn
  <2> QED
    BY <1>14, <1>f, <2>1 DEF Learn, RestType
<1>15. ASSUME NEW t \in Turn, Reflect(t) PROVE CallType' /\ RestType'
  <2>1. [turn |-> t, owner |-> Shared, how |-> "reflected"] \in Rows
    BY DEF Rows, Owner
  <2>2. CallType'
    BY <1>15, RaiseType DEF Reflect
  <2> QED
    BY <1>15, <2>1, <2>2 DEF Reflect, RestType
<1>16. ASSUME NEW u \in User, Pause(u) \/ Resume(u) PROVE CallType' /\ RestType'
  <2>1. CallType'
    BY <1>16 DEF Pause, Resume, CallType, callVars, localVars
  <2>2. allowed' \in [Turn -> BOOLEAN] /\ paused' \subseteq User
    BY <1>16 DEF Pause, Resume, RestType
  <2> QED
    BY <1>16, <2>1, <2>2 DEF Pause, Resume, RestType, callVars
<1>17. ASSUME Start \/ PeerStarts PROVE CallType' /\ RestType'
  <2>1. CallType'
    BY <1>17 DEF Start, PeerStarts, CallType, callVars, localVars
  <2>2. task' \in [Turn -> TaskStatus]
    BY <1>17 DEF Start, PeerStarts, Recover, RestType, TaskStatus
  <2>3. up' \in BOOLEAN /\ starts' \in 0..MaxStarts
    <3>1. starts \in 0..MaxStarts /\ MaxStarts \in Nat
      BY DEF RestType, TurnAssumption
    <3>2. starts < MaxStarts => starts + 1 \in 0..MaxStarts
      BY <3>1
    <3> QED
      BY <1>17, <3>1, <3>2 DEF Start, PeerStarts, RestType
  <2> QED
    BY <1>17, <2>1, <2>2, <2>3 DEF Start, PeerStarts, RestType, callVars
<1>18. CASE Crash
  <2>1. <<>> \in Seq(Messages) /\ 0 \in 0..MaxSteps /\ "dead" \in Pc
    BY DEF TurnAssumption, Pc, Ended
  <2>2. CallType'
    BY <1>18, <2>1 DEF Crash, CallType
  <2> QED
    BY <1>18, <2>2 DEF Crash, RestType, storeVars
<1>19. CASE UNCHANGED vars
  BY <1>19 DEF vars, callVars, localVars, storeVars, CallType, RestType
<1> QED
  BY <1>1, <1>2, <1>3, <1>4, <1>5, <1>6, <1>7, <1>8, <1>9, <1>10, <1>11, <1>12, <1>13,
     <1>14, <1>15, <1>16, <1>17, <1>18, <1>19 DEF Next, TurnStep

\* Every variable keeps its type; in particular no engine takes more steps than
\* its cap.
THEOREM TypeCorrect == Spec => []TypeOK
<1>1. Init => TypeOK
  BY InitType, TurnAssumption
<1>2. TypeOK /\ [Next]_vars => TypeOK'
  BY StepType, TurnAssumption
<1> QED
  BY <1>1, <1>2, PTL DEF Spec
-----------------------------------------------------------------------------
\* A step of a call leaves what is kept for the other calls alone.
LEMMA OthersStay ==
  ASSUME TypeOK, NEW t \in Turn, Arrive(t) \/ TurnStep(t), NEW u \in Turn, u # t
  PROVE  /\ pc'[u] = pc[u] /\ history'[u] = history[u] /\ blocked'[u] = blocked[u]
         /\ recalled'[u] = recalled[u] /\ heard'[u] = heard[u]
         /\ reply'[u] = reply[u] /\ task'[u] = task[u] /\ allowed'[u] = allowed[u]
         /\ conv' = conv
<1> USE DEF TypeOK, Proceed, Go, Forget, Leave, Raise, localVars, storeVars
<1>1. CASE Arrive(t)
  BY <1>1 DEF Arrive
<1>2. CASE Recall(t)
  BY <1>2 DEF Recall
<1>3. CASE Acquire(t)
  BY <1>3 DEF Acquire
<1>4. CASE CreateTask(t)
  BY <1>4 DEF CreateTask
<1>5. CASE OpenSession(t)
  BY <1>5 DEF OpenSession
<1>6. CASE AppendUser(t)
  BY <1>6 DEF AppendUser
<1>7. CASE EnterEngine(t)
  BY <1>7 DEF EnterEngine
<1>8. CASE Think(t)
  BY <1>8 DEF Think, Conclude, CallTool
<1>9. CASE FinishTask(t)
  BY <1>9 DEF FinishTask
<1>10. CASE RecordFailure(t)
  BY <1>10 DEF RecordFailure
<1>11. CASE AppendAnswer(t)
  BY <1>11 DEF AppendAnswer
<1>12. CASE CloseSession(t)
  BY <1>12 DEF CloseSession
<1>13. CASE CheckPause(t)
  BY <1>13 DEF CheckPause
<1>14. CASE Learn(t)
  BY <1>14 DEF Learn
<1>15. CASE Reflect(t)
  BY <1>15 DEF Reflect
<1> QED
  BY <1>1, <1>2, <1>3, <1>4, <1>5, <1>6, <1>7, <1>8, <1>9, <1>10, <1>11, <1>12, <1>13,
     <1>14, <1>15 DEF TurnStep

\* What a step of a call does to its place and to the lock: before the lock,
\* taking it, under it, and leaving with it.
LEMMA Moves ==
  ASSUME TypeOK, NEW t \in Turn, Arrive(t) \/ TurnStep(t)
  PROVE  \/ pc[t] \notin Locked /\ pc'[t] \notin Locked /\ lock' = lock
         \/ pc[t] \notin Locked /\ pc'[t] = "create" /\ lock = NoTurn /\ lock' = t
         \/ pc[t] \in Locked /\ pc'[t] \in Locked /\ lock' = lock
         \/ pc[t] \in Locked /\ pc'[t] \in Ended /\ lock' = NoTurn
<1> USE DEF Go, Proceed, Leave, Raise
<1>a. \A x : pc' = [pc EXCEPT ![t] = x] => pc'[t] = x
  BY DEF TypeOK
<1>b. "idle" \notin Locked /\ "recall" \notin Locked /\ "waiting" \notin Locked
      /\ "raised" \notin Locked /\ "raised" \in Ended /\ "done" \in Ended
  BY DEF Locked, Ended
<1> USE LockedMembers
<1>1. CASE Arrive(t) \/ Recall(t)
  BY <1>1, <1>a, <1>b DEF Arrive, Recall
<1>3. CASE Acquire(t)
  BY <1>3, <1>a, <1>b DEF Acquire
<1>4. CASE CreateTask(t) \/ OpenSession(t) \/ AppendUser(t)
  BY <1>4, <1>a, <1>b DEF CreateTask, OpenSession, AppendUser
<1>7. CASE EnterEngine(t)
  BY <1>7, <1>a DEF EnterEngine
<1>8. CASE Think(t)
  BY <1>8, <1>a DEF Think, Conclude, CallTool
<1>9. CASE FinishTask(t) \/ RecordFailure(t) \/ AppendAnswer(t)
  BY <1>9, <1>a, <1>b DEF FinishTask, RecordFailure, AppendAnswer
<1>12. CASE CloseSession(t) \/ CheckPause(t) \/ Learn(t)
  BY <1>12, <1>a DEF CloseSession, CheckPause, Learn
<1>15. CASE Reflect(t)
  BY <1>15, <1>a, <1>b DEF Reflect
<1> QED
  BY <1>1, <1>3, <1>4, <1>7, <1>8, <1>9, <1>12, <1>15 DEF TurnStep

\* What the steps around the turns leave alone.
LEMMA AroundStays ==
  ASSUME TypeOK, \/ \E u \in User : Pause(u) \/ Resume(u)
                 \/ Start \/ PeerStarts
                 \/ UNCHANGED vars
  PROVE  UNCHANGED <<pc, conv, history, blocked, steps, recalled, heard, reply, lock,
                     scope, log, rows, session>>
  BY DEF Pause, Resume, Start, PeerStarts, vars, callVars, localVars, storeVars

\* The lock is held by the turn that is between taking and releasing it.
LockInv == \A t \in Turn : pc[t] \in Locked <=> lock = t

LEMMA LockStep == TurnAssumption /\ TypeOK /\ LockInv /\ [Next]_vars => LockInv'
<1> SUFFICES ASSUME TurnAssumption, TypeOK, LockInv, [Next]_vars PROVE LockInv'
  OBVIOUS
<1>1. ASSUME NEW t \in Turn, Arrive(t) \/ TurnStep(t) PROVE LockInv'
  <2>1. \A u \in Turn \ {t} : pc'[u] = pc[u]
    BY <1>1, OthersStay
  <2>2. "create" \in Locked /\ \A p \in Ended : p \notin Locked
    BY DEF Locked, Ended
  <2> QED
    BY <1>1, <2>1, <2>2, Moves DEF LockInv, TurnAssumption
<1>2. CASE Crash
  <2>1. \A t \in Turn : pc'[t] \notin Locked
    BY <1>2 DEF Crash, Ended, Locked
  <2> QED
    BY <1>2, <2>1 DEF Crash, LockInv, TurnAssumption
<1>3. CASE \/ \E u \in User : Pause(u) \/ Resume(u)
           \/ Start \/ PeerStarts
           \/ UNCHANGED vars
  BY <1>3, AroundStays DEF LockInv
<1> QED
  BY <1>1, <1>2, <1>3 DEF Next

\* A turn between its question and its answer finds the question at the end of
\* its conversation.
Asked == {"enter", "think", "finish", "fail", "answer"}

Last(s) == s[Len(s)]

OpenInv ==
  \A t \in Turn : pc[t] \in Asked =>
    log[conv[t]] # <<>> /\ Last(log[conv[t]]) = Message(t, "user")

\* Where the steps of a call that leave the log alone, and those that write it,
\* lead from and to.
LEMMA Asking ==
  ASSUME TypeOK, NEW t \in Turn, Arrive(t) \/ TurnStep(t)
  PROVE  \/ /\ log' = log
            /\ pc[t] \in Asked \/ pc'[t] \notin Asked
         \/ /\ pc[t] = "ask" /\ pc'[t] = "enter" /\ lock' = lock
            /\ log' = [log EXCEPT ![conv[t]] = Append(@, Message(t, "user"))]
         \/ /\ pc[t] = "answer" /\ pc'[t] = "close" /\ lock' = lock
            /\ log' = [log EXCEPT ![conv[t]] = Append(@, Message(t, "assistant"))]
<1> USE DEF Go, Proceed, Leave, Raise, Asked, storeVars
<1>a. \A x : pc' = [pc EXCEPT ![t] = x] => pc'[t] = x
  BY DEF TypeOK
<1>1. CASE Arrive(t) \/ Recall(t) \/ Acquire(t)
  BY <1>1, <1>a DEF Arrive, Recall, Acquire
<1>4. CASE CreateTask(t) \/ OpenSession(t)
  BY <1>4, <1>a DEF CreateTask, OpenSession
<1>6. CASE AppendUser(t)
  BY <1>6, <1>a DEF AppendUser
<1>7. CASE EnterEngine(t)
  BY <1>7, <1>a DEF EnterEngine
<1>8. CASE Think(t)
  BY <1>8, <1>a DEF Think, Conclude, CallTool
<1>9. CASE FinishTask(t) \/ RecordFailure(t)
  BY <1>9, <1>a DEF FinishTask, RecordFailure
<1>11. CASE AppendAnswer(t)
  BY <1>11, <1>a DEF AppendAnswer
<1>12. CASE CloseSession(t) \/ CheckPause(t) \/ Learn(t) \/ Reflect(t)
  BY <1>12, <1>a DEF CloseSession, CheckPause, Learn, Reflect
<1> QED
  BY <1>1, <1>4, <1>6, <1>7, <1>8, <1>9, <1>11, <1>12 DEF TurnStep

\* A message appended is the last one, and leaves the others where they are.
LEMMA Appended ==
  ASSUME TypeOK, NEW c \in Conv, NEW t \in Turn, NEW r \in {"user", "assistant"},
         log' = [log EXCEPT ![c] = Append(@, Message(t, r))]
  PROVE  /\ Len(log'[c]) = Len(log[c]) + 1
         /\ log'[c][Len(log[c]) + 1] = Message(t, r)
         /\ \A i \in 1..Len(log[c]) : log'[c][i] = log[c][i]
         /\ \A d \in Conv : d # c => log'[d] = log[d]
         /\ log[c] \in Seq(Messages) /\ log'[c] \in Seq(Messages)
         /\ log'[c] # <<>>
<1>1. log[c] \in Seq(Messages) /\ log'[c] = Append(log[c], Message(t, r))
  BY DEF TypeOK
<1>2. Message(t, r) \in Messages
  BY DEF Message, Messages
<1>3. \A d \in Conv : d # c => log'[d] = log[d]
  BY DEF TypeOK
<1> QED
  BY <1>1, <1>2, <1>3, AppendProperties

LEMMA OpenStep == TypeOK /\ LockInv /\ OpenInv /\ [Next]_vars => OpenInv'
<1> SUFFICES ASSUME TypeOK, LockInv, OpenInv, [Next]_vars PROVE OpenInv'
  OBVIOUS
<1>0. conv \in [Turn -> Conv]
  BY DEF TypeOK
<1>1. ASSUME NEW t \in Turn, Arrive(t) \/ TurnStep(t) PROVE OpenInv'
  <2>1. \A u \in Turn \ {t} : pc'[u] = pc[u]
    BY <1>1, OthersStay
  <2>2. conv' = conv
    BY <1>1, OthersStay DEF Arrive, TurnStep, Recall, Acquire, CreateTask, OpenSession, AppendUser,
         EnterEngine, Think, FinishTask, RecordFailure, AppendAnswer, CloseSession, CheckPause,
         Learn, Reflect
  <2>3. CASE log' = log /\ (pc[t] \in Asked \/ pc'[t] \notin Asked)
    BY <2>1, <2>2, <2>3 DEF OpenInv
  <2>4. ASSUME pc[t] \in Locked, NEW u \in Turn \ {t} PROVE pc[u] \notin Asked
    BY <2>4 DEF LockInv, Asked, Locked
  <2>5. CASE /\ pc[t] = "ask" /\ pc'[t] = "enter"
             /\ log' = [log EXCEPT ![conv[t]] = Append(@, Message(t, "user"))]
    <3>1. log'[conv[t]] # <<>> /\ Last(log'[conv[t]]) = Message(t, "user")
      <4>1. conv[t] \in Conv
        BY <1>0
      <4>2. /\ Len(log'[conv[t]]) = Len(log[conv[t]]) + 1 /\ log'[conv[t]] # <<>>
            /\ log'[conv[t]][Len(log[conv[t]]) + 1] = Message(t, "user")
        BY <2>5, <4>1, Appended
      <4> QED
        BY <4>2 DEF Last
    <3> QED
      BY <2>1, <2>2, <2>4, <2>5, <3>1, LockedMembers DEF OpenInv
  <2>6. CASE pc[t] = "answer" /\ pc'[t] = "close"
    BY <2>1, <2>2, <2>4, <2>6, LockedMembers DEF OpenInv, Asked
  <2> QED
    BY <1>1, <2>3, <2>5, <2>6, Asking
<1>2. CASE Crash
  BY <1>2 DEF Crash, Ended, Asked, OpenInv
<1>3. CASE \/ \E u \in User : Pause(u) \/ Resume(u)
           \/ Start \/ PeerStarts
           \/ UNCHANGED vars
  BY <1>3, AroundStays DEF OpenInv
<1> QED
  BY <1>1, <1>2, <1>3 DEF Next

\* The three facts together are inductive.
TurnInv == TypeOK /\ LockInv /\ OpenInv

LEMMA TurnInvariant == Spec => []TurnInv
<1>1. Init => TurnInv
  <2> SUFFICES ASSUME Init PROVE TurnInv
    OBVIOUS
  <2>1. \A t \in Turn : pc[t] = "idle" /\ lock # t
    BY TurnAssumption DEF Init, TurnAssumption
  <2> QED
    BY <2>1, InitType, TurnAssumption DEF TurnInv, LockInv, OpenInv, Locked, Asked
<1>2. TurnInv /\ [Next]_vars => TurnInv'
  BY StepType, LockStep, OpenStep, TurnAssumption DEF TurnInv
<1> QED
  BY <1>1, <1>2, PTL DEF Spec
-----------------------------------------------------------------------------
\* The turns of all threads and users are a Dialogue, whatever fails or dies.
THEOREM TurnsAreADialogue == Spec => OneExchangeAtATime
<1>1. Init => D!Init
  BY DEF Init, D!Init, Open
<1>2. TurnInv /\ [Next]_vars => [D!Next]_(D!vars)
  <2> SUFFICES ASSUME TurnInv, [Next]_vars PROVE [D!Next]_(D!vars)
    OBVIOUS
  <2>0. TypeOK /\ LockInv /\ OpenInv /\ conv \in [Turn -> Conv] /\ TurnAssumption
    BY TurnAssumption DEF TurnInv, TypeOK
  <2> USE DEF D!vars
  <2>1. ASSUME NEW t \in Turn, Arrive(t) \/ TurnStep(t) PROVE [D!Next]_(D!vars)
    <3>1. pc[t] \in Locked <=> lock = t
      BY <2>0 DEF LockInv
    <3>2. \A u \in Turn \ {t} : pc'[u] = pc[u]
      BY <2>0, <2>1, OthersStay
    <3>3. \A p \in Asked : p \in Locked
      BY DEF Asked, Locked
    <3>4. Open = IF lock # NoTurn /\ pc[lock] \in Asked THEN lock ELSE NoTurn
      BY DEF Open, Asked
    <3>5. Open' = IF lock' # NoTurn /\ pc'[lock'] \in Asked THEN lock' ELSE NoTurn
      BY DEF Open, Asked
    <3>6. NoTurn \notin Turn /\ lock \in Turn \cup {NoTurn}
      BY <2>0 DEF TurnAssumption, TypeOK
    <3>7. CASE log' = log /\ (pc[t] \in Asked \/ pc'[t] \notin Asked)
      <4>1. Open' = Open \/ (Open # NoTurn /\ Open' = NoTurn)
        <5>1. "create" \notin Asked /\ \A p \in Ended : p \notin Asked
          BY DEF Asked, Ended
        <5> QED
          BY <2>0, <2>1, <3>1, <3>2, <3>3, <3>4, <3>5, <3>6, <3>7, <5>1, Moves
      <4> QED
        BY <3>7, <4>1 DEF D!Next, D!GiveUp
    <3>8. CASE /\ pc[t] = "ask" /\ pc'[t] = "enter" /\ lock' = lock
               /\ log' = [log EXCEPT ![conv[t]] = Append(@, Message(t, "user"))]
      <4>1. lock = t
        BY <3>1, <3>8, LockedMembers
      <4>2. Open = NoTurn /\ Open' = t
        BY <3>4, <3>5, <3>6, <3>8, <4>1 DEF Asked
      <4>3. D!Ask(t, conv[t])
        BY <3>8, <4>2 DEF D!Ask, D!Message, Message
      <4> QED
        BY <2>0, <4>3 DEF D!Next
    <3>9. CASE /\ pc[t] = "answer" /\ pc'[t] = "close" /\ lock' = lock
               /\ log' = [log EXCEPT ![conv[t]] = Append(@, Message(t, "assistant"))]
      <4>1. lock = t
        BY <3>1, <3>9, LockedMembers
      <4>2. Open = t /\ Open' = NoTurn
        BY <3>4, <3>5, <3>6, <3>9, <4>1 DEF Asked
      <4>3. log[conv[t]] # <<>> /\ log[conv[t]][Len(log[conv[t]])] = Message(t, "user")
        BY <2>0, <3>9 DEF OpenInv, Asked, Last
      <4>4. D!Answer(conv[t])
        BY <3>6, <3>9, <4>2, <4>3 DEF D!Answer, D!Message, Message
      <4> QED
        BY <2>0, <4>4 DEF D!Next
    <3> QED
      BY <2>0, <2>1, <3>7, <3>8, <3>9, Asking
  <2>2. CASE Crash
    <3>1. Open' = NoTurn /\ log' = log
      BY <2>2 DEF Crash, Open, storeVars
    <3> QED
      BY <3>1 DEF D!Next, D!GiveUp
  <2>3. CASE \/ \E u \in User : Pause(u) \/ Resume(u)
             \/ Start \/ PeerStarts
             \/ UNCHANGED vars
    BY <2>0, <2>3, AroundStays DEF Open
  <2> QED
    BY <2>1, <2>2, <2>3 DEF Next
<1> QED
  BY <1>1, <1>2, TurnInvariant, PTL DEF Spec, OneExchangeAtATime, D!Spec
-----------------------------------------------------------------------------
\* What a turn has recorded of its reply when it is past the steps that record
\* it.
Answered(t) ==
  \E i \in 1..Len(log[conv[t]]) - 1 :
    /\ log[conv[t]][i] = Message(t, "user")
    /\ log[conv[t]][i + 1] = Message(t, "assistant")

ReplyInv ==
  \A t \in Turn :
    /\ pc[t] = "finish" => reply[t] \in {"text", "silent"}
    /\ pc[t] \in {"answer", "close", "check", "learn", "reflect", "done"} =>
         task[t] = IF reply[t] = "failure" THEN "failed" ELSE "complete"
    /\ pc[t] \in {"close", "check", "learn", "reflect", "done"} =>
         reply[t] = "silent" \/ Answered(t)

\* An answer that stands behind its question stays there.
LEMMA AnsweredStays ==
  ASSUME TypeOK, NEW t \in Turn, Arrive(t) \/ TurnStep(t), NEW u \in Turn, Answered(u),
         conv' = conv
  PROVE  Answered(u)'
<1>0. conv[t] \in Conv /\ conv[u] \in Conv
  BY DEF TypeOK
<1>1. CASE log' = log
  BY <1>1 DEF Answered
<1>2. ASSUME NEW r \in {"user", "assistant"},
             log' = [log EXCEPT ![conv[t]] = Append(@, Message(t, r))]
      PROVE  Answered(u)'
  <2>1. PICK i \in 1..Len(log[conv[u]]) - 1 :
          /\ log[conv[u]][i] = Message(u, "user")
          /\ log[conv[u]][i + 1] = Message(u, "assistant")
    BY DEF Answered
  <2>2. log[conv[u]] \in Seq(Messages) /\ Len(log[conv[u]]) \in Nat
    BY <1>0 DEF TypeOK
  <2>3. /\ \A k \in 1..Len(log[conv[u]]) : log'[conv[u]][k] = log[conv[u]][k]
        /\ Len(log'[conv[u]]) \in {Len(log[conv[u]]), Len(log[conv[u]]) + 1}
    BY <1>0, <1>2, Appended
  <2>4. i \in 1..Len(log'[conv[u]]) - 1 /\ i \in 1..Len(log[conv[u]])
        /\ i + 1 \in 1..Len(log[conv[u]])
    BY <2>2, <2>3
  <2>5. log'[conv[u]][i] = Message(u, "user") /\ log'[conv[u]][i + 1] = Message(u, "assistant")
    BY <2>1, <2>3, <2>4
  <2> QED
    BY <2>4, <2>5 DEF Answered, Message
<1> QED
  BY <1>1, <1>2, Asking

LEMMA ReplyStep == TurnInv /\ ReplyInv /\ [Next]_vars => ReplyInv'
<1> SUFFICES ASSUME TypeOK, OpenInv, ReplyInv, [Next]_vars PROVE ReplyInv'
  BY DEF TurnInv
<1>0. conv \in [Turn -> Conv]
  BY DEF TypeOK
<1>1. ASSUME NEW t \in Turn, Arrive(t) \/ TurnStep(t) PROVE ReplyInv'
  <2>1. conv' = conv
    BY <1>1 DEF Arrive, TurnStep, Recall, Acquire, CreateTask, OpenSession, AppendUser,
         EnterEngine, Think, FinishTask, RecordFailure, AppendAnswer, CloseSession, CheckPause,
         Learn, Reflect
  <2>2. \A u \in Turn : Answered(u) => Answered(u)'
    BY <1>1, <2>1, AnsweredStays
  <2>3. \A u \in Turn \ {t} : pc'[u] = pc[u] /\ reply'[u] = reply[u] /\ task'[u] = task[u]
    BY <1>1, OthersStay
  <2>4. /\ pc'[t] = "finish" => reply'[t] \in {"text", "silent"}
        /\ pc'[t] \in {"answer", "close", "check", "learn", "reflect", "done"} =>
             task'[t] = IF reply'[t] = "failure" THEN "failed" ELSE "complete"
        /\ pc'[t] \in {"close", "check", "learn", "reflect", "done"} =>
             reply'[t] = "silent" \/ Answered(t)'
    <3> USE DEF Go, Proceed, Leave, Raise
    <3>a. \A x : pc' = [pc EXCEPT ![t] = x] => pc'[t] = x
      BY DEF TypeOK
    <3>1. CASE Arrive(t) \/ Recall(t) \/ Acquire(t)
      BY <3>1, <3>a DEF Arrive, Recall, Acquire
    <3>4. CASE CreateTask(t) \/ OpenSession(t) \/ AppendUser(t)
      BY <3>4, <3>a DEF CreateTask, OpenSession, AppendUser
    <3>7. CASE EnterEngine(t)
      BY <3>7, <3>a DEF EnterEngine
    <3>8. CASE Think(t)
      <4>1. CASE pc' = pc
        BY <3>8, <4>1 DEF Think
      <4>2. CASE Go(t, "fail")
        BY <3>a, <4>2
      <4>3. CASE Conclude(t)
        BY <3>a, <4>3 DEF Conclude, TypeOK
      <4> QED
        BY <3>8, <4>1, <4>2, <4>3 DEF Think, CallTool
    <3>9. CASE FinishTask(t)
      <4>1. CASE task' = [task EXCEPT ![t] = "complete"] /\ pc'[t] = "answer"
        BY <3>9, <4>1 DEF FinishTask, ReplyInv, TypeOK
      <4> QED
        BY <3>9, <3>a, <4>1 DEF FinishTask
    <3>10. CASE RecordFailure(t)
      BY <3>10, <3>a DEF RecordFailure, TypeOK
    <3>11. CASE AppendAnswer(t)
      <4>1. CASE pc'[t] = "raised"
        BY <4>1
      <4>2. CASE pc'[t] = "close" /\ reply[t] = "silent"
        BY <3>11, <4>2 DEF AppendAnswer, ReplyInv
      <4>3. CASE /\ pc'[t] = "close" /\ reply[t] # "silent"
                 /\ log' = [log EXCEPT ![conv[t]] = Append(@, Message(t, "assistant"))]
        <5>1. conv[t] \in Conv /\ log[conv[t]] \in Seq(Messages) /\ Len(log[conv[t]]) \in Nat
          BY <1>0 DEF TypeOK
        <5>2. log[conv[t]] # <<>> /\ log[conv[t]][Len(log[conv[t]])] = Message(t, "user")
          BY <3>11 DEF AppendAnswer, OpenInv, Asked, Last
        <5>3. Len(log[conv[t]]) > 0
          BY <5>1, <5>2
        <5>4. /\ Len(log'[conv[t]]) = Len(log[conv[t]]) + 1
              /\ log'[conv[t]][Len(log[conv[t]]) + 1] = Message(t, "assistant")
              /\ \A i \in 1..Len(log[conv[t]]) : log'[conv[t]][i] = log[conv[t]][i]
          BY <4>3, <5>1, Appended
        <5>5. log'[conv[t]][Len(log[conv[t]])] = Message(t, "user")
          BY <5>1, <5>2, <5>3, <5>4
        <5>6. Len(log[conv[t]]) \in 1..Len(log'[conv[t]]) - 1
          BY <5>1, <5>3, <5>4
        <5>7. Answered(t)'
          BY <2>1, <5>4, <5>5, <5>6 DEF Answered, Message
        <5> QED
          BY <3>11, <4>3, <5>7 DEF AppendAnswer, ReplyInv
      <4> QED
        BY <3>11, <3>a, <4>1, <4>2, <4>3 DEF AppendAnswer
    <3>12. CASE CloseSession(t) \/ CheckPause(t) \/ Learn(t) \/ Reflect(t)
      BY <2>2, <3>12, <3>a DEF CloseSession, CheckPause, Learn, Reflect, ReplyInv, storeVars
    <3> QED
      BY <1>1, <3>1, <3>4, <3>7, <3>8, <3>9, <3>10, <3>11, <3>12 DEF TurnStep
  <2> QED
    BY <2>2, <2>3, <2>4 DEF ReplyInv
<1>2. CASE Crash
  BY <1>2 DEF Crash, Ended, ReplyInv, Answered, storeVars
<1>3. CASE \/ \E u \in User : Pause(u) \/ Resume(u)
           \/ UNCHANGED vars
  BY <1>3 DEF Pause, Resume, vars, callVars, localVars, storeVars, ReplyInv, Answered
<1>4. CASE Start \/ PeerStarts
  <2>1. UNCHANGED <<pc, conv, reply, log>>
    BY <1>4, AroundStays
  <2>2. \A t \in Turn : task[t] \in {"failed", "complete"} => task'[t] = task[t]
    BY <1>4 DEF Start, PeerStarts, Recover
  <2> QED
    BY <2>1, <2>2 DEF ReplyInv, Answered
<1> QED
  BY <1>1, <1>2, <1>3, <1>4 DEF Next

\* A handled message is recorded with its answer: when handle has returned, the
\* task says how and the answer is behind the question.
THEOREM RepliesAreRecorded == Spec => []ReplyIsRecorded
<1>1. Init => ReplyInv
  BY DEF Init, ReplyInv
<1>2. ReplyInv => ReplyIsRecorded
  BY DEF ReplyInv, ReplyIsRecorded, Answered
<1> QED
  BY <1>1, <1>2, ReplyStep, TurnInvariant, PTL DEF Spec
-----------------------------------------------------------------------------
\* No task of a dead call is running once a process is up: recovery marks it,
\* and no call dies while its process is up.
THEOREM DeadTasksMarked == Spec => []DeadTasksAreMarked
<1>1. Init => DeadTasksAreMarked
  BY DEF Init, DeadTasksAreMarked
<1>2. TypeOK /\ DeadTasksAreMarked /\ [Next]_vars => DeadTasksAreMarked'
  <2> SUFFICES ASSUME TypeOK, DeadTasksAreMarked, [Next]_vars PROVE DeadTasksAreMarked'
    OBVIOUS
  <2>1. ASSUME NEW t \in Turn, Arrive(t) \/ TurnStep(t) PROVE DeadTasksAreMarked'
    <3>1. \A u \in Turn \ {t} : pc'[u] = pc[u] /\ task'[u] = task[u]
      BY <2>1, OthersStay
    <3> USE DEF Go, Proceed, Leave, Raise
    <3>a. \A x : pc' = [pc EXCEPT ![t] = x] => pc'[t] = x
      BY DEF TypeOK
    <3>2. up' = up /\ pc[t] # "dead"
      BY <2>1 DEF Arrive, TurnStep, Recall, Acquire, CreateTask, OpenSession, AppendUser,
         EnterEngine, Think, FinishTask, RecordFailure, AppendAnswer, CloseSession, CheckPause,
         Learn, Reflect
    <3>3. pc'[t] # "dead"
      <4>1. CASE Arrive(t) \/ Recall(t) \/ Acquire(t) \/ CreateTask(t) \/ OpenSession(t)
        BY <3>a, <4>1 DEF Arrive, Recall, Acquire, CreateTask, OpenSession
      <4>2. CASE AppendUser(t) \/ EnterEngine(t)
        BY <3>a, <4>2 DEF AppendUser, EnterEngine
      <4>3. CASE Think(t)
        BY <3>2, <3>a, <4>3 DEF Think, Conclude, CallTool
      <4>4. CASE FinishTask(t) \/ RecordFailure(t) \/ AppendAnswer(t)
        BY <3>a, <4>4 DEF FinishTask, RecordFailure, AppendAnswer
      <4>5. CASE CloseSession(t) \/ CheckPause(t) \/ Learn(t) \/ Reflect(t)
        BY <3>a, <4>5 DEF CloseSession, CheckPause, Learn, Reflect
      <4> QED
        BY <2>1, <4>1, <4>2, <4>3, <4>4, <4>5 DEF TurnStep
    <3> QED
      BY <3>1, <3>2, <3>3 DEF DeadTasksAreMarked
  <2>2. CASE Crash
    BY <2>2 DEF Crash, DeadTasksAreMarked
  <2>3. CASE Start \/ PeerStarts
    <3>1. \A t \in Turn : task'[t] # "running"
      BY <2>3 DEF Start, PeerStarts, Recover
    <3> QED
      BY <3>1 DEF DeadTasksAreMarked
  <2>4. CASE \/ \E u \in User : Pause(u) \/ Resume(u)
             \/ UNCHANGED vars
    BY <2>4 DEF Pause, Resume, vars, callVars, storeVars, DeadTasksAreMarked
  <2> QED
    BY <2>1, <2>2, <2>3, <2>4 DEF Next
<1> QED
  BY <1>1, <1>2, TypeCorrect, PTL DEF Spec

\* Of a call that returned the tables say how, and of one that died that it did.
THEOREM TasksTrue == Spec => []TasksAreTrue
<1>1. ReplyIsRecorded /\ DeadTasksAreMarked => TasksAreTrue
  BY DEF TasksAreTrue
<1> QED
  BY <1>1, RepliesAreRecorded, DeadTasksMarked, PTL
-----------------------------------------------------------------------------
\* The engine's one scope is that of the turn that opened its session last, as
\* long as that turn holds the lock.
ScopeInv ==
  \A t \in Turn : pc[t] \in {"ask", "enter"} => scope = ScopeOf(Me(t))

LEMMA RecallStep ==
  TurnInv /\ ScopeInv /\ RecallIsOwn /\ [Next]_vars => ScopeInv' /\ RecallIsOwn'
<1> SUFFICES ASSUME TypeOK, LockInv, ScopeInv, RecallIsOwn, [Next]_vars
             PROVE  ScopeInv' /\ RecallIsOwn'
  BY DEF TurnInv
<1>1. ASSUME NEW t \in Turn, Arrive(t) \/ TurnStep(t) PROVE ScopeInv' /\ RecallIsOwn'
  <2>1. \A u \in Turn \ {t} : pc'[u] = pc[u] /\ recalled'[u] = recalled[u]
    BY <1>1, OthersStay
  <2>2. conv' = conv /\ (scope' = scope \/ OpenSession(t))
    BY <1>1 DEF Arrive, TurnStep, Recall, Acquire, CreateTask, OpenSession, AppendUser,
         EnterEngine, Think, FinishTask, RecordFailure, AppendAnswer, CloseSession, CheckPause,
         Learn, Reflect
  <2>3. \A u \in Turn : Me(u)' = Me(u)
    BY <2>2 DEF Me
  <2>4. pc'[t] \in {"ask", "enter"} => scope' = ScopeOf(Me(t))
    <3> USE DEF Go, Proceed, Leave, Raise
    <3>a. \A x : pc' = [pc EXCEPT ![t] = x] => pc'[t] = x
      BY DEF TypeOK
    <3>1. CASE Arrive(t) \/ Recall(t) \/ Acquire(t) \/ CreateTask(t) \/ OpenSession(t)
      BY <3>a, <3>1 DEF Arrive, Recall, Acquire, CreateTask, OpenSession
    <3>2. CASE AppendUser(t) \/ EnterEngine(t)
      BY <3>a, <3>2 DEF AppendUser, EnterEngine, ScopeInv
    <3>3. CASE Think(t)
      BY <3>a, <3>3 DEF Think, Conclude, CallTool
    <3>4. CASE FinishTask(t) \/ RecordFailure(t) \/ AppendAnswer(t)
      BY <3>a, <3>4 DEF FinishTask, RecordFailure, AppendAnswer
    <3>5. CASE CloseSession(t) \/ CheckPause(t) \/ Learn(t) \/ Reflect(t)
      BY <3>a, <3>5 DEF CloseSession, CheckPause, Learn, Reflect
    <3> QED
      BY <1>1, <3>1, <3>2, <3>3, <3>4, <3>5 DEF TurnStep
  <2>5. OpenSession(t) => \A u \in Turn \ {t} : pc[u] \notin {"ask", "enter"}
    BY LockedMembers DEF OpenSession, LockInv
  <2>6. ScopeInv'
    BY <2>1, <2>2, <2>3, <2>4, <2>5 DEF ScopeInv
  <2>7. \/ recalled'[t] = recalled[t]
        \/ recalled'[t] = {}
        \/ pc[t] = "enter" /\ recalled'[t] \subseteq scope
    <3> USE DEF Forget, Proceed, Leave, Raise, TypeOK
    <3>1. CASE Arrive(t) \/ Recall(t)
      BY <3>1 DEF Arrive, Recall
    <3>2. CASE Acquire(t) \/ CreateTask(t) \/ OpenSession(t) \/ AppendUser(t)
      BY <3>2 DEF Acquire, CreateTask, OpenSession, AppendUser, localVars
    <3>3. CASE EnterEngine(t)
      <4> DEFINE R == {r.owner : r \in {x \in rows : x.owner \in scope}}
      <4>1. R \subseteq scope
        OBVIOUS
      <4>2. recalled' = recalled \/ recalled' = [recalled EXCEPT ![t] = R]
        BY <3>3 DEF EnterEngine
      <4>3. pc[t] = "enter"
        BY <3>3 DEF EnterEngine
      <4> HIDE DEF R
      <4> QED
        BY <4>1, <4>2, <4>3
    <3>4. CASE Think(t)
      BY <3>4 DEF Think
    <3>5. CASE FinishTask(t) \/ RecordFailure(t) \/ AppendAnswer(t)
      BY <3>5 DEF FinishTask, RecordFailure, AppendAnswer, localVars
    <3>6. CASE CloseSession(t) \/ CheckPause(t) \/ Learn(t) \/ Reflect(t)
      BY <3>6 DEF CloseSession, CheckPause, Learn, Reflect, localVars
    <3> QED
      BY <1>1, <3>1, <3>2, <3>3, <3>4, <3>5, <3>6 DEF TurnStep
  <2>8. RecallIsOwn'
    BY <2>1, <2>3, <2>7 DEF RecallIsOwn, ScopeInv, ScopeOf
  <2> QED
    BY <2>6, <2>8
<1>2. CASE Crash
  BY <1>2 DEF Crash, Ended, ScopeInv, RecallIsOwn, Me
<1>3. CASE \/ \E u \in User : Pause(u) \/ Resume(u)
           \/ Start \/ PeerStarts
           \/ UNCHANGED vars
  BY <1>3, AroundStays DEF ScopeInv, RecallIsOwn, Me
<1> QED
  BY <1>1, <1>2, <1>3 DEF Next

\* No prompt holds memories of somebody else than its user, operators apart.
THEOREM RecallsAreOwn == Spec => []RecallIsOwn
<1>1. Init => ScopeInv /\ RecallIsOwn
  BY DEF Init, ScopeInv, RecallIsOwn
<1> QED
  BY <1>1, RecallStep, TurnInvariant, PTL DEF Spec
-----------------------------------------------------------------------------
\* What the pause leaves a turn: a call of an active user may store, and what
\* lets it store was decided while the user was active.
PauseInv ==
  /\ \A t \in Turn :
       /\ pc[t] \notin Ended \cup {"idle"} /\ Me(t) \notin paused => allowed[t]
       /\ pc[t] = "think" /\ ~blocked[t] => allowed[t]
       /\ pc[t] = "learn" => allowed[t]
  /\ \A r \in rows : pc[r.turn] # "idle"

LEMMA PauseStep ==
  TurnInv /\ PauseInv /\ PauseHolds /\ [Next]_vars => PauseInv' /\ PauseHolds'
<1> SUFFICES ASSUME TypeOK, PauseInv, PauseHolds, [Next]_vars PROVE PauseInv' /\ PauseHolds'
  BY DEF TurnInv
<1>0. \A r \in rows : r.turn \in Turn
  BY DEF TypeOK, Rows
<1>1. ASSUME NEW t \in Turn, Arrive(t) \/ TurnStep(t) PROVE PauseInv' /\ PauseHolds'
  <2>1. \A u \in Turn \ {t} : pc'[u] = pc[u] /\ blocked'[u] = blocked[u] /\ allowed'[u] = allowed[u]
    BY <1>1, OthersStay
  <2>2. conv' = conv /\ paused' = paused
    BY <1>1 DEF Arrive, TurnStep, Recall, Acquire, CreateTask, OpenSession, AppendUser,
         EnterEngine, Think, FinishTask, RecordFailure, AppendAnswer, CloseSession, CheckPause,
         Learn, Reflect, storeVars
  <2>3. \A u \in Turn : Me(u)' = Me(u)
    BY <2>2 DEF Me
  <2>4. /\ pc'[t] \notin Ended \cup {"idle"} /\ Me(t) \notin paused => allowed'[t]
        /\ pc'[t] = "think" /\ ~blocked'[t] => allowed'[t]
        /\ pc'[t] = "learn" => allowed'[t]
        /\ pc'[t] # "idle"
        /\ pc[t] # "idle" => allowed'[t] = allowed[t]
        /\ \A r \in rows' \ rows : r.how \in {"remembered", "learned"} => allowed[t]
        /\ \A r \in rows' \ rows : r.turn = t /\ pc[t] # "idle"
    <3> USE DEF Go, Proceed, Leave, Raise, storeVars
    <3>a. \A x : pc' = [pc EXCEPT ![t] = x] => pc'[t] = x
      BY DEF TypeOK
    <3>b. PauseInv => /\ pc[t] \notin Ended \cup {"idle"} /\ Me(t) \notin paused => allowed[t]
                      /\ pc[t] = "think" /\ ~blocked[t] => allowed[t]
                      /\ pc[t] = "learn" => allowed[t]
      BY DEF PauseInv
    <3>1. CASE Arrive(t)
      BY <3>a, <3>1 DEF Arrive, TypeOK
    <3>2. CASE Recall(t) \/ Acquire(t)
      BY <3>a, <3>b, <3>2 DEF Recall, Acquire, Ended
    <3>3. CASE CreateTask(t) \/ OpenSession(t) \/ AppendUser(t)
      BY <3>a, <3>b, <3>3 DEF CreateTask, OpenSession, AppendUser, Ended
    <3>4. CASE EnterEngine(t)
      <4>1. \/ pc'[t] = "fail"
            \/ pc'[t] = "think" /\ blocked'[t] = (Me(t) \in paused)
        BY <3>a, <3>4 DEF EnterEngine, TypeOK
      <4> QED
        BY <3>a, <3>b, <3>4, <4>1 DEF EnterEngine, Ended
    <3>5. CASE Think(t)
      <4>1. blocked' = blocked /\ allowed' = allowed /\ pc[t] = "think"
        BY <3>5 DEF Think
      <4>2. pc'[t] \in {"think", "fail", "finish"}
        BY <3>a, <3>5 DEF Think, Conclude, CallTool
      <4>3. \A r \in rows' \ rows : /\ r.turn = t
                                    /\ r.how \in {"remembered", "learned"} => ~blocked[t]
        <5>1. CASE UNCHANGED rows
          BY <5>1
        <5>2. CASE Remember(t)
          BY <5>2 DEF Remember, Note
        <5>3. CASE RememberAround(t)
          BY <5>3 DEF RememberAround, Note
        <5>4. CASE EditMemory(t)
          <6>1. PICK r \in rows : rows' \in {rows \ {r},
                     (rows \ {r}) \cup {[r EXCEPT !.turn = t, !.how = "around"]}}
            BY <5>4 DEF EditMemory
          <6>2. r \in Rows
            BY DEF TypeOK
          <6> DEFINE e == [r EXCEPT !.turn = t, !.how = "around"]
          <6>3. e.turn = t /\ e.how = "around"
            BY <6>2 DEF Rows
          <6> QED
            BY <6>1, <6>3
        <5> QED
          BY <3>5, <5>1, <5>2, <5>3, <5>4 DEF Think, Conclude, CallTool
      <4>4. \A r \in rows' \ rows : /\ r.how \in {"remembered", "learned"} => allowed[t]
                                    /\ r.turn = t /\ pc[t] # "idle"
        BY <3>b, <4>1, <4>3
      <4>5. /\ pc'[t] = "think" /\ ~blocked'[t] => allowed'[t]
            /\ pc'[t] \notin Ended \cup {"idle"} /\ Me(t) \notin paused => allowed'[t]
            /\ pc'[t] # "learn" /\ pc'[t] # "idle"
        BY <3>b, <4>1, <4>2 DEF Ended
      <4>6. allowed'[t] = allowed[t]
        BY <4>1
      <4> QED
        BY <4>4, <4>5, <4>6
    <3>6. CASE FinishTask(t) \/ RecordFailure(t) \/ AppendAnswer(t)
      BY <3>a, <3>b, <3>6 DEF FinishTask, RecordFailure, AppendAnswer, Ended
    <3>7. CASE CloseSession(t) \/ CheckPause(t)
      BY <3>a, <3>b, <3>7 DEF CloseSession, CheckPause, Ended
    <3>8. CASE Learn(t)
      BY <3>a, <3>b, <3>8 DEF Learn, Ended
    <3>9. CASE Reflect(t)
      BY <3>a, <3>b, <3>9 DEF Reflect, Ended
    <3> QED
      BY <1>1, <3>1, <3>2, <3>3, <3>4, <3>5, <3>6, <3>7, <3>8, <3>9 DEF TurnStep
  <2>5. PauseInv'
    <3>1. \A u \in Turn :
            /\ pc'[u] \notin Ended \cup {"idle"} /\ Me(u)' \notin paused' => allowed'[u]
            /\ pc'[u] = "think" /\ ~blocked'[u] => allowed'[u]
            /\ pc'[u] = "learn" => allowed'[u]
      BY <2>1, <2>2, <2>3, <2>4 DEF PauseInv
    <3>2. \A r \in rows' : pc'[r.turn] # "idle"
      BY <1>0, <2>1, <2>4 DEF PauseInv
    <3> QED
      BY <3>1, <3>2 DEF PauseInv
  <2>6. PauseHolds'
    <3>1. ASSUME NEW r \in rows', r.how \in {"remembered", "learned"}
          PROVE  allowed'[r.turn]
      <4>1. CASE r \in rows
        <5>1. r.turn \in Turn /\ allowed[r.turn] /\ pc[r.turn] # "idle"
          BY <1>0, <3>1, <4>1 DEF PauseHolds, PauseInv
        <5> QED
          BY <2>1, <2>4, <5>1
      <4>2. CASE r \notin rows
        BY <2>4, <3>1, <4>2
      <4> QED
        BY <4>1, <4>2
    <3> QED
      BY <3>1 DEF PauseHolds
  <2> QED
    BY <2>5, <2>6
<1>2. CASE Crash
  <2>1. UNCHANGED <<conv, rows, allowed, paused>>
    BY <1>2 DEF Crash, storeVars
  <2>2. \A t \in Turn : /\ pc'[t] \in Ended \cup {"idle"}
                        /\ pc[t] # "idle" => pc'[t] # "idle"
    BY <1>2 DEF Crash, Ended
  <2> QED
    BY <1>0, <2>1, <2>2 DEF PauseInv, PauseHolds, Ended, Me
<1>3. ASSUME NEW u \in User, Pause(u) \/ Resume(u) PROVE PauseInv' /\ PauseHolds'
  <2>1. UNCHANGED <<pc, conv, blocked, rows>> /\ \A t \in Turn : Me(t)' = Me(t)
    BY <1>3 DEF Pause, Resume, callVars, localVars, Me
  <2>2. \A t \in Turn : allowed[t] => allowed'[t]
    BY <1>3 DEF Pause, Resume
  <2>3. \A t \in Turn : pc[t] \notin Ended \cup {"idle"} /\ Me(t) \notin paused' => allowed'[t]
    BY <1>3 DEF Pause, Resume, PauseInv
  <2> QED
    BY <1>0, <2>1, <2>2, <2>3 DEF PauseInv, PauseHolds
<1>4. CASE Start \/ PeerStarts \/ UNCHANGED vars
  BY <1>4 DEF Start, PeerStarts, vars, callVars, localVars, storeVars, PauseInv, PauseHolds, Me
<1> QED
  BY <1>1, <1>2, <1>3, <1>4 DEF Next

\* What a user says while the memory is paused, from the beginning of the turn
\* to its end, is stored by neither a remember of the model nor the learner,
\* however often the user pauses and resumes in between. The reflection, a skill's
\* or a worker's remember and update_memory are beyond this: nothing stops them.
THEOREM PausesHold == Spec => []PauseHolds
<1>1. Init => PauseInv /\ PauseHolds
  BY DEF Init, PauseInv, PauseHolds
<1> QED
  BY <1>1, PauseStep, TurnInvariant, PTL DEF Spec
-----------------------------------------------------------------------------
\* The history of t as a piece of its conversation, and no message of a turn it
\* has heard of behind that piece.
Follows(t) ==
  \E j \in 0..Len(log[conv[t]]) :
    /\ \E i \in 1..Len(log[conv[t]]) + 1 :
         /\ history[t] = SubSeq(log[conv[t]], i, j)
         /\ j > 0 => i <= j
    /\ \A k \in j + 1..Len(log[conv[t]]) : log[conv[t]][k].turn \notin heard[t]

Reading == Locked \cup {"waiting"}

HistoryInv ==
  \A t \in Turn :
    /\ \A d \in heard[t] : d \in Turn /\ pc[d] = "done"
    /\ pc[t] \in Reading => Follows(t)

\* A piece of a sequence is the same piece of what is appended to it.
LEMMA PieceOfAppended ==
  ASSUME NEW S, NEW s \in Seq(S), NEW z \in Seq(S),
         Len(z) = Len(s) + 1, \A k \in 1..Len(s) : z[k] = s[k],
         NEW i \in 1..Len(s) + 1, NEW j \in 0..Len(s), j > 0 => i <= j
  PROVE  SubSeq(z, i, j) = SubSeq(s, i, j)
<1>0. Len(s) \in Nat /\ Len(z) \in Nat
  OBVIOUS
<1>1. CASE j = 0
  <2>1. SubSeq(z, i, j) = <<>> /\ SubSeq(s, i, j) = <<>>
    BY <1>0, <1>1, SubSeqEmpty
  <2> QED
    BY <2>1
<1>2. CASE j > 0
  <2>1. i \in 1..Len(s) /\ j \in 1..Len(s) /\ i \in 1..Len(z) /\ j \in 1..Len(z) /\ i <= j
    BY <1>0, <1>2
  <2>2. /\ SubSeq(s, i, j) \in Seq(S) /\ Len(SubSeq(s, i, j)) = j - i + 1
        /\ \A k \in 1..j - i + 1 : SubSeq(s, i, j)[k] = s[i + k - 1]
    BY <1>0, <2>1, SubSeqProperties
  <2>3. /\ SubSeq(z, i, j) \in Seq(S) /\ Len(SubSeq(z, i, j)) = j - i + 1
        /\ \A k \in 1..j - i + 1 : SubSeq(z, i, j)[k] = z[i + k - 1]
    BY <1>0, <2>1, SubSeqProperties
  <2>4. \A k \in 1..j - i + 1 : i + k - 1 \in 1..Len(s)
    BY <1>0, <2>1
  <2>5. \A k \in 1..j - i + 1 : SubSeq(z, i, j)[k] = SubSeq(s, i, j)[k]
    BY <2>2, <2>3, <2>4
  <2> QED
    BY <2>2, <2>3, <2>5, SeqEqual
<1> QED
  BY <1>0, <1>1, <1>2

\* What u has read stays a piece of its conversation when a turn it has not
\* heard of writes.
LEMMA FollowsStays ==
  ASSUME TypeOK, NEW t \in Turn, Arrive(t) \/ TurnStep(t), NEW u \in Turn, Follows(u),
         conv' = conv, history'[u] = history[u], heard'[u] = heard[u],
         pc[t] # "done" => t \notin heard[u]
  PROVE  Follows(u)'
<1>0. conv[t] \in Conv /\ conv[u] \in Conv
  BY DEF TypeOK
<1>1. CASE log' = log
  BY <1>1 DEF Follows
<1>2. ASSUME NEW r \in {"user", "assistant"}, pc[t] # "done",
             log' = [log EXCEPT ![conv[t]] = Append(@, Message(t, r))]
      PROVE  Follows(u)'
  <2>1. CASE conv[u] # conv[t]
    <3>1. log'[conv[u]] = log[conv[u]]
      BY <1>0, <1>2, <2>1, Appended
    <3> QED
      BY <3>1 DEF Follows
  <2>2. CASE conv[u] = conv[t]
    <3> DEFINE s == log[conv[u]]
               z == log'[conv[u]]
    <3>1. /\ s \in Seq(Messages) /\ z \in Seq(Messages) /\ Len(s) \in Nat
          /\ Len(z) = Len(s) + 1
          /\ z[Len(s) + 1] = Message(t, r)
          /\ \A k \in 1..Len(s) : z[k] = s[k]
      <4>1. /\ log[conv[t]] \in Seq(Messages) /\ log'[conv[t]] \in Seq(Messages)
            /\ Len(log'[conv[t]]) = Len(log[conv[t]]) + 1
            /\ log'[conv[t]][Len(log[conv[t]]) + 1] = Message(t, r)
            /\ \A k \in 1..Len(log[conv[t]]) : log'[conv[t]][k] = log[conv[t]][k]
        BY <1>0, <1>2, Appended
      <4> QED
        BY <2>2, <4>1
    <3>2. PICK j \in 0..Len(s), i \in 1..Len(s) + 1 :
            /\ history[u] = SubSeq(s, i, j)
            /\ j > 0 => i <= j
            /\ \A k \in j + 1..Len(s) : s[k].turn \notin heard[u]
      BY DEF Follows
    <3>3. history[u] = SubSeq(z, i, j)
      BY <3>1, <3>2, PieceOfAppended
    <3>4. \A k \in j + 1..Len(z) : z[k].turn \notin heard[u]
      <4> SUFFICES ASSUME NEW k \in j + 1..Len(z) PROVE z[k].turn \notin heard[u]
        OBVIOUS
      <4>1. CASE k = Len(s) + 1
        BY <1>2, <3>1, <4>1 DEF Message
      <4>2. CASE k # Len(s) + 1
        <5>1. k \in j + 1..Len(s) /\ k \in 1..Len(s)
          BY <3>1, <3>2, <4>2
        <5> QED
          BY <3>1, <3>2, <5>1
      <4> QED
        BY <4>1, <4>2
    <3>5. j \in 0..Len(z) /\ i \in 1..Len(z) + 1
      BY <3>1, <3>2
    <3> HIDE DEF s, z
    <3>6. \E jj \in 0..Len(z) :
            /\ \E ii \in 1..Len(z) + 1 :
                 /\ history[u] = SubSeq(z, ii, jj)
                 /\ jj > 0 => ii <= jj
            /\ \A k \in jj + 1..Len(z) : z[k].turn \notin heard[u]
      BY <3>2, <3>3, <3>4, <3>5
    <3> QED
      BY <3>6 DEF Follows, z
  <2> QED
    BY <2>1, <2>2
<1>3. pc[t] \in {"ask", "answer"} => pc[t] # "done"
  OBVIOUS
<1> QED
  BY <1>1, <1>2, <1>3, Asking

LEMMA HistoryStep == TypeOK /\ HistoryInv /\ [Next]_vars => HistoryInv'
<1> SUFFICES ASSUME TypeOK, HistoryInv, [Next]_vars PROVE HistoryInv'
  OBVIOUS
<1>1. ASSUME NEW t \in Turn, Arrive(t) \/ TurnStep(t) PROVE HistoryInv'
  <2>0. conv' = conv /\ pc[t] # "done"
    BY <1>1 DEF Arrive, TurnStep, Recall, Acquire, CreateTask, OpenSession, AppendUser,
         EnterEngine, Think, FinishTask, RecordFailure, AppendAnswer, CloseSession, CheckPause,
         Learn, Reflect
  <2>1. \A u \in Turn \ {t} : pc'[u] = pc[u] /\ history'[u] = history[u] /\ heard'[u] = heard[u]
    BY <1>1, OthersStay
  <2>2. \A u \in Turn : t \notin heard[u]
    BY <2>0 DEF HistoryInv
  <2>3. \A u \in Turn \ {t} : pc[u] \in Reading => Follows(u)'
    BY <1>1, <2>0, <2>1, <2>2, FollowsStays DEF HistoryInv
  <2>4. \/ heard'[t] = heard[t]
        \/ heard'[t] \subseteq {d \in Turn : pc[d] = "done"}
    <3> USE DEF Forget, Proceed, Leave, Raise, TypeOK
    <3>1. CASE Arrive(t) \/ Recall(t)
      BY <3>1 DEF Arrive, Recall
    <3>2. CASE Acquire(t) \/ CreateTask(t) \/ OpenSession(t) \/ AppendUser(t)
      BY <3>2 DEF Acquire, CreateTask, OpenSession, AppendUser, localVars
    <3>3. CASE EnterEngine(t) \/ Think(t)
      BY <3>3 DEF EnterEngine, Think
    <3>5. CASE FinishTask(t) \/ RecordFailure(t) \/ AppendAnswer(t)
      BY <3>5 DEF FinishTask, RecordFailure, AppendAnswer, localVars
    <3>6. CASE CloseSession(t) \/ CheckPause(t) \/ Learn(t) \/ Reflect(t)
      BY <3>6 DEF CloseSession, CheckPause, Learn, Reflect, localVars
    <3> QED
      BY <1>1, <3>1, <3>2, <3>3, <3>5, <3>6 DEF TurnStep
  <2>5. \A u \in Turn : \A d \in heard'[u] : d \in Turn /\ pc'[d] = "done"
    BY <2>0, <2>1, <2>4 DEF HistoryInv
  <2>6. pc'[t] \in Reading => Follows(t)'
    <3> USE DEF Go, Proceed, Leave, Raise
    <3>a. \A x : pc' = [pc EXCEPT ![t] = x] => pc'[t] = x
      BY DEF TypeOK
    <3>b. /\ "waiting" \in Reading /\ Locked \subseteq Reading
          /\ "recall" \notin Reading /\ \A p \in Ended : p \notin Reading
      BY DEF Reading, Locked, Ended
    <3>1. CASE Arrive(t)
      BY <3>a, <3>b, <3>1 DEF Arrive
    <3>2. CASE Recall(t)
      <4>1. CASE pc'[t] = "raised"
        BY <3>b, <4>1 DEF Ended
      <4>2. CASE \E h \in Recent(conv[t]) : history' = [history EXCEPT ![t] = h]
                                            /\ UNCHANGED log
        <5>1. conv[t] \in Conv /\ log[conv[t]] \in Seq(Messages)
          BY DEF TypeOK
        <5>2. history'[t] \in Recent(conv[t])
          BY <4>2 DEF TypeOK
        <5>3. PICK i \in 1..Len(log[conv[t]]) + 1 :
                /\ history'[t] = SubSeq(log[conv[t]], i, Len(log[conv[t]]))
                /\ Len(log[conv[t]]) > 0 => i <= Len(log[conv[t]])
          BY <5>1, <5>2, RecentIsSuffix
        <5>4. Len(log[conv[t]]) \in 0..Len(log[conv[t]])
              /\ Len(log[conv[t]]) + 1..Len(log[conv[t]]) = {}
          BY <5>1
        <5> QED
          BY <2>0, <4>2, <5>3, <5>4 DEF Follows
      <4> QED
        BY <3>2, <3>a, <4>1, <4>2 DEF Recall, storeVars
    <3>3. CASE pc[t] \in Reading /\ history'[t] = history[t] /\ heard'[t] = heard[t]
      BY <1>1, <2>0, <2>2, <3>3, FollowsStays DEF HistoryInv
    <3>4. CASE Acquire(t) \/ CreateTask(t) \/ OpenSession(t) \/ AppendUser(t)
      BY <3>3, <3>4, <3>a, <3>b, LockedMembers
         DEF Acquire, CreateTask, OpenSession, AppendUser, localVars, Ended
    <3>5. CASE EnterEngine(t) \/ Think(t)
      BY <3>3, <3>5, <3>b, LockedMembers DEF EnterEngine, Think
    <3>6. CASE FinishTask(t) \/ RecordFailure(t) \/ AppendAnswer(t)
      BY <3>3, <3>6, <3>a, <3>b, LockedMembers
         DEF FinishTask, RecordFailure, AppendAnswer, localVars, Ended
    <3>7. CASE CloseSession(t) \/ CheckPause(t) \/ Learn(t) \/ Reflect(t)
      BY <3>3, <3>7, <3>a, <3>b, LockedMembers
         DEF CloseSession, CheckPause, Learn, Reflect, localVars, Ended
    <3> QED
      BY <1>1, <3>1, <3>2, <3>4, <3>5, <3>6, <3>7 DEF TurnStep
  <2> QED
    BY <2>1, <2>3, <2>5, <2>6 DEF HistoryInv
<1>2. CASE Crash
  <2>1. \A t \in Turn : pc'[t] \notin Reading /\ heard'[t] = {}
    BY <1>2 DEF Crash, Reading, Locked, Ended
  <2> QED
    BY <2>1 DEF HistoryInv
<1>3. CASE \/ \E u \in User : Pause(u) \/ Resume(u)
           \/ Start \/ PeerStarts
           \/ UNCHANGED vars
  BY <1>3, AroundStays DEF HistoryInv, Follows
<1> QED
  BY <1>1, <1>2, <1>3 DEF Next

\* A turn knows what was said before it began: the history it reads before the
\* lock has every message of the turns that had returned, up to its own end.
THEOREM HistoriesFollow == Spec => []HistoryFollowsAnswers
<1>1. Init => HistoryInv
  BY DEF Init, HistoryInv, Reading, Locked
<1>2. HistoryInv => HistoryFollowsAnswers
  BY DEF HistoryInv, HistoryFollowsAnswers, Follows, Reading
<1> QED
  BY <1>1, <1>2, HistoryStep, TypeCorrect, PTL DEF Spec
=============================================================================
