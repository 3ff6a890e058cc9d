--------------------------- MODULE ChannelsProofs ---------------------------
(***************************************************************************)
(* Theorems about what the agent's users and senders meet: the updates of  *)
(* a Telegram chat and the answers to its questions (TelegramChat), the    *)
(* pause of the memory in the user's profile (Profile), and the requests,  *)
(* webhooks and sockets at the edge of the API server (ServerEdge).        *)
(***************************************************************************)
EXTENDS TelegramChat, Profile, ServerEdge, FiniteSetTheorems, SequenceTheorems,
        WellFoundedInduction, TLAPS

-----------------------------------------------------------------------------
(* TelegramChat.                                                           *)

LEMMA TelegramBounds == MaxPosts \in Nat /\ MaxCrashes \in Nat /\ MaxFinds \in Nat
  BY TelegramAssumption

\* Every post is one of four records.
LEMMA PostFields ==
  ASSUME NEW u \in Posts
  PROVE  /\ u.kind \in {"text", "start", "stranger", "click", "install", "later"}
         /\ u.kind = "click" => u.q \in Question
         /\ u.kind \in {"install", "later"} => u.v \in Version
  BY DEF Posts

LEMMA TelegramInitType == TelegramInit => TelegramTypeOK
  BY TelegramBounds DEF TelegramInit, TelegramTypeOK, NoVersion, NoQuestion

PollPlaces == {"idle", "handling", "enter", "reply", "ended"} \cup Turns

\* The thread is at no update.
Between == {"idle", "ended"}

LEMMA GoesType ==
  ASSUME TelegramTypeOK, NEW place \in PollPlaces, Goes(place)
  PROVE  /\ poll' \in PollPlaces /\ done' \subseteq Nat
         /\ UNCHANGED <<inbox, acked, offset, batch, chatting, handled, raised, crashes>>
  BY DEF TelegramTypeOK, Goes, serverVars, batchVars

LEMMA MovesType ==
  ASSUME TelegramTypeOK, NEW who \in {"chat", "job"}, NEW place \in Turns, Moves(who, place)
  PROVE  poll' \in PollPlaces /\ job' \in {"idle"} \cup Turns
  BY DEF TelegramTypeOK, Moves, PollPlaces

\* Updates up to here have been begun with, or the server has let go of them.
Begun == Later(acked, offset)

\* What is still to be handled goes on from there without a gap.
BatchGoesOn ==
  /\ Begun + Len(batch) <= Len(inbox)
  /\ \A i \in 1 .. Len(batch) : batch[i] = Begun + i

\* The thread is at an update the server still keeps.
AtAnUpdate == poll \notin Between => acked < chatting /\ chatting <= offset

\* What was begun with was handled, but for the one the thread is at.
BegunWasHandled ==
  /\ \A i \in 1 .. Begun : i \in done \cup raised \/ (poll \notin Between /\ i = chatting)
  /\ poll = "reply" => chatting \in done
  /\ \A i \in 1 .. Len(handled) : handled[i] <= 1 /\ (handled[i] = 1 => i <= offset)

\* A turn that asks has a question of its own, and nobody has seen it.
AsksItsOwn ==
  \A who \in {"chat", "job"} : Asks(who) \in {"testing", "waiting", "publish"} =>
    /\ asking[who] \in Question /\ asker[asking[who]] = who
    /\ asking[who] \notin shown

\* What nobody has seen nobody answers.
AnswersNeedButtons ==
  /\ \A q \in Question : (asker[q] = "nobody" => q \notin shown) /\ (answered[q] => q \in shown)
  /\ \A i \in 1 .. Len(inbox) : inbox[i].kind = "click" => inbox[i].q \in shown
  /\ \A q \in Question : "returned" \notin used[q]

ChatInv ==
  /\ TelegramTypeOK /\ BatchGoesOn /\ AtAnUpdate /\ BegunWasHandled
  /\ AsksItsOwn /\ AnswersNeedButtons

LEMMA BegunType ==
  ASSUME TelegramTypeOK
  PROVE  Begun \in 0 .. Len(inbox) /\ acked <= Begun /\ offset <= Begun
         /\ Begun \in {acked, offset}
  BY DEF TelegramTypeOK, Begun, Later

LEMMA ChatNumbers ==
  ASSUME TelegramTypeOK
  PROVE  /\ Len(inbox) \in Nat /\ acked \in Nat /\ offset \in Nat /\ chatting \in Nat
         /\ Len(batch) \in Nat /\ handled \in Seq(Nat) /\ Len(handled) = Len(inbox)
         /\ Begun \in 0 .. Len(inbox) /\ acked <= Begun /\ offset <= Begun
  BY BegunType DEF TelegramTypeOK

LEMMA FirstOfBatch ==
  ASSUME ChatInv, batch # <<>>
  PROVE  /\ Head(batch) = Begun + 1 /\ Head(batch) \in 1 .. Len(inbox)
         /\ Tail(batch) \in Seq(Nat) /\ Len(Tail(batch)) = Len(batch) - 1
         /\ \A i \in 1 .. Len(Tail(batch)) : Tail(batch)[i] = batch[i + 1]
<1>1. batch \in Seq(Nat) /\ Len(batch) \in Nat /\ Len(batch) >= 1 /\ Head(batch) = batch[1]
  BY DEF ChatInv, TelegramTypeOK
<1>2. Begun \in Nat /\ Head(batch) = Begun + 1
  BY <1>1, BegunType DEF ChatInv, BatchGoesOn
<1>3. Head(batch) <= Len(inbox)
  BY <1>1, <1>2 DEF ChatInv, BatchGoesOn, TelegramTypeOK
<1> QED
  BY <1>1, <1>2, <1>3

\* The post a thread is at.
LEMMA AtPost ==
  ASSUME ChatInv, poll \notin Between
  PROVE  chatting \in 1 .. Len(inbox) /\ inbox[chatting] \in Posts
  BY DEF ChatInv, AtAnUpdate, TelegramTypeOK

LEMMA TelegramStepType == ChatInv /\ [TelegramNext]_telegramVars => TelegramTypeOK'
<1> SUFFICES ASSUME ChatInv, TelegramTypeOK, [TelegramNext]_telegramVars
             PROVE  TelegramTypeOK'
  BY DEF ChatInv
<1> USE TelegramBounds
    DEF TelegramTypeOK, serverVars, pollVars, batchVars, askVars, updateVars
<1>1. ASSUME NEW u \in Posts, Post(u) PROVE TelegramTypeOK'
  <2>1. /\ inbox' \in Seq(Posts) /\ Len(inbox') = Len(inbox) + 1
        /\ handled' \in Seq(Nat) /\ Len(handled') = Len(handled) + 1
    <3>1. inbox' = Append(inbox, u) /\ inbox \in Seq(Posts)
      BY <1>1 DEF Post
    <3>2. handled' = Append(handled, 0) /\ handled \in Seq(Nat)
      BY <1>1 DEF Post
    <3> QED
      BY <3>1, <3>2, AppendProperties
  <2> QED
    BY <1>1, <2>1 DEF Post
<1>2. ASSUME NEW v \in Version, FindVersion(v) PROVE TelegramTypeOK'
  BY <1>2 DEF FindVersion
<1>3. CASE Poll \/ PollLost
  <2>1. Later(acked, offset) \in 0 .. Len(inbox)
    BY DEF Later
  <2>2. \A n \in 0 .. Len(inbox) : IdsAbove(n) \in Seq(Nat)
    BY DEF IdsAbove
  <2>3. acked' = Later(acked, offset) /\ batch' \in Seq(Nat)
    BY <1>3, <2>1, <2>2 DEF Poll, PollLost
  <2> QED
    BY <1>3, <2>1, <2>3 DEF Poll, PollLost, AfterAnError
<1>4. CASE BeginUpdate
  <2>1. /\ Head(batch) \in 1 .. Len(inbox) /\ Tail(batch) \in Seq(Nat)
        /\ Later(offset, Head(batch)) \in 0 .. Len(inbox)
    BY <1>4, FirstOfBatch DEF BeginUpdate, Later
  <2> QED
    BY <1>4, <2>1 DEF BeginUpdate
<1>5. CASE Ignore \/ Start \/ Text \/ EnterTurn \/ EndTurn
  <2>1. PICK place \in PollPlaces : Goes(place)
    BY <1>5 DEF Ignore, Start, Text, EnterTurn, EndTurn, PollPlaces, Turns
  <2>2. UNCHANGED <<job, askVars, updateVars>>
    BY <1>5 DEF Ignore, Start, Text, EnterTurn, EndTurn
  <2> QED
    BY <2>1, <2>2, GoesType DEF PollPlaces
<1>6. CASE Click
  <2>1. PICK place \in PollPlaces : Goes(place)
    BY <1>6 DEF Click, PollPlaces
  <2>2. inbox[chatting].q \in Question
    BY <1>6, AtPost, PostFields DEF Click, At, Between
  <2>3. answered' \in [Question -> BOOLEAN] /\ used' \in [Question -> SUBSET {"returned", "turn"}]
    <3>1. \/ UNCHANGED <<answered, used>>
          \/ /\ answered' = [answered EXCEPT ![inbox[chatting].q] = TRUE]
             /\ used' = [used EXCEPT ![inbox[chatting].q] = @ \cup {"turn"}]
      BY <1>6 DEF Click
    <3>2. answered' \in [Question -> BOOLEAN]
      BY <2>2, <3>1
    <3>3. used' \in [Question -> SUBSET {"returned", "turn"}]
      BY <2>2, <3>1
    <3> QED
      BY <3>2, <3>3
  <2>4. UNCHANGED <<job, asker, asking, shown, updateVars>>
    BY <1>6 DEF Click
  <2> QED
    BY <2>1, <2>3, <2>4, GoesType DEF PollPlaces
<1>7. CASE Install \/ Postpone
  <2>1. Goes("idle") /\ "idle" \in PollPlaces
    BY <1>7 DEF Install, Postpone, PollPlaces
  <2>2. inbox[chatting].v \in Version
    BY <1>7, AtPost, PostFields DEF Install, Postpone, At, Between
  <2> QED
    BY <1>7, <2>1, <2>2, GoesType DEF Install, Postpone, PollPlaces
<1>8. CASE Reply
  <2>1. Goes("idle") /\ "idle" \in PollPlaces
    BY <1>8 DEF Reply, PollPlaces
  <2>2. prompted' \in Version \cup {NoVersion} /\ prompts' \subseteq Version
    BY <1>8 DEF Reply, Promptable
  <2> QED
    BY <1>8, <2>1, <2>2, GoesType DEF Reply, PollPlaces
<1>9. CASE ReplyFails \/ StartRaises \/ TurnRaises
  <2>1. <<>> \in Seq(Nat)
    OBVIOUS
  <2>2. UNCHANGED <<inbox, acked, offset, chatting, handled, done, job, askVars, updateVars, crashes>>
    BY <1>9 DEF ReplyFails, StartRaises, TurnRaises, Raises
  <2>3. poll' \in {"idle", "ended"} /\ batch' \in {batch, <<>>}
    BY <1>9 DEF ReplyFails, StartRaises, TurnRaises, Raises, AfterAnError
  <2>4. raised' = raised \/ raised' = raised \cup {chatting}
    BY <1>9 DEF ReplyFails, StartRaises, TurnRaises, Raises
  <2>5. chatting \in Nat /\ raised \subseteq Nat
    OBVIOUS
  <2>6. raised' \subseteq Nat
    BY <2>4, <2>5
  <2>7. batch' \in Seq(Nat)
    BY <2>1, <2>3
  <2> QED
    BY <2>2, <2>3, <2>6, <2>7
<1>10. CASE JobTurn \/ JobEnds
  BY <1>10 DEF JobTurn, JobEnds, Turns
<1>11. ASSUME NEW who \in {"chat", "job"}, ClarifyStep(who) PROVE TelegramTypeOK'
  <2>1. PICK place \in Turns : Moves(who, place)
    BY <1>11 DEF ClarifyStep, Ask, TestAnswer, WaitEnds, Publish, LooksAtAnswer, Turns
  <2>2. poll' \in PollPlaces /\ job' \in {"idle"} \cup Turns
    BY <2>1, MovesType
  <2>3. CASE \E q \in Question : Ask(who, q)
    BY <2>2, <2>3 DEF Ask, PollPlaces
  <2>4. CASE TestAnswer(who) \/ WaitEnds(who)
    <3>1. used' \in [Question -> SUBSET {"returned", "turn"}]
      BY <2>4 DEF TestAnswer, WaitEnds, LooksAtAnswer
    <3> QED
      BY <2>2, <2>4, <3>1 DEF TestAnswer, WaitEnds, PollPlaces
  <2>5. CASE Publish(who)
    <3>1. asking[who] \in Question
      BY <2>5 DEF Publish, ChatInv, AsksItsOwn
    <3> QED
      BY <2>2, <2>5, <3>1 DEF Publish, PollPlaces
  <2> QED
    BY <1>11, <2>3, <2>4, <2>5 DEF ClarifyStep
<1>12. CASE Crash
  <2>1. handled' \in Seq(Nat) /\ Len(handled') = Len(handled)
    BY <1>12 DEF Crash
  <2> QED
    BY <1>12, <2>1 DEF Crash
<1>13. CASE UNCHANGED telegramVars
  BY <1>13 DEF telegramVars
<1> QED
  BY <1>1, <1>2, <1>3, <1>4, <1>5, <1>6, <1>7, <1>8, <1>9, <1>10, <1>11, <1>12, <1>13
  DEF TelegramNext, World, PollStep

LEMMA StepDelivery ==
  ChatInv /\ [TelegramNext]_telegramVars => BatchGoesOn' /\ AtAnUpdate' /\ BegunWasHandled'
<1> SUFFICES ASSUME ChatInv, TelegramTypeOK', [TelegramNext]_telegramVars
             PROVE  BatchGoesOn' /\ AtAnUpdate' /\ BegunWasHandled'
  BY TelegramStepType
<1> DEFINE Goal == BatchGoesOn' /\ AtAnUpdate' /\ BegunWasHandled'
<1> USE DEF ChatInv, serverVars, pollVars, batchVars, askVars, updateVars
<1>1. ASSUME UNCHANGED <<inbox, acked, offset, batch, chatting, handled>>,
             done \subseteq done',
             raised \subseteq raised',
             poll' \notin Between => poll \notin Between,
             poll' \in Between /\ poll \notin Between => chatting \in done' \cup raised',
             poll' = "reply" => chatting \in done'
      PROVE  Goal
  BY <1>1 DEF BatchGoesOn, AtAnUpdate, BegunWasHandled, Begun
<1>2. ASSUME NEW place \in PollPlaces \ {"ended"}, Goes(place), poll \notin Between PROVE Goal
  BY <1>1, <1>2 DEF Goes, Between
<1>3. ASSUME NEW u \in Posts, Post(u) PROVE Goal
  <2>1. /\ UNCHANGED <<acked, offset, batch, poll, chatting, done, raised>>
        /\ Len(inbox') = Len(inbox) + 1 /\ handled' = Append(handled, 0)
    BY <1>3 DEF Post, TelegramTypeOK
  <2>2. \A i \in 1 .. Len(handled') : handled'[i] = 0 \/ (i \in 1 .. Len(handled) /\ handled'[i] = handled[i])
    BY <2>1 DEF TelegramTypeOK
  <2>3. BegunWasHandled'
    BY <2>1, <2>2 DEF BegunWasHandled, Begun
  <2> QED
    BY <2>1, <2>3, BegunType DEF BatchGoesOn, AtAnUpdate, Begun, TelegramTypeOK
<1>4. ASSUME NEW v \in Version, FindVersion(v) PROVE Goal
  BY <1>1, <1>4 DEF FindVersion, BegunWasHandled
<1>5. CASE Poll \/ PollLost
  <2>1. /\ acked' = Begun /\ poll = "idle" /\ batch = <<>>
        /\ UNCHANGED <<inbox, offset, chatting, handled, done, raised>>
        /\ poll' \in Between /\ batch' \in {<<>>, IdsAbove(Begun)}
    BY <1>5 DEF Poll, PollLost, AfterAnError, Between, Begun
  <2>2. Begun' = Begun /\ Begun \in 0 .. Len(inbox) /\ offset <= Begun
    BY <2>1, BegunType DEF Begun, Later, TelegramTypeOK
  <2>3. /\ Len(IdsAbove(Begun)) = Len(inbox) - Begun
        /\ \A i \in 1 .. Len(inbox) - Begun : IdsAbove(Begun)[i] = Begun + i
    BY <2>2 DEF IdsAbove, TelegramTypeOK
  <2>4. BatchGoesOn'
    <3>1. CASE batch' = <<>>
      BY <2>1, <2>2, <3>1, ChatNumbers DEF BatchGoesOn
    <3>2. CASE batch' = IdsAbove(Begun)
      BY <2>1, <2>2, <2>3, <3>2, ChatNumbers DEF BatchGoesOn
    <3> QED
      BY <2>1, <3>1, <3>2
  <2> QED
    BY <2>1, <2>2, <2>4 DEF AtAnUpdate, BegunWasHandled, Between
<1>6. CASE BeginUpdate
  <2>1. /\ poll = "idle" /\ batch # <<>> /\ UNCHANGED <<inbox, acked, done, raised>>
        /\ offset' = Later(offset, Head(batch)) /\ batch' = Tail(batch)
        /\ chatting' = Head(batch) /\ poll' = "handling"
        /\ handled' = [handled EXCEPT ![Head(batch)] = @ + 1]
    BY <1>6 DEF BeginUpdate
  <2>2. /\ offset' = Begun + 1 /\ Begun' = Begun + 1 /\ chatting' = Begun + 1
        /\ acked <= Begun /\ offset <= Begun /\ Begun \in Nat
    <3>1. Head(batch) = Begun + 1
      BY <2>1, FirstOfBatch
    <3>2. offset' = Begun + 1
      BY <2>1, <3>1, ChatNumbers DEF Later
    <3> QED
      BY <2>1, <3>1, <3>2, ChatNumbers DEF Begun, Later
  <2>3. BatchGoesOn'
    <3>1. /\ Len(batch') = Len(batch) - 1 /\ Begun + Len(batch) <= Len(inbox)
          /\ \A i \in 1 .. Len(batch') : batch'[i] = batch[i + 1]
          /\ \A i \in 1 .. Len(batch) : batch[i] = Begun + i
      BY <2>1, FirstOfBatch DEF BatchGoesOn
    <3>2. \A i \in 1 .. Len(batch') : i + 1 \in 1 .. Len(batch)
      BY <3>1, ChatNumbers
    <3>3. \A i \in 1 .. Len(batch') : batch'[i] = Begun' + i
      BY <2>2, <3>1, <3>2, ChatNumbers
    <3> QED
      BY <2>1, <2>2, <3>1, <3>3, ChatNumbers DEF BatchGoesOn
  <2>4. AtAnUpdate'
    BY <2>1, <2>2 DEF AtAnUpdate, Between, TelegramTypeOK
  <2>5. BegunWasHandled'
    <3>1. Begun + 1 \in 1 .. Len(handled) /\ Head(batch) = Begun + 1
      BY <2>1, <2>2, FirstOfBatch, ChatNumbers
    <3>2. \A i \in 1 .. Len(handled') : handled'[i] <= 1 /\ (handled'[i] = 1 => i <= offset')
      BY <2>1, <2>2, <3>1, ChatNumbers DEF BegunWasHandled
    <3>3. \A i \in 1 .. Begun' : i \in done' \cup raised' \/ i = chatting'
      BY <2>1, <2>2 DEF BegunWasHandled, Between
    <3> QED
      BY <2>1, <3>2, <3>3 DEF BegunWasHandled, Between
  <2> QED
    BY <2>3, <2>4, <2>5
<1>7. CASE Ignore \/ Start \/ Text \/ EnterTurn \/ EndTurn \/ Click \/ Install \/ Postpone \/ Reply
  <2>1. poll \notin Between /\ \E place \in PollPlaces \ {"ended"} : Goes(place)
    BY <1>7 DEF Ignore, Start, Text, EnterTurn, EndTurn, Click, Install, Postpone, Reply,
                At, Between, PollPlaces, Turns
  <2> QED
    BY <1>2, <2>1
<1>8. CASE ReplyFails \/ StartRaises \/ TurnRaises
  <2>1. /\ UNCHANGED <<inbox, acked, offset, chatting, handled, done>>
        /\ batch' \in {<<>>, batch} /\ poll \notin Between /\ poll' \in Between
        /\ raised \subseteq raised'
    BY <1>8 DEF ReplyFails, StartRaises, TurnRaises, Raises, AfterAnError, Between, At, Turns
  <2>2. chatting \in done \cup raised'
    BY <1>8 DEF ReplyFails, StartRaises, TurnRaises, Raises, BegunWasHandled
  <2>3. BatchGoesOn'
    <3>1. CASE batch' = batch
      BY <2>1, <3>1 DEF BatchGoesOn, Begun
    <3>2. CASE batch' = <<>>
      BY <2>1, <3>2, BegunType DEF BatchGoesOn, Begun, TelegramTypeOK
    <3> QED
      BY <2>1, <3>1, <3>2
  <2>4. AtAnUpdate'
    BY <2>1 DEF AtAnUpdate
  <2>5. BegunWasHandled'
    BY <2>1, <2>2 DEF BegunWasHandled, Begun, Between
  <2> QED
    BY <2>3, <2>4, <2>5
<1>9. CASE JobTurn \/ JobEnds
  BY <1>1, <1>9 DEF JobTurn, JobEnds, BegunWasHandled
<1>10. ASSUME NEW who \in {"chat", "job"}, ClarifyStep(who) PROVE Goal
  <2>1. /\ UNCHANGED <<inbox, acked, offset, batch, chatting, handled, done, raised>>
        /\ Asks(who) \in Turns /\ \E place \in Turns : Moves(who, place)
    BY <1>10 DEF ClarifyStep, Ask, TestAnswer, WaitEnds, Publish, LooksAtAnswer, Turns
  <2>2. \/ poll' = poll
        \/ poll \in Turns /\ poll' \in Turns
    BY <2>1 DEF Moves, Asks
  <2> QED
    BY <1>1, <2>1, <2>2 DEF Turns, Between, BegunWasHandled
<1>11. CASE Crash
  <2>1. /\ UNCHANGED <<inbox, acked, done, raised>> /\ offset' = 0 /\ batch' = <<>> /\ poll' = "idle"
        /\ Len(handled') = Len(handled) /\ \A i \in 1 .. Len(handled) : handled'[i] = 0
    BY <1>11 DEF Crash, TelegramTypeOK
  <2>2. Begun' = acked /\ acked <= Begun /\ acked \in 0 .. Len(inbox)
    BY <2>1, BegunType DEF Begun, Later, TelegramTypeOK
  <2>3. \A i \in 1 .. acked : i \in done \cup raised
    BY <2>2, ChatNumbers DEF BegunWasHandled, AtAnUpdate
  <2>4. BatchGoesOn' /\ AtAnUpdate'
    BY <2>1, <2>2 DEF BatchGoesOn, AtAnUpdate, Between, TelegramTypeOK
  <2>5. BegunWasHandled'
    BY <2>1, <2>2, <2>3 DEF BegunWasHandled, Between, TelegramTypeOK
  <2> QED
    BY <2>4, <2>5
<1>12. CASE UNCHANGED telegramVars
  BY <1>1, <1>12 DEF telegramVars, BegunWasHandled
<1> QED
  BY <1>3, <1>4, <1>5, <1>6, <1>7, <1>8, <1>9, <1>10, <1>11, <1>12
  DEF TelegramNext, World, PollStep

LEMMA StepAnswers == ChatInv /\ [TelegramNext]_telegramVars => AsksItsOwn' /\ AnswersNeedButtons'
<1> SUFFICES ASSUME ChatInv, TelegramTypeOK, TelegramTypeOK', [TelegramNext]_telegramVars
             PROVE  AsksItsOwn' /\ AnswersNeedButtons'
  BY TelegramStepType DEF ChatInv
<1> DEFINE Goal == AsksItsOwn' /\ AnswersNeedButtons'
<1> DEFINE Asking == {"testing", "waiting", "publish"}
<1> USE DEF ChatInv, serverVars, pollVars, batchVars, askVars, updateVars
<1>0. \A q \in Question : asker[q] \in {"nobody", "chat", "job", "gone"}
  BY DEF TelegramTypeOK
<1>1. ASSUME UNCHANGED <<inbox, askVars>>,
             \A who \in {"chat", "job"} : Asks(who)' \in Asking => Asks(who)' = Asks(who)
      PROVE  Goal
  BY <1>1 DEF AsksItsOwn, AnswersNeedButtons
<1>2. ASSUME UNCHANGED <<inbox, job, askVars>>, poll' \notin Asking PROVE Goal
  BY <1>1, <1>2 DEF Asks
<1>3. ASSUME NEW u \in Posts, Post(u) PROVE Goal
  <2>1. /\ UNCHANGED <<poll, job, askVars>> /\ inbox' = Append(inbox, u)
        /\ u.kind = "click" => u.q \in shown
    BY <1>3 DEF Post
  <2>2. \A i \in 1 .. Len(inbox') : inbox'[i] = u \/ (i \in 1 .. Len(inbox) /\ inbox'[i] = inbox[i])
    BY <2>1 DEF TelegramTypeOK
  <2> QED
    BY <2>1, <2>2 DEF AsksItsOwn, AnswersNeedButtons, Asks
<1>4. CASE (\E v \in Version : FindVersion(v)) \/ Poll \/ PollLost
  BY <1>1, <1>4 DEF FindVersion, Poll, PollLost, AfterAnError, Asks
<1>5. CASE BeginUpdate \/ ReplyFails \/ StartRaises \/ TurnRaises
  BY <1>2, <1>5 DEF BeginUpdate, ReplyFails, StartRaises, TurnRaises, Raises, AfterAnError
<1>6. CASE Ignore \/ Start \/ Text \/ EnterTurn \/ EndTurn \/ Install \/ Postpone \/ Reply
  BY <1>2, <1>6
  DEF Ignore, Start, Text, EnterTurn, EndTurn, Install, Postpone, Reply, Goes
<1>7. CASE Click
  <2>1. /\ UNCHANGED <<inbox, job, asker, asking, shown>> /\ poll' \notin Asking
        /\ At("click")
        /\ \/ UNCHANGED <<answered, used>>
           \/ /\ answered' = [answered EXCEPT ![inbox[chatting].q] = TRUE]
              /\ used' = [used EXCEPT ![inbox[chatting].q] = @ \cup {"turn"}]
    BY <1>7 DEF Click, Goes
  <2>2. chatting \in 1 .. Len(inbox) /\ inbox[chatting].q \in Question
    BY <2>1, AtPost, PostFields DEF At, Between
  <2>3. inbox[chatting].q \in shown
    BY <2>1, <2>2 DEF At, AnswersNeedButtons
  <2>4. AsksItsOwn'
    BY <2>1 DEF AsksItsOwn, Asks
  <2>5. answered \in [Question -> BOOLEAN] /\ used \in [Question -> SUBSET {"returned", "turn"}]
    BY DEF TelegramTypeOK
  <2>6. /\ \A q \in Question : answered'[q] => answered[q] \/ q = inbox[chatting].q
        /\ \A q \in Question : used'[q] \subseteq used[q] \cup {"turn"}
    <3>1. CASE UNCHANGED <<answered, used>>
      BY <3>1
    <3>2. CASE ~UNCHANGED <<answered, used>>
      BY <2>1, <2>2, <2>5, <3>2
    <3> QED
      BY <3>1, <3>2
  <2> QED
    BY <2>1, <2>3, <2>4, <2>6 DEF AnswersNeedButtons
<1>8. CASE JobTurn \/ JobEnds
  BY <1>1, <1>8 DEF JobTurn, JobEnds, Asks
<1>9. ASSUME NEW who \in {"chat", "job"}, ClarifyStep(who) PROVE Goal
  <2>1. \A w \in {"chat", "job"} : w # who => Asks(w)' = Asks(w)
    BY <1>9 DEF ClarifyStep, Ask, TestAnswer, WaitEnds, Publish, LooksAtAnswer, Moves, Asks
  <2>2. ASSUME NEW q \in Question, Ask(who, q) PROVE Goal
    <3>1. /\ UNCHANGED <<inbox, answered, shown, used>> /\ asker[q] = "nobody"
          /\ asker' = [asker EXCEPT ![q] = who] /\ asking' = [asking EXCEPT ![who] = q]
      BY <2>2 DEF Ask
    <3>2. asker'[q] = who /\ asking'[who] = q
      BY <3>1 DEF TelegramTypeOK
    <3>3. q \notin shown
      BY <3>1 DEF AnswersNeedButtons
    <3>4. \A w \in {"chat", "job"} : w # who /\ Asks(w)' \in Asking =>
            /\ asking'[w] \in Question /\ asker'[asking'[w]] = w /\ asking'[w] \notin shown
      BY <2>1, <3>1 DEF AsksItsOwn, TelegramTypeOK
    <3>5. AsksItsOwn'
      BY <3>1, <3>2, <3>3, <3>4 DEF AsksItsOwn
    <3>6. \A r \in Question : asker'[r] = "nobody" => asker[r] = "nobody"
      BY <3>1 DEF TelegramTypeOK
    <3> QED
      BY <3>1, <3>5, <3>6 DEF AnswersNeedButtons
  <2>3. CASE TestAnswer(who) \/ WaitEnds(who)
    <3>1. /\ UNCHANGED <<inbox, asker, asking, answered, shown>>
          /\ Asks(who) \in Asking
          /\ used' = used \/ answered[asking[who]]
      BY <2>3 DEF TestAnswer, WaitEnds, LooksAtAnswer
    <3>2. ~answered[asking[who]]
      BY <3>1 DEF AsksItsOwn, AnswersNeedButtons
    <3>3. \A w \in {"chat", "job"} : Asks(w)' \in Asking => Asks(w) \in Asking
      BY <2>1, <3>1
    <3> QED
      BY <3>1, <3>2, <3>3 DEF AsksItsOwn, AnswersNeedButtons
  <2>4. CASE Publish(who)
    <3>1. /\ UNCHANGED <<inbox, asker, asking, answered, used>> /\ Asks(who) = "publish"
          /\ shown \subseteq shown' /\ shown' \subseteq shown \cup {asking[who]}
          /\ Asks(who)' \notin Asking
      BY <2>4 DEF Publish, Moves, Asks
    <3>2. asking[who] \in Question /\ asker[asking[who]] = who
      BY <3>1 DEF AsksItsOwn
    <3>3. AsksItsOwn'
      BY <2>1, <3>1, <3>2 DEF AsksItsOwn
    <3>4. who # "nobody"
      OBVIOUS
    <3>5. \A q \in Question : asker'[q] = "nobody" => q \notin shown'
      BY <3>1, <3>2, <3>4 DEF AnswersNeedButtons
    <3> QED
      BY <3>1, <3>3, <3>5 DEF AnswersNeedButtons
  <2> QED
    BY <1>9, <2>2, <2>3, <2>4 DEF ClarifyStep
<1>10. CASE Crash
  <2>1. /\ UNCHANGED <<inbox, answered, shown, used>> /\ poll' = "idle" /\ job' = "idle"
        /\ \A q \in Question : asker'[q] = "nobody" <=> asker[q] = "nobody"
    BY <1>10, <1>0 DEF Crash
  <2> QED
    BY <2>1 DEF AsksItsOwn, AnswersNeedButtons, Asks
<1>11. CASE UNCHANGED telegramVars
  BY <1>1, <1>11 DEF telegramVars, Asks
<1> QED
  BY <1>3, <1>4, <1>5, <1>6, <1>7, <1>8, <1>9, <1>10, <1>11
  DEF TelegramNext, World, PollStep

LEMMA ChatHolds == TelegramSpec => []ChatInv
<1>1. TelegramInit => ChatInv
  BY TelegramInitType
  DEF TelegramInit, ChatInv, BatchGoesOn, AtAnUpdate, BegunWasHandled, AsksItsOwn,
      AnswersNeedButtons, Begun, Later, Asks, Between
<1>2. ChatInv /\ [TelegramNext]_telegramVars => ChatInv'
  BY TelegramStepType, StepDelivery, StepAnswers DEF ChatInv
<1> QED
  BY <1>1, <1>2, PTL DEF TelegramSpec

\* Every variable of the chat keeps its type.
THEOREM TelegramTypeCorrect == TelegramSpec => []TelegramTypeOK
<1>1. ChatInv => TelegramTypeOK
  BY DEF ChatInv
<1> QED
  BY <1>1, ChatHolds, PTL

\* However long the chat is, and however often polls are lost, replies fail and
\* the process crashes: what the server lets go of was handled, unless the handling
\* itself raised, and one process handles an update once.
THEOREM DeliveryHolds == TelegramSpec => []DeliveryIsSound
<1>1. ChatInv => DeliveryIsSound
  <2> SUFFICES ASSUME ChatInv PROVE DeliveryIsSound
    OBVIOUS
  <2>1. AckedWasHandled
    BY ChatNumbers DEF ChatInv, AckedWasHandled, BegunWasHandled, AtAnUpdate
  <2>2. HandledOnce
    BY ChatNumbers DEF ChatInv, HandledOnce, BegunWasHandled
  <2> QED
    BY <2>1, <2>2 DEF DeliveryIsSound
<1> QED
  BY <1>1, ChatHolds, PTL

\* For every set of questions: no answer is both returned to an ask and made a
\* turn of its own, since none is given before its buttons are in the chat.
THEOREM AnswersGoOneWay == TelegramSpec => []AnswerGoesOneWay
<1>1. ChatInv => AnswerGoesOneWay
  BY DEF ChatInv, AnswersNeedButtons, AnswerGoesOneWay
<1> QED
  BY <1>1, ChatHolds, PTL

-----------------------------------------------------------------------------
(* Profile.                                                                *)

LEMMA ProfileBounds == MaxMessages \in Nat /\ MaxEnds \in Nat /\ MaxFaults \in Nat
  BY ProfileAssumption

LEMMA FreshIsProfile == Fresh \in Profiles /\ Idle \in SenderRecord
<1>1. Fresh \in Profiles
  BY DEF Fresh, Profiles, StyleStep
<1> QED
  BY <1>1 DEF Idle, SenderRecord

LEMMA GarbledIsNone == Garbled \notin Profiles
  BY DEF Garbled, Profiles

\* The threads write to one inode each, and the profile is one more.
LEMMA InodeLeft ==
  ASSUME ProfileTypeOK
  PROVE  UnusedInode \in Inodes /\ UnusedInode # file
<1> DEFINE open == [s \in Sender |-> sender[s].open]
           inUse == {sender[s].open : s \in Sender}
<1>1. IsFiniteSet(inUse) /\ Cardinality(inUse) <= Cardinality(Sender)
  <2>1. open \in Surjection(Sender, inUse)
    BY DEF Surjection
  <2>2. IsFiniteSet(Sender)
    BY ProfileAssumption
  <2> HIDE DEF open, inUse
  <2> QED
    BY <2>1, <2>2, FS_Surjection
<1>2. Cardinality(Sender) \in Nat
  BY ProfileAssumption, FS_CardinalityType
<1>3. IsFiniteSet(inUse \cup {file}) /\ Cardinality(inUse \cup {file}) <= Cardinality(Sender) + 1
  <2> HIDE DEF inUse
  <2>1. Cardinality(inUse) \in Nat
    BY <1>1, FS_CardinalityType
  <2>2. /\ IsFiniteSet(inUse \cup {file})
        /\ \/ Cardinality(inUse \cup {file}) = Cardinality(inUse)
           \/ Cardinality(inUse \cup {file}) = Cardinality(inUse) + 1
    BY <1>1, FS_AddElement, Zenon
  <2> QED
    BY <1>1, <1>2, <2>1, <2>2
<1>4. IsFiniteSet(Inodes) /\ Cardinality(Inodes) = Cardinality(Sender) + 2
  BY <1>2, FS_Interval DEF Inodes
<1>5. ~ (Inodes \subseteq inUse \cup {file})
  <2> HIDE DEF inUse
  <2>1. Cardinality(inUse \cup {file}) \in Nat
    BY <1>3, FS_CardinalityType
  <2> QED
    BY <1>2, <1>3, <1>4, <2>1, FS_Subset
<1>6. \E n \in Inodes : n # file /\ \A r \in Sender : sender[r].open # n
  BY <1>5
<1> QED
  BY <1>6 DEF UnusedInode

LEMMA ProfileInitType == ProfileInit => ProfileTypeOK
<1> SUFFICES ASSUME ProfileInit PROVE ProfileTypeOK
  OBVIOUS
<1>1. 1 \in Inodes
  BY ProfileAssumption, FS_CardinalityType DEF Inodes
<1>2. text \in [Inodes -> Profiles \cup {Garbled}] /\ file \in Inodes \cup {NoInode}
  <2>1. \A step \in 0 .. StyleStep :
          [Fresh EXCEPT !.introduced = TRUE, !.step = step] \in Profiles
    <3> TAKE step \in 0 .. StyleStep
    <3>1. step \in 0 .. StyleStep + 1
      BY DEF StyleStep
    <3> QED
      BY <3>1 DEF Fresh, Profiles
  <2> QED
    BY <1>1, <2>1 DEF ProfileInit
<1>3. heap \in [Sender -> Profiles] /\ sender \in [Sender -> SenderRecord]
      /\ \A s \in Sender : sender[s].at = "idle"
  BY FreshIsProfile DEF ProfileInit, Idle
<1>4. assured \in [paused : BOOLEAN, facts : SUBSET Facts]
  BY DEF ProfileInit, Unsure
<1>5. /\ messages \in 0 .. MaxMessages /\ ends \in 0 .. MaxEnds /\ faults \in 0 .. MaxFaults
      /\ temp \in Inodes \cup {NoInode} /\ cached \in Sender \cup {Nobody}
  <2>1. messages = 0 /\ ends = 0 /\ faults = 0 /\ temp = NoInode /\ cached = Nobody
    BY DEF ProfileInit
  <2> QED
    BY <2>1, ProfileBounds
<1>6. disturbed \in BOOLEAN
  BY DEF ProfileInit
<1>7. \A s \in Sender : sender[s].at \notin Handling
  BY <1>3 DEF Handling
<1> QED
  BY <1>2, <1>3, <1>4, <1>5, <1>6, <1>7 DEF ProfileTypeOK, Handling

\* One thread takes a step, and the others stay.
LEMMA OneSends ==
  ASSUME ProfileTypeOK, NEW s \in Sender, NEW record \in SenderRecord,
         sender' = [sender EXCEPT ![s] = record],
         record.at \in Handling => record.mine \in Sender,
         record.at \in {"write", "replace"} => record.open \in Inodes
  PROVE  /\ sender' \in [Sender -> SenderRecord]
         /\ \A r \in Sender : /\ sender'[r].at \in Handling => sender'[r].mine \in Sender
                              /\ sender'[r].at \in {"write", "replace"} => sender'[r].open \in Inodes
  BY DEF ProfileTypeOK

\* What a thread that goes on is.
LEMMA Going ==
  ASSUME ProfileTypeOK, NEW s \in Sender, NEW place \in {"handle", "command", "reply", "open", "replace"}
  PROVE  /\ [sender[s] EXCEPT !.at = place] \in SenderRecord
         /\ [sender[s] EXCEPT !.at = place].at = place
         /\ [sender[s] EXCEPT !.at = place].mine = sender[s].mine
         /\ [sender[s] EXCEPT !.at = place].open = sender[s].open
         /\ [sender[s] EXCEPT !.at = place].message = sender[s].message
         /\ [sender[s] EXCEPT !.at = place].payload = sender[s].payload
         /\ [sender[s] EXCEPT !.at = place].next = sender[s].next
<1>1. sender[s] \in SenderRecord
  BY DEF ProfileTypeOK
<1> QED
  BY <1>1 DEF SenderRecord, Handling

LEMMA SavedRecord ==
  ASSUME NEW saving \in SenderRecord, NEW place \in {"reply", "command"}
  PROVE  /\ [saving EXCEPT !.at = place, !.open = NoInode] \in SenderRecord
         /\ [saving EXCEPT !.at = place, !.open = NoInode].at = place
         /\ [saving EXCEPT !.at = place, !.open = NoInode].mine = saving.mine
         /\ [saving EXCEPT !.at = place, !.open = NoInode].message = saving.message
  BY DEF SenderRecord, Handling

\* A thread that has its profile goes on with it, saved or not.
LEMMA PassesType ==
  ASSUME ProfileTypeOK, NEW s \in Sender, sender[s].at \in Handling,
         NEW place \in {"handle", "command", "reply", "open"}, GoesOnTo(s, place)
  PROVE  /\ sender' \in [Sender -> SenderRecord]
         /\ \A r \in Sender : /\ sender'[r].at \in Handling => sender'[r].mine \in Sender
                              /\ sender'[r].at \in {"write", "replace"} => sender'[r].open \in Inodes
<1>1. sender' = [sender EXCEPT ![s] = [sender[s] EXCEPT !.at = place]]
  BY DEF GoesOnTo
<1>2. sender[s].mine \in Sender
  BY DEF ProfileTypeOK
<1> QED
  BY <1>1, <1>2, Going, OneSends

LEMMA SavesType ==
  ASSUME ProfileTypeOK, NEW s \in Sender, sender[s].at \in Handling,
         NEW profile \in Profiles, NEW next \in {"reply", "command"}, Saves(s, profile, next)
  PROVE  /\ heap' \in [Sender -> Profiles] /\ sender' \in [Sender -> SenderRecord]
         /\ \A r \in Sender : /\ sender'[r].at \in Handling => sender'[r].mine \in Sender
                              /\ sender'[r].at \in {"write", "replace"} => sender'[r].open \in Inodes
<1> DEFINE record == [sender[s] EXCEPT !.at = "open", !.next = next]
<1>1. sender[s] \in SenderRecord /\ sender[s].mine \in Sender
  BY DEF ProfileTypeOK
<1>2. record \in SenderRecord /\ record.at = "open" /\ record.mine = sender[s].mine
  BY <1>1 DEF SenderRecord, Handling
<1>3. sender' = [sender EXCEPT ![s] = record]
  BY DEF Saves
<1> HIDE DEF record
<1>4. heap' \in [Sender -> Profiles]
  BY <1>1 DEF Saves, ProfileTypeOK
<1> QED
  BY <1>1, <1>2, <1>3, <1>4, OneSends

\* The profiles that a message makes of one.
LEMMA FlaggedProfile ==
  ASSUME NEW mine \in Profiles, NEW flag \in BOOLEAN
  PROVE  /\ [mine EXCEPT !.introduced = flag] \in Profiles
         /\ [mine EXCEPT !.done = flag] \in Profiles
         /\ [mine EXCEPT !.active = flag] \in Profiles
  BY DEF Profiles

LEMMA ChangedProfile ==
  ASSUME NEW mine \in Profiles, NEW step \in 0 .. StyleStep + 1, NEW facts \in SUBSET Facts,
         NEW flag \in BOOLEAN
  PROVE  /\ [mine EXCEPT !.step = step, !.done = flag] \in Profiles
         /\ [mine EXCEPT !.step = step, !.done = flag, !.facts = facts] \in Profiles
  BY DEF Profiles

LEMMA ProfileStepType == ProfileTypeOK /\ [ProfileNext]_profileVars => ProfileTypeOK'
<1> SUFFICES ASSUME ProfileTypeOK, [ProfileNext]_profileVars PROVE ProfileTypeOK'
  OBVIOUS
<1> DEFINE Sent1 == /\ sender' \in [Sender -> SenderRecord]
                    /\ \A r \in Sender :
                         /\ sender'[r].at \in Handling => sender'[r].mine \in Sender
                         /\ sender'[r].at \in {"write", "replace"} => sender'[r].open \in Inodes
           Disk == /\ file' \in Inodes \cup {NoInode} /\ temp' \in Inodes \cup {NoInode}
                   /\ text' \in [Inodes -> Profiles \cup {Garbled}]
           Memory == heap' \in [Sender -> Profiles] /\ cached' \in Sender \cup {Nobody}
           Tally == /\ messages' \in 0 .. MaxMessages /\ ends' \in 0 .. MaxEnds
                    /\ faults' \in 0 .. MaxFaults
           Seen == assured' \in [paused : BOOLEAN, facts : SUBSET Facts] /\ disturbed' \in BOOLEAN
<1>1. Sent1 /\ Disk /\ Memory /\ Tally /\ Seen => ProfileTypeOK'
  BY DEF ProfileTypeOK
<1>2. /\ UNCHANGED diskVars => Disk
      /\ UNCHANGED <<heap, cached>> => Memory
      /\ UNCHANGED tallyVars => Tally
      /\ UNCHANGED assured /\ UNCHANGED disturbed => Seen
  BY DEF ProfileTypeOK, diskVars, tallyVars
<1>3. \A s \in Sender :
        /\ sender[s] \in SenderRecord /\ heap[s] \in Profiles
        /\ sender[s].at \in Handling => sender[s].mine \in Sender /\ Mine(s) \in Profiles
  BY DEF ProfileTypeOK, Mine
<1>4. DiskFault => Tally
  BY ProfileBounds DEF ProfileTypeOK, DiskFault
<1>5. Idle \in SenderRecord /\ Idle.at = "idle" /\ "idle" \notin Handling
  BY FreshIsProfile DEF Idle, Handling
<1> HIDE DEF Sent1, Disk, Memory, Tally, Seen
<1>6. ASSUME NEW s \in Sender, NEW m \in Sent, Receive(s, m) PROVE ProfileTypeOK'
  <2> DEFINE record == [Idle EXCEPT !.at = "look", !.message = m]
  <2>1. record \in SenderRecord /\ record.at = "look" /\ sender' = [sender EXCEPT ![s] = record]
    BY <1>5, <1>6 DEF Receive, SenderRecord
  <2> HIDE DEF record
  <2>2. Sent1
    BY <2>1, OneSends DEF Sent1, Handling
  <2>3. Tally
    BY <1>6, ProfileBounds DEF Receive, ProfileTypeOK, Tally
  <2>4. disturbed' \in BOOLEAN
    BY <1>6 DEF Receive
  <2>5. assured' \in [paused : BOOLEAN, facts : SUBSET Facts]
    BY <1>6 DEF Receive, Unsure, ProfileTypeOK
  <2> QED
    BY <1>1, <1>2, <1>6, <2>2, <2>3, <2>4, <2>5 DEF Receive, Seen
<1>7. ASSUME NEW s \in Sender, CacheHit(s) PROVE ProfileTypeOK'
  <2> DEFINE record == [sender[s] EXCEPT !.at = "handle", !.mine = cached]
  <2>1. cached \in Sender /\ sender' = [sender EXCEPT ![s] = record]
    BY <1>7 DEF CacheHit, ProfileTypeOK
  <2>2. record \in SenderRecord /\ record.at = "handle" /\ record.mine = cached
    BY <1>3, <2>1 DEF SenderRecord, Handling
  <2> HIDE DEF record
  <2>3. Sent1
    BY <2>1, <2>2, OneSends DEF Sent1
  <2> QED
    BY <1>1, <1>2, <1>7, <2>3 DEF CacheHit
<1>8. ASSUME NEW s \in Sender, ReadFile(s) \/ ReadFails(s) PROVE ProfileTypeOK'
  <2> DEFINE record == [sender[s] EXCEPT !.at = "cache", !.mine = s]
  <2>1. sender' = [sender EXCEPT ![s] = record]
    BY <1>8 DEF ReadFile, ReadFails
  <2>2. record \in SenderRecord /\ record.at = "cache" /\ record.mine = s
    <3>1. sender[s] \in SenderRecord /\ "cache" \in {"idle", "look"} \cup Handling
      BY <1>3 DEF Handling
    <3> QED
      BY <3>1 DEF SenderRecord
  <2> HIDE DEF record
  <2>3. Sent1
    BY <2>1, <2>2, OneSends DEF Sent1
  <2>4. CASE ReadFile(s)
    <3>1. heap' \in [Sender -> Profiles] /\ UNCHANGED <<temp, text, cached>>
      <4>1. file # NoInode /\ text[file] # Garbled => text[file] \in Profiles
        BY DEF ProfileTypeOK
      <4>2. heap \in [Sender -> Profiles]
        BY DEF ProfileTypeOK
      <4> QED
        BY <2>4, <4>1, <4>2, FreshIsProfile DEF ReadFile
    <3>2. Disk /\ Memory
      BY <2>4, <3>1 DEF ReadFile, ProfileTypeOK, Disk, Memory
    <3>3. Seen /\ Tally
      BY <1>2, <2>4 DEF ReadFile
    <3> QED
      BY <1>1, <2>3, <3>2, <3>3
  <2>5. CASE ReadFails(s)
    <3>1. Disk /\ Memory
      BY <2>5, FreshIsProfile DEF ReadFails, ProfileTypeOK, Disk, Memory
    <3>2. disturbed' \in BOOLEAN /\ UNCHANGED assured
      BY <2>5 DEF ReadFails
    <3>3. Seen /\ Tally
      BY <1>4, <2>5, <3>2 DEF ReadFails, Seen, ProfileTypeOK
    <3> QED
      BY <1>1, <2>3, <3>1, <3>3
  <2> QED
    BY <1>8, <2>4, <2>5
<1>9. ASSUME NEW s \in Sender, FillCache(s) PROVE ProfileTypeOK'
  <2>1. sender[s].at \in Handling /\ GoesOnTo(s, "handle")
    BY <1>9 DEF FillCache, Reaches, Handling
  <2>2. Sent1
    BY <2>1, PassesType DEF Sent1
  <2>3. Memory
    BY <1>9 DEF FillCache, Memory, ProfileTypeOK
  <2> QED
    BY <1>1, <1>2, <1>9, <2>2, <2>3 DEF FillCache
<1>10. ASSUME NEW s \in Sender, sender[s].at \in Handling, UNCHANGED <<diskVars, cached, tallyVars>>,
              UNCHANGED assured, UNCHANGED disturbed,
              \/ \E profile \in Profiles, next \in {"reply", "command"} : Saves(s, profile, next)
              \/ Passes(s)
       PROVE  ProfileTypeOK'
  <2>1. Sent1 /\ Memory
    <3>1. CASE \E profile \in Profiles, next \in {"reply", "command"} : Saves(s, profile, next)
      <4>1. Sent1 /\ heap' \in [Sender -> Profiles]
        BY <1>10, <3>1, SavesType DEF Sent1
      <4> QED
        BY <1>10, <4>1 DEF Memory, ProfileTypeOK
    <3>2. CASE Passes(s)
      <4>1. Sent1
        BY <1>10, <3>2, PassesType DEF Sent1, Passes
      <4> QED
        BY <1>10, <3>2, <4>1 DEF Memory, ProfileTypeOK, Passes
    <3> QED
      BY <1>10, <3>1, <3>2
  <2> QED
    BY <1>1, <1>2, <1>10, <2>1
<1>11. ASSUME NEW s \in Sender, Introduce(s) PROVE ProfileTypeOK'
  <2> DEFINE profile == [Mine(s) EXCEPT !.introduced = TRUE]
             next == IF IsCommand(Message(s)) THEN "command" ELSE "reply"
  <2>1. sender[s].at \in Handling
    BY <1>11 DEF Introduce, Reaches, Handling
  <2>2. profile \in Profiles
    BY <1>3, <2>1, FlaggedProfile
  <2>3. next \in {"reply", "command"} /\ Saves(s, profile, next)
    BY <1>11 DEF Introduce
  <2> HIDE DEF profile, next
  <2> QED
    BY <1>10, <1>11, <2>1, <2>2, <2>3 DEF Introduce
<1>12. ASSUME NEW s \in Sender, Answer(s) PROVE ProfileTypeOK'
  <2> DEFINE mine == Mine(s)
             kept == IF ~mine.active THEN {} ELSE IF mine.step = StyleStep THEN {"style"}
                     ELSE {AskedFor(mine.step)}
             over == [mine EXCEPT !.done = TRUE]
             step == [mine EXCEPT !.step = @ + 1, !.done = mine.step = StyleStep,
                                  !.facts = @ \cup kept]
  <2>1. sender[s].at \in Handling
    BY <1>12 DEF Answer, Reaches, Handling
  <2>2. mine \in Profiles
    BY <1>3, <2>1
  <2>3. over \in Profiles
    BY <2>2 DEF Profiles
  <2>4. ASSUME ~ mine.step > StyleStep PROVE step \in Profiles
    <3>1. mine.step \in 0 .. StyleStep /\ mine.step + 1 \in 0 .. StyleStep + 1
      BY <2>2, <2>4 DEF Profiles, StyleStep
    <3>2. kept \in SUBSET Facts
      BY <3>1 DEF StyleStep, AskedFor, Facts
    <3>3. mine.facts \cup kept \in SUBSET Facts /\ (mine.step = StyleStep) \in BOOLEAN
      BY <2>2, <3>2 DEF Profiles
    <3> HIDE DEF mine, kept
    <3> QED
      BY <2>2, <3>1, <3>3, ChangedProfile
  <2>5. \/ Passes(s)
        \/ mine.step > StyleStep /\ Saves(s, over, "reply")
        \/ ~ mine.step > StyleStep /\ Saves(s, step, "reply")
    BY <1>12 DEF Answer
  <2> HIDE DEF mine, over, step
  <2>6. Passes(s) \/ \E profile \in Profiles, next \in {"reply", "command"} : Saves(s, profile, next)
    BY <2>3, <2>4, <2>5
  <2> QED
    BY <1>10, <1>12, <2>1, <2>6 DEF Answer
<1>13. ASSUME NEW s \in Sender, Command(s) PROVE ProfileTypeOK'
  <2> DEFINE mine == Mine(s)
             off == [mine EXCEPT !.active = FALSE]
             on == [mine EXCEPT !.active = TRUE]
             skipped == [mine EXCEPT !.step = StyleStep + 1, !.done = TRUE]
  <2>1. sender[s].at \in Handling
    BY <1>13 DEF Command, Reaches, Handling
  <2>2. mine \in Profiles
    BY <1>3, <2>1
  <2>3. off \in Profiles /\ on \in Profiles /\ skipped \in Profiles
    <3>1. StyleStep + 1 \in 0 .. StyleStep + 1 /\ TRUE \in BOOLEAN /\ FALSE \in BOOLEAN
      BY DEF StyleStep
    <3> HIDE DEF mine
    <3> QED
      BY <2>2, <3>1, FlaggedProfile, ChangedProfile
  <2>4. Passes(s) \/ Saves(s, off, "reply") \/ Saves(s, on, "reply") \/ Saves(s, skipped, "reply")
    BY <1>13 DEF Command
  <2> HIDE DEF mine, off, on, skipped
  <2>5. Passes(s) \/ \E profile \in Profiles, next \in {"reply", "command"} : Saves(s, profile, next)
    BY <2>3, <2>4
  <2> QED
    BY <1>10, <1>13, <2>1, <2>5 DEF Command
<1>14. ASSUME NEW s \in Sender, sender' = [sender EXCEPT ![s] = Idle] PROVE Sent1
  BY <1>5, <1>14, OneSends DEF Sent1
<1>15. ASSUME NEW s \in Sender, Answers(s) PROVE ProfileTypeOK'
  <2>1. Mine(s).facts \in SUBSET Facts
    BY <1>3, <1>15 DEF Answers, Reaches, Handling, Profiles
  <2>2. [paused |-> TRUE, facts |-> Mine(s).facts] \in [paused : BOOLEAN, facts : SUBSET Facts]
    BY <2>1
  <2>3. assured' \in [paused : BOOLEAN, facts : SUBSET Facts]
    BY <1>15, <2>2 DEF Answers, ProfileTypeOK
  <2>4. Seen
    BY <1>15, <2>3 DEF Answers, Seen, ProfileTypeOK
  <2> QED
    BY <1>1, <1>2, <1>14, <1>15, <2>4 DEF Answers
<1>16. ASSUME NEW s \in Sender, OpenCopy(s) PROVE ProfileTypeOK'
  <2> DEFINE n == IF temp # NoInode THEN temp ELSE UnusedInode
             record == [sender[s] EXCEPT !.at = "write", !.open = n, !.payload = Mine(s)]
  <2>1. n \in Inodes
    BY InodeLeft DEF ProfileTypeOK
  <2>2. sender[s].mine \in Sender /\ Mine(s) \in Profiles
    BY <1>3, <1>16 DEF OpenCopy, Reaches, Handling
  <2>3. /\ temp' = n /\ text' = [text EXCEPT ![n] = Garbled]
        /\ sender' = [sender EXCEPT ![s] = record]
    BY <1>16 DEF OpenCopy
  <2> HIDE DEF n
  <2>4. /\ record \in SenderRecord /\ record.at = "write" /\ record.mine = sender[s].mine
        /\ record.open = n
    BY <1>3, <2>1, <2>2 DEF SenderRecord, Handling
  <2> HIDE DEF record
  <2>5. Sent1
    BY <2>1, <2>2, <2>3, <2>4, OneSends DEF Sent1
  <2>6. Disk
    BY <1>16, <2>1, <2>3 DEF OpenCopy, Disk, ProfileTypeOK
  <2> QED
    BY <1>1, <1>2, <1>16, <2>5, <2>6 DEF OpenCopy
<1>17. ASSUME NEW s \in Sender, WriteCopy(s) PROVE ProfileTypeOK'
  <2>1. /\ sender[s].at = "write" /\ sender[s].mine \in Sender /\ sender[s].open \in Inodes
        /\ sender' = [sender EXCEPT ![s] = [sender[s] EXCEPT !.at = "replace"]]
    BY <1>3, <1>17 DEF WriteCopy, Reaches, GoesOnTo, Handling, ProfileTypeOK
  <2>2. Sent1
    BY <2>1, Going, OneSends DEF Sent1
  <2>3. Disk
    <3>1. sender[s].payload \in Profiles
      BY <1>3 DEF SenderRecord
    <3> QED
      BY <1>17, <2>1, <3>1 DEF WriteCopy, Disk, ProfileTypeOK
  <2> QED
    BY <1>1, <1>2, <1>17, <2>2, <2>3 DEF WriteCopy
<1>18. ASSUME NEW s \in Sender, Replace(s) PROVE ProfileTypeOK'
  <2>1. sender[s].at = "replace" /\ sender[s].mine \in Sender
    BY <1>3, <1>18 DEF Replace, Reaches, Handling
  <2>2. CASE temp = NoInode
    <3>1. Sent1 /\ UNCHANGED <<file, temp, text, heap, cached>>
      BY <1>14, <1>18, <2>2 DEF Replace
    <3> QED
      BY <1>1, <1>2, <1>18, <3>1 DEF Replace, diskVars
  <2>3. CASE temp # NoInode
    <3> DEFINE record == [sender[s] EXCEPT !.at = sender[s].next, !.open = NoInode]
    <3>1. sender' = [sender EXCEPT ![s] = record]
      BY <1>18, <2>3 DEF Replace
    <3>2. /\ record \in SenderRecord /\ record.mine = sender[s].mine
          /\ record.at \in {"reply", "command"}
      <4>1. sender[s].next \in {"reply", "command"}
        BY <1>3 DEF SenderRecord
      <4> QED
        BY <1>3, <4>1, SavedRecord
    <3> HIDE DEF record
    <3>3. Sent1
      BY <2>1, <3>1, <3>2, OneSends DEF Sent1
    <3>4. Disk /\ Memory
      BY <1>18, <2>1, <2>3 DEF Replace, Disk, Memory, ProfileTypeOK
    <3> QED
      BY <1>1, <1>2, <1>18, <3>3, <3>4 DEF Replace
  <2> QED
    BY <2>2, <2>3
<1>19. ASSUME NEW s \in Sender, SaveFails(s) PROVE ProfileTypeOK'
  BY <1>1, <1>2, <1>4, <1>14, <1>19 DEF SaveFails
<1>20. CASE ProcessEnds
  <2>1. Sent1
    BY <1>5, <1>20 DEF ProcessEnds, Sent1
  <2>2. Memory
    BY <1>20, FreshIsProfile DEF ProcessEnds, Memory
  <2>3. Tally
    BY <1>20, ProfileBounds DEF ProcessEnds, Tally, ProfileTypeOK
  <2> QED
    BY <1>1, <1>2, <1>20, <2>1, <2>2, <2>3 DEF ProcessEnds
<1>21. CASE UNCHANGED profileVars
  BY <1>21 DEF profileVars, ProfileTypeOK, diskVars
<1> QED
  BY <1>6, <1>7, <1>8, <1>9, <1>11, <1>12, <1>13, <1>15, <1>16, <1>17, <1>18, <1>19, <1>20, <1>21
  DEF ProfileNext

\* In every reachable state the profile, its copies and the threads have their types.
THEOREM ProfileTypeCorrect == ProfileSpec => []ProfileTypeOK
  BY ProfileInitType, ProfileStepType, PTL DEF ProfileSpec

\* PauseIsKept while a message is handled.  As long as no messages overlap, one
\* thread works with the profile of the cache, and what its place says of the
\* copies is so: what it reports is on the disk.
Working(s) == sender[s].at # "idle"
Alone == \A r, s \in Sender : Working(r) /\ Working(s) => r = s
Holds(profile) == ~profile.active /\ profile.facts = assured.facts
Saved(s) == file # NoInode /\ text[file] = Mine(s)
Doing(s) ==
  /\ sender[s].at = "cache" => sender[s].mine = s /\ cached = Nobody
  /\ sender[s].at \in Handling \ {"cache"} => cached = sender[s].mine
  /\ sender[s].at \in {"open", "write", "replace"} =>
       IF sender[s].next = "command" THEN IsCommand(Message(s))
       ELSE Message(s) = "pause" => ~Mine(s).active
  /\ sender[s].at \in {"write", "replace"} =>
       sender[s].open = temp /\ temp # NoInode /\ sender[s].payload = Mine(s)
  /\ sender[s].at = "write" => text[temp] = Garbled
  /\ sender[s].at = "replace" => text[temp] = Mine(s)
  /\ sender[s].at = "command" => Saved(s) /\ IsCommand(Message(s))
  /\ sender[s].at = "reply" /\ Message(s) = "pause" => Saved(s) /\ ~Mine(s).active
  /\ assured.paused =>
       /\ sender[s].at = "cache" => Holds(heap[s])
       /\ Working(s) => Message(s) # "resume"
PauseHolds ==
  assured.paused =>
    file # NoInode /\ Holds(text[file]) /\ (cached # Nobody => Holds(heap[cached]))
Whole == file # NoInode => text[file] # Garbled
PauseInv ==
  /\ ProfileTypeOK /\ (temp # NoInode => temp # file)
  /\ ~disturbed => Alone /\ PauseHolds /\ Whole /\ \A s \in Sender : Doing(s)

LEMMA IdleDoes == ASSUME NEW s \in Sender, sender[s].at = "idle" PROVE Doing(s)
  BY DEF Doing, Working, Handling

\* The temporary file is another one than the profile.
LEMMA StepApart ==
  ASSUME PauseInv, [ProfileNext]_profileVars
  PROVE  temp' # NoInode => temp' # file'
<1>1. ASSUME NEW s \in Sender, OpenCopy(s) PROVE temp' # NoInode => temp' # file'
  BY <1>1, InodeLeft DEF OpenCopy, PauseInv
<1>2. ASSUME NEW s \in Sender, ReadFile(s) \/ ReadFails(s) PROVE temp' # NoInode => temp' # file'
  BY <1>2 DEF ReadFile, ReadFails, PauseInv
<1>3. ASSUME NEW s \in Sender, Replace(s) PROVE temp' # NoInode => temp' # file'
  BY <1>3 DEF Replace
<1>4. CASE UNCHANGED <<file, temp>>
  BY <1>4 DEF PauseInv
<1>5. \/ \E s \in Sender : OpenCopy(s) \/ ReadFile(s) \/ ReadFails(s) \/ Replace(s)
      \/ UNCHANGED <<file, temp>>
  BY DEF ProfileNext, profileVars, Receive, CacheHit, FillCache, Introduce, Answer, Command,
         Answers, WriteCopy, SaveFails, ProcessEnds, diskVars
<1> QED
  BY <1>1, <1>2, <1>3, <1>4, <1>5

\* What is left to show of a step of the one thread that works.
LEMMA OneDoes ==
  ASSUME ProfileTypeOK', ProfileTypeOK, NEW s \in Sender, NEW record,
         sender' = [sender EXCEPT ![s] = record], temp' # NoInode => temp' # file',
         \A r \in Sender : r # s => ~Working(r), PauseHolds', Whole', Doing(s)'
  PROVE  PauseInv'
<1>1. \A r \in Sender : r # s => sender'[r].at = "idle"
  BY DEF ProfileTypeOK, Working
<1>2. \A r \in Sender : Doing(r)'
  BY <1>1, IdleDoes DEF Doing, Working, Handling
<1>3. Alone'
  BY <1>1 DEF Alone, Working
<1> QED
  BY <1>2, <1>3 DEF PauseInv

LEMMA StepPause == PauseInv /\ [ProfileNext]_profileVars => PauseInv'
<1> SUFFICES ASSUME PauseInv, ProfileTypeOK, ProfileTypeOK', [ProfileNext]_profileVars,
                    temp' # NoInode => temp' # file', ~disturbed'
             PROVE  PauseInv'
  BY ProfileStepType, StepApart DEF PauseInv
<1>1. ~disturbed
  BY DEF ProfileNext, profileVars, Receive, CacheHit, ReadFile, ReadFails, FillCache, Introduce,
         Answer, Command, Answers, OpenCopy, WriteCopy, Replace, SaveFails, ProcessEnds
<1>2. Alone /\ PauseHolds /\ Whole /\ \A s \in Sender : Doing(s)
  BY <1>1 DEF PauseInv
<1>3. ASSUME NEW s \in Sender, Working(s) PROVE \A r \in Sender : r # s => ~Working(r)
  BY <1>2, <1>3 DEF Alone
<1>4. \A s \in Sender :
        /\ sender[s] \in SenderRecord /\ heap[s] \in Profiles
        /\ sender[s].at \in Handling => sender[s].mine \in Sender /\ Mine(s) \in Profiles
  BY DEF ProfileTypeOK, Mine
\* The thread is done: nothing is left of it.
<1>5. ASSUME NEW s \in Sender, Working(s), sender' = [sender EXCEPT ![s] = Idle],
             PauseHolds', Whole'
      PROVE  PauseInv'
  <2>1. sender'[s].at = "idle"
    BY <1>5 DEF ProfileTypeOK, Idle
  <2>2. Doing(s)'
    BY <2>1, IdleDoes DEF Doing, Working, Handling
  <2> QED
    BY <1>3, <1>5, <2>2, OneDoes
<1>6. ASSUME NEW s \in Sender, NEW m \in Sent, Receive(s, m) PROVE PauseInv'
  <2> DEFINE record == [Idle EXCEPT !.at = "look", !.message = m]
  <2>1. /\ record.at = "look" /\ record.message = m /\ sender' = [sender EXCEPT ![s] = record]
        /\ UNCHANGED <<file, temp, text, heap, cached>>
    BY <1>6 DEF Receive, Idle, diskVars
  <2> HIDE DEF record
  <2>2. sender'[s] = record
    BY <2>1 DEF ProfileTypeOK
  <2>3. \A r \in Sender : ~Working(r)
    BY <1>6 DEF Receive, Working
  <2>4. assured' = assured \/ assured' = Unsure
    BY <1>6 DEF Receive
  <2>5. PauseHolds' /\ Whole'
    BY <1>2, <2>1, <2>4 DEF PauseHolds, Holds, Whole, Unsure
  <2>6. m = "resume" => ~assured'.paused
    BY <1>6 DEF Receive, Unsure
  <2>7. Doing(s)'
    BY <2>1, <2>2, <2>6 DEF Doing, Handling, Working, Message
  <2> QED
    BY <2>1, <2>3, <2>5, <2>7, OneDoes
<1>7. ASSUME NEW s \in Sender, CacheHit(s) PROVE PauseInv'
  <2> DEFINE record == [sender[s] EXCEPT !.at = "handle", !.mine = cached]
  <2>1. /\ sender[s].at = "look" /\ sender' = [sender EXCEPT ![s] = record]
        /\ UNCHANGED <<file, temp, text, heap, cached, assured>>
    BY <1>7 DEF CacheHit, Reaches, diskVars
  <2>2. record.at = "handle" /\ record.mine = cached /\ record.message = Message(s)
    BY <1>4 DEF SenderRecord, Message
  <2> HIDE DEF record
  <2>3. sender'[s] = record
    BY <2>1 DEF ProfileTypeOK
  <2>4. Working(s) /\ (assured.paused => Message(s) # "resume")
    BY <1>2, <2>1 DEF Working, Doing
  <2>5. Doing(s)'
    BY <2>1, <2>2, <2>3, <2>4 DEF Doing, Handling, Working, Message
  <2>6. PauseHolds' /\ Whole'
    BY <1>2, <2>1 DEF PauseHolds, Holds, Whole
  <2> QED
    BY <1>3, <2>1, <2>4, <2>5, <2>6, OneDoes
<1>8. ASSUME NEW s \in Sender, ReadFile(s) PROVE PauseInv'
  <2> DEFINE record == [sender[s] EXCEPT !.at = "cache", !.mine = s]
  <2>1. /\ sender[s].at = "look" /\ sender' = [sender EXCEPT ![s] = record] /\ cached = Nobody
        /\ heap' = [heap EXCEPT ![s] = IF file = NoInode THEN Fresh ELSE text[file]]
        /\ UNCHANGED <<file, temp, text, cached, assured>>
    BY <1>2, <1>8 DEF ReadFile, Reaches, Whole
  <2>2. record.at = "cache" /\ record.mine = s /\ record.message = Message(s)
    BY <1>4 DEF SenderRecord, Message
  <2> HIDE DEF record
  <2>3. sender'[s] = record
    BY <2>1 DEF ProfileTypeOK
  <2>4. Working(s) /\ (assured.paused => Message(s) # "resume")
    BY <1>2, <2>1 DEF Working, Doing
  <2>5. assured.paused => heap'[s] = text[file] /\ Holds(text[file])
    BY <1>2, <2>1 DEF PauseHolds, ProfileTypeOK
  <2>6. Doing(s)'
    BY <2>1, <2>2, <2>3, <2>4, <2>5 DEF Doing, Handling, Working, Message, Holds
  <2>7. PauseHolds' /\ Whole'
    BY <1>2, <2>1 DEF PauseHolds, Holds, Whole
  <2> QED
    BY <1>3, <2>1, <2>4, <2>6, <2>7, OneDoes
<1>9. ASSUME NEW s \in Sender, ReadFails(s) PROVE PauseInv'
  BY <1>9 DEF ReadFails
<1>10. ASSUME NEW s \in Sender, FillCache(s) PROVE PauseInv'
  <2> DEFINE record == [sender[s] EXCEPT !.at = "handle"]
  <2>1. /\ sender[s].at = "cache" /\ sender' = [sender EXCEPT ![s] = record] /\ cached' = s
        /\ UNCHANGED <<file, temp, text, heap, assured>>
    BY <1>10 DEF FillCache, Reaches, GoesOnTo, diskVars
  <2>2. record.at = "handle" /\ record.mine = sender[s].mine /\ record.message = Message(s)
    BY Going DEF Message
  <2> HIDE DEF record
  <2>3. sender'[s] = record
    BY <2>1 DEF ProfileTypeOK
  <2>4. /\ Working(s) /\ sender[s].mine = s
        /\ assured.paused => Message(s) # "resume" /\ Holds(heap[s])
    BY <1>2, <2>1 DEF Working, Doing
  <2>5. Doing(s)'
    BY <2>1, <2>2, <2>3, <2>4 DEF Doing, Handling, Working, Message
  <2>6. PauseHolds' /\ Whole'
    BY <1>2, <2>1, <2>4 DEF PauseHolds, Holds, Whole
  <2> QED
    BY <1>3, <2>1, <2>4, <2>5, <2>6, OneDoes
\* A changed profile is to be saved: no pause that holds is undone by it.
<1>11. ASSUME NEW s \in Sender, sender[s].at \in {"handle", "command"},
              NEW profile \in Profiles, NEW next \in {"reply", "command"}, Saves(s, profile, next),
              UNCHANGED <<diskVars, cached, assured>>,
              next = "command" => IsCommand(Message(s)),
              next = "reply" /\ Message(s) = "pause" => ~profile.active,
              assured.paused => (Holds(Mine(s)) => Holds(profile))
       PROVE  PauseInv'
  <2> DEFINE record == [sender[s] EXCEPT !.at = "open", !.next = next]
  <2>1. sender' = [sender EXCEPT ![s] = record] /\ UNCHANGED <<file, temp, text, cached, assured>>
    BY <1>11 DEF Saves, diskVars
  <2>2. /\ record.at = "open" /\ record.mine = sender[s].mine /\ record.message = Message(s)
        /\ record.next = next
    BY <1>4 DEF SenderRecord, Message
  <2> HIDE DEF record
  <2>3. sender'[s] = record
    BY <2>1 DEF ProfileTypeOK
  <2>4. /\ Working(s) /\ sender[s].mine \in Sender /\ cached = sender[s].mine
        /\ assured.paused => Message(s) # "resume"
    BY <1>2, <1>4, <1>11 DEF Working, Doing, Handling
  <2>5. heap'[sender[s].mine] = profile
    BY <1>11, <2>4 DEF Saves, ProfileTypeOK
  <2>6. assured.paused => Holds(profile)
    BY <1>2, <1>11, <2>4, ProfileAssumption DEF PauseHolds, Mine, Nobody
  <2>7. Doing(s)'
    BY <1>11, <2>1, <2>2, <2>3, <2>4, <2>5 DEF Doing, Handling, Working, Message, Mine
  <2>8. PauseHolds' /\ Whole'
    BY <1>2, <2>1, <2>4, <2>5, <2>6 DEF PauseHolds, Holds, Whole
  <2> QED
    BY <1>3, <2>1, <2>4, <2>7, <2>8, OneDoes
\* A message that changes nothing has its answer.
<1>12. ASSUME NEW s \in Sender, sender[s].at \in {"handle", "command"}, Passes(s),
              UNCHANGED <<diskVars, cached, assured>>,
              Message(s) = "pause" => Saved(s) /\ ~Mine(s).active
       PROVE  PauseInv'
  <2> DEFINE record == [sender[s] EXCEPT !.at = "reply"]
  <2>1. /\ sender' = [sender EXCEPT ![s] = record]
        /\ UNCHANGED <<file, temp, text, heap, cached, assured>>
    BY <1>12 DEF Passes, GoesOnTo, diskVars
  <2>2. record.at = "reply" /\ record.mine = sender[s].mine /\ record.message = Message(s)
    BY Going DEF Message
  <2> HIDE DEF record
  <2>3. sender'[s] = record
    BY <2>1 DEF ProfileTypeOK
  <2>4. /\ Working(s) /\ cached = sender[s].mine
        /\ assured.paused => Message(s) # "resume"
    BY <1>2, <1>12 DEF Working, Doing, Handling
  <2>5. Doing(s)'
    BY <1>12, <2>1, <2>2, <2>3, <2>4 DEF Doing, Handling, Working, Message, Mine, Saved
  <2>6. PauseHolds' /\ Whole'
    BY <1>2, <2>1 DEF PauseHolds, Holds, Whole
  <2> QED
    BY <1>3, <2>1, <2>4, <2>5, <2>6, OneDoes
<1>13. ASSUME NEW s \in Sender, Introduce(s) PROVE PauseInv'
  <2> DEFINE profile == [Mine(s) EXCEPT !.introduced = TRUE]
             next == IF IsCommand(Message(s)) THEN "command" ELSE "reply"
  <2>1. sender[s].at = "handle" /\ Mine(s) \in Profiles
    BY <1>4, <1>13 DEF Introduce, Reaches, Handling
  <2>2. profile \in Profiles
    BY <2>1, FlaggedProfile
  <2>3. Holds(Mine(s)) => Holds(profile)
    BY <2>1 DEF Profiles, Holds
  <2>4. /\ Saves(s, profile, next) /\ UNCHANGED <<diskVars, cached, assured>>
    BY <1>13 DEF Introduce
  <2>5. /\ next \in {"reply", "command"}
        /\ next = "command" => IsCommand(Message(s))
        /\ next = "reply" => Message(s) # "pause"
    BY DEF IsCommand
  <2> HIDE DEF profile, next
  <2> QED
    BY <1>11, <2>1, <2>2, <2>3, <2>4, <2>5
<1>14. ASSUME NEW s \in Sender, Answer(s) PROVE PauseInv'
  <2> DEFINE mine == Mine(s)
             kept == IF ~mine.active THEN {} ELSE IF mine.step = StyleStep THEN {"style"}
                     ELSE {AskedFor(mine.step)}
             over == [mine EXCEPT !.done = TRUE]
             step == [mine EXCEPT !.step = @ + 1, !.done = mine.step = StyleStep,
                                  !.facts = @ \cup kept]
  <2>1. sender[s].at = "handle" /\ mine \in Profiles /\ Message(s) # "pause"
    BY <1>4, <1>14 DEF Answer, Reaches, Handling, IsCommand
  <2>2. UNCHANGED <<diskVars, cached, assured>>
    BY <1>14 DEF Answer
  <2>3. over \in Profiles /\ (Holds(mine) => Holds(over))
    BY <2>1, FlaggedProfile DEF Profiles, Holds
  <2>4. ASSUME ~ mine.step > StyleStep PROVE step \in Profiles
    <3>1. mine.step \in 0 .. StyleStep /\ mine.step + 1 \in 0 .. StyleStep + 1
      BY <2>1, <2>4 DEF Profiles, StyleStep
    <3>2. kept \in SUBSET Facts
      BY <3>1 DEF StyleStep, AskedFor, Facts
    <3>3. mine.facts \cup kept \in SUBSET Facts /\ (mine.step = StyleStep) \in BOOLEAN
      BY <2>1, <3>2 DEF Profiles
    <3> HIDE DEF mine, kept
    <3> QED
      BY <2>1, <3>1, <3>3, ChangedProfile
  <2>5. Holds(mine) => Holds(step)
    <3>1. Holds(mine) => kept = {}
      BY DEF Holds
    <3> HIDE DEF mine, kept
    <3>2. mine.facts \cup {} = mine.facts
      OBVIOUS
    <3>3. step.active = mine.active /\ step.facts = mine.facts \cup kept
      BY <2>1 DEF Profiles
    <3> QED
      BY <3>1, <3>2, <3>3 DEF Holds
  <2>6. \/ Passes(s)
        \/ mine.step > StyleStep /\ Saves(s, over, "reply")
        \/ ~ mine.step > StyleStep /\ Saves(s, step, "reply")
    BY <1>14 DEF Answer
  <2> HIDE DEF over, step
  <2>7. CASE Passes(s)
    BY <1>12, <2>1, <2>2, <2>7
  <2>8. CASE mine.step > StyleStep /\ Saves(s, over, "reply")
    BY <1>11, <2>1, <2>2, <2>3, <2>8
  <2>9. CASE ~ mine.step > StyleStep /\ Saves(s, step, "reply")
    BY <1>11, <2>1, <2>2, <2>4, <2>5, <2>9
  <2> QED
    BY <2>6, <2>7, <2>8, <2>9
<1>15. ASSUME NEW s \in Sender, Command(s) PROVE PauseInv'
  <2> DEFINE mine == Mine(s)
             off == [mine EXCEPT !.active = FALSE]
             on == [mine EXCEPT !.active = TRUE]
             skipped == [mine EXCEPT !.step = StyleStep + 1, !.done = TRUE]
  <2>1. /\ sender[s].at = "command" /\ mine \in Profiles /\ Saved(s) /\ IsCommand(Message(s))
        /\ assured.paused => Message(s) # "resume" /\ Holds(mine)
    <3>1. sender[s].at = "command" /\ mine \in Profiles
      BY <1>4, <1>15 DEF Command, Reaches, Handling
    <3>2. Saved(s) /\ IsCommand(Message(s)) /\ (assured.paused => Message(s) # "resume")
      BY <1>2, <3>1 DEF Doing, Working
    <3>3. assured.paused => Holds(mine)
      BY <1>2, <3>2 DEF PauseHolds, Saved
    <3> QED
      BY <3>1, <3>2, <3>3
  <2>2. UNCHANGED <<diskVars, cached, assured>>
    BY <1>15 DEF Command
  <2>3. off \in Profiles /\ on \in Profiles /\ skipped \in Profiles
    <3>1. StyleStep + 1 \in 0 .. StyleStep + 1 /\ TRUE \in BOOLEAN /\ FALSE \in BOOLEAN
      BY DEF StyleStep
    <3> HIDE DEF mine
    <3> QED
      BY <2>1, <3>1, FlaggedProfile, ChangedProfile
  <2>4. ~off.active /\ (Holds(mine) => Holds(skipped))
    BY <2>1 DEF Profiles, Holds
  <2>5. CASE Message(s) = "pause"
    <3>1. CASE mine.active
      <4>1. Saves(s, off, "reply") /\ ~assured.paused
        BY <1>15, <2>1, <2>5, <3>1 DEF Command, Holds
      <4> HIDE DEF off
      <4> QED
        BY <1>11, <2>1, <2>2, <2>3, <2>4, <4>1
    <3>2. CASE ~mine.active
      BY <1>12, <1>15, <2>1, <2>2, <2>5, <3>2 DEF Command
    <3> QED
      BY <3>1, <3>2
  <2>6. CASE Message(s) = "resume"
    <3>1. CASE mine.active
      BY <1>12, <1>15, <2>1, <2>2, <2>6, <3>1 DEF Command
    <3>2. CASE ~mine.active
      <4>1. Saves(s, on, "reply") /\ ~assured.paused
        BY <1>15, <2>1, <2>6, <3>2 DEF Command
      <4> HIDE DEF on
      <4> QED
        BY <1>11, <2>1, <2>2, <2>3, <2>6, <4>1
    <3> QED
      BY <3>1, <3>2
  <2>7. CASE Message(s) = "look"
    <3>1. Passes(s)
      BY <1>15, <2>7 DEF Command
    <3> QED
      BY <1>12, <2>1, <2>2, <2>7, <3>1
  <2>8. CASE Message(s) = "skip"
    <3>1. Saves(s, skipped, "reply")
      BY <1>15, <2>8 DEF Command
    <3> HIDE DEF skipped
    <3> QED
      BY <1>11, <2>1, <2>2, <2>3, <2>4, <2>8, <3>1
  <2> QED
    BY <1>15, <2>5, <2>6, <2>7, <2>8 DEF Command
<1>16. ASSUME NEW s \in Sender, Answers(s) PROVE PauseInv'
  <2>1. /\ sender[s].at = "reply" /\ sender' = [sender EXCEPT ![s] = Idle]
        /\ UNCHANGED <<file, temp, text, heap, cached>>
        /\ assured' = IF Message(s) # "pause" THEN assured
                      ELSE [paused |-> TRUE, facts |-> Mine(s).facts]
    BY <1>16 DEF Answers, Reaches, diskVars
  <2>2. Working(s) /\ cached = sender[s].mine
    BY <1>2, <2>1 DEF Working, Doing, Handling
  <2>3. CASE Message(s) # "pause"
    <3>1. PauseHolds' /\ Whole'
      BY <1>2, <2>1, <2>3 DEF PauseHolds, Holds, Whole
    <3> QED
      BY <1>5, <2>1, <2>2, <3>1
  <2>4. CASE Message(s) = "pause"
    <3>1. Saved(s) /\ ~Mine(s).active
      BY <1>2, <2>1, <2>4 DEF Doing
    <3>2. assured'.facts = Mine(s).facts
      BY <2>1, <2>4
    <3>3. PauseHolds' /\ Whole'
      BY <1>2, <2>1, <2>2, <3>1, <3>2 DEF PauseHolds, Holds, Whole, Saved, Mine
    <3> QED
      BY <1>5, <2>1, <2>2, <3>3
  <2> QED
    BY <2>3, <2>4
<1>17. ASSUME NEW s \in Sender, OpenCopy(s) PROVE PauseInv'
  <2> DEFINE n == IF temp # NoInode THEN temp ELSE UnusedInode
             record == [sender[s] EXCEPT !.at = "write", !.open = n, !.payload = Mine(s)]
  <2>1. n \in Inodes /\ n # file
    BY InodeLeft DEF PauseInv, ProfileTypeOK
  <2>2. /\ temp' = n /\ text' = [text EXCEPT ![n] = Garbled] /\ sender[s].at = "open"
        /\ sender' = [sender EXCEPT ![s] = record] /\ UNCHANGED <<file, heap, cached, assured>>
    BY <1>17 DEF OpenCopy, Reaches
  <2> HIDE DEF n
  <2>3. /\ record.at = "write" /\ record.mine = sender[s].mine /\ record.message = Message(s)
        /\ record.next = sender[s].next /\ record.open = n /\ record.payload = Mine(s)
    BY <1>4 DEF SenderRecord, Message
  <2> HIDE DEF record
  <2>4. /\ sender'[s] = record /\ text'[n] = Garbled /\ n # NoInode
        /\ file # NoInode => text'[file] = text[file]
    BY <2>1, <2>2 DEF ProfileTypeOK, Inodes, NoInode
  <2>5. /\ Working(s) /\ cached = sender[s].mine
        /\ assured.paused => Message(s) # "resume"
        /\ IF sender[s].next = "command" THEN IsCommand(Message(s))
           ELSE Message(s) = "pause" => ~Mine(s).active
    BY <1>2, <2>2 DEF Working, Doing, Handling
  <2>6. Doing(s)'
    BY <2>2, <2>3, <2>4, <2>5 DEF Doing, Handling, Working, Message, Mine
  <2>7. PauseHolds' /\ Whole'
    BY <1>2, <2>2, <2>4 DEF PauseHolds, Holds, Whole
  <2> QED
    BY <1>3, <2>2, <2>5, <2>6, <2>7, OneDoes
<1>18. ASSUME NEW s \in Sender, WriteCopy(s) PROVE PauseInv'
  <2> DEFINE record == [sender[s] EXCEPT !.at = "replace"]
  <2>1. /\ sender[s].at = "write" /\ sender' = [sender EXCEPT ![s] = record]
        /\ UNCHANGED <<file, temp, heap, cached, assured>>
    BY <1>18 DEF WriteCopy, Reaches, GoesOnTo
  <2>2. /\ record.at = "replace" /\ record.mine = sender[s].mine /\ record.message = Message(s)
        /\ record.next = sender[s].next /\ record.open = sender[s].open
        /\ record.payload = sender[s].payload
    BY Going DEF Message
  <2> HIDE DEF record
  <2>3. /\ Working(s) /\ cached = sender[s].mine
        /\ assured.paused => Message(s) # "resume"
        /\ IF sender[s].next = "command" THEN IsCommand(Message(s))
           ELSE Message(s) = "pause" => ~Mine(s).active
        /\ sender[s].open = temp /\ temp # NoInode /\ sender[s].payload = Mine(s)
        /\ text[temp] = Garbled
    BY <1>2, <2>1 DEF Working, Doing, Handling
  <2>4. text' = [text EXCEPT ![temp] = Mine(s)]
    BY <1>18, <2>3 DEF WriteCopy
  <2>5. /\ sender'[s] = record /\ text'[temp] = Mine(s)
        /\ file # NoInode => text'[file] = text[file]
    BY <2>1, <2>3, <2>4 DEF ProfileTypeOK, PauseInv
  <2>6. Doing(s)'
    BY <2>1, <2>2, <2>3, <2>5 DEF Doing, Handling, Working, Message, Mine
  <2>7. PauseHolds' /\ Whole'
    BY <1>2, <2>1, <2>5 DEF PauseHolds, Holds, Whole
  <2> QED
    BY <1>3, <2>1, <2>3, <2>6, <2>7, OneDoes
<1>19. ASSUME NEW s \in Sender, Replace(s) PROVE PauseInv'
  <2> DEFINE record == [sender[s] EXCEPT !.at = sender[s].next, !.open = NoInode]
  <2>1. sender[s].at = "replace" /\ sender[s].mine \in Sender /\ Mine(s) \in Profiles
    BY <1>4, <1>19 DEF Replace, Reaches, Handling
  <2>2. /\ Working(s) /\ cached = sender[s].mine /\ temp # NoInode
        /\ assured.paused => Message(s) # "resume"
        /\ IF sender[s].next = "command" THEN IsCommand(Message(s))
           ELSE Message(s) = "pause" => ~Mine(s).active
        /\ text[temp] = Mine(s)
    BY <1>2, <2>1 DEF Working, Doing, Handling
  <2>3. /\ file' = temp /\ cached' = cached /\ sender' = [sender EXCEPT ![s] = record]
        /\ UNCHANGED <<text, heap, assured>>
    BY <1>19, <2>2 DEF Replace
  <2>4. sender[s].next \in {"reply", "command"}
    BY <1>4 DEF SenderRecord
  <2>5. record.at = sender[s].next /\ record.mine = sender[s].mine /\ record.message = Message(s)
    BY <1>4, <2>4, SavedRecord DEF Message
  <2> HIDE DEF record
  <2>6. sender'[s] = record
    BY <2>3 DEF ProfileTypeOK
  <2>7. Doing(s)'
    BY <2>2, <2>3, <2>4, <2>5, <2>6 DEF Doing, Handling, Working, Message, Mine, Saved
  <2>8. assured.paused => Holds(Mine(s))
    BY <1>2, <2>1, <2>2, ProfileAssumption DEF PauseHolds, Mine, Nobody
  <2>9. PauseHolds' /\ Whole'
    BY <1>2, <2>1, <2>2, <2>3, <2>8, GarbledIsNone DEF PauseHolds, Holds, Whole
  <2> QED
    BY <1>3, <2>2, <2>3, <2>7, <2>9, OneDoes
<1>20. ASSUME NEW s \in Sender, SaveFails(s) PROVE PauseInv'
  <2>1. /\ Working(s) /\ sender' = [sender EXCEPT ![s] = Idle]
        /\ UNCHANGED <<file, temp, text, heap, cached, assured>>
    BY <1>20 DEF SaveFails, Working, diskVars
  <2>2. PauseHolds' /\ Whole'
    BY <1>2, <2>1 DEF PauseHolds, Holds, Whole
  <2> QED
    BY <1>5, <2>1, <2>2
<1>21. CASE ProcessEnds
  <2>1. /\ \A s \in Sender : sender'[s].at = "idle"
        /\ cached' = Nobody /\ UNCHANGED <<file, temp, text, assured>>
    BY <1>21 DEF ProcessEnds, Idle, diskVars
  <2>2. Alone' /\ \A s \in Sender : Doing(s)'
    BY <2>1 DEF Alone, Doing, Working, Handling
  <2>3. PauseHolds' /\ Whole'
    BY <1>2, <2>1 DEF PauseHolds, Holds, Whole
  <2> QED
    BY <2>2, <2>3 DEF PauseInv
<1>22. CASE UNCHANGED profileVars
  BY <1>22 DEF profileVars, PauseInv, Alone, Working, PauseHolds, Holds, Whole, Doing, Saved,
               Message, Mine
<1> QED
  BY <1>6, <1>7, <1>8, <1>9, <1>10, <1>13, <1>14, <1>15, <1>16, <1>17, <1>18, <1>19, <1>20,
     <1>21, <1>22
  DEF ProfileNext

\* For every number of threads: a pause that the user was told of holds in memory
\* and on the disk until a resume, through failing saves and ends of the process,
\* unless messages overlapped or the file could not be read.
THEOREM PauseKept == ProfileSpec => []PauseIsKept
<1>1. ProfileInit => PauseInv
  <2> SUFFICES ASSUME ProfileInit PROVE PauseInv
    OBVIOUS
  <2>1. ProfileTypeOK
    BY ProfileInitType
  <2>2. \A s \in Sender : sender[s].at = "idle"
    BY DEF ProfileInit, Idle
  <2>3. temp = NoInode /\ ~assured.paused
    BY DEF ProfileInit, Unsure
  <2>4. Whole
    <3>1. \A step : [Fresh EXCEPT !.introduced = TRUE, !.step = step] # Garbled
      BY DEF Fresh, Garbled
    <3>2. 1 \in Inodes
      BY ProfileAssumption, FS_CardinalityType DEF Inodes
    <3> QED
      BY <3>1, <3>2 DEF ProfileInit, Whole
  <2> QED
    BY <2>1, <2>2, <2>3, <2>4, IdleDoes DEF PauseInv, Alone, Working, PauseHolds
<1>2. PauseInv => PauseIsKept
  BY DEF PauseInv, PauseIsKept, PauseHolds, Holds, Whole
<1> QED
  BY <1>1, <1>2, StepPause, PTL DEF ProfileSpec

-----------------------------------------------------------------------------
(* ServerEdge.                                                             *)

\* A set of natural numbers that is not empty has a least element.
LEMMA LeastNumber ==
  ASSUME NEW S \in SUBSET Nat, S # {}
  PROVE  \E n \in S : \A m \in S : n <= m
<1> DEFINE Less == OpToRel(<, Nat)
<1>1. IsWellFoundedOn(Less, Nat)
  BY NatLessThanWellFounded
<1>2. PICK n \in S : \A m \in S : ~ (<<m, n>> \in Less)
  <2> HIDE DEF Less
  <2> QED
    BY <1>1, WFMin, Zenon
<1>3. \A m \in S : <<m, n>> \in Less \/ ~ (m < n)
  BY DEF OpToRel
<1>4. \A m \in S : ~ (m < n)
  <2> HIDE DEF Less
  <2> QED
    BY <1>2, <1>3
<1> QED
  BY <1>4

LEMMA EdgeBounds ==
  /\ Limit \in Nat \ {0} /\ Minute \in Nat \ {0} /\ Remembered \in Nat \ {0} /\ Room \in Nat \ {0}
  /\ MaxTicks \in Nat /\ MaxEvents \in Nat /\ MaxEdgeEnds \in Nat
  BY EdgeAssumption

LEMMA CarriesFacts == \A w \in Webhook : Carries[w] \in Seq(Ids)
<1> SUFFICES ASSUME NEW w \in Webhook PROVE Carries[w] \in Seq(Ids)
  OBVIOUS
<1>1. Carries[w] \in Seq(STRING)
  BY EdgeAssumption
<1>2. \A n \in DOMAIN Carries[w] : Carries[w][n] \in Ids
  BY DEF Ids, ToSet
<1> QED
  BY <1>1, <1>2

LEMMA RestFacts ==
  ASSUME NEW S, NEW s \in Seq(S), NEW k \in 0 .. Len(s)
  PROVE  /\ SubSeq(s, k + 1, Len(s)) \in Seq(S) /\ Len(SubSeq(s, k + 1, Len(s))) = Len(s) - k
         /\ \A i \in 1 .. Len(s) - k : SubSeq(s, k + 1, Len(s))[i] = s[k + i]
<1>1. Len(s) \in Nat /\ k \in Nat /\ k <= Len(s) /\ \A i \in k + 1 .. Len(s) : s[i] \in S
  OBVIOUS
<1> DEFINE n == Len(s)
           rest == SubSeq(s, k + 1, n)
<1> HIDE DEF n
<1>2. k + 1 \in Int /\ n \in Int /\ \A i \in k + 1 .. n : s[i] \in S
  BY <1>1 DEF n
<1>3. /\ rest \in Seq(S) /\ Len(rest) = IF k + 1 <= n THEN n - (k + 1) + 1 ELSE 0
      /\ \A i \in 1 .. n - (k + 1) + 1 : rest[i] = s[k + 1 + i - 1]
  BY <1>2, SubSeqProperties
<1> HIDE DEF rest
<1>4. Len(rest) = n - k /\ \A i \in 1 .. n - k : rest[i] = s[k + i]
  <2>1. \A i \in 1 .. n - k : i \in 1 .. n - (k + 1) + 1 /\ k + 1 + i - 1 = k + i
    BY <1>1, <1>2
  <2> QED
    BY <1>1, <1>2, <1>3, <2>1 DEF n
<1> QED
  BY <1>3, <1>4 DEF rest, n

\* What is taken off the front of the window is more than a minute old.
LEMMA LastMinuteFacts ==
  ASSUME EdgeTypeOK
  PROVE  \E n \in 0 .. Len(hits) :
           /\ LastMinute \in Seq(0 .. MaxTicks) /\ Len(LastMinute) = Len(hits) - n
           /\ \A i \in 1 .. Len(hits) - n : LastMinute[i] = hits[n + i]
           /\ \A i \in 1 .. n : hits[i] + Minute < clock
<1> DEFINE Recent(n) == n < Len(hits) => hits[n + 1] + Minute >= clock
           Old(n) == \A i \in 1 .. n : hits[i] + Minute < clock
           S == {n \in 0 .. Len(hits) : Recent(n)}
<1>1. hits \in Seq(0 .. MaxTicks) /\ Len(hits) \in Nat
  BY DEF EdgeTypeOK
<1>2. /\ clock \in Nat /\ Minute \in Nat
      /\ \A i \in 1 .. Len(hits) : hits[i] \in Nat
  BY <1>1, EdgeBounds DEF EdgeTypeOK
<1>3. S \subseteq Nat /\ Len(hits) \in S
  BY <1>1
<1>4. PICK n \in S : \A m \in S : n <= m
  <2> HIDE DEF S
  <2> QED
    BY <1>3, LeastNumber
<1>5. Old(n)
  <2> SUFFICES ASSUME NEW i \in 1 .. n PROVE hits[i] + Minute < clock
    OBVIOUS
  <2>1. i - 1 \in 0 .. Len(hits) /\ i - 1 < n /\ i - 1 < Len(hits) /\ (i - 1) + 1 = i
    BY <1>1, <1>4
  <2>2. ~Recent(i - 1)
    BY <1>1, <1>4, <2>1
  <2> QED
    BY <1>1, <1>2, <2>1, <2>2
<1> DEFINE old == CHOOSE k \in 0 .. Len(hits) : Old(k) /\ Recent(k)
<1>6. old \in 0 .. Len(hits) /\ Old(old)
  <2> HIDE DEF Old, Recent
  <2> QED
    BY <1>4, <1>5
<1>7. LastMinute = SubSeq(hits, old + 1, Len(hits))
  BY DEF LastMinute
<1> HIDE DEF old
<1>8. /\ LastMinute \in Seq(0 .. MaxTicks) /\ Len(LastMinute) = Len(hits) - old
      /\ \A i \in 1 .. Len(hits) - old : LastMinute[i] = hits[old + i]
  BY <1>1, <1>6, <1>7, RestFacts
<1> QED
  BY <1>6, <1>8

-----------------------------------------------------------------------------
(* What the connector makes of the ids of a webhook.                       *)

FoundRecord == [new : Seq(Ids), seen : Seq(Ids), out : SUBSET Ids]

\* Of what was remembered nothing is lost but what is counted out; what is new was
\* not remembered, is now, and comes once, unless it is counted out.
Noticed(found, memory, lost) ==
  /\ found \in FoundRecord /\ Len(found.seen) <= Remembered /\ lost \subseteq found.out
  /\ ToSet(memory) \subseteq ToSet(found.seen) \cup found.out
  /\ \A i \in ToSet(found.new) \ found.out : i \in ToSet(found.seen) /\ i \notin ToSet(memory)
  /\ \A a, b \in DOMAIN found.new :
       found.new[a] = found.new[b] /\ found.new[a] \notin found.out => a = b

LEMMA AppendedSet ==
  ASSUME NEW S, NEW s \in Seq(S), NEW x \in S
  PROVE  /\ Append(s, x) \in Seq(S) /\ Len(Append(s, x)) = Len(s) + 1
         /\ ToSet(Append(s, x)) = ToSet(s) \cup {x}
         /\ \A a \in 1 .. Len(s) : Append(s, x)[a] = s[a]
         /\ Append(s, x)[Len(s) + 1] = x
<1>1. /\ Append(s, x) \in Seq(S) /\ Len(Append(s, x)) = Len(s) + 1 /\ Len(s) \in Nat
      /\ \A a \in 1 .. Len(s) : Append(s, x)[a] = s[a]
      /\ Append(s, x)[Len(s) + 1] = x
      /\ DOMAIN s = 1 .. Len(s) /\ DOMAIN Append(s, x) = 1 .. Len(s) + 1
  OBVIOUS
<1> DEFINE t == Append(s, x)
<1> HIDE DEF t
<1>2. ToSet(t) = ToSet(s) \cup {x}
  <2>1. ASSUME NEW y \in ToSet(t) PROVE y \in ToSet(s) \cup {x}
    <3>1. PICK a \in 1 .. Len(s) + 1 : y = t[a]
      BY <1>1, <2>1 DEF ToSet, t
    <3>2. a \in 1 .. Len(s) \/ a = Len(s) + 1
      BY <1>1
    <3> QED
      BY <1>1, <3>1, <3>2 DEF ToSet, t
  <2>2. ASSUME NEW y \in ToSet(s) PROVE y \in ToSet(t)
    <3>1. PICK a \in 1 .. Len(s) : y = s[a]
      BY <1>1, <2>2 DEF ToSet
    <3>2. a \in 1 .. Len(s) + 1 /\ t[a] = y
      BY <1>1, <3>1 DEF t
    <3> QED
      BY <1>1, <3>2 DEF ToSet, t
  <2>3. x \in ToSet(t)
    <3>1. Len(s) + 1 \in 1 .. Len(s) + 1
      BY <1>1
    <3> QED
      BY <1>1, <3>1 DEF ToSet, t
  <2> QED
    BY <2>1, <2>2, <2>3
<1> QED
  BY <1>1, <1>2 DEF t

LEMMA TakenSet ==
  ASSUME NEW S, NEW s \in Seq(S), s # <<>>
  PROVE  /\ Tail(s) \in Seq(S) /\ Head(s) \in S /\ Head(s) = s[1] /\ Len(s) \in Nat \ {0}
         /\ Len(Tail(s)) = Len(s) - 1 /\ \A a \in 1 .. Len(s) - 1 : Tail(s)[a] = s[a + 1]
         /\ ToSet(s) = ToSet(Tail(s)) \cup {Head(s)}
<1>1. /\ Tail(s) \in Seq(S) /\ Head(s) \in S /\ Head(s) = s[1] /\ Len(s) \in Nat \ {0}
      /\ Len(Tail(s)) = Len(s) - 1 /\ \A a \in 1 .. Len(s) - 1 : Tail(s)[a] = s[a + 1]
      /\ DOMAIN s = 1 .. Len(s) /\ DOMAIN Tail(s) = 1 .. Len(s) - 1
  OBVIOUS
<1> DEFINE t == Tail(s)
           first == Head(s)
<1> HIDE DEF t, first
<1>2. ToSet(s) = ToSet(t) \cup {first}
  <2>1. ASSUME NEW y \in ToSet(s) PROVE y \in ToSet(t) \cup {first}
    <3>1. PICK a \in 1 .. Len(s) : y = s[a]
      BY <1>1, <2>1 DEF ToSet
    <3>2. CASE a = 1
      BY <1>1, <3>1, <3>2 DEF first
    <3>3. CASE a # 1
      <4>1. a - 1 \in 1 .. Len(s) - 1 /\ (a - 1) + 1 = a
        BY <1>1, <3>3
      <4>2. a - 1 \in DOMAIN t /\ t[a - 1] = y
        BY <1>1, <3>1, <4>1 DEF t
      <4> QED
        BY <4>2 DEF ToSet
    <3> QED
      BY <3>2, <3>3
  <2>2. ASSUME NEW y \in ToSet(t) PROVE y \in ToSet(s)
    <3>1. PICK a \in 1 .. Len(s) - 1 : y = s[a + 1]
      BY <1>1, <2>2 DEF ToSet, t
    <3>2. a + 1 \in DOMAIN s
      BY <1>1
    <3> QED
      BY <3>1, <3>2 DEF ToSet
  <2>3. first \in ToSet(s)
    BY <1>1 DEF ToSet, first
  <2> QED
    BY <2>1, <2>2, <2>3
<1> QED
  BY <1>1, <1>2 DEF t, first

LEMMA RememberNotices ==
  ASSUME NEW found, NEW memory, NEW lost, NEW i \in Ids, Noticed(found, memory, lost)
  PROVE  Noticed(Remember(found, i), memory, lost)
<1>1. /\ found.new \in Seq(Ids) /\ found.seen \in Seq(Ids) /\ found.out \subseteq Ids
      /\ Len(found.seen) \in Nat /\ Remembered \in Nat \ {0} /\ Len(found.seen) <= Remembered
      /\ Contains(found.seen, i) <=> i \in ToSet(found.seen)
  BY EdgeBounds DEF Noticed, FoundRecord, Contains, ToSet
<1>2. CASE Contains(found.seen, i)
  BY <1>2 DEF Remember
<1>3. CASE ~Contains(found.seen, i)
  <2> DEFINE order == Append(found.seen, i)
             new == Append(found.new, i)
             full == Len(order) > Remembered
             rest == IF full THEN Tail(order) ELSE order
             out == IF full THEN found.out \cup {Head(order)} ELSE found.out
  <2>1. Remember(found, i) = [new |-> new, seen |-> rest, out |-> out]
    BY <1>3 DEF Remember
  <2>2. /\ order \in Seq(Ids) /\ Len(order) = Len(found.seen) + 1
        /\ ToSet(order) = ToSet(found.seen) \cup {i}
    BY <1>1, AppendedSet
  <2>3. /\ new \in Seq(Ids) /\ Len(new) = Len(found.new) + 1
        /\ ToSet(new) = ToSet(found.new) \cup {i}
        /\ \A a \in 1 .. Len(found.new) : new[a] = found.new[a]
        /\ new[Len(found.new) + 1] = i
    BY <1>1, AppendedSet
  <2> HIDE DEF new, order
  <2>4. /\ rest \in Seq(Ids) /\ out \subseteq Ids /\ Len(rest) <= Remembered
        /\ found.out \subseteq out /\ ToSet(found.seen) \cup {i} \subseteq ToSet(rest) \cup out
        /\ ToSet(rest) \subseteq ToSet(found.seen) \cup {i}
    <3>1. CASE full
      <4>1. order # <<>>
        BY <1>1, <2>2
      <4>2. /\ Tail(order) \in Seq(Ids) /\ Head(order) \in Ids
            /\ Len(Tail(order)) = Len(order) - 1
            /\ ToSet(order) = ToSet(Tail(order)) \cup {Head(order)}
        BY <2>2, <4>1, TakenSet
      <4> QED
        BY <1>1, <2>2, <3>1, <4>2
    <3>2. CASE ~full
      BY <1>1, <2>2, <3>2
    <3> QED
      BY <3>1, <3>2
  <2>5. /\ lost \subseteq out /\ ToSet(memory) \subseteq ToSet(rest) \cup out
    BY <2>4 DEF Noticed
  <2>6. \A j \in ToSet(new) \ out : j \in ToSet(rest) /\ j \notin ToSet(memory)
    BY <1>1, <1>3, <2>3, <2>4 DEF Noticed
  <2>7. ASSUME NEW a \in DOMAIN new, NEW b \in DOMAIN new, new[a] = new[b], new[a] \notin out
        PROVE  a = b
    <3>1. Len(found.new) \in Nat /\ DOMAIN new = 1 .. Len(found.new) + 1
          /\ DOMAIN found.new = 1 .. Len(found.new)
      BY <1>1, <2>3
    <3>2. \A c \in DOMAIN new : c = Len(found.new) + 1 \/ c \in 1 .. Len(found.new)
      BY <3>1
    <3>3. \A c \in 1 .. Len(found.new) : found.new[c] \in ToSet(found.new)
      BY <3>1 DEF ToSet
    <3>4. i \in ToSet(found.new) => i \in found.out
      BY <1>1, <1>3 DEF Noticed
    <3>5. CASE a = Len(found.new) + 1 /\ b # a
      BY <2>3, <2>4, <2>7, <3>2, <3>3, <3>4, <3>5
    <3>6. CASE b = Len(found.new) + 1 /\ b # a
      BY <2>3, <2>4, <2>7, <3>2, <3>3, <3>4, <3>6
    <3>7. CASE a \in 1 .. Len(found.new) /\ b \in 1 .. Len(found.new)
      BY <2>3, <2>4, <2>7, <3>1, <3>7 DEF Noticed
    <3> QED
      BY <3>2, <3>5, <3>6, <3>7
  <2> HIDE DEF rest, out
  <2> QED
    BY <2>1, <2>3, <2>4, <2>5, <2>6, <2>7 DEF Noticed, FoundRecord
<1> QED
  BY <1>2, <1>3

\* One message after the other is a function of their number.
LEMMA ExtractedFunction ==
  ASSUME NEW ids \in Seq(Ids), NEW start
  PROVE  \E f : f = [n \in 0 .. Len(ids) |->
                       IF n = 0 THEN start ELSE Remember(f[n - 1], ids[n])]
<1> DEFINE Upto(m) == \E f : f = [n \in 0 .. m |->
                                    IF n = 0 THEN start ELSE Remember(f[n - 1], ids[n])]
           S == {m \in Nat : ~Upto(m)}
<1>1. Upto(0)
  <2> DEFINE f == [n \in 0 .. 0 |-> start]
  <2>1. f = [n \in 0 .. 0 |-> IF n = 0 THEN start ELSE Remember(f[n - 1], ids[n])]
    OBVIOUS
  <2> HIDE DEF f
  <2> QED
    BY <2>1
<1>2. ASSUME NEW m \in Nat, Upto(m) PROVE Upto(m + 1)
  <2>1. PICK f : f = [n \in 0 .. m |-> IF n = 0 THEN start ELSE Remember(f[n - 1], ids[n])]
    BY <1>2
  <2> DEFINE last == Remember(f[m], ids[m + 1])
             g == [n \in 0 .. m + 1 |-> IF n = m + 1 THEN last ELSE f[n]]
  <2>2. ASSUME NEW n \in 0 .. m + 1
        PROVE  g[n] = IF n = 0 THEN start ELSE Remember(g[n - 1], ids[n])
    <3>1. CASE n = m + 1
      <4>1. n - 1 = m /\ m \in 0 .. m + 1 /\ m # m + 1 /\ n # 0
        BY <3>1
      <4>2. g[n - 1] = f[m] /\ g[n] = last
        BY <3>1, <4>1
      <4> QED
        BY <3>1, <4>1, <4>2
    <3>2. CASE n # m + 1
      <4>1. n \in 0 .. m /\ g[n] = f[n]
        BY <3>2
      <4>2. n # 0 => n - 1 \in 0 .. m + 1 /\ n - 1 # m + 1 /\ g[n - 1] = f[n - 1]
        BY <3>2
      <4>3. f[n] = IF n = 0 THEN start ELSE Remember(f[n - 1], ids[n])
        BY <2>1, <4>1
      <4> QED
        BY <4>1, <4>2, <4>3
    <3> QED
      BY <3>1, <3>2
  <2>3. g = [n \in 0 .. m + 1 |-> g[n]]
    OBVIOUS
  <2> HIDE DEF g
  <2>4. g = [n \in 0 .. m + 1 |-> IF n = 0 THEN start ELSE Remember(g[n - 1], ids[n])]
    BY <2>2, <2>3
  <2> QED
    BY <2>4
<1> HIDE DEF Upto
<1>3. S = {}
  <2> SUFFICES ASSUME S # {} PROVE FALSE
    OBVIOUS
  <2>1. PICK m \in S : \A k \in S : m <= k
    <3>1. S \in SUBSET Nat
      OBVIOUS
    <3> HIDE DEF S
    <3> QED
      BY <3>1, LeastNumber
  <2>2. m # 0 /\ m - 1 \in Nat /\ m - 1 \notin S /\ (m - 1) + 1 = m
    BY <1>1, <2>1
  <2> QED
    BY <1>2, <2>1, <2>2
<1>4. Len(ids) \in Nat
  OBVIOUS
<1>5. Upto(Len(ids))
  BY <1>3, <1>4
<1> QED
  BY <1>5 DEF Upto

LEMMA ExtractedFacts ==
  ASSUME NEW ids \in Seq(Ids), NEW memory \in Seq(Ids), NEW lost \in SUBSET Ids,
         Len(memory) <= Remembered
  PROVE  Noticed(Extracted(ids, memory, lost), memory, lost)
<1> DEFINE start == [new |-> <<>>, seen |-> memory, out |-> lost]
           f == CHOOSE f : f = [n \in 0 .. Len(ids) |->
                                  IF n = 0 THEN start ELSE Remember(f[n - 1], ids[n])]
<1>1. Extracted(ids, memory, lost) = f[Len(ids)]
  BY DEF Extracted
<1>2. Noticed(start, memory, lost)
  <2>1. <<>> \in Seq(Ids) /\ ToSet(<<>>) = {} /\ DOMAIN <<>> = {}
    BY DEF ToSet
  <2> QED
    BY <2>1 DEF Noticed, FoundRecord
<1> HIDE DEF start
<1>3. f = [n \in 0 .. Len(ids) |-> IF n = 0 THEN start ELSE Remember(f[n - 1], ids[n])]
  BY ExtractedFunction
<1> HIDE DEF f
<1>4. Len(ids) \in Nat
  OBVIOUS
<1>5. f[0] = start /\ \A n \in 1 .. Len(ids) : f[n] = Remember(f[n - 1], ids[n])
  <2>1. 0 \in 0 .. Len(ids)
    BY <1>4
  <2>2. f[0] = start
    BY <1>3, <2>1
  <2>3. ASSUME NEW n \in 1 .. Len(ids) PROVE f[n] = Remember(f[n - 1], ids[n])
    <3>1. n \in 0 .. Len(ids) /\ n # 0
      BY <1>4
    <3> QED
      BY <1>3, <3>1
  <2> QED
    BY <2>2, <2>3
<1> DEFINE S == {n \in 0 .. Len(ids) : ~Noticed(f[n], memory, lost)}
<1>6. S = {}
  <2> SUFFICES ASSUME S # {} PROVE FALSE
    OBVIOUS
  <2>1. PICK n \in S : \A k \in S : n <= k
    <3>1. S \in SUBSET Nat
      BY <1>4
    <3> HIDE DEF S
    <3> QED
      BY <3>1, LeastNumber
  <2>2. n # 0
    BY <1>2, <1>5
  <2>3. n \in 1 .. Len(ids) /\ n - 1 \in 0 .. Len(ids) /\ n - 1 \notin S
    BY <1>4, <2>1, <2>2
  <2>4. Noticed(f[n - 1], memory, lost) /\ ids[n] \in Ids
    BY <2>3
  <2>5. Noticed(f[n], memory, lost)
    BY <1>5, <2>3, <2>4, RememberNotices
  <2> QED
    BY <2>5
<1>7. Noticed(f[Len(ids)], memory, lost)
  BY <1>4, <1>6
<1> QED
  BY <1>1, <1>7

-----------------------------------------------------------------------------
(* Types: what comes in, and what goes out.                                *)

HookTypeOK ==
  /\ clock \in 0 .. MaxTicks
  /\ hits \in Seq(0 .. MaxTicks) /\ Len(hits) <= Limit /\ accepted \in Seq(0 .. MaxTicks)
  /\ owed \subseteq Webhook /\ request \in [Request -> RequestRecord]
  /\ \A r \in Request : request[r].at = "tasks" => request[r].todo # <<>>
  /\ seen \in Seq(Ids) /\ Len(seen) <= Remembered
  /\ forgotten \subseteq Ids /\ processed \in [Ids -> Nat]

EventCall == [socket : Socket, event : Events]

StreamTypeOK ==
  /\ published \in [Publisher -> 0 .. MaxEvents] /\ telling \in [Publisher -> SUBSET Socket]
  /\ \A p \in Publisher : telling[p] # {} => published[p] > 0
  /\ ready \in Seq(EventCall) /\ stream \in [Socket -> {"none", "open", "closed"}]
  /\ queue \in [Socket -> Seq(Events)] /\ \A s \in Socket : Len(queue[s]) <= Room
  /\ sending \in [Socket -> Events \cup {NoEvent}] /\ sent \in [Socket -> Seq(Events)]
  /\ dropped \in [Socket -> SUBSET Events]

LEMMA EdgeTypes ==
  EdgeTypeOK <=> HookTypeOK /\ StreamTypeOK /\ edgeEnds \in 0 .. MaxEdgeEnds
  BY DEF EdgeTypeOK, HookTypeOK, StreamTypeOK, EventCall

LEMMA FreeIs == Free \in RequestRecord /\ Free.at = "free" /\ Free.todo = <<>>
<1>1. PICK hook \in Webhook : hook = CHOOSE w \in Webhook : TRUE
  BY EdgeAssumption
<1>2. <<>> \in Seq(Ids)
  OBVIOUS
<1>3. Free = [at |-> "free", hook |-> hook, todo |-> <<>>]
  BY <1>1 DEF Free
<1> QED
  BY <1>1, <1>2, <1>3 DEF RequestRecord

LEMMA EdgeInitType == EdgeInit => EdgeTypeOK
<1> SUFFICES ASSUME EdgeInit PROVE EdgeTypeOK
  OBVIOUS
<1>1. HookTypeOK
  <2>1. /\ clock = 0 /\ hits = <<>> /\ accepted = <<>> /\ owed = Webhook /\ seen = <<>>
        /\ request = [r \in Request |-> Free] /\ forgotten = {} /\ processed = [i \in Ids |-> 0]
    BY DEF EdgeInit
  <2>2. <<>> \in Seq(0 .. MaxTicks) /\ <<>> \in Seq(Ids) /\ Len(<<>>) = 0
    OBVIOUS
  <2> QED
    BY <2>1, <2>2, FreeIs, EdgeBounds DEF HookTypeOK
<1>2. StreamTypeOK
  <2>1. /\ published = [p \in Publisher |-> 0] /\ telling = [p \in Publisher |-> {}]
        /\ ready = <<>> /\ stream = [s \in Socket |-> "none"]
        /\ queue = [s \in Socket |-> <<>>] /\ sending = [s \in Socket |-> NoEvent]
        /\ sent = [s \in Socket |-> <<>>] /\ dropped = [s \in Socket |-> {}]
    BY DEF EdgeInit
  <2>2. <<>> \in Seq(EventCall) /\ <<>> \in Seq(Events) /\ Len(<<>>) = 0
    OBVIOUS
  <2> QED
    BY <2>1, <2>2, EdgeBounds DEF StreamTypeOK
<1>3. edgeEnds \in 0 .. MaxEdgeEnds
  BY EdgeBounds DEF EdgeInit
<1> QED
  BY <1>1, <1>2, <1>3, EdgeTypes

LEMMA RequestIs ==
  ASSUME HookTypeOK, NEW r \in Request
  PROVE  /\ request[r] \in RequestRecord /\ request[r].hook \in Webhook
         /\ request[r].todo \in Seq(Ids)
         /\ request[r].at = "tasks" => request[r].todo # <<>>
  BY DEF HookTypeOK, RequestRecord

\* A request goes on, and what is remembered and processed fits.
LEMMA RequestGoesType ==
  ASSUME HookTypeOK, NEW r \in Request, NEW record \in RequestRecord,
         request' = [request EXCEPT ![r] = record], record.at = "tasks" => record.todo # <<>>,
         UNCHANGED <<clock, hits, accepted>>, owed' \subseteq Webhook,
         seen' \in Seq(Ids), Len(seen') <= Remembered, forgotten' \subseteq Ids,
         processed' \in [Ids -> Nat]
  PROVE  HookTypeOK'
  BY DEF HookTypeOK

\* A webhook that is let in, or not.
LEMMA DeliverIs ==
  ASSUME NEW r, NEW w, Deliver(r, w)
  PROVE  /\ w \in owed /\ request[r].at = "free"
         /\ UNCHANGED <<clock, owed, seen, forgotten, processed, streamVars, edgeEnds>>
         /\ \/ /\ Len(LastMinute) >= Limit
               /\ hits' = LastMinute /\ UNCHANGED <<accepted, request>>
            \/ /\ ~(Len(LastMinute) >= Limit)
               /\ hits' = Append(LastMinute, clock) /\ accepted' = Append(accepted, clock)
               /\ request' = [request EXCEPT ![r] = [Free EXCEPT !.at = "arrived", !.hook = w]]
  BY DEF Deliver

LEMMA DeliverType ==
  ASSUME EdgeTypeOK, NEW r \in Request, NEW w \in Webhook, Deliver(r, w)
  PROVE  HookTypeOK'
<1>1. HookTypeOK
  BY EdgeTypes
<1>2. PICK n \in 0 .. Len(hits) :
        LastMinute \in Seq(0 .. MaxTicks) /\ Len(LastMinute) = Len(hits) - n
  BY LastMinuteFacts
<1>3. /\ clock \in 0 .. MaxTicks /\ hits \in Seq(0 .. MaxTicks) /\ Len(hits) <= Limit
      /\ Limit \in Nat /\ accepted \in Seq(0 .. MaxTicks) /\ Len(hits) \in Nat
  BY <1>1, EdgeBounds DEF HookTypeOK
<1> DEFINE window == LastMinute
           record == [Free EXCEPT !.at = "arrived", !.hook = w]
<1> HIDE DEF window
<1>4. CASE hits' = window /\ UNCHANGED <<accepted, request>>
  <2>1. Len(window) <= Limit /\ window \in Seq(0 .. MaxTicks)
    BY <1>2, <1>3 DEF window
  <2> QED
    BY <1>1, <1>4, <2>1, DeliverIs DEF HookTypeOK
<1>5. CASE /\ ~(Len(window) >= Limit)
           /\ hits' = Append(window, clock) /\ accepted' = Append(accepted, clock)
           /\ request' = [request EXCEPT ![r] = record]
  <2>1. record \in RequestRecord /\ record.at = "arrived"
    BY FreeIs DEF RequestRecord
  <2> HIDE DEF record
  <2>2. /\ Append(window, clock) \in Seq(0 .. MaxTicks) /\ Len(Append(window, clock)) <= Limit
        /\ Append(accepted, clock) \in Seq(0 .. MaxTicks)
    <3>1. window \in Seq(0 .. MaxTicks) /\ Len(window) \in Nat
      BY <1>2 DEF window
    <3>2. Append(window, clock) \in Seq(0 .. MaxTicks) /\ Len(Append(window, clock)) = Len(window) + 1
      BY <1>3, <3>1, AppendedSet
    <3>3. Append(accepted, clock) \in Seq(0 .. MaxTicks)
      BY <1>3, AppendedSet
    <3> QED
      BY <1>3, <1>5, <3>1, <3>2, <3>3
  <2>3. UNCHANGED <<clock, owed, seen, forgotten, processed>>
    BY DeliverIs
  <2> QED
    BY <1>1, <1>5, <2>1, <2>2, <2>3 DEF HookTypeOK
<1> QED
  BY <1>4, <1>5, DeliverIs DEF window

LEMMA ExtractIs ==
  ASSUME HookTypeOK, NEW r \in Request, ExtractMessages(r)
  PROVE  LET found == Extracted(Carries[request[r].hook], seen, forgotten)
         IN Noticed(found, seen, forgotten)
<1>1. Carries[request[r].hook] \in Seq(Ids)
  BY RequestIs, CarriesFacts
<1>2. seen \in Seq(Ids) /\ forgotten \in SUBSET Ids /\ Len(seen) <= Remembered
  BY DEF HookTypeOK
<1> QED
  BY <1>1, <1>2, ExtractedFacts

\* What a request goes on with after the ids of its webhook have been looked at.
LEMMA ExtractGoes ==
  ASSUME HookTypeOK, NEW r \in Request, ExtractMessages(r)
  PROVE  \E found, record :
           /\ Noticed(found, seen, forgotten) /\ record \in RequestRecord
           /\ request' = [request EXCEPT ![r] = record] /\ record.todo = found.new
           /\ record.at = "tasks" => record.todo # <<>>
           /\ seen' = found.seen /\ forgotten' = found.out /\ owed' \subseteq Webhook
           /\ UNCHANGED <<clock, hits, accepted, processed, streamVars, edgeEnds>>
<1>1. PICK found : /\ found = Extracted(Carries[request[r].hook], seen, forgotten)
                   /\ Noticed(found, seen, forgotten)
  BY ExtractIs
<1>2. found.new \in Seq(Ids)
  BY <1>1 DEF Noticed, FoundRecord
<1>3. /\ request' = [request EXCEPT ![r] = IF found.new = <<>> THEN Free
                                           ELSE [request[r] EXCEPT !.at = "tasks", !.todo = found.new]]
      /\ seen' = found.seen /\ forgotten' = found.out
      /\ owed' \in {owed, owed \ {request[r].hook}}
      /\ UNCHANGED <<clock, hits, accepted, processed, streamVars, edgeEnds>>
  BY <1>1 DEF ExtractMessages, HookTypeOK
<1>4. owed' \subseteq Webhook
  BY <1>3 DEF HookTypeOK
<1>5. CASE found.new = <<>>
  <2>1. request' = [request EXCEPT ![r] = Free]
    BY <1>3, <1>5
  <2> QED
    BY <1>1, <1>3, <1>4, <1>5, <2>1, FreeIs
<1>6. CASE found.new # <<>>
  <2> DEFINE record == [request[r] EXCEPT !.at = "tasks", !.todo = found.new]
  <2>1. record \in RequestRecord /\ record.todo = found.new
    BY <1>2, RequestIs DEF RequestRecord
  <2>2. request' = [request EXCEPT ![r] = record]
    BY <1>3, <1>6
  <2> HIDE DEF record
  <2> QED
    BY <1>1, <1>3, <1>4, <1>6, <2>1, <2>2
<1> QED
  BY <1>5, <1>6

LEMMA ExtractType ==
  ASSUME HookTypeOK, NEW r \in Request, ExtractMessages(r)
  PROVE  HookTypeOK'
<1>1. PICK found, record :
           /\ Noticed(found, seen, forgotten) /\ record \in RequestRecord
           /\ request' = [request EXCEPT ![r] = record]
           /\ record.at = "tasks" => record.todo # <<>>
           /\ seen' = found.seen /\ forgotten' = found.out /\ owed' \subseteq Webhook
           /\ UNCHANGED <<clock, hits, accepted, processed, streamVars, edgeEnds>>
  BY ExtractGoes
<1>2. seen' \in Seq(Ids) /\ Len(seen') <= Remembered /\ forgotten' \subseteq Ids
  BY <1>1 DEF Noticed, FoundRecord
<1>3. processed' \in [Ids -> Nat]
  BY <1>1 DEF HookTypeOK
<1> QED
  BY <1>1, <1>2, <1>3, RequestGoesType

\* A message is processed: the first that the request has left.
LEMMA ProcessIs ==
  ASSUME HookTypeOK, NEW r \in Request, Process(r)
  PROVE  \E record \in RequestRecord :
           /\ request' = [request EXCEPT ![r] = record] /\ record.at = "answer"
           /\ record.todo = Tail(request[r].todo) /\ request[r].todo # <<>>
           /\ Head(request[r].todo) \in Ids
           /\ processed' = [processed EXCEPT ![Head(request[r].todo)] = @ + 1]
           /\ UNCHANGED <<clock, hits, accepted, owed, seen, forgotten, streamVars, edgeEnds>>
<1>1. /\ request[r].at = "tasks" /\ request[r] \in RequestRecord /\ request[r].todo # <<>>
      /\ request[r].todo \in Seq(Ids)
  BY RequestIs DEF Process
<1>2. Tail(request[r].todo) \in Seq(Ids) /\ Head(request[r].todo) \in Ids
  BY <1>1, TakenSet
<1> DEFINE record == [request[r] EXCEPT !.at = "answer", !.todo = Tail(request[r].todo)]
<1>3. record \in RequestRecord /\ record.at = "answer" /\ record.todo = Tail(request[r].todo)
  BY <1>1, <1>2 DEF RequestRecord
<1>4. request' = [request EXCEPT ![r] = record]
  BY <1>1 DEF Process, HookTypeOK, RequestRecord
<1> HIDE DEF record
<1> QED
  BY <1>1, <1>2, <1>3, <1>4 DEF Process

LEMMA ProcessType ==
  ASSUME HookTypeOK, NEW r \in Request, Process(r)
  PROVE  HookTypeOK'
<1>1. PICK record \in RequestRecord :
           /\ request' = [request EXCEPT ![r] = record] /\ record.at = "answer"
           /\ Head(request[r].todo) \in Ids
           /\ processed' = [processed EXCEPT ![Head(request[r].todo)] = @ + 1]
           /\ UNCHANGED <<clock, hits, accepted, owed, seen, forgotten, streamVars, edgeEnds>>
  BY ProcessIs
<1>2. processed' \in [Ids -> Nat]
  BY <1>1 DEF HookTypeOK
<1>3. seen' \in Seq(Ids) /\ Len(seen') <= Remembered /\ forgotten' \subseteq Ids /\ owed' \subseteq Webhook
  BY <1>1 DEF HookTypeOK
<1> QED
  BY <1>1, <1>2, <1>3, RequestGoesType

\* After an answer the request goes on with what it has left, or with nothing.
LEMMA SendAnswerIs ==
  ASSUME HookTypeOK, NEW r \in Request, SendAnswer(r)
  PROVE  \E record \in RequestRecord :
           /\ request' = [request EXCEPT ![r] = record]
           /\ record.at = "tasks" => record.todo # <<>>
           /\ record.todo = request[r].todo \/ record.todo = <<>>
           /\ UNCHANGED <<clock, hits, accepted, owed, seen, forgotten, processed,
                          streamVars, edgeEnds>>
<1>1. PICK ok \in BOOLEAN :
        request' = [request EXCEPT ![r] = IF ok /\ request[r].todo # <<>>
                                          THEN [request[r] EXCEPT !.at = "tasks"] ELSE Free]
  BY DEF SendAnswer, HookTypeOK
<1>2. UNCHANGED <<clock, hits, accepted, owed, seen, forgotten, processed, streamVars, edgeEnds>>
  BY DEF SendAnswer
<1> DEFINE record == [request[r] EXCEPT !.at = "tasks"]
<1>3. record \in RequestRecord /\ record.todo = request[r].todo
  BY RequestIs DEF RequestRecord
<1>4. CASE ok /\ request[r].todo # <<>>
  <2>1. request' = [request EXCEPT ![r] = record]
    BY <1>1, <1>4
  <2> HIDE DEF record
  <2> QED
    BY <1>2, <1>3, <1>4, <2>1
<1>5. CASE ~(ok /\ request[r].todo # <<>>)
  BY <1>1, <1>2, <1>5, FreeIs
<1> QED
  BY <1>4, <1>5

LEMMA SendAnswerType ==
  ASSUME HookTypeOK, NEW r \in Request, SendAnswer(r)
  PROVE  HookTypeOK'
<1>1. PICK record \in RequestRecord :
           /\ request' = [request EXCEPT ![r] = record]
           /\ record.at = "tasks" => record.todo # <<>>
           /\ UNCHANGED <<clock, hits, accepted, owed, seen, forgotten, processed,
                          streamVars, edgeEnds>>
  BY SendAnswerIs
<1>2. /\ processed' \in [Ids -> Nat] /\ seen' \in Seq(Ids) /\ Len(seen') <= Remembered
      /\ forgotten' \subseteq Ids /\ owed' \subseteq Webhook
  BY <1>1 DEF HookTypeOK
<1> QED
  BY <1>1, <1>2, RequestGoesType

\* What the loop has been handed is put into a queue, or dropped.
LEMMA EnqueuedIs ==
  ASSUME StreamTypeOK, NEW call \in EventCall, Enqueued(call)
  PROVE  \/ /\ Len(queue[call.socket]) < Room /\ UNCHANGED dropped
            /\ queue' = [queue EXCEPT ![call.socket] = Append(queue[call.socket], call.event)]
         \/ /\ UNCHANGED queue
            /\ dropped' = [dropped EXCEPT ![call.socket] = dropped[call.socket] \cup {call.event}]
  BY DEF Enqueued, StreamTypeOK, EventCall

LEMMA PutIs ==
  ASSUME StreamTypeOK, Put
  PROVE  /\ ready # <<>> /\ Head(ready) \in EventCall /\ Enqueued(Head(ready))
         /\ ready' = Tail(ready) /\ ready' \in Seq(EventCall)
         /\ UNCHANGED <<hookVars, published, telling, stream, sending, sent, edgeEnds>>
<1>1. ready \in Seq(EventCall)
  BY DEF StreamTypeOK
<1>2. ready # <<>>
  BY DEF Put
<1>3. Tail(ready) \in Seq(EventCall) /\ Head(ready) \in EventCall
  BY <1>1, <1>2, TakenSet
<1> QED
  BY <1>2, <1>3 DEF Put

LEMMA PutType ==
  ASSUME StreamTypeOK, Put
  PROVE  StreamTypeOK'
<1> DEFINE call == Head(ready)
<1>1. /\ call \in EventCall /\ Enqueued(call) /\ ready' \in Seq(EventCall)
      /\ UNCHANGED <<published, telling, stream, sending, sent>>
  BY PutIs DEF Put
<1> HIDE DEF call
<1>2. PICK s \in Socket, e \in Events : s = call.socket /\ e = call.event
  BY <1>1 DEF EventCall
<1>3. CASE Len(queue[s]) < Room /\ queue' = [queue EXCEPT ![s] = Append(queue[s], e)] /\ UNCHANGED dropped
  <2>1. queue[s] \in Seq(Events)
    BY DEF StreamTypeOK
  <2>2. Append(queue[s], e) \in Seq(Events) /\ Len(Append(queue[s], e)) = Len(queue[s]) + 1
    BY <2>1, AppendedSet
  <2>3. Len(Append(queue[s], e)) <= Room
    BY <1>3, <2>1, <2>2, EdgeBounds
  <2> DEFINE longer == Append(queue[s], e)
  <2> HIDE DEF longer
  <2>4. queue' = [queue EXCEPT ![s] = longer] /\ longer \in Seq(Events) /\ Len(longer) <= Room
    BY <1>3, <2>2, <2>3 DEF longer
  <2>5. queue' \in [Socket -> Seq(Events)] /\ \A t \in Socket : Len(queue'[t]) <= Room
    BY <2>4 DEF StreamTypeOK
  <2> QED
    BY <1>1, <1>3, <2>5 DEF StreamTypeOK
<1>4. CASE dropped' = [dropped EXCEPT ![s] = dropped[s] \cup {e}] /\ UNCHANGED queue
  <2>1. dropped' \in [Socket -> SUBSET Events]
    BY <1>4 DEF StreamTypeOK
  <2> QED
    BY <1>1, <1>4, <2>1 DEF StreamTypeOK
<1> QED
  BY <1>1, <1>2, <1>3, <1>4, EnqueuedIs

LEMMA ConnectType ==
  ASSUME StreamTypeOK, NEW s \in Socket, Connect(s)
  PROVE  StreamTypeOK'
  BY DEF StreamTypeOK, Connect

LEMMA PublishType ==
  ASSUME StreamTypeOK, NEW p \in Publisher, PublishEvent(p)
  PROVE  StreamTypeOK'
<1>1. published' \in [Publisher -> 0 .. MaxEvents]
  BY EdgeBounds DEF StreamTypeOK, PublishEvent
<1>2. telling' \in [Publisher -> SUBSET Socket]
  BY DEF StreamTypeOK, PublishEvent
<1>3. \A q \in Publisher : telling'[q] # {} => published'[q] > 0
  BY EdgeBounds DEF StreamTypeOK, PublishEvent
<1> QED
  BY <1>1, <1>2, <1>3 DEF StreamTypeOK, PublishEvent

\* The event that a handler is told is one that has been published.
LEMMA TellIs ==
  ASSUME StreamTypeOK, NEW p \in Publisher, NEW s \in Socket, Tell(p, s)
  PROVE  /\ s \in telling[p] /\ published[p] \in 1 .. MaxEvents
         /\ telling' = [telling EXCEPT ![p] = telling[p] \ {s}]
         /\ [socket |-> s, event |-> <<p, published[p]>>] \in EventCall
         /\ ready' = Append(ready, [socket |-> s, event |-> <<p, published[p]>>])
         /\ UNCHANGED <<hookVars, published, stream, queue, sending, sent, dropped, edgeEnds>>
<1>1. s \in telling[p] /\ published[p] \in 0 .. MaxEvents /\ published[p] > 0
  BY DEF StreamTypeOK, Tell
<1>2. published[p] \in 1 .. MaxEvents
  BY <1>1, EdgeBounds
<1>3. <<p, published[p]>> \in Events
  BY <1>2 DEF Events
<1>4. [socket |-> s, event |-> <<p, published[p]>>] \in EventCall
  BY <1>3 DEF EventCall
<1> QED
  BY <1>1, <1>2, <1>4 DEF Tell, StreamTypeOK

LEMMA TellType ==
  ASSUME StreamTypeOK, NEW p \in Publisher, NEW s \in Socket, Tell(p, s)
  PROVE  StreamTypeOK'
<1> DEFINE call == [socket |-> s, event |-> <<p, published[p]>>]
<1>1. /\ call \in EventCall /\ ready' = Append(ready, call)
      /\ telling' = [telling EXCEPT ![p] = telling[p] \ {s}]
      /\ UNCHANGED <<published, stream, queue, sending, sent, dropped>>
  BY TellIs
<1> HIDE DEF call
<1>2. ready' \in Seq(EventCall)
  BY <1>1 DEF StreamTypeOK
<1>3. telling' \in [Publisher -> SUBSET Socket]
  BY <1>1 DEF StreamTypeOK
<1>4. \A q \in Publisher : telling'[q] # {} => published'[q] > 0
  BY <1>1 DEF StreamTypeOK
<1> QED
  BY <1>1, <1>2, <1>3, <1>4 DEF StreamTypeOK

LEMMA TakeEventIs ==
  ASSUME StreamTypeOK, NEW s \in Socket, TakeEvent(s)
  PROVE  \E e \in Events, rest \in Seq(Events) :
           /\ e = Head(queue[s]) /\ rest = Tail(queue[s]) /\ e = queue[s][1]
           /\ queue[s] \in Seq(Events) /\ Len(queue[s]) \in Nat \ {0}
           /\ Len(rest) = Len(queue[s]) - 1 /\ \A i \in 1 .. Len(queue[s]) - 1 : rest[i] = queue[s][i + 1]
           /\ ToSet(queue[s]) = ToSet(rest) \cup {e}
           /\ stream[s] = "open" /\ sending[s] = NoEvent
           /\ sending' = [sending EXCEPT ![s] = e] /\ queue' = [queue EXCEPT ![s] = rest]
           /\ UNCHANGED <<hookVars, published, telling, ready, stream, sent, dropped, edgeEnds>>
<1>1. queue[s] \in Seq(Events) /\ queue[s] # <<>>
  BY DEF StreamTypeOK, TakeEvent
<1>2. /\ Tail(queue[s]) \in Seq(Events) /\ Head(queue[s]) \in Events /\ Head(queue[s]) = queue[s][1]
      /\ Len(queue[s]) \in Nat \ {0}
      /\ Len(Tail(queue[s])) = Len(queue[s]) - 1
      /\ \A i \in 1 .. Len(queue[s]) - 1 : Tail(queue[s])[i] = queue[s][i + 1]
      /\ ToSet(queue[s]) = ToSet(Tail(queue[s])) \cup {Head(queue[s])}
  BY <1>1, TakenSet
<1>3. /\ stream[s] = "open" /\ sending[s] = NoEvent
      /\ sending' = [sending EXCEPT ![s] = Head(queue[s])]
      /\ queue' = [queue EXCEPT ![s] = Tail(queue[s])]
      /\ UNCHANGED <<hookVars, published, telling, ready, stream, sent, dropped, edgeEnds>>
  BY DEF TakeEvent, StreamTypeOK
<1> QED
  BY <1>1, <1>2, <1>3

LEMMA TakeEventType ==
  ASSUME StreamTypeOK, NEW s \in Socket, TakeEvent(s)
  PROVE  StreamTypeOK'
<1>1. PICK e \in Events, rest \in Seq(Events) :
           /\ queue[s] \in Seq(Events) /\ Len(queue[s]) \in Nat \ {0}
           /\ Len(rest) = Len(queue[s]) - 1
           /\ sending' = [sending EXCEPT ![s] = e] /\ queue' = [queue EXCEPT ![s] = rest]
           /\ UNCHANGED <<published, telling, ready, stream, sent, dropped>>
  BY TakeEventIs
<1>2. Len(rest) <= Room
  BY <1>1, EdgeBounds DEF StreamTypeOK
<1>3. sending' \in [Socket -> Events \cup {NoEvent}]
  BY <1>1 DEF StreamTypeOK
<1>4. queue' \in [Socket -> Seq(Events)] /\ \A t \in Socket : Len(queue'[t]) <= Room
  BY <1>1, <1>2 DEF StreamTypeOK
<1> QED
  BY <1>1, <1>3, <1>4 DEF StreamTypeOK

LEMMA SendEventIs ==
  ASSUME StreamTypeOK, NEW s \in Socket, SendEvent(s)
  PROVE  \E e \in Events :
           /\ sending[s] = e /\ sending' = [sending EXCEPT ![s] = NoEvent]
           /\ \/ sent' = [sent EXCEPT ![s] = Append(sent[s], e)] /\ UNCHANGED stream
              \/ stream' = [stream EXCEPT ![s] = "closed"] /\ UNCHANGED sent
           /\ UNCHANGED <<hookVars, published, telling, ready, queue, dropped, edgeEnds>>
<1>1. sending[s] \in Events
  BY DEF StreamTypeOK, SendEvent
<1>2. /\ sending' = [sending EXCEPT ![s] = NoEvent]
      /\ \/ sent' = [sent EXCEPT ![s] = Append(sent[s], sending[s])] /\ UNCHANGED stream
         \/ stream' = [stream EXCEPT ![s] = "closed"] /\ UNCHANGED sent
      /\ UNCHANGED <<hookVars, published, telling, ready, queue, dropped, edgeEnds>>
  BY DEF SendEvent, StreamTypeOK
<1> QED
  BY <1>1, <1>2

LEMMA SendEventType ==
  ASSUME StreamTypeOK, NEW s \in Socket, SendEvent(s)
  PROVE  StreamTypeOK'
<1>1. PICK e \in Events :
           /\ sending' = [sending EXCEPT ![s] = NoEvent]
           /\ \/ sent' = [sent EXCEPT ![s] = Append(sent[s], e)] /\ UNCHANGED stream
              \/ stream' = [stream EXCEPT ![s] = "closed"] /\ UNCHANGED sent
           /\ UNCHANGED <<published, telling, ready, queue, dropped>>
  BY SendEventIs
<1>2. sending' \in [Socket -> Events \cup {NoEvent}]
  BY <1>1 DEF StreamTypeOK
<1>3. CASE sent' = [sent EXCEPT ![s] = Append(sent[s], e)] /\ UNCHANGED stream
  <2>1. Append(sent[s], e) \in Seq(Events)
    BY DEF StreamTypeOK
  <2>2. sent' \in [Socket -> Seq(Events)]
    BY <1>3, <2>1 DEF StreamTypeOK
  <2> QED
    BY <1>1, <1>2, <1>3, <2>2 DEF StreamTypeOK
<1>4. CASE stream' = [stream EXCEPT ![s] = "closed"] /\ UNCHANGED sent
  BY <1>1, <1>2, <1>4 DEF StreamTypeOK
<1> QED
  BY <1>1, <1>3, <1>4

LEMMA ServerEndsType ==
  ASSUME EdgeTypeOK, ServerEnds
  PROVE  EdgeTypeOK'
<1>1. HookTypeOK'
  <2>1. /\ hits' = <<>> /\ accepted' = <<>> /\ request' = [r \in Request |-> Free]
        /\ seen' = <<>> /\ forgotten' = forgotten \cup ToSet(seen)
        /\ UNCHANGED <<clock, owed, processed>>
    BY DEF ServerEnds
  <2>2. ToSet(seen) \subseteq Ids
    BY DEF EdgeTypeOK, ToSet
  <2>3. <<>> \in Seq(0 .. MaxTicks) /\ <<>> \in Seq(Ids) /\ Len(<<>>) = 0
    OBVIOUS
  <2> QED
    BY <2>1, <2>2, <2>3, FreeIs, EdgeBounds, EdgeTypes DEF HookTypeOK
<1>2. StreamTypeOK'
  <2>1. /\ published' = [p \in Publisher |-> 0] /\ telling' = [p \in Publisher |-> {}]
        /\ ready' = <<>> /\ stream' = [s \in Socket |-> "none"]
        /\ queue' = [s \in Socket |-> <<>>] /\ sending' = [s \in Socket |-> NoEvent]
        /\ sent' = [s \in Socket |-> <<>>] /\ dropped' = [s \in Socket |-> {}]
    BY DEF ServerEnds
  <2>2. <<>> \in Seq(EventCall) /\ <<>> \in Seq(Events) /\ Len(<<>>) = 0
    OBVIOUS
  <2> QED
    BY <2>1, <2>2, EdgeBounds DEF StreamTypeOK
<1>3. edgeEnds' \in 0 .. MaxEdgeEnds
  BY EdgeBounds DEF EdgeTypeOK, ServerEnds
<1> QED
  BY <1>1, <1>2, <1>3 DEF EdgeTypeOK, HookTypeOK, StreamTypeOK, EventCall

LEMMA EdgeStepType ==
  ASSUME EdgeTypeOK, [EdgeNext]_edgeVars
  PROVE  EdgeTypeOK'
<1>0. HookTypeOK /\ StreamTypeOK /\ edgeEnds \in 0 .. MaxEdgeEnds
  BY EdgeTypes
<1>1. ASSUME UNCHANGED hookVars PROVE HookTypeOK'
  BY <1>0, <1>1 DEF HookTypeOK, hookVars
<1>2. ASSUME UNCHANGED streamVars PROVE StreamTypeOK'
  BY <1>0, <1>2 DEF StreamTypeOK, streamVars
<1>3. ASSUME HookTypeOK', StreamTypeOK', UNCHANGED edgeEnds PROVE EdgeTypeOK'
  BY <1>0, <1>3 DEF EdgeTypeOK, HookTypeOK, StreamTypeOK, EventCall
<1>4. CASE Tick
  <2>1. HookTypeOK' /\ UNCHANGED <<streamVars, edgeEnds>>
    BY <1>0, <1>4, EdgeBounds DEF Tick, HookTypeOK
  <2> QED
    BY <1>2, <1>3, <2>1
<1>5. ASSUME NEW r \in Request, RequestStep(r) PROVE EdgeTypeOK'
  <2>1. ASSUME NEW w \in Webhook, Deliver(r, w) PROVE EdgeTypeOK'
    BY <1>2, <1>3, <2>1, DeliverType, DeliverIs
  <2>2. CASE ExtractMessages(r)
    BY <1>0, <1>2, <1>3, <2>2, ExtractType DEF ExtractMessages
  <2>3. CASE Process(r)
    BY <1>0, <1>2, <1>3, <2>3, ProcessType DEF Process
  <2>4. CASE SendAnswer(r)
    BY <1>0, <1>2, <1>3, <2>4, SendAnswerType DEF SendAnswer
  <2> QED
    BY <1>5, <2>1, <2>2, <2>3, <2>4 DEF RequestStep
<1>6. CASE StreamStep
  <2>1. ASSUME NEW s \in Socket, Connect(s) PROVE EdgeTypeOK'
    BY <1>0, <1>1, <1>3, <2>1, ConnectType DEF Connect
  <2>2. ASSUME NEW s \in Socket, TakeEvent(s) PROVE EdgeTypeOK'
    BY <1>0, <1>1, <1>3, <2>2, TakeEventType DEF TakeEvent
  <2>3. ASSUME NEW s \in Socket, SendEvent(s) PROVE EdgeTypeOK'
    BY <1>0, <1>1, <1>3, <2>3, SendEventType DEF SendEvent
  <2>4. ASSUME NEW p \in Publisher, PublishEvent(p) PROVE EdgeTypeOK'
    BY <1>0, <1>1, <1>3, <2>4, PublishType DEF PublishEvent
  <2>5. ASSUME NEW p \in Publisher, NEW s \in Socket, Tell(p, s) PROVE EdgeTypeOK'
    BY <1>0, <1>1, <1>3, <2>5, TellType DEF Tell
  <2>6. CASE Put
    BY <1>0, <1>1, <1>3, <2>6, PutType DEF Put
  <2> QED
    BY <1>6, <2>1, <2>2, <2>3, <2>4, <2>5, <2>6 DEF StreamStep
<1>7. CASE ServerEnds
  BY <1>7, ServerEndsType
<1>8. CASE UNCHANGED edgeVars
  BY <1>1, <1>2, <1>3, <1>8 DEF edgeVars
<1> QED
  BY <1>4, <1>5, <1>6, <1>7, <1>8 DEF EdgeNext

\* At the edge of the server everything is what it should be: no more than so
\* many times of requests, ids and events are kept, and what a handler is told
\* has been published.  (limits, extract_messages, publish, handler)
THEOREM EdgeTypeCorrect == EdgeSpec => []EdgeTypeOK
  BY EdgeInitType, EdgeStepType, PTL DEF EdgeSpec

-----------------------------------------------------------------------------
(* The rate.                                                               *)

\* The window is the end of what was let in, what is not in it is more than a
\* minute old, and Limit requests later more than a minute has passed.
Window(recent, all, now) ==
  /\ Len(recent) <= Len(all)
  /\ \A i \in 1 .. Len(recent) : recent[i] = all[Len(all) - Len(recent) + i]
  /\ \A i \in 1 .. Len(all) - Len(recent) : all[i] + Minute < now
  /\ \A i, j \in 1 .. Len(all) : i <= j => all[i] <= all[j]
  /\ \A i \in 1 .. Len(all) : all[i] <= now
  /\ \A i \in 1 .. Len(all) : i + Limit <= Len(all) => all[i] + Minute < all[i + Limit]
HitsInv == Window(hits, accepted, clock)

LEMMA WindowShrinks ==
  ASSUME NEW recent \in Seq(Nat), NEW all \in Seq(Nat), NEW now \in Nat, Window(recent, all, now),
         NEW n \in 0 .. Len(recent), NEW rest \in Seq(Nat), Len(rest) = Len(recent) - n,
         \A i \in 1 .. Len(recent) - n : rest[i] = recent[n + i],
         \A i \in 1 .. n : recent[i] + Minute < now
  PROVE  Window(rest, all, now)
<1> DEFINE R == Len(recent)
           A == Len(all)
           L == Len(rest)
<1>1. /\ R \in Nat /\ A \in Nat /\ n \in Nat /\ L \in Nat /\ n <= R /\ L = R - n /\ R <= A
      /\ Minute \in Nat /\ \A i \in 1 .. A : all[i] \in Nat
  BY EdgeBounds DEF Window
<1>2. /\ \A i \in 1 .. R : recent[i] = all[A - R + i]
      /\ \A i \in 1 .. A - R : all[i] + Minute < now
      /\ \A i \in 1 .. L : rest[i] = recent[n + i]
      /\ \A i \in 1 .. n : recent[i] + Minute < now
  BY DEF Window
<1> HIDE DEF R, A, L
<1>3. ASSUME NEW i \in 1 .. L PROVE rest[i] = all[A - L + i]
  <2>1. n + i \in 1 .. R /\ A - R + (n + i) = A - L + i
    BY <1>1
  <2> QED
    BY <1>2, <2>1
<1>4. ASSUME NEW i \in 1 .. A - L PROVE all[i] + Minute < now
  <2>1. CASE i \in 1 .. A - R
    BY <1>2, <2>1
  <2>2. CASE i \notin 1 .. A - R
    <3>1. i - (A - R) \in 1 .. n /\ i - (A - R) \in 1 .. R /\ A - R + (i - (A - R)) = i
      BY <1>1, <2>2
    <3> QED
      BY <1>2, <3>1
  <2> QED
    BY <2>1, <2>2
<1> QED
  BY <1>1, <1>3, <1>4 DEF Window, R, A, L

LEMMA WindowGrows ==
  ASSUME NEW recent \in Seq(Nat), NEW all \in Seq(Nat), NEW now \in Nat, Window(recent, all, now),
         ~(Len(recent) >= Limit)
  PROVE  Window(Append(recent, now), Append(all, now), now)
<1> DEFINE R == Len(recent)
           A == Len(all)
           more == Append(recent, now)
           every == Append(all, now)
<1>1. /\ R \in Nat /\ A \in Nat /\ R <= A /\ Minute \in Nat /\ Limit \in Nat \ {0} /\ R < Limit
      /\ \A i \in 1 .. A : all[i] \in Nat
  BY EdgeBounds DEF Window
<1>2. /\ \A i \in 1 .. R : recent[i] = all[A - R + i]
      /\ \A i \in 1 .. A - R : all[i] + Minute < now
      /\ \A i, j \in 1 .. A : i <= j => all[i] <= all[j]
      /\ \A i \in 1 .. A : all[i] <= now
      /\ \A i \in 1 .. A : i + Limit <= A => all[i] + Minute < all[i + Limit]
  BY DEF Window
<1>3. /\ Len(more) = R + 1 /\ \A i \in 1 .. R : more[i] = recent[i]
      /\ more[R + 1] = now
  BY AppendedSet
<1>4. /\ Len(every) = A + 1 /\ \A i \in 1 .. A : every[i] = all[i]
      /\ every[A + 1] = now
  BY AppendedSet
<1> HIDE DEF R, A, more, every
<1>5. ASSUME NEW i \in 1 .. R + 1 PROVE more[i] = every[(A + 1) - (R + 1) + i]
  <2>1. CASE i = R + 1
    BY <1>1, <1>3, <1>4, <2>1
  <2>2. CASE i # R + 1
    <3>1. i \in 1 .. R /\ A - R + i \in 1 .. A /\ (A + 1) - (R + 1) + i = A - R + i
      BY <1>1, <2>2
    <3> QED
      BY <1>2, <1>3, <1>4, <3>1
  <2> QED
    BY <2>1, <2>2
<1>6. \A i \in 1 .. (A + 1) - (R + 1) : every[i] + Minute < now
  BY <1>1, <1>2, <1>4
<1>8. \A i \in 1 .. A + 1 : every[i] <= now /\ (i = A + 1 \/ i \in 1 .. A)
  <2>1. \A i \in 1 .. A + 1 : i = A + 1 \/ i \in 1 .. A
    BY <1>1
  <2> QED
    BY <1>1, <1>2, <1>4, <2>1
<1>7. \A i, j \in 1 .. A + 1 : i <= j => every[i] <= every[j]
  BY <1>1, <1>2, <1>4, <1>8
<1>9. ASSUME NEW i \in 1 .. A + 1, i + Limit <= A + 1
      PROVE  every[i] + Minute < every[i + Limit]
  <2>1. CASE i + Limit = A + 1
    <3>1. i \in 1 .. A - R /\ i \in 1 .. A
      BY <1>1, <2>1
    <3> QED
      BY <1>2, <1>4, <2>1, <3>1
  <2>2. CASE i + Limit # A + 1
    <3>1. i \in 1 .. A /\ i + Limit \in 1 .. A /\ i + Limit <= A
      BY <1>1, <1>9, <2>2
    <3> QED
      BY <1>2, <1>4, <3>1
  <2> QED
    BY <2>1, <2>2
<1>10. R + 1 <= A + 1
  BY <1>1
<1> QED
  BY <1>3, <1>4, <1>5, <1>6, <1>7, <1>8, <1>9, <1>10 DEF Window, more, every

LEMMA TicksAreNatural ==
  ASSUME NEW times \in Seq(0 .. MaxTicks)
  PROVE  times \in Seq(Nat)
<1>1. Len(times) \in Nat /\ times \in [1 .. Len(times) -> 0 .. MaxTicks]
  BY LenProperties
<1>2. times \in [1 .. Len(times) -> Nat]
  BY <1>1, EdgeBounds
<1> QED
  BY <1>1, <1>2, SeqDef

LEMMA DeliverHits ==
  ASSUME EdgeTypeOK, HitsInv, NEW r \in Request, NEW w \in Webhook, Deliver(r, w)
  PROVE  HitsInv'
<1>1. /\ hits \in Seq(Nat) /\ accepted \in Seq(Nat) /\ clock \in Nat
  BY TicksAreNatural, EdgeBounds DEF EdgeTypeOK
<1>2. PICK n \in 0 .. Len(hits) :
           /\ LastMinute \in Seq(0 .. MaxTicks) /\ Len(LastMinute) = Len(hits) - n
           /\ \A i \in 1 .. Len(hits) - n : LastMinute[i] = hits[n + i]
           /\ \A i \in 1 .. n : hits[i] + Minute < clock
  BY LastMinuteFacts
<1>3. PICK rest \in Seq(Nat) : rest = LastMinute
  BY <1>2, TicksAreNatural
<1>4. Window(rest, accepted, clock)
  BY <1>1, <1>2, <1>3, WindowShrinks DEF HitsInv
<1>5. ~(Len(rest) >= Limit) => Window(Append(rest, clock), Append(accepted, clock), clock)
  BY <1>1, <1>4, WindowGrows
<1>6. /\ clock' = clock
      /\ \/ hits' = rest /\ accepted' = accepted
         \/ /\ ~(Len(rest) >= Limit)
            /\ hits' = Append(rest, clock) /\ accepted' = Append(accepted, clock)
  BY <1>3, DeliverIs
<1> QED
  BY <1>4, <1>5, <1>6 DEF HitsInv

LEMMA HitsStep ==
  ASSUME EdgeTypeOK, HitsInv, [EdgeNext]_edgeVars
  PROVE  HitsInv'
<1>1. CASE Tick
  <2>1. /\ clock \in Nat /\ clock' = clock + 1 /\ UNCHANGED <<hits, accepted>>
        /\ accepted \in Seq(Nat) /\ hits \in Seq(Nat) /\ Minute \in Nat
    BY <1>1, TicksAreNatural, EdgeBounds DEF Tick, EdgeTypeOK
  <2>2. \A i \in 1 .. Len(accepted) : accepted[i] \in Nat
    BY <2>1
  <2>3. \A i \in 1 .. Len(accepted) - Len(hits) : i \in 1 .. Len(accepted)
    BY <2>1
  <2> QED
    BY <2>1, <2>2, <2>3 DEF HitsInv, Window
<1>2. CASE ServerEnds
  <2>1. hits' = <<>> /\ accepted' = <<>>
    BY <1>2 DEF ServerEnds
  <2> QED
    BY <2>1 DEF HitsInv, Window
<1>3. CASE UNCHANGED <<clock, hits, accepted>>
  BY <1>3 DEF HitsInv
<1>4. ASSUME NEW r \in Request, RequestStep(r) PROVE HitsInv'
  BY <1>3, <1>4, DeliverHits DEF RequestStep, ExtractMessages, Process, SendAnswer
<1>5. CASE StreamStep
  BY <1>3, <1>5 DEF StreamStep, Connect, TakeEvent, SendEvent, PublishEvent, Tell, Put, hookVars
<1>6. CASE UNCHANGED edgeVars
  BY <1>3, <1>6 DEF edgeVars, hookVars
<1> QED
  BY <1>1, <1>2, <1>4, <1>5, <1>6 DEF EdgeNext

\* The requests of a minute are next to each other, and no more than Limit.
LEMMA RateHolds ==
  ASSUME EdgeTypeOK, HitsInv
  PROVE  RateIsKept
<1> SUFFICES ASSUME NEW t \in 0 .. MaxTicks
             PROVE  Cardinality({i \in DOMAIN accepted : t <= accepted[i] /\ accepted[i] <= t + Minute})
                      <= Limit
  BY DEF RateIsKept
<1> DEFINE A == Len(accepted)
           S == {i \in DOMAIN accepted : t <= accepted[i] /\ accepted[i] <= t + Minute}
<1>1. /\ A \in Nat /\ DOMAIN accepted = 1 .. A /\ Limit \in Nat \ {0} /\ Minute \in Nat /\ t \in Nat
      /\ \A i \in 1 .. A : accepted[i] \in Nat
  <2>1. accepted \in Seq(Nat)
    BY TicksAreNatural DEF EdgeTypeOK
  <2> QED
    BY <2>1, EdgeBounds
<1>2. /\ \A i, j \in 1 .. A : i <= j => accepted[i] <= accepted[j]
      /\ \A i \in 1 .. A : i + Limit <= A => accepted[i] + Minute < accepted[i + Limit]
  BY DEF HitsInv, Window
<1> HIDE DEF A
<1>3. CASE S = {}
  <2>1. Cardinality(S) = 0
    <3> HIDE DEF S
    <3> QED
      BY <1>3, FS_EmptySet
  <2> QED
    BY <1>1, <2>1
<1>4. CASE S # {}
  <2>1. S \in SUBSET Nat
    BY <1>1
  <2>2. PICK m \in S : \A i \in S : m <= i
    <3> HIDE DEF S
    <3> QED
      BY <1>4, <2>1, LeastNumber
  <2>3. ASSUME NEW i \in S PROVE i \in m .. m + Limit - 1
    <3>1. /\ m \in 1 .. A /\ i \in 1 .. A /\ m <= i
          /\ t <= accepted[m] /\ accepted[i] <= t + Minute
      BY <1>1, <2>2
    <3>2. ASSUME i >= m + Limit PROVE FALSE
      <4>1. m + Limit \in 1 .. A /\ m + Limit <= A /\ m + Limit <= i
        BY <1>1, <3>1, <3>2
      <4>2. accepted[m] + Minute < accepted[m + Limit] /\ accepted[m + Limit] <= accepted[i]
        BY <1>2, <3>1, <4>1
      <4> QED
        BY <1>1, <3>1, <4>1, <4>2
    <3> QED
      BY <1>1, <3>1, <3>2
  <2>4. m \in Int /\ m + Limit - 1 \in Int /\ m <= m + Limit - 1
    BY <1>1, <2>1
  <2> DEFINE last == m + Limit - 1
  <2>5. IsFiniteSet(m .. last) /\ Cardinality(m .. last) = IF m > last THEN 0 ELSE last - m + 1
    <3> HIDE DEF last
    <3> QED
      BY <2>4, FS_Interval DEF last
  <2>6. S \subseteq m .. last
    BY <2>3
  <2>7. Cardinality(S) <= Cardinality(m .. last)
    <3> HIDE DEF S, last
    <3> QED
      BY <2>5, <2>6, FS_Subset
  <2>8. Cardinality(m .. last) = Limit
    <3>1. last - m + 1 = Limit /\ ~(m > last)
      BY <1>1, <2>1
    <3> QED
      BY <2>5, <3>1
  <2>9. Cardinality(S) <= Limit
    <3> HIDE DEF S
    <3> QED
      BY <2>7, <2>8
  <2> QED
    BY <2>9
<1> QED
  BY <1>3, <1>4

-----------------------------------------------------------------------------
(* Messages that are delivered again.                                      *)

\* A message that is remembered is processed once at most: what has been given to
\* the agent is remembered, and what one request is still to give it no other is.
Once(i) ==
  /\ processed[i] <= 1 /\ (processed[i] > 0 => i \in ToSet(seen))
  /\ \A r \in Request : i \in ToSet(request[r].todo) => processed[i] = 0 /\ i \in ToSet(seen)
  /\ \A r, q \in Request :
       i \in ToSet(request[r].todo) /\ i \in ToSet(request[q].todo) => r = q
  /\ \A r \in Request : \A a, b \in DOMAIN request[r].todo :
       request[r].todo[a] = i /\ request[r].todo[b] = i => a = b
SeenInv == \A i \in Ids \ forgotten : Once(i)

LEMMA SeenHolds ==
  ASSUME EdgeTypeOK, SeenInv
  PROVE  DuplicatesAreIgnored
<1> SUFFICES ASSUME NEW i \in Ids, processed[i] > 1, i \notin forgotten PROVE FALSE
  BY DEF DuplicatesAreIgnored
<1>1. processed[i] \in Nat /\ processed[i] <= 1
  BY DEF EdgeTypeOK, SeenInv, Once
<1> QED
  BY <1>1

LEMMA RequestGoesOnce ==
  ASSUME HookTypeOK, NEW i \in Ids, Once(i), NEW r \in Request, NEW record \in RequestRecord,
         request' = [request EXCEPT ![r] = record],
         processed'[i] <= 1, processed'[i] > 0 => i \in ToSet(seen'),
         i \in ToSet(record.todo) => processed'[i] = 0 /\ i \in ToSet(seen'),
         \A q \in Request \ {r} : i \in ToSet(request[q].todo) =>
           processed'[i] = 0 /\ i \in ToSet(seen') /\ i \notin ToSet(record.todo),
         \A a, b \in DOMAIN record.todo : record.todo[a] = i /\ record.todo[b] = i => a = b
  PROVE  Once(i)'
<1>1. request'[r] = record /\ \A q \in Request \ {r} : request'[q] = request[q]
  BY DEF HookTypeOK
<1> QED
  BY <1>1 DEF Once

LEMMA NothingListed == ToSet(<<>>) = {} /\ DOMAIN <<>> = {}
  BY DEF ToSet

LEMMA DeliverSeen ==
  ASSUME EdgeTypeOK, SeenInv, NEW r \in Request, NEW w \in Webhook, Deliver(r, w)
  PROVE  SeenInv'
<1>1. HookTypeOK
  BY EdgeTypes
<1>2. UNCHANGED <<seen, forgotten, processed>>
  BY DeliverIs
<1>3. CASE UNCHANGED request
  BY <1>2, <1>3 DEF SeenInv, Once
<1>4. CASE request' = [request EXCEPT ![r] = [Free EXCEPT !.at = "arrived", !.hook = w]]
  <2> DEFINE record == [Free EXCEPT !.at = "arrived", !.hook = w]
  <2>1. record \in RequestRecord /\ record.todo = <<>>
    BY FreeIs DEF RequestRecord
  <2>2. request' = [request EXCEPT ![r] = record]
    BY <1>4
  <2> HIDE DEF record
  <2>3. ASSUME NEW i \in Ids \ forgotten PROVE Once(i)'
    <3>1. Once(i)
      BY DEF SeenInv
    <3>2. i \notin ToSet(record.todo) /\ DOMAIN record.todo = {}
      BY <2>1, NothingListed
    <3>3. processed'[i] <= 1 /\ (processed'[i] > 0 => i \in ToSet(seen'))
      BY <1>2, <3>1 DEF Once
    <3>4. \A q \in Request \ {r} : i \in ToSet(request[q].todo) =>
           processed'[i] = 0 /\ i \in ToSet(seen') /\ i \notin ToSet(record.todo)
      BY <1>2, <3>1, <3>2 DEF Once
    <3>5. \A a, b \in DOMAIN record.todo : record.todo[a] = i /\ record.todo[b] = i => a = b
      BY <3>2
    <3> QED
      BY <1>1, <2>1, <2>2, <3>1, <3>2, <3>3, <3>4, <3>5, RequestGoesOnce
  <2> QED
    BY <1>2, <2>3 DEF SeenInv
<1> QED
  BY <1>3, <1>4, DeliverIs

LEMMA ExtractSeen ==
  ASSUME HookTypeOK, SeenInv, NEW r \in Request, ExtractMessages(r)
  PROVE  SeenInv'
<1>1. PICK found, record :
           /\ Noticed(found, seen, forgotten) /\ record \in RequestRecord
           /\ request' = [request EXCEPT ![r] = record] /\ record.todo = found.new
           /\ seen' = found.seen /\ forgotten' = found.out
           /\ UNCHANGED processed
  BY ExtractGoes
<1>2. /\ forgotten \subseteq found.out /\ ToSet(seen) \subseteq ToSet(found.seen) \cup found.out
      /\ \A i \in ToSet(found.new) \ found.out : i \in ToSet(found.seen) /\ i \notin ToSet(seen)
      /\ \A a, b \in DOMAIN found.new :
           found.new[a] = found.new[b] /\ found.new[a] \notin found.out => a = b
  BY <1>1 DEF Noticed
<1>3. ASSUME NEW i \in Ids \ found.out PROVE Once(i)'
  <2>1. Once(i) /\ processed[i] \in Nat
    BY <1>2 DEF SeenInv, HookTypeOK
  <2>2. processed'[i] <= 1 /\ (processed'[i] > 0 => i \in ToSet(seen'))
    BY <1>1, <1>2, <2>1 DEF Once
  <2>3. i \in ToSet(record.todo) => processed'[i] = 0 /\ i \in ToSet(seen')
    BY <1>1, <1>2, <2>1 DEF Once
  <2>4. \A q \in Request \ {r} : i \in ToSet(request[q].todo) =>
           processed'[i] = 0 /\ i \in ToSet(seen') /\ i \notin ToSet(record.todo)
    BY <1>1, <1>2, <2>1 DEF Once
  <2>5. \A a, b \in DOMAIN record.todo : record.todo[a] = i /\ record.todo[b] = i => a = b
    BY <1>1, <1>2
  <2> QED
    BY <1>1, <2>1, <2>2, <2>3, <2>4, <2>5, RequestGoesOnce
<1> QED
  BY <1>1, <1>3 DEF SeenInv

LEMMA ProcessSeen ==
  ASSUME HookTypeOK, SeenInv, NEW r \in Request, Process(r)
  PROVE  SeenInv'
<1>1. PICK record \in RequestRecord :
           /\ request' = [request EXCEPT ![r] = record]
           /\ record.todo = Tail(request[r].todo) /\ request[r].todo # <<>>
           /\ Head(request[r].todo) \in Ids
           /\ processed' = [processed EXCEPT ![Head(request[r].todo)] = @ + 1]
           /\ UNCHANGED <<seen, forgotten>>
  BY ProcessIs
<1>2. PICK todo \in Seq(Ids), id \in Ids : todo = request[r].todo /\ id = Head(todo) /\ todo # <<>>
  BY <1>1, RequestIs
<1>3. /\ Tail(todo) \in Seq(Ids) /\ id = todo[1] /\ Len(todo) \in Nat \ {0}
      /\ Len(Tail(todo)) = Len(todo) - 1 /\ \A a \in 1 .. Len(todo) - 1 : Tail(todo)[a] = todo[a + 1]
      /\ ToSet(todo) = ToSet(Tail(todo)) \cup {id}
  BY <1>2, TakenSet
<1>4. /\ record.todo = Tail(todo) /\ processed' = [processed EXCEPT ![id] = processed[id] + 1]
  BY <1>1, <1>2 DEF HookTypeOK
<1>5. ASSUME NEW i \in Ids \ forgotten PROVE Once(i)'
  <2>1. Once(i) /\ processed[i] \in Nat /\ processed \in [Ids -> Nat]
    BY DEF SeenInv, HookTypeOK
  <2>2. ASSUME NEW a \in DOMAIN record.todo, NEW b \in DOMAIN record.todo,
               record.todo[a] = i, record.todo[b] = i
        PROVE  a = b
    <3>1. /\ a \in 1 .. Len(todo) - 1 /\ b \in 1 .. Len(todo) - 1
          /\ a + 1 \in DOMAIN todo /\ b + 1 \in DOMAIN todo
      BY <1>3, <1>4, <2>2
    <3>2. todo[a + 1] = i /\ todo[b + 1] = i
      BY <1>3, <1>4, <2>2, <3>1
    <3>3. a + 1 = b + 1
      BY <1>2, <2>1, <3>1, <3>2 DEF Once
    <3> QED
      BY <3>1, <3>3
  <2>3. CASE i = id
    <3>1. i \in ToSet(request[r].todo)
      BY <1>2, <1>3, <2>3
    <3>2. processed[i] = 0 /\ i \in ToSet(seen) /\ \A q \in Request \ {r} : i \notin ToSet(request[q].todo)
      BY <2>1, <3>1 DEF Once
    <3>3. processed'[i] <= 1 /\ i \in ToSet(seen')
      BY <1>1, <1>4, <2>1, <2>3, <3>2
    <3>4. i \notin ToSet(record.todo)
      <4>1. ASSUME NEW a \in 1 .. Len(todo) - 1, Tail(todo)[a] = i PROVE FALSE
        <5>1. a + 1 \in DOMAIN todo /\ 1 \in DOMAIN todo /\ a + 1 # 1 /\ todo[a + 1] = i /\ todo[1] = i
          BY <1>3, <2>3, <4>1
        <5> QED
          BY <1>2, <2>1, <5>1 DEF Once
      <4>2. DOMAIN Tail(todo) = 1 .. Len(todo) - 1
        BY <1>3
      <4> QED
        BY <1>4, <4>1, <4>2 DEF ToSet
    <3>5. \A q \in Request \ {r} : i \in ToSet(request[q].todo) =>
           processed'[i] = 0 /\ i \in ToSet(seen') /\ i \notin ToSet(record.todo)
      BY <3>2
    <3> QED
      BY <1>1, <2>1, <2>2, <3>3, <3>4, <3>5, RequestGoesOnce
  <2>4. CASE i # id
    <3>1. processed'[i] = processed[i] /\ seen' = seen
      BY <1>1, <1>4, <2>1, <2>4
    <3>2. i \in ToSet(record.todo) => i \in ToSet(request[r].todo)
      BY <1>2, <1>3, <1>4
    <3>3. processed'[i] <= 1 /\ (processed'[i] > 0 => i \in ToSet(seen'))
      BY <2>1, <3>1 DEF Once
    <3>4. i \in ToSet(record.todo) => processed'[i] = 0 /\ i \in ToSet(seen')
      BY <2>1, <3>1, <3>2 DEF Once
    <3>5. \A q \in Request \ {r} : i \in ToSet(request[q].todo) =>
           processed'[i] = 0 /\ i \in ToSet(seen') /\ i \notin ToSet(record.todo)
      BY <2>1, <3>1, <3>2 DEF Once
    <3> QED
      BY <1>1, <2>1, <2>2, <3>3, <3>4, <3>5, RequestGoesOnce
  <2> QED
    BY <2>3, <2>4
<1> QED
  BY <1>1, <1>5 DEF SeenInv

LEMMA SendAnswerSeen ==
  ASSUME HookTypeOK, SeenInv, NEW r \in Request, SendAnswer(r)
  PROVE  SeenInv'
<1>1. PICK record \in RequestRecord :
           /\ request' = [request EXCEPT ![r] = record]
           /\ record.todo = request[r].todo \/ record.todo = <<>>
           /\ UNCHANGED <<seen, forgotten, processed>>
  BY SendAnswerIs
<1>2. ASSUME NEW i \in Ids \ forgotten PROVE Once(i)'
  <2>1. Once(i)
    BY DEF SeenInv
  <2>2. /\ i \in ToSet(record.todo) => i \in ToSet(request[r].todo)
        /\ \A a, b \in DOMAIN record.todo : record.todo[a] = i /\ record.todo[b] = i => a = b
    BY <1>1, <2>1, NothingListed DEF Once
  <2>3. processed'[i] <= 1 /\ (processed'[i] > 0 => i \in ToSet(seen'))
    BY <1>1, <2>1 DEF Once
  <2>4. i \in ToSet(record.todo) => processed'[i] = 0 /\ i \in ToSet(seen')
    BY <1>1, <2>1, <2>2 DEF Once
  <2>5. \A q \in Request \ {r} : i \in ToSet(request[q].todo) =>
           processed'[i] = 0 /\ i \in ToSet(seen') /\ i \notin ToSet(record.todo)
    BY <1>1, <2>1, <2>2 DEF Once
  <2> QED
    BY <1>1, <2>1, <2>2, <2>3, <2>4, <2>5, RequestGoesOnce
<1> QED
  BY <1>1, <1>2 DEF SeenInv

LEMMA SeenStep ==
  ASSUME EdgeTypeOK, SeenInv, [EdgeNext]_edgeVars
  PROVE  SeenInv'
<1>0. HookTypeOK
  BY EdgeTypes
<1>1. CASE UNCHANGED <<request, seen, forgotten, processed>>
  BY <1>1 DEF SeenInv, Once
<1>2. CASE Tick
  BY <1>1, <1>2 DEF Tick
<1>3. ASSUME NEW r \in Request, RequestStep(r) PROVE SeenInv'
  BY <1>0, <1>3, DeliverSeen, ExtractSeen, ProcessSeen, SendAnswerSeen DEF RequestStep
<1>4. CASE StreamStep
  BY <1>1, <1>4 DEF StreamStep, Connect, TakeEvent, SendEvent, PublishEvent, Tell, Put, hookVars
<1>5. CASE ServerEnds
  <2>1. /\ request' = [r \in Request |-> Free] /\ seen' = <<>>
        /\ forgotten' = forgotten \cup ToSet(seen) /\ UNCHANGED processed
    BY <1>5 DEF ServerEnds
  <2>2. ASSUME NEW i \in Ids \ forgotten' PROVE Once(i)'
    <3>1. Once(i) /\ i \notin ToSet(seen) /\ processed[i] \in Nat
      BY <1>0, <2>1 DEF SeenInv, HookTypeOK
    <3>2. processed'[i] = 0
      BY <2>1, <3>1 DEF Once
    <3>3. \A r \in Request : request'[r].todo = <<>>
      BY <2>1, FreeIs
    <3> QED
      BY <3>2, <3>3, NothingListed DEF Once
  <2> QED
    BY <2>1, <2>2 DEF SeenInv
<1>6. CASE UNCHANGED edgeVars
  BY <1>1, <1>6 DEF edgeVars, hookVars
<1> QED
  BY <1>2, <1>3, <1>4, <1>5, <1>6 DEF EdgeNext

-----------------------------------------------------------------------------
(* The stream.                                                             *)

Before(A, B) == \A a \in A, b \in B : a[1] = b[1] => a[2] < b[2]
Increasing(events) ==
  \A i, j \in 1 .. Len(events) : i < j /\ events[i][1] = events[j][1] => events[i][2] < events[j][2]
Ordered(calls) ==
  \A i, j \in 1 .. Len(calls) :
    /\ i < j /\ calls[i].socket = calls[j].socket
    /\ calls[i].event[1] = calls[j].event[1]
    => calls[i].event[2] < calls[j].event[2]

LEMMA EventFacts ==
  /\ NoEvent \notin Events
  /\ \A e \in Events : /\ e[1] \in Publisher /\ e[2] \in 1 .. MaxEvents /\ e[2] \in Nat
                       /\ e = <<e[1], e[2]>>
<1>1. ASSUME NEW e \in Events
      PROVE  /\ e # NoEvent /\ e[1] \in Publisher /\ e[2] \in 1 .. MaxEvents /\ e[2] \in Nat
             /\ e = <<e[1], e[2]>>
  <2>1. PICK p \in Publisher, n \in 1 .. MaxEvents : e = <<p, n>>
    BY DEF Events
  <2>2. <<p, n>> # <<>>
    <3>1. Len(<<p, n>>) = 2 /\ Len(<<>>) = 0
      OBVIOUS
    <3> QED
      BY <3>1
  <2> QED
    BY <2>1, <2>2, EdgeBounds DEF NoEvent
<1> QED
  BY <1>1

LEMMA IncreasingMore ==
  ASSUME NEW events \in Seq(Events), NEW e \in Events, Increasing(events),
         Before(ToSet(events), {e})
  PROVE  Increasing(Append(events, e))
<1> DEFINE more == Append(events, e)
           L == Len(events)
<1>1. /\ Len(more) = L + 1 /\ L \in Nat /\ more[L + 1] = e
      /\ \A i \in 1 .. L : more[i] = events[i] /\ events[i] \in ToSet(events)
  <2>1. \A i \in 1 .. L : events[i] \in ToSet(events)
    BY DEF ToSet
  <2> QED
    BY <2>1, AppendedSet
<1> HIDE DEF more, L
<1>2. ASSUME NEW i \in 1 .. L + 1, NEW j \in 1 .. L + 1, i < j, more[i][1] = more[j][1]
      PROVE  more[i][2] < more[j][2]
  <2>1. i \in 1 .. L /\ (j = L + 1 \/ j \in 1 .. L)
    BY <1>1, <1>2
  <2>2. CASE j = L + 1
    BY <1>1, <1>2, <2>1, <2>2 DEF Before
  <2>3. CASE j \in 1 .. L
    BY <1>1, <1>2, <2>1, <2>3 DEF Increasing, L
  <2> QED
    BY <2>1, <2>2, <2>3
<1> QED
  BY <1>1, <1>2 DEF Increasing, more

LEMMA IncreasingLess ==
  ASSUME NEW events \in Seq(Events), events # <<>>, Increasing(events)
  PROVE  Increasing(Tail(events)) /\ Before({Head(events)}, ToSet(Tail(events)))
<1> DEFINE rest == Tail(events)
           L == Len(events)
<1>1. /\ L \in Nat \ {0} /\ Len(rest) = L - 1 /\ Head(events) = events[1]
      /\ \A i \in 1 .. L - 1 : rest[i] = events[i + 1]
  BY TakenSet
<1>2. \A b \in ToSet(rest) : \E i \in 1 .. L - 1 : b = rest[i]
  <2>1. DOMAIN rest = 1 .. L - 1
    BY <1>1
  <2> QED
    BY <2>1 DEF ToSet
<1> HIDE DEF rest, L
<1>3. \A i \in 1 .. L - 1 : i + 1 \in 1 .. L /\ 1 \in 1 .. L /\ 1 < i + 1
  BY <1>1
<1>4. Increasing(rest)
  <2>1. ASSUME NEW i \in 1 .. L - 1, NEW j \in 1 .. L - 1, i < j, rest[i][1] = rest[j][1]
        PROVE  rest[i][2] < rest[j][2]
    <3>1. i + 1 < j + 1 /\ i + 1 \in 1 .. L /\ j + 1 \in 1 .. L
      BY <1>1, <2>1
    <3> QED
      BY <1>1, <2>1, <3>1 DEF Increasing, L
  <2> QED
    BY <1>1, <2>1 DEF Increasing
<1>5. Before({events[1]}, ToSet(rest))
  <2>1. ASSUME NEW b \in ToSet(rest), events[1][1] = b[1] PROVE events[1][2] < b[2]
    <3>1. PICK i \in 1 .. L - 1 : b = events[i + 1]
      BY <1>1, <1>2
    <3> QED
      BY <1>3, <2>1, <3>1 DEF Increasing, L
  <2> QED
    BY <2>1 DEF Before
<1> QED
  BY <1>1, <1>4, <1>5 DEF rest

LEMMA OrderedMore ==
  ASSUME NEW calls \in Seq(EventCall), NEW call \in EventCall, Ordered(calls),
         \A c \in ToSet(calls) : c.socket = call.socket /\ c.event[1] = call.event[1] =>
                                   c.event[2] < call.event[2]
  PROVE  Ordered(Append(calls, call))
<1> DEFINE more == Append(calls, call)
           L == Len(calls)
<1>1. /\ Len(more) = L + 1 /\ L \in Nat /\ more[L + 1] = call
      /\ \A i \in 1 .. L : more[i] = calls[i] /\ calls[i] \in ToSet(calls)
  <2>1. \A i \in 1 .. L : calls[i] \in ToSet(calls)
    BY DEF ToSet
  <2> QED
    BY <2>1, AppendedSet
<1> HIDE DEF more, L
<1>2. ASSUME NEW i \in 1 .. L + 1, NEW j \in 1 .. L + 1, i < j, more[i].socket = more[j].socket,
             more[i].event[1] = more[j].event[1]
      PROVE  more[i].event[2] < more[j].event[2]
  <2>1. i \in 1 .. L /\ (j = L + 1 \/ j \in 1 .. L)
    BY <1>1, <1>2
  <2>2. CASE j = L + 1
    BY <1>1, <1>2, <2>1, <2>2
  <2>3. CASE j \in 1 .. L
    BY <1>1, <1>2, <2>1, <2>3 DEF Ordered, L
  <2> QED
    BY <2>1, <2>2, <2>3
<1> QED
  BY <1>1, <1>2 DEF Ordered, more

LEMMA OrderedLess ==
  ASSUME NEW calls \in Seq(EventCall), calls # <<>>, Ordered(calls)
  PROVE  /\ Ordered(Tail(calls))
         /\ \A c \in ToSet(Tail(calls)) :
              Head(calls).socket = c.socket /\ Head(calls).event[1] = c.event[1] =>
                Head(calls).event[2] < c.event[2]
<1> DEFINE rest == Tail(calls)
           L == Len(calls)
<1>1. /\ L \in Nat \ {0} /\ Len(rest) = L - 1 /\ Head(calls) = calls[1]
      /\ \A i \in 1 .. L - 1 : rest[i] = calls[i + 1]
  BY TakenSet
<1>2. \A c \in ToSet(rest) : \E i \in 1 .. L - 1 : c = rest[i]
  <2>1. DOMAIN rest = 1 .. L - 1
    BY <1>1
  <2> QED
    BY <2>1 DEF ToSet
<1> HIDE DEF rest, L
<1>3. \A i \in 1 .. L - 1 : i + 1 \in 1 .. L /\ 1 \in 1 .. L /\ 1 < i + 1
  BY <1>1
<1>4. Ordered(rest)
  <2>1. ASSUME NEW i \in 1 .. L - 1, NEW j \in 1 .. L - 1, i < j,
               rest[i].socket = rest[j].socket, rest[i].event[1] = rest[j].event[1]
        PROVE  rest[i].event[2] < rest[j].event[2]
    <3>1. i + 1 < j + 1 /\ i + 1 \in 1 .. L /\ j + 1 \in 1 .. L
      BY <1>1, <2>1
    <3> QED
      BY <1>1, <2>1, <3>1 DEF Ordered, L
  <2> QED
    BY <1>1, <2>1 DEF Ordered
<1>5. ASSUME NEW c \in ToSet(rest), calls[1].socket = c.socket, calls[1].event[1] = c.event[1]
      PROVE  calls[1].event[2] < c.event[2]
  <2>1. PICK i \in 1 .. L - 1 : c = calls[i + 1]
    BY <1>1, <1>2
  <2> QED
    BY <1>3, <1>5, <2>1 DEF Ordered, L
<1> QED
  BY <1>1, <1>4, <1>5 DEF rest

-----------------------------------------------------------------------------
\* Where the events of a socket are: gone out, being sent, in its queue, or with a
\* call that the loop is still to make.
Gone(s) == ToSet(sent[s])
Out(s) == {sending[s]} \ {NoEvent}
Queued(s) == ToSet(queue[s])
Waiting(s) == {e \in Events : [socket |-> s, event |-> e] \in ToSet(ready)}
On(s) == Gone(s) \cup Out(s) \cup Queued(s) \cup Waiting(s)

\* What has gone further is older; what is on the line has been published, and
\* earlier than an event that the socket's handler is still to be told.
InLine(s) ==
  /\ Increasing(sent[s]) /\ Increasing(queue[s])
  /\ Before(Gone(s), Out(s)) /\ Before(Gone(s), Queued(s)) /\ Before(Gone(s), Waiting(s))
  /\ Before(Out(s), Queued(s)) /\ Before(Out(s), Waiting(s)) /\ Before(Queued(s), Waiting(s))
Announced(s) ==
  \A e \in On(s) : /\ e[2] <= published[e[1]]
                   /\ s \in telling[e[1]] => e[2] < published[e[1]]

\* Of what comes after an event on the line, as long as it is not closed, all is on
\* it too or was dropped, but for what the handler is still to be told.
Complete(s) ==
  \A e \in On(s) : \A n \in 1 .. MaxEvents :
    e[2] < n /\ n <= published[e[1]] =>
      \/ <<e[1], n>> \in On(s) \cup dropped[s]
      \/ n = published[e[1]] /\ s \in telling[e[1]]
Status(s) ==
  /\ stream[s] = "none" => On(s) = {} /\ \A p \in Publisher : s \notin telling[p]
  /\ stream[s] = "closed" => sending[s] = NoEvent
  /\ stream[s] # "closed" => Complete(s)
OnTheLine(s) == InLine(s) /\ Announced(s) /\ Status(s)
LineInv == Ordered(ready) /\ \A s \in Socket : OnTheLine(s)

\* The events are in order, and none is missing between two but those.
Gapless(events, missed) ==
  \A i, j \in DOMAIN events :
    i < j /\ events[i][1] = events[j][1] =>
      /\ events[i][2] < events[j][2]
      /\ \A n \in events[i][2] + 1 .. events[j][2] - 1 :
           \/ <<events[i][1], n>> \in missed
           \/ \E k \in i .. j : events[k] = <<events[i][1], n>>
InOrder(s) == Gapless(sent[s], dropped[s])

LEMMA InOrderAll == StreamIsInOrder <=> \A s \in Socket : InOrder(s)
  BY DEF StreamIsInOrder, InOrder, Gapless

\* A socket that a step does not touch.
LEMMA LineStays ==
  ASSUME NEW s \in Socket, OnTheLine(s), InOrder(s),
         sent'[s] = sent[s], sending'[s] = sending[s], queue'[s] = queue[s],
         dropped'[s] = dropped[s], stream'[s] = stream[s],
         Waiting(s)' = Waiting(s), published' = published,
         \A p \in Publisher : s \in telling'[p] <=> s \in telling[p], StreamTypeOK
  PROVE  OnTheLine(s)' /\ InOrder(s)'
<1>1. /\ Gone(s)' = Gone(s) /\ Out(s)' = Out(s) /\ Queued(s)' = Queued(s) /\ On(s)' = On(s)
  BY DEF Gone, Out, Queued, On
<1>2. InLine(s)'
  BY <1>1 DEF InLine, OnTheLine
<1>3. On(s) \subseteq Events
  <2>1. sent[s] \in Seq(Events) /\ queue[s] \in Seq(Events) /\ sending[s] \in Events \cup {NoEvent}
    BY DEF StreamTypeOK
  <2>2. Gone(s) \subseteq Events /\ Queued(s) \subseteq Events
    BY <2>1 DEF Gone, Queued, ToSet
  <2> QED
    BY <2>1, <2>2 DEF On, Out, Waiting
<1>4. Announced(s)'
  BY <1>1, <1>3, EventFacts DEF Announced, OnTheLine
<1>5. Complete(s) => Complete(s)'
  BY <1>1, <1>3, EventFacts DEF Complete
<1>6. Status(s)'
  BY <1>1, <1>5 DEF Status, OnTheLine
<1>7. InOrder(s)'
  BY DEF InOrder
<1> QED
  BY <1>2, <1>4, <1>6, <1>7 DEF OnTheLine

LEMMA OnEvents ==
  ASSUME StreamTypeOK, NEW s \in Socket
  PROVE  /\ sent[s] \in Seq(Events) /\ queue[s] \in Seq(Events)
         /\ Gone(s) \subseteq Events /\ Out(s) \subseteq Events /\ Queued(s) \subseteq Events
         /\ Waiting(s) \subseteq Events /\ On(s) \subseteq Events
<1>1. sent[s] \in Seq(Events) /\ queue[s] \in Seq(Events) /\ sending[s] \in Events \cup {NoEvent}
  BY DEF StreamTypeOK
<1>2. Gone(s) \subseteq Events /\ Queued(s) \subseteq Events
  BY <1>1 DEF Gone, Queued, ToSet
<1> QED
  BY <1>1, <1>2 DEF On, Out, Waiting

LEMMA GaplessStays ==
  ASSUME NEW events, NEW less, NEW more, less \subseteq more, Gapless(events, less)
  PROVE  Gapless(events, more)
<1> SUFFICES ASSUME NEW i \in DOMAIN events, NEW j \in DOMAIN events,
                    i < j, events[i][1] = events[j][1]
             PROVE  /\ events[i][2] < events[j][2]
                    /\ \A n \in events[i][2] + 1 .. events[j][2] - 1 :
                         \/ <<events[i][1], n>> \in more
                         \/ \E k \in i .. j : events[k] = <<events[i][1], n>>
  BY DEF Gapless
<1>1. /\ events[i][2] < events[j][2]
      /\ \A n \in events[i][2] + 1 .. events[j][2] - 1 :
           \/ <<events[i][1], n>> \in less
           \/ \E k \in i .. j : events[k] = <<events[i][1], n>>
  BY DEF Gapless
<1> QED
  BY <1>1

LEMMA InOrderStays ==
  ASSUME NEW s \in Socket, InOrder(s), sent'[s] = sent[s], dropped[s] \subseteq dropped'[s]
  PROVE  InOrder(s)'
<1>1. Gapless(sent[s], dropped'[s])
  BY GaplessStays DEF InOrder
<1> QED
  BY <1>1 DEF InOrder

\* Events that move along the line, or off it when they are dropped.
LEMMA LineMoves ==
  ASSUME StreamTypeOK, NEW s \in Socket, Announced(s), On(s)' \subseteq On(s),
         On(s) \subseteq On(s)' \cup dropped'[s], dropped[s] \subseteq dropped'[s],
         UNCHANGED <<published, telling>>
  PROVE  Announced(s)' /\ (Complete(s) => Complete(s)')
<1>1. On(s) \subseteq Events
  BY OnEvents
<1>2. Announced(s)'
  BY <1>1 DEF Announced
<1>3. ASSUME Complete(s), NEW e \in On(s)', NEW n \in 1 .. MaxEvents, e[2] < n, n <= published[e[1]]
      PROVE  <<e[1], n>> \in On(s)' \cup dropped'[s] \/ (n = published[e[1]] /\ s \in telling[e[1]])
  BY <1>3 DEF Complete
<1>4. Complete(s) => Complete(s)'
  BY <1>3 DEF Complete
<1> QED
  BY <1>2, <1>4

LEMMA PutLine ==
  ASSUME StreamTypeOK, LineInv, StreamIsInOrder, Put
  PROVE  LineInv' /\ StreamIsInOrder'
<1>1. PICK call \in EventCall : call = Head(ready) /\ Enqueued(call)
  BY PutIs
<1>2. /\ ready # <<>> /\ ready \in Seq(EventCall) /\ ready' = Tail(ready)
      /\ UNCHANGED <<published, telling, stream, sending, sent>>
  BY PutIs DEF StreamTypeOK
<1>3. PICK s \in Socket, e \in Events : s = call.socket /\ e = call.event
  BY DEF EventCall
<1>4. /\ Ordered(ready')
      /\ \A c \in ToSet(ready') : s = c.socket /\ e[1] = c.event[1] => e[2] < c.event[2]
  BY <1>1, <1>2, <1>3, OrderedLess DEF LineInv
<1>5. ToSet(ready) = ToSet(ready') \cup {call}
  BY <1>1, <1>2, TakenSet
<1>6. /\ \A t \in Socket \ {s} : Waiting(t)' = Waiting(t)
      /\ Waiting(s) = Waiting(s)' \cup {e}
  <2>1. call = [socket |-> s, event |-> e]
    BY <1>3 DEF EventCall
  <2>2. \A t \in Socket, d \in Events :
          [socket |-> t, event |-> d] = call <=> t = s /\ d = e
    BY <2>1
  <2> QED
    BY <1>3, <1>5, <2>1, <2>2 DEF Waiting
<1>7. Before({e}, Waiting(s)')
  <2>1. ASSUME NEW d \in Waiting(s)', e[1] = d[1] PROVE e[2] < d[2]
    <3>1. [socket |-> s, event |-> d] \in ToSet(ready')
      BY <2>1 DEF Waiting
    <3> QED
      BY <1>4, <2>1, <3>1
  <2> QED
    BY <2>1 DEF Before
<1>8. /\ Gone(s)' = Gone(s) /\ Out(s)' = Out(s)
      /\ \A t \in Socket : OnTheLine(t) /\ InOrder(t)
  BY <1>2, InOrderAll DEF Gone, Out, LineInv
<1>9. InLine(s) /\ Announced(s) /\ Status(s)
  BY <1>8 DEF OnTheLine
<1>10. CASE queue' = [queue EXCEPT ![s] = Append(queue[s], e)] /\ UNCHANGED dropped
  <2>1. queue[s] \in Seq(Events)
    BY OnEvents
  <2>2. queue'[s] = Append(queue[s], e) /\ \A t \in Socket \ {s} : queue'[t] = queue[t]
    BY <1>10 DEF StreamTypeOK
  <2>3. Queued(s)' = Queued(s) \cup {e}
    BY <2>1, <2>2, AppendedSet DEF Queued
  <2>4. Before(Queued(s), {e}) /\ Increasing(queue[s])
    BY <1>6, <1>9 DEF InLine, Before
  <2>5. Increasing(queue'[s])
    BY <2>1, <2>2, <2>4, IncreasingMore DEF Queued
  <2>6. InLine(s)'
    <3>1. /\ Before(Gone(s), Queued(s)') /\ Before(Out(s), Queued(s)')
          /\ Before(Queued(s)', Waiting(s)')
          /\ Before(Gone(s), Waiting(s)') /\ Before(Out(s), Waiting(s)')
      BY <1>6, <1>7, <1>9, <2>3 DEF InLine, Before
    <3> QED
      BY <1>2, <1>8, <1>9, <2>5, <3>1 DEF InLine
  <2>7. On(s)' = On(s)
    BY <1>6, <1>8, <2>3 DEF On
  <2>8. Announced(s)' /\ (Complete(s) => Complete(s)')
    BY <1>2, <1>9, <1>10, <2>7, LineMoves
  <2>9. Status(s)' /\ InOrder(s)'
    <3>1. Status(s)'
      BY <1>2, <1>9, <2>7, <2>8 DEF Status
    <3> QED
      BY <1>2, <1>8, <1>10, <3>1, InOrderStays
  <2>10. ASSUME NEW t \in Socket \ {s} PROVE OnTheLine(t)' /\ InOrder(t)'
    BY <1>2, <1>6, <1>8, <1>10, <2>2, LineStays
  <2>11. \A t \in Socket : OnTheLine(t)' /\ InOrder(t)'
    BY <2>6, <2>8, <2>9, <2>10 DEF OnTheLine
  <2> QED
    BY <1>4, <2>11 DEF LineInv, StreamIsInOrder, InOrder, Gapless
<1>11. CASE dropped' = [dropped EXCEPT ![s] = dropped[s] \cup {e}] /\ UNCHANGED queue
  <2>1. dropped'[s] = dropped[s] \cup {e} /\ \A t \in Socket \ {s} : dropped'[t] = dropped[t]
    BY <1>11 DEF StreamTypeOK
  <2>2. Queued(s)' = Queued(s)
    BY <1>11 DEF Queued
  <2>3. InLine(s)'
    <3>1. /\ Before(Queued(s), Waiting(s)')
          /\ Before(Gone(s), Waiting(s)') /\ Before(Out(s), Waiting(s)')
      BY <1>6, <1>9 DEF InLine, Before
    <3> QED
      BY <1>2, <1>8, <1>9, <1>11, <2>2, <3>1 DEF InLine
  <2>4. On(s)' \subseteq On(s) /\ On(s) \subseteq On(s)' \cup dropped'[s]
    BY <1>6, <1>8, <2>1, <2>2 DEF On
  <2>5. Announced(s)' /\ (Complete(s) => Complete(s)')
    BY <1>2, <1>9, <2>1, <2>4, LineMoves
  <2>6. Status(s)'
    BY <1>2, <1>9, <2>4, <2>5 DEF Status
  <2>7. InOrder(s)'
    BY <1>2, <1>8, <2>1, InOrderStays
  <2>8. ASSUME NEW t \in Socket \ {s} PROVE OnTheLine(t)' /\ InOrder(t)'
    BY <1>2, <1>6, <1>8, <1>11, <2>1, LineStays
  <2>9. \A t \in Socket : OnTheLine(t)' /\ InOrder(t)'
    BY <2>3, <2>5, <2>6, <2>7, <2>8 DEF OnTheLine
  <2> QED
    BY <1>4, <2>9 DEF LineInv, StreamIsInOrder, InOrder, Gapless
<1> QED
  BY <1>1, <1>3, <1>10, <1>11, EnqueuedIs

LEMMA TellLine ==
  ASSUME StreamTypeOK, LineInv, StreamIsInOrder,
         NEW p \in Publisher, NEW s \in Socket, Tell(p, s)
  PROVE  LineInv' /\ StreamIsInOrder'
<1>1. PICK e \in Events : e = <<p, published[p]>>
  BY TellIs DEF Events
<1> DEFINE call == [socket |-> s, event |-> e]
<1>2. /\ s \in telling[p] /\ ready \in Seq(EventCall) /\ call \in EventCall
      /\ ready' = Append(ready, call) /\ telling' = [telling EXCEPT ![p] = telling[p] \ {s}]
      /\ UNCHANGED <<published, stream, queue, sending, sent, dropped>>
      /\ published[p] \in Nat
  BY <1>1, TellIs, EdgeBounds DEF StreamTypeOK
<1>3. /\ Gone(s)' = Gone(s) /\ Out(s)' = Out(s) /\ Queued(s)' = Queued(s)
      /\ \A t \in Socket : OnTheLine(t) /\ InOrder(t)
  BY <1>2, InOrderAll DEF Gone, Out, Queued, LineInv
<1>4. InLine(s) /\ Announced(s) /\ Status(s)
  BY <1>3 DEF OnTheLine
<1>5. ToSet(ready') = ToSet(ready) \cup {call}
  <2> HIDE DEF call
  <2> QED
    BY <1>2, AppendedSet
<1>6. /\ \A t \in Socket \ {s} : Waiting(t)' = Waiting(t)
      /\ Waiting(s)' = Waiting(s) \cup {e}
  <2>1. \A t \in Socket, d \in Events :
          [socket |-> t, event |-> d] = call <=> t = s /\ d = e
    OBVIOUS
  <2> HIDE DEF call
  <2> QED
    BY <1>5, <2>1 DEF Waiting
<1>7. Before(On(s), {e})
  BY <1>1, <1>2, <1>4 DEF Announced, Before
<1>8. Ordered(ready')
  <2>1. ASSUME NEW c \in ToSet(ready), c.socket = s, c.event[1] = e[1]
        PROVE  c.event[2] < e[2]
    <3>1. c \in EventCall
      BY <1>2, <2>1 DEF ToSet
    <3>2. c.event \in Events /\ c = [socket |-> s, event |-> c.event]
      BY <2>1, <3>1 DEF EventCall
    <3>3. c.event \in On(s)
      BY <2>1, <3>2 DEF Waiting, On
    <3> QED
      BY <1>7, <2>1, <3>3 DEF Before
  <2>2. \A c \in ToSet(ready) : c.socket = call.socket /\ c.event[1] = call.event[1] =>
                                  c.event[2] < call.event[2]
    BY <2>1
  <2> HIDE DEF call
  <2> QED
    BY <1>2, <2>2, OrderedMore DEF LineInv
<1> HIDE DEF call
<1>9. On(s)' = On(s) \cup {e}
  BY <1>3, <1>6 DEF On
<1>10. InLine(s)'
  <2>1. /\ Before(Gone(s), Waiting(s)') /\ Before(Out(s), Waiting(s)')
        /\ Before(Queued(s), Waiting(s)')
    BY <1>4, <1>6, <1>7 DEF InLine, On, Before
  <2> QED
    BY <1>2, <1>3, <1>4, <2>1 DEF InLine
<1>11. \A q \in Publisher : telling'[q] = IF q = p THEN telling[p] \ {s} ELSE telling[q]
  BY <1>2 DEF StreamTypeOK
<1>12. Announced(s)'
  <2>1. ASSUME NEW d \in On(s)'
        PROVE  d[2] <= published[d[1]] /\ (s \in telling'[d[1]] => d[2] < published[d[1]])
    <3>1. CASE d = e
      BY <1>1, <1>2, <1>11, <3>1
    <3>2. CASE d # e
      <4>1. d \in On(s) /\ d[1] \in Publisher
        BY <1>9, <3>2, OnEvents, EventFacts
      <4> QED
        BY <1>4, <1>11, <4>1 DEF Announced
    <3> QED
      BY <3>1, <3>2
  <2> QED
    BY <1>2, <2>1 DEF Announced
<1>13. ASSUME Complete(s) PROVE Complete(s)'
  <2>1. ASSUME NEW d \in On(s)', NEW n \in 1 .. MaxEvents, d[2] < n, n <= published[d[1]]
        PROVE  \/ <<d[1], n>> \in On(s)' \cup dropped[s]
               \/ n = published[d[1]] /\ s \in telling'[d[1]]
    <3>1. CASE d = e
      BY <1>1, <1>2, <2>1, <3>1, EdgeBounds
    <3>2. CASE d # e
      <4>1. d \in On(s) /\ d[1] \in Publisher
        BY <1>9, <3>2, OnEvents, EventFacts
      <4>2. \/ <<d[1], n>> \in On(s) \cup dropped[s]
            \/ n = published[d[1]] /\ s \in telling[d[1]]
        BY <1>13, <2>1, <4>1 DEF Complete
      <4>3. d[1] = p /\ n = published[d[1]] => <<d[1], n>> = e
        BY <1>1
      <4> QED
        BY <1>9, <1>11, <4>1, <4>2, <4>3
    <3> QED
      BY <3>1, <3>2
  <2> QED
    BY <1>2, <2>1 DEF Complete
<1>14. Status(s)'
  <2>1. stream[s] # "none"
    BY <1>2, <1>4 DEF Status
  <2> QED
    BY <1>2, <1>4, <1>13, <2>1 DEF Status
<1>15. InOrder(s)'
  BY <1>2, <1>3, InOrderStays
<1>16. ASSUME NEW t \in Socket \ {s} PROVE OnTheLine(t)' /\ InOrder(t)'
  <2>1. \A q \in Publisher : t \in telling'[q] <=> t \in telling[q]
    BY <1>11
  <2> QED
    BY <1>2, <1>3, <1>6, <2>1, LineStays
<1>17. \A t \in Socket : OnTheLine(t)' /\ InOrder(t)'
  BY <1>10, <1>12, <1>14, <1>15, <1>16 DEF OnTheLine
<1> QED
  BY <1>8, <1>17 DEF LineInv, StreamIsInOrder, InOrder, Gapless

LEMMA TakeLine ==
  ASSUME StreamTypeOK, LineInv, StreamIsInOrder, NEW s \in Socket, TakeEvent(s)
  PROVE  LineInv' /\ StreamIsInOrder'
<1>1. PICK e \in Events, rest \in Seq(Events) :
           /\ e = Head(queue[s]) /\ rest = Tail(queue[s])
           /\ queue[s] \in Seq(Events) /\ Len(queue[s]) \in Nat \ {0}
           /\ ToSet(queue[s]) = ToSet(rest) \cup {e}
           /\ stream[s] = "open" /\ sending[s] = NoEvent
           /\ sending' = [sending EXCEPT ![s] = e] /\ queue' = [queue EXCEPT ![s] = rest]
           /\ UNCHANGED <<published, telling, ready, stream, sent, dropped>>
  BY TakeEventIs
<1>2. \A t \in Socket : OnTheLine(t) /\ InOrder(t)
  BY InOrderAll DEF LineInv
<1>3. InLine(s) /\ Announced(s) /\ Status(s)
  BY <1>2 DEF OnTheLine
<1>4. \A t \in Socket : Waiting(t)' = Waiting(t) /\ Gone(t)' = Gone(t)
  BY <1>1 DEF Waiting, Gone
<1>5. /\ sending'[s] = e /\ queue'[s] = rest
      /\ \A t \in Socket \ {s} : sending'[t] = sending[t] /\ queue'[t] = queue[t]
  BY <1>1 DEF StreamTypeOK
<1>6. /\ Out(s) = {} /\ Out(s)' = {e} /\ Queued(s)' = ToSet(rest)
      /\ Queued(s) = Queued(s)' \cup {e}
  BY <1>1, <1>5, EventFacts DEF Out, Queued
<1>7. Increasing(rest) /\ Before({e}, ToSet(rest))
  <2>1. queue[s] # <<>> /\ Increasing(queue[s])
    BY <1>1, <1>3 DEF InLine
  <2> QED
    BY <1>1, <2>1, IncreasingLess
<1>8. InLine(s)'
  <2>1. /\ Before(Gone(s), Out(s)') /\ Before(Gone(s), Queued(s)')
        /\ Before(Out(s)', Queued(s)') /\ Before(Out(s)', Waiting(s)) /\ Before(Queued(s)', Waiting(s))
    BY <1>3, <1>6, <1>7 DEF InLine, Before
  <2> QED
    BY <1>1, <1>3, <1>4, <1>5, <1>7, <2>1 DEF InLine
<1>9. On(s)' = On(s)
  BY <1>4, <1>6 DEF On
<1>10. Announced(s)' /\ (Complete(s) => Complete(s)')
  BY <1>1, <1>3, <1>9, LineMoves
<1>11. Status(s)'
  BY <1>1, <1>3, <1>10 DEF Status
<1>12. InOrder(s)'
  BY <1>1, <1>2, InOrderStays
<1>13. ASSUME NEW t \in Socket \ {s} PROVE OnTheLine(t)' /\ InOrder(t)'
  BY <1>1, <1>2, <1>4, <1>5, LineStays
<1>14. \A t \in Socket : OnTheLine(t)' /\ InOrder(t)'
  BY <1>8, <1>10, <1>11, <1>12, <1>13 DEF OnTheLine
<1>15. Ordered(ready')
  BY <1>1 DEF LineInv
<1> QED
  BY <1>14, <1>15 DEF LineInv, StreamIsInOrder, InOrder, Gapless

\* What is sent next misses nothing that came after an event sent before it: that
\* is on the line or was dropped, and on the line nothing is between the two but
\* what has gone out after the first of them.
LEMMA GaplessMore ==
  ASSUME NEW events \in Seq(Events), NEW e \in Events, NEW missed,
         Increasing(events), Gapless(events, missed), Before(ToSet(events), {e}),
         \A d \in ToSet(events), n \in 1 .. MaxEvents :
           d[1] = e[1] /\ d[2] < n /\ n < e[2] =>
             <<d[1], n>> \in missed \/ <<d[1], n>> \in ToSet(events)
  PROVE  Gapless(Append(events, e), missed)
<1> DEFINE more == Append(events, e)
           L == Len(events)
<1>1. /\ Len(more) = L + 1 /\ L \in Nat /\ more[L + 1] = e /\ DOMAIN more = 1 .. L + 1
      /\ DOMAIN events = 1 .. L
      /\ \A i \in 1 .. L : more[i] = events[i] /\ events[i] \in ToSet(events) /\ events[i] \in Events
  <2>1. \A i \in 1 .. L : events[i] \in ToSet(events)
    BY DEF ToSet
  <2>2. more \in Seq(Events) /\ Len(more) = L + 1
    BY AppendedSet
  <2> QED
    BY <2>1, <2>2, AppendedSet
<1> HIDE DEF more, L
<1>2. ASSUME NEW i \in 1 .. L + 1, NEW j \in 1 .. L + 1, i < j, more[i][1] = more[j][1]
      PROVE  /\ more[i][2] < more[j][2]
             /\ \A n \in more[i][2] + 1 .. more[j][2] - 1 :
                  \/ <<more[i][1], n>> \in missed
                  \/ \E k \in i .. j : more[k] = <<more[i][1], n>>
  <2>1. i \in 1 .. L /\ (j = L + 1 \/ j \in 1 .. L)
    BY <1>1, <1>2
  <2>2. CASE j = L + 1
    <3>1. PICK d \in ToSet(events) : d = events[i] /\ d = more[i]
      BY <1>1, <2>1
    <3>2. more[j] = e /\ d[1] = e[1] /\ d \in Events
      BY <1>1, <1>2, <2>1, <2>2, <3>1
    <3>3. d[2] < e[2]
      BY <3>2 DEF Before
    <3>4. ASSUME NEW n \in d[2] + 1 .. e[2] - 1, <<d[1], n>> \notin missed
          PROVE  \E k \in i .. j : more[k] = <<d[1], n>>
      <4>1. n \in 1 .. MaxEvents /\ d[2] < n /\ n < e[2]
        BY <3>2, EventFacts, EdgeBounds
      <4>2. <<d[1], n>> \in ToSet(events)
        BY <3>2, <3>4, <4>1
      <4>3. PICK k \in 1 .. L : events[k] = <<d[1], n>>
        BY <1>1, <4>2 DEF ToSet
      <4>4. events[k][1] = d[1] /\ events[k][2] = n
        BY <4>3
      <4>5. ~(k < i)
        <5> SUFFICES ASSUME k < i PROVE FALSE
          OBVIOUS
        <5>1. events[k][2] < events[i][2]
          BY <2>1, <3>1, <4>4 DEF Increasing, L
        <5> QED
          BY <3>1, <3>2, <4>1, <4>4, <5>1, EventFacts
      <4>6. k \in i .. j /\ more[k] = <<d[1], n>>
        BY <1>1, <2>1, <2>2, <4>3, <4>5
      <4> QED
        BY <4>6
    <3> QED
      BY <3>1, <3>2, <3>3, <3>4
  <2>3. CASE j \in 1 .. L
    <3>1. more[i] = events[i] /\ more[j] = events[j] /\ i \in DOMAIN events /\ j \in DOMAIN events
      BY <1>1, <2>1, <2>3
    <3>2. /\ events[i][2] < events[j][2]
          /\ \A n \in events[i][2] + 1 .. events[j][2] - 1 :
               \/ <<events[i][1], n>> \in missed
               \/ \E k \in i .. j : events[k] = <<events[i][1], n>>
      BY <1>2, <3>1 DEF Gapless
    <3>3. \A k \in i .. j : more[k] = events[k]
      BY <1>1, <2>1, <2>3
    <3> QED
      BY <3>1, <3>2, <3>3
  <2> QED
    BY <2>1, <2>2, <2>3
<1>3. Gapless(more, missed)
  BY <1>1, <1>2 DEF Gapless
<1> QED
  BY <1>3 DEF more

LEMMA SendLine ==
  ASSUME StreamTypeOK, LineInv, StreamIsInOrder, NEW s \in Socket, SendEvent(s)
  PROVE  LineInv' /\ StreamIsInOrder'
<1>1. PICK e \in Events :
           /\ sending[s] = e /\ sending' = [sending EXCEPT ![s] = NoEvent]
           /\ \/ sent' = [sent EXCEPT ![s] = Append(sent[s], e)] /\ UNCHANGED stream
              \/ stream' = [stream EXCEPT ![s] = "closed"] /\ UNCHANGED sent
           /\ UNCHANGED <<published, telling, ready, queue, dropped>>
  BY SendEventIs
<1>2. \A t \in Socket : OnTheLine(t) /\ InOrder(t)
  BY InOrderAll DEF LineInv
<1>3. InLine(s) /\ Announced(s) /\ Status(s) /\ InOrder(s)
  BY <1>2 DEF OnTheLine
<1>4. \A t \in Socket : Waiting(t)' = Waiting(t) /\ Queued(t)' = Queued(t)
  BY <1>1 DEF Waiting, Queued
<1>5. sending'[s] = NoEvent /\ \A t \in Socket \ {s} : sending'[t] = sending[t]
  BY <1>1 DEF StreamTypeOK
<1>6. Out(s) = {e} /\ Out(s)' = {}
  BY <1>1, <1>5, EventFacts DEF Out
<1>7. Ordered(ready')
  BY <1>1 DEF LineInv
<1>8. e \in On(s) /\ stream[s] # "none" /\ stream[s] # "closed" /\ Complete(s)
  BY <1>1, <1>3, <1>6, EventFacts DEF Status, On
<1>9. CASE sent' = [sent EXCEPT ![s] = Append(sent[s], e)] /\ UNCHANGED stream
  <2>1. /\ sent'[s] = Append(sent[s], e) /\ \A t \in Socket \ {s} : sent'[t] = sent[t]
        /\ sent[s] \in Seq(Events)
    BY <1>9 DEF StreamTypeOK
  <2>2. Gone(s)' = Gone(s) \cup {e}
    BY <2>1, AppendedSet DEF Gone
  <2>3. Before(Gone(s), {e}) /\ Increasing(sent[s]) /\ Before({e}, Queued(s)) /\ Before({e}, Waiting(s))
    BY <1>3, <1>6 DEF InLine
  <2>4. Increasing(sent'[s])
    BY <2>1, <2>3, IncreasingMore DEF Gone
  <2>5. InLine(s)'
    <3>1. /\ Before(Gone(s)', Out(s)') /\ Before(Gone(s)', Queued(s)) /\ Before(Gone(s)', Waiting(s))
          /\ Before(Out(s)', Queued(s)) /\ Before(Out(s)', Waiting(s))
      BY <1>3, <1>6, <2>2, <2>3 DEF InLine, Before
    <3> QED
      BY <1>1, <1>3, <1>4, <2>4, <3>1 DEF InLine
  <2>6. On(s)' = On(s)
    BY <1>4, <1>6, <2>2 DEF On
  <2>7. Announced(s)' /\ (Complete(s) => Complete(s)')
    BY <1>1, <1>3, <2>6, LineMoves
  <2>8. Status(s)'
    BY <1>5, <1>8, <1>9, <2>7 DEF Status
  <2>9. ASSUME NEW d \in ToSet(sent[s]), NEW n \in 1 .. MaxEvents, d[1] = e[1], d[2] < n, n < e[2]
        PROVE  <<d[1], n>> \in dropped[s] \/ <<d[1], n>> \in ToSet(sent[s])
    <3>1. d \in On(s) /\ d \in Events
      BY OnEvents DEF On, Gone
    <3>2. e[2] <= published[e[1]] /\ published[e[1]] \in Nat /\ e[2] \in Nat
      BY <1>3, <1>8, EventFacts, EdgeBounds DEF Announced, StreamTypeOK
    <3>3. n < published[d[1]]
      BY <2>9, <3>2
    <3>4. <<d[1], n>> \in On(s) \cup dropped[s]
      BY <1>8, <2>9, <3>1, <3>2, <3>3 DEF Complete
    <3>5. ASSUME <<d[1], n>> \in Out(s) \cup Queued(s) \cup Waiting(s) PROVE FALSE
      <4>1. PICK x \in Out(s) \cup Queued(s) \cup Waiting(s) : x = <<d[1], n>>
        BY <3>5
      <4>2. x[1] = e[1] /\ x[2] = n
        BY <2>9, <4>1
      <4>3. x = e \/ e[2] < x[2]
        BY <1>6, <2>3, <4>2 DEF Before
      <4> QED
        BY <2>9, <3>2, <4>2, <4>3
    <3> QED
      BY <3>4, <3>5 DEF On, Gone
  <2>10. InOrder(s)'
    <3>1. Gapless(Append(sent[s], e), dropped[s])
      <4>1. \A d \in ToSet(sent[s]), n \in 1 .. MaxEvents :
              d[1] = e[1] /\ d[2] < n /\ n < e[2] =>
                <<d[1], n>> \in dropped[s] \/ <<d[1], n>> \in ToSet(sent[s])
        BY <2>9
      <4>2. Gapless(sent[s], dropped[s])
        BY <1>3 DEF InOrder
      <4>3. Before(ToSet(sent[s]), {e})
        BY <2>3 DEF Gone
      <4> QED
        BY <2>1, <2>3, <4>1, <4>2, <4>3, GaplessMore
    <3> QED
      BY <1>1, <2>1, <3>1 DEF InOrder
  <2>11. ASSUME NEW t \in Socket \ {s} PROVE OnTheLine(t)' /\ InOrder(t)'
    BY <1>1, <1>2, <1>4, <1>5, <1>9, <2>1, LineStays
  <2>12. \A t \in Socket : OnTheLine(t)' /\ InOrder(t)'
    BY <2>5, <2>7, <2>8, <2>10, <2>11 DEF OnTheLine
  <2> QED
    BY <1>7, <2>12 DEF LineInv, StreamIsInOrder, InOrder, Gapless
<1>10. CASE stream' = [stream EXCEPT ![s] = "closed"] /\ UNCHANGED sent
  <2>1. stream'[s] = "closed" /\ \A t \in Socket \ {s} : stream'[t] = stream[t]
    BY <1>10 DEF StreamTypeOK
  <2>2. \A t \in Socket : Gone(t)' = Gone(t)
    BY <1>10 DEF Gone
  <2>3. InLine(s)'
    <3>1. Before(Gone(s), Out(s)') /\ Before(Out(s)', Queued(s)) /\ Before(Out(s)', Waiting(s))
      BY <1>6 DEF Before
    <3> QED
      BY <1>1, <1>3, <1>4, <1>10, <2>2, <3>1 DEF InLine
  <2>4. On(s)' \subseteq On(s)
    BY <1>4, <1>6, <2>2 DEF On
  <2>5. Announced(s)'
    BY <1>1, <1>3, <2>4 DEF Announced
  <2>6. Status(s)'
    BY <1>5, <2>1 DEF Status
  <2>7. InOrder(s)'
    BY <1>1, <1>3, <1>10, InOrderStays
  <2>8. ASSUME NEW t \in Socket \ {s} PROVE OnTheLine(t)' /\ InOrder(t)'
    BY <1>1, <1>2, <1>4, <1>5, <1>10, <2>1, LineStays
  <2>9. \A t \in Socket : OnTheLine(t)' /\ InOrder(t)'
    BY <2>3, <2>5, <2>6, <2>7, <2>8 DEF OnTheLine
  <2> QED
    BY <1>7, <2>9 DEF LineInv, StreamIsInOrder, InOrder, Gapless
<1> QED
  BY <1>1, <1>9, <1>10

LEMMA PublishLine ==
  ASSUME StreamTypeOK, LineInv, StreamIsInOrder, NEW p \in Publisher, PublishEvent(p)
  PROVE  LineInv' /\ StreamIsInOrder'
<1>1. /\ telling[p] = {} /\ published[p] \in Nat
      /\ published' = [published EXCEPT ![p] = published[p] + 1]
      /\ telling' = [telling EXCEPT ![p] = {s \in Socket : stream[s] # "none"}]
      /\ UNCHANGED <<ready, stream, queue, sending, sent, dropped>>
  BY EdgeBounds DEF PublishEvent, StreamTypeOK
<1>2. \A q \in Publisher : /\ published'[q] = IF q = p THEN published[p] + 1 ELSE published[q]
                           /\ telling'[q] = IF q = p THEN {s \in Socket : stream[s] # "none"}
                                            ELSE telling[q]
                           /\ published[q] \in Nat
  BY <1>1, EdgeBounds DEF StreamTypeOK
<1>3. Ordered(ready')
  BY <1>1 DEF LineInv
<1>4. ASSUME NEW s \in Socket PROVE OnTheLine(s)' /\ InOrder(s)'
  <2>1. InLine(s) /\ Announced(s) /\ Status(s) /\ InOrder(s)
    BY InOrderAll DEF LineInv, OnTheLine
  <2>2. /\ Gone(s)' = Gone(s) /\ Out(s)' = Out(s) /\ Queued(s)' = Queued(s)
        /\ Waiting(s)' = Waiting(s) /\ On(s)' = On(s)
    BY <1>1 DEF Gone, Out, Queued, Waiting, On
  <2>3. InLine(s)'
    BY <1>1, <2>1, <2>2 DEF InLine
  <2>4. \A e \in On(s) : e[1] \in Publisher /\ e[2] \in Nat
    BY OnEvents, EventFacts
  <2>5. ASSUME NEW e \in On(s)
        PROVE  e[2] <= published'[e[1]] /\ (s \in telling'[e[1]] => e[2] < published'[e[1]])
    <3>1. e[2] <= published[e[1]] /\ (s \in telling[e[1]] => e[2] < published[e[1]])
      BY <2>1 DEF Announced
    <3>2. PICK q \in Publisher, n \in Nat : q = e[1] /\ n = e[2]
      BY <2>4
    <3>3. n <= published'[q] /\ (s \in telling'[q] => n < published'[q])
      <4>1. n <= published[q] /\ (s \in telling[q] => n < published[q])
        BY <3>1, <3>2
      <4>2. CASE q = p
        <5>1. PICK old \in Nat : old = published[p]
          BY <1>1
        <5>2. published'[p] = old + 1
          BY <1>2, <5>1
        <5>3. n <= old
          BY <4>1, <4>2, <5>1
        <5>4. n <= old + 1 /\ n < old + 1
          BY <5>3
        <5> QED
          BY <4>2, <5>2, <5>4
      <4>3. CASE q # p
        BY <1>2, <4>1, <4>3
      <4> QED
        BY <4>2, <4>3
    <3> QED
      BY <3>2, <3>3
  <2>6. Announced(s)'
    BY <2>2, <2>5 DEF Announced
  <2>7. ASSUME Complete(s), NEW e \in On(s), NEW n \in 1 .. MaxEvents, e[2] < n, n <= published'[e[1]]
        PROVE  \/ <<e[1], n>> \in On(s) \cup dropped[s]
               \/ n = published'[e[1]] /\ s \in telling'[e[1]]
    <3>1. CASE e[1] = p /\ n = published[p] + 1
      <4>1. stream[s] # "none"
        BY <2>1 DEF Status
      <4> QED
        BY <1>2, <3>1, <4>1
    <3>2. CASE ~(e[1] = p /\ n = published[p] + 1)
      <4>1. n <= published[e[1]]
        <5>1. PICK q \in Publisher : q = e[1]
          BY <2>4
        <5>2. n <= published'[q] /\ ~(q = p /\ n = published[p] + 1)
          BY <2>7, <3>2, <5>1
        <5>3. n <= published[q]
          <6>1. PICK old \in Nat : old = published[q]
            BY <1>2
          <6>2. published'[q] = IF q = p THEN old + 1 ELSE old
            BY <1>2, <6>1
          <6> QED
            BY <5>2, <6>1, <6>2
        <5> QED
          BY <5>1, <5>3
      <4>2. <<e[1], n>> \in On(s) \cup dropped[s] \/ (n = published[e[1]] /\ s \in telling[e[1]])
        BY <2>7, <4>1 DEF Complete
      <4> QED
        BY <1>1, <1>2, <2>4, <4>2
    <3> QED
      BY <3>1, <3>2
  <2>8. Complete(s) => Complete(s)'
    BY <1>1, <2>2, <2>7 DEF Complete
  <2>9. Status(s)'
    <3>1. stream[s] = "none" => \A q \in Publisher : s \notin telling'[q]
      BY <1>2, <2>1 DEF Status
    <3> QED
      BY <1>1, <2>1, <2>2, <2>8, <3>1 DEF Status
  <2>10. InOrder(s)'
    BY <1>1, <2>1, InOrderStays
  <2> QED
    BY <2>3, <2>6, <2>9, <2>10 DEF OnTheLine
<1> QED
  BY <1>3, <1>4 DEF LineInv, StreamIsInOrder, InOrder, Gapless

LEMMA ConnectLine ==
  ASSUME StreamTypeOK, LineInv, StreamIsInOrder, NEW s \in Socket, Connect(s)
  PROVE  LineInv' /\ StreamIsInOrder'
<1>1. /\ stream[s] = "none" /\ stream' = [stream EXCEPT ![s] = "open"]
      /\ UNCHANGED <<published, telling, ready, queue, sending, sent, dropped>>
  BY DEF Connect
<1>2. stream'[s] = "open" /\ \A t \in Socket \ {s} : stream'[t] = stream[t]
  BY <1>1 DEF StreamTypeOK
<1>3. \A t \in Socket : OnTheLine(t) /\ InOrder(t)
  BY InOrderAll DEF LineInv
<1>4. InLine(s) /\ Announced(s) /\ On(s) = {}
  BY <1>1, <1>3 DEF OnTheLine, Status
<1>5. /\ Gone(s)' = Gone(s) /\ Out(s)' = Out(s) /\ Queued(s)' = Queued(s)
      /\ \A t \in Socket : Waiting(t)' = Waiting(t)
  BY <1>1 DEF Gone, Out, Queued, Waiting
<1>6. On(s)' = {}
  BY <1>4, <1>5 DEF On
<1>7. InLine(s)'
  BY <1>1, <1>4, <1>5 DEF InLine
<1>8. Announced(s)' /\ Complete(s)'
  BY <1>6 DEF Announced, Complete
<1>9. Status(s)' /\ InOrder(s)'
  BY <1>1, <1>2, <1>3, <1>8, InOrderStays DEF Status
<1>10. ASSUME NEW t \in Socket \ {s} PROVE OnTheLine(t)' /\ InOrder(t)'
  BY <1>1, <1>2, <1>3, <1>5, LineStays
<1>11. \A t \in Socket : OnTheLine(t)' /\ InOrder(t)'
  BY <1>7, <1>8, <1>9, <1>10 DEF OnTheLine
<1>12. Ordered(ready')
  BY <1>1 DEF LineInv
<1> QED
  BY <1>11, <1>12 DEF LineInv, StreamIsInOrder, InOrder, Gapless

\* A server that has just been started has nothing on any line.
LEMMA NothingOnTheLine ==
  ASSUME telling = [p \in Publisher |-> {}], ready = <<>>, stream = [s \in Socket |-> "none"],
         queue = [s \in Socket |-> <<>>], sending = [s \in Socket |-> NoEvent],
         sent = [s \in Socket |-> <<>>]
  PROVE  LineInv /\ StreamIsInOrder
<1>1. Ordered(ready)
  BY DEF Ordered
<1>2. ASSUME NEW s \in Socket PROVE OnTheLine(s) /\ InOrder(s)
  <2>1. sent[s] = <<>> /\ queue[s] = <<>> /\ sending[s] = NoEvent /\ stream[s] = "none"
    OBVIOUS
  <2>2. Gone(s) = {} /\ Out(s) = {} /\ Queued(s) = {} /\ Waiting(s) = {}
    BY <2>1, NothingListed DEF Gone, Out, Queued, Waiting
  <2>3. InLine(s)
    BY <2>1, <2>2 DEF InLine, Before, Increasing
  <2>4. On(s) = {}
    BY <2>2 DEF On
  <2>5. Announced(s) /\ Complete(s)
    BY <2>4 DEF Announced, Complete
  <2>6. Status(s)
    BY <2>1, <2>4, <2>5 DEF Status
  <2>7. InOrder(s)
    BY <2>1, NothingListed DEF InOrder, Gapless
  <2> QED
    BY <2>3, <2>5, <2>6, <2>7 DEF OnTheLine
<1> QED
  BY <1>1, <1>2, InOrderAll DEF LineInv

LEMMA LineStep ==
  ASSUME EdgeTypeOK, LineInv, StreamIsInOrder, [EdgeNext]_edgeVars
  PROVE  LineInv' /\ StreamIsInOrder'
<1>0. StreamTypeOK
  BY EdgeTypes
<1>1. CASE UNCHANGED streamVars
  <2>1. UNCHANGED <<published, telling, ready, stream, queue, sending, sent, dropped>>
    BY <1>1 DEF streamVars
  <2>2. Ordered(ready') /\ \A s \in Socket : Waiting(s)' = Waiting(s)
    BY <2>1 DEF LineInv, Waiting
  <2>3. ASSUME NEW s \in Socket PROVE OnTheLine(s)' /\ InOrder(s)'
    <3>1. OnTheLine(s) /\ InOrder(s)
      BY InOrderAll DEF LineInv
    <3> QED
      BY <1>0, <2>1, <2>2, <3>1, LineStays
  <2> QED
    BY <2>2, <2>3 DEF LineInv, StreamIsInOrder, InOrder, Gapless
<1>2. CASE Tick
  BY <1>1, <1>2 DEF Tick
<1>3. ASSUME NEW r \in Request, RequestStep(r) PROVE LineInv' /\ StreamIsInOrder'
  BY <1>1, <1>3 DEF RequestStep, Deliver, ExtractMessages, Process, SendAnswer
<1>4. CASE StreamStep
  BY <1>0, <1>4, ConnectLine, TakeLine, SendLine, PublishLine, TellLine, PutLine DEF StreamStep
<1>5. CASE ServerEnds
  <2>1. /\ telling' = [p \in Publisher |-> {}] /\ ready' = <<>>
        /\ stream' = [s \in Socket |-> "none"] /\ queue' = [s \in Socket |-> <<>>]
        /\ sending' = [s \in Socket |-> NoEvent] /\ sent' = [s \in Socket |-> <<>>]
    BY <1>5 DEF ServerEnds
  <2>2. Ordered(ready')
    BY <2>1 DEF Ordered
  <2>3. ASSUME NEW s \in Socket PROVE OnTheLine(s)' /\ InOrder(s)'
    <3>1. sent'[s] = <<>> /\ queue'[s] = <<>> /\ sending'[s] = NoEvent /\ stream'[s] = "none"
      BY <2>1
    <3>2. Gone(s)' = {} /\ Out(s)' = {} /\ Queued(s)' = {} /\ Waiting(s)' = {}
      BY <2>1, <3>1, NothingListed DEF Gone, Out, Queued, Waiting
    <3>3. InLine(s)'
      BY <3>1, <3>2 DEF InLine, Before, Increasing
    <3>4. On(s)' = {}
      BY <3>2 DEF On
    <3>5. Announced(s)' /\ Complete(s)'
      BY <3>4 DEF Announced, Complete
    <3>6. Status(s)'
      BY <2>1, <3>1, <3>4, <3>5 DEF Status
    <3>7. InOrder(s)'
      BY <3>1, NothingListed DEF InOrder, Gapless
    <3> QED
      BY <3>3, <3>5, <3>6, <3>7 DEF OnTheLine
  <2> QED
    BY <2>2, <2>3 DEF LineInv, StreamIsInOrder, InOrder, Gapless
<1>6. CASE UNCHANGED edgeVars
  BY <1>1, <1>6 DEF edgeVars
<1> QED
  BY <1>2, <1>3, <1>4, <1>5, <1>6 DEF EdgeNext

LEMMA EdgeInitInv == EdgeInit => HitsInv /\ SeenInv /\ LineInv /\ StreamIsInOrder
<1> SUFFICES ASSUME EdgeInit PROVE HitsInv /\ SeenInv /\ LineInv /\ StreamIsInOrder
  OBVIOUS
<1>1. HitsInv
  <2>1. hits = <<>> /\ accepted = <<>>
    BY DEF EdgeInit
  <2> QED
    BY <2>1 DEF HitsInv, Window
<1>2. SeenInv
  <2>1. processed = [i \in Ids |-> 0] /\ \A r \in Request : request[r].todo = <<>>
    BY FreeIs DEF EdgeInit
  <2> QED
    BY <2>1, NothingListed DEF SeenInv, Once
<1>3. LineInv /\ StreamIsInOrder
  BY NothingOnTheLine DEF EdgeInit
<1> QED
  BY <1>1, <1>2, <1>3

\* No minute has more requests than it may, a message that is delivered again is
\* not given to the agent again as long as its id is remembered, and a socket gets
\* the events of a publisher in order and misses none between two of them but for
\* a full queue.  (limits, extract_messages, publish, handler)
THEOREM EdgeSound == EdgeSpec => []EdgeIsSound
<1>1. EdgeInit => EdgeTypeOK /\ HitsInv /\ SeenInv /\ LineInv /\ StreamIsInOrder
  BY EdgeInitType, EdgeInitInv
<1>2. EdgeTypeOK /\ HitsInv /\ SeenInv /\ LineInv /\ StreamIsInOrder /\ [EdgeNext]_edgeVars
        => (EdgeTypeOK /\ HitsInv /\ SeenInv /\ LineInv /\ StreamIsInOrder)'
  BY EdgeStepType, HitsStep, SeenStep, LineStep
<1>3. EdgeTypeOK /\ HitsInv /\ SeenInv /\ LineInv /\ StreamIsInOrder => EdgeIsSound
  BY RateHolds, SeenHolds DEF EdgeIsSound
<1> QED
  BY <1>1, <1>2, <1>3, PTL DEF EdgeSpec
=============================================================================
