---------------------------- MODULE TelegramChat ----------------------------
(***************************************************************************)
(* The Telegram connector (connectors/telegram.py) with the questions of   *)
(* the clarify tool (tools/clarify.py) that the event bus brings to it.    *)
(*                                                                         *)
(* One thread polls.  It handles the updates of a batch one after the      *)
(* other, and a turn of the agent runs inside the handling.  A background  *)
(* job may be in a turn of its own; the agent's run lock lets one turn go  *)
(* on at a time.  Both may ask.  The server keeps an update until a poll   *)
(* asks for a later one; the offset of the process is lost in a crash.     *)
(***************************************************************************)
EXTENDS Naturals, Sequences, FiniteSets

CONSTANTS
  Question,       \* ids of questions
  Version,        \* versions an update check may find
  MaxPosts, MaxCrashes, MaxFinds      \* bounds on the world

ASSUME TelegramAssumption == {MaxPosts, MaxCrashes, MaxFinds} \subseteq Nat

VARIABLES
  inbox,          \* every update the server has got, in order; ids are places
  acked,          \* up to where the server has let go of them
  offset,         \* updates the process has begun with
  batch,          \* ids of the last answer that are still to be handled
  poll,           \* what the polling thread does
  chatting,       \* the update it is at
  handled,        \* times this process has handled an update
  done,           \* (observation) updates that were handled to an answer
  raised,         \* (observation) updates whose handling raised instead
  job,            \* what the background job's turn does
  asker,          \* who has asked a question this process knows
  asking,         \* the question a turn's clarify call is about
  answered,       \* the question has an answer
  shown,          \* its buttons are in the chat
  used,           \* (observation) what its answer did: "returned", "turn"
  latest, finds,  \* version the updater knows of
  prompted,       \* _update_prompted_version
  prompts,        \* versions the chat has update buttons for
  staged,         \* version that is staged
  crashes

telegramVars == <<inbox, acked, offset, batch, poll, chatting, handled, done,
                  raised, job, asker, asking, answered, shown, used, latest, finds, prompted,
                  prompts, staged, crashes>>
serverVars == <<inbox, acked>>
pollVars == <<offset, batch, chatting, handled, done, raised>>
batchVars == <<offset, batch, chatting, handled>>
askVars == <<asker, asking, answered, shown, used>>
updateVars == <<latest, finds, prompted, prompts, staged>>

NoVersion == "none"
NoQuestion == "none"
Turns == {"turn", "testing", "waiting", "publish"}     \* inside the run lock
Posts == [kind : {"text", "start", "stranger"}]
           \cup [kind : {"click"}, q : Question]
           \cup [kind : {"install", "later"}, v : Version]
Owners(u) == u.kind # "stranger"

TelegramInit ==
  /\ inbox = <<>> /\ acked = 0 /\ offset = 0 /\ batch = <<>>
  /\ poll = "idle" /\ chatting = 0 /\ handled = <<>> /\ done = {}
  /\ raised = {}
  /\ job = "idle" /\ asker = [q \in Question |-> "nobody"]
  /\ asking = [who \in {"chat", "job"} |-> NoQuestion]
  /\ answered = [q \in Question |-> FALSE] /\ shown = {}
  /\ used = [q \in Question |-> {}]
  /\ latest = NoVersion /\ finds = 0 /\ prompted = NoVersion /\ prompts = {}
  /\ staged = NoVersion /\ crashes = 0

-----------------------------------------------------------------------------
(* The world: the owner writes and presses buttons, strangers write, an    *)
(* update check finds a version.                                           *)

Post(u) ==
  /\ Len(inbox) < MaxPosts
  /\ u.kind = "click" => u.q \in shown
  /\ u.kind \in {"install", "later"} => u.v \in prompts
  /\ inbox' = Append(inbox, u) /\ handled' = Append(handled, 0)
  /\ UNCHANGED <<acked, offset, batch, poll, chatting, done, raised, job, askVars,
                 updateVars, crashes>>

FindVersion(v) ==
  /\ finds < MaxFinds
  /\ latest' = v /\ finds' = finds + 1 /\ staged' = NoVersion
  /\ UNCHANGED <<serverVars, pollVars, poll, job, askVars, prompted, prompts,
                 crashes>>

-----------------------------------------------------------------------------
(* poll_once.                                                              *)

Later(a, b) == IF a > b THEN a ELSE b
IdsAbove(n) == [i \in 1 .. Len(inbox) - n |-> n + i]

\* getUpdates with an offset lets go of what is before it.
Poll ==
  /\ poll = "idle" /\ batch = <<>>
  /\ acked' = Later(acked, offset)
  /\ batch' = IdsAbove(acked')
  /\ UNCHANGED <<inbox, offset, poll, chatting, handled, done, raised, job, askVars,
                 updateVars, crashes>>

\* run catches most of what a transport raises: the thread waits and polls
\* again. A broken HTTP answer is none of it, and the thread is over.
AfterAnError == {"idle", "ended"}

\* The answer does not arrive.
PollLost ==
  /\ poll = "idle" /\ batch = <<>>
  /\ acked' = Later(acked, offset) /\ poll' \in AfterAnError
  /\ UNCHANGED <<inbox, pollVars, job, askVars, updateVars, crashes>>

\* The offset is set past the batch when it arrives.
BeginUpdate_Ahead ==
  /\ poll = "idle" /\ batch # <<>>
  /\ offset' = Later(offset, batch[Len(batch)])
  /\ chatting' = Head(batch) /\ batch' = Tail(batch)
  /\ handled' = [handled EXCEPT ![Head(batch)] = @ + 1]
  /\ poll' = "handling"
  /\ UNCHANGED <<serverVars, done, raised, job, askVars, updateVars, crashes>>

\* The offset is set when an update has been handled without an exception.
BeginUpdate_Behind ==
  /\ poll = "idle" /\ batch # <<>>
  /\ offset' = Later(offset, Head(batch) - 1)
  /\ chatting' = Head(batch) /\ batch' = Tail(batch)
  /\ handled' = [handled EXCEPT ![Head(batch)] = @ + 1]
  /\ poll' = "handling"
  /\ UNCHANGED <<serverVars, done, raised, job, askVars, updateVars, crashes>>

\* The offset moves, then the update is handled.
BeginUpdate ==
  /\ poll = "idle" /\ batch # <<>>
  /\ offset' = Later(offset, Head(batch))
  /\ chatting' = Head(batch) /\ batch' = Tail(batch)
  /\ handled' = [handled EXCEPT ![Head(batch)] = @ + 1]
  /\ poll' = "handling"
  /\ UNCHANGED <<serverVars, done, raised, job, askVars, updateVars, crashes>>

At(kind) == poll = "handling" /\ inbox[chatting].kind = kind
Goes(place) ==
  /\ poll' = place
  /\ done' = IF place \in {"reply", "idle"} THEN done \cup {chatting} ELSE done
  /\ UNCHANGED <<serverVars, batchVars, raised, crashes>>
LockFree == poll \notin Turns /\ job \notin Turns

Ignore == At("stranger") /\ Goes("idle") /\ UNCHANGED <<job, askVars, updateVars>>
Start == At("start") /\ Goes("reply") /\ UNCHANGED <<job, askVars, updateVars>>

\* An exception leaves handle_update, poll_once catches none, and the offset is
\* past the update: the rest of the batch comes again, the update does not.
Raises ==
  /\ raised' = raised \cup {chatting} /\ poll' = "idle" /\ batch' = <<>>
  /\ UNCHANGED <<serverVars, offset, chatting, handled, done, job, askVars,
                 updateVars, crashes>>

\* start_conversation saves the profile before there is a greeting to send.
StartRaises == At("start") /\ Raises

Text == At("text") /\ LockFree /\ Goes("turn") /\ UNCHANGED <<job, askVars, updateVars>>

\* An answer to a question this process does not know is dropped.  Any other
\* one is recorded, the second as the first, and a turn starts with it.
Click ==
  /\ At("click")
  /\ LET q == inbox[chatting].q
     IN IF asker[q] \notin {"chat", "job"} THEN Goes("idle") /\ UNCHANGED <<answered, used>>
        ELSE /\ answered' = [answered EXCEPT ![q] = TRUE]
             /\ used' = [used EXCEPT ![q] = @ \cup {"turn"}]
             /\ Goes("enter")
  /\ UNCHANGED <<job, asker, asking, shown, updateVars>>

EnterTurn ==
  /\ poll = "enter" /\ LockFree
  /\ Goes("turn") /\ UNCHANGED <<job, askVars, updateVars>>

Install ==
  /\ At("install")
  /\ LET v == inbox[chatting].v
     IN staged' \in {staged} \cup IF latest = v THEN {v} ELSE {}
  /\ Goes("idle")
  /\ UNCHANGED <<job, askVars, latest, finds, prompted, prompts>>

Postpone ==
  /\ At("later") /\ prompted' = inbox[chatting].v
  /\ Goes("idle")
  /\ UNCHANGED <<job, askVars, latest, finds, prompts, staged>>

\* An answer, or the crash report in its place, has been found for the chat.
EndTurn ==
  /\ poll = "turn" /\ Goes("reply")
  /\ UNCHANGED <<job, askVars, updateVars>>

\* The turn raised, and so does the crash report in the except clause. What a
\* pressed button began is swallowed, and the batch goes on.
TurnRaises ==
  /\ poll = "turn"
  /\ IF inbox[chatting].kind = "text" THEN Raises
     ELSE /\ raised' = raised \cup {chatting} /\ poll' = "idle"
          /\ UNCHANGED <<serverVars, batchVars, done, job, askVars, updateVars,
                         crashes>>

\* sendMessage, and after a message the update prompt.
Promptable == latest # NoVersion /\ staged = NoVersion /\ latest # prompted

Reply ==
  /\ poll = "reply" /\ Goes("idle")
  /\ IF Promptable /\ inbox[chatting].kind # "click"
     THEN prompted' = latest /\ prompts' = prompts \cup {latest}
     ELSE UNCHANGED <<prompted, prompts>>
  /\ UNCHANGED <<job, askVars, latest, finds, staged>>

\* The server rejects the answer or the prompt, or cannot be reached: the rest of
\* the batch is left.  A button's answer that fails is swallowed.
ReplyFails ==
  /\ poll = "reply"
  /\ IF inbox[chatting].kind = "click" THEN poll' = "idle" /\ UNCHANGED batch
     ELSE poll' \in AfterAnError /\ batch' = <<>>
  /\ UNCHANGED <<serverVars, offset, chatting, handled, done, raised, job, askVars,
                 updateVars, crashes>>

-----------------------------------------------------------------------------
(* Clarify.ask, in the turn of the chat or of the job.                     *)

Asks(who) == IF who = "chat" THEN poll ELSE job
Moves(who, place) ==
  IF who = "chat" THEN poll' = place /\ UNCHANGED job
  ELSE job' = place /\ UNCHANGED poll

JobTurn ==
  /\ job = "idle" /\ LockFree /\ job' = "turn"
  /\ UNCHANGED <<serverVars, pollVars, poll, askVars, updateVars, crashes>>
JobEnds ==
  /\ job = "turn" /\ job' = "idle"
  /\ UNCHANGED <<serverVars, pollVars, poll, askVars, updateVars, crashes>>

\* The buttons are sent before the wait.
Ask_Shown(who, q) ==
  /\ Asks(who) = "turn" /\ asker[q] = "nobody"
  /\ asker' = [asker EXCEPT ![q] = who] /\ asking' = [asking EXCEPT ![who] = q]
  /\ shown' = shown \cup {q} /\ Moves(who, "testing")
  /\ UNCHANGED <<serverVars, pollVars, answered, used, updateVars, crashes>>

Ask(who, q) ==
  /\ Asks(who) = "turn" /\ asker[q] = "nobody"
  /\ asker' = [asker EXCEPT ![q] = who] /\ asking' = [asking EXCEPT ![who] = q]
  /\ \E blocking \in BOOLEAN : Moves(who, IF blocking THEN "testing" ELSE "publish")
  /\ UNCHANGED <<serverVars, pollVars, answered, shown, used, updateVars, crashes>>

\* q.answer is looked at without the condition, which is then waited on; the
\* wait ends by a notice or by the clock, and q.answer is looked at again.
LooksAtAnswer(who, next) ==
  LET q == asking[who]
  IN IF answered[q]
     THEN Moves(who, "turn") /\ used' = [used EXCEPT ![q] = @ \cup {"returned"}]
     ELSE Moves(who, next) /\ UNCHANGED used

TestAnswer(who) ==
  /\ Asks(who) = "testing" /\ LooksAtAnswer(who, "waiting")
  /\ UNCHANGED <<serverVars, pollVars, asker, asking, answered, shown,
                 updateVars, crashes>>

WaitEnds(who) ==
  /\ Asks(who) = "waiting" /\ LooksAtAnswer(who, "publish")
  /\ UNCHANGED <<serverVars, pollVars, asker, asking, answered, shown,
                 updateVars, crashes>>

\* on_pending publishes, and the subscriber sends the buttons; a failure to send
\* them is swallowed on the way back.
Publish(who) ==
  /\ Asks(who) = "publish" /\ Moves(who, "turn")
  /\ \E sent \in {{asking[who]}, {}} : shown' = shown \cup sent
  /\ UNCHANGED <<serverVars, pollVars, asker, asking, answered, used, updateVars,
                 crashes>>

-----------------------------------------------------------------------------
\* The process ends and is started again; questions were in its memory only.
Crash ==
  /\ crashes < MaxCrashes /\ crashes' = crashes + 1
  /\ offset' = 0 /\ batch' = <<>> /\ poll' = "idle" /\ job' = "idle"
  /\ handled' = [i \in DOMAIN handled |-> 0]
  /\ asker' = [q \in Question |-> IF asker[q] = "nobody" THEN "nobody" ELSE "gone"]
  /\ prompted' = NoVersion
  /\ UNCHANGED <<serverVars, chatting, done, raised, asking, answered, shown, used,
                 latest, finds, prompts, staged>>

ClarifyStep(who) ==
  \/ \E q \in Question : Ask(who, q)
  \/ TestAnswer(who) \/ WaitEnds(who) \/ Publish(who)
PollStep ==
  \/ BeginUpdate \/ Ignore \/ Start \/ StartRaises \/ Text \/ Click \/ EnterTurn
  \/ Install \/ Postpone \/ EndTurn \/ TurnRaises \/ Reply \/ ReplyFails
World == (\E u \in Posts : Post(u)) \/ (\E v \in Version : FindVersion(v))

TelegramNext ==
  \/ World \/ Poll \/ PollLost \/ PollStep
  \/ JobTurn \/ JobEnds \/ \E who \in {"chat", "job"} : ClarifyStep(who)
  \/ Crash

TelegramSpec == TelegramInit /\ [][TelegramNext]_telegramVars

-----------------------------------------------------------------------------
(* Properties.                                                             *)

TelegramTypeOK ==
  /\ inbox \in Seq(Posts) /\ acked \in 0 .. Len(inbox) /\ offset \in 0 .. Len(inbox)
  /\ batch \in Seq(Nat) /\ chatting \in 0 .. Len(inbox)
  /\ done \subseteq Nat /\ raised \subseteq Nat
  /\ handled \in Seq(Nat) /\ Len(handled) = Len(inbox)
  /\ poll \in {"idle", "handling", "enter", "reply", "ended"} \cup Turns
  /\ job \in {"idle"} \cup Turns
  /\ asker \in [Question -> {"nobody", "chat", "job", "gone"}]
  /\ asking \in [{"chat", "job"} -> Question \cup {NoQuestion}]
  /\ answered \in [Question -> BOOLEAN] /\ shown \subseteq Question
  /\ used \in [Question -> SUBSET {"returned", "turn"}]
  /\ latest \in Version \cup {NoVersion} /\ prompted \in Version \cup {NoVersion}
  /\ staged \in Version \cup {NoVersion} /\ prompts \subseteq Version
  /\ finds \in 0 .. MaxFinds /\ crashes \in 0 .. MaxCrashes

\* What the server has been told to let go of was handled to an answer, though
\* replies fail, polls get lost, the thread ends and the process crashes.  Two
\* things may come instead of the answer, and then the update is gone without
\* one: the profile could not be saved, or neither the turn nor the crash report
\* of its failure came about.  The rest of its batch is not gone.  (poll_once, run)
AckedWasHandled == \A i \in 1 .. acked : i \in done \cup raised

\* One process handles an update once: a reply that cannot be sent does not
\* bring its message back.  (poll_once)
HandledOnce == \A i \in DOMAIN handled : handled[i] <= 1

\* Every update once: none is passed over and none handled again by one process.
DeliveryIsSound == AckedWasHandled /\ HandledOnce

\* An answer goes one way: the ask that waited returns it, or a button starts a
\* turn with it, never both.  (Clarify.ask, on_callback)
AnswerGoesOneWay == \A q \in Question : used[q] # {"returned", "turn"}
=============================================================================
