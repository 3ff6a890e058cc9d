------------------------------- MODULE Dialogue -------------------------------
(***************************************************************************)
(* What the conversation store promises its readers, abstractly: one       *)
(* exchange at a time. A question is recorded, and the next message        *)
(* recorded anywhere is its answer, unless it is given up.                 *)
(***************************************************************************)
EXTENDS Sequences

CONSTANTS
  Turn,   \* turns; each asks at most one question
  Conv,   \* conversations
  NoTurn  \* no exchange is open

VARIABLES
  log,  \* the messages of each conversation, oldest first
  open  \* the turn whose question has no answer yet

vars == <<log, open>>

Message(t, r) == [turn |-> t, role |-> r]

Init ==
  /\ log = [c \in Conv |-> <<>>]
  /\ open = NoTurn

\* t asks in conversation c, while nobody else waits for an answer.
Ask(t, c) ==
  /\ open = NoTurn
  /\ open' = t
  /\ log' = [log EXCEPT ![c] = Append(@, Message(t, "user"))]

\* The open question is answered, right behind it.
Answer(c) ==
  /\ open # NoTurn
  /\ log[c] # <<>>
  /\ log[c][Len(log[c])] = Message(open, "user")
  /\ log' = [log EXCEPT ![c] = Append(@, Message(open, "assistant"))]
  /\ open' = NoTurn

\* It stays without an answer: the turn raised, asked back, or died.
GiveUp ==
  /\ open # NoTurn
  /\ open' = NoTurn
  /\ UNCHANGED log

Next ==
  \/ \E t \in Turn, c \in Conv : Ask(t, c)
  \/ \E c \in Conv : Answer(c)
  \/ GiveUp

Spec == Init /\ [][Next]_vars
=============================================================================
