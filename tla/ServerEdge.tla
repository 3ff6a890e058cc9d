----------------------------- MODULE ServerEdge -----------------------------
(***************************************************************************)
(* What the API server (api/server.py) lets in and sends out by itself:    *)
(* the limit of requests per minute, the webhook of the WhatsApp connector *)
(* (connectors/whatsapp.py), and the stream of the agent's events (runtime *)
(* /events.py) to the sockets that listen.                                 *)
(*                                                                         *)
(* The sender of a webhook is a host like any other: it is limited, and it *)
(* delivers again what it has no answer for, also while an earlier request *)
(* is open.  Messages are processed after the answer, in a thread of the   *)
(* request's own.  Events are published by any thread of the agent, while  *)
(* the sockets are served by the loop alone.                               *)
(***************************************************************************)
EXTENDS Naturals, Sequences, FiniteSets, SequencesExt

CONSTANTS
  Webhook,        \* what the sender has to deliver
  Carries,        \* ids of the messages in each of them, in order
  Request,        \* requests that may be open at once
  Limit, Minute,  \* requests of a host per minute; its length in ticks
  Remembered,     \* ids that are remembered (1000)
  Socket, Publisher,
  Room,           \* events that a socket's queue holds (100)
  MaxTicks, MaxEvents, MaxEdgeEnds    \* bounds

ASSUME EdgeAssumption ==
  /\ {Limit, Minute, Remembered, Room} \subseteq Nat \ {0}
  /\ {MaxTicks, MaxEvents, MaxEdgeEnds} \subseteq Nat
  /\ Carries \in [Webhook -> Seq(STRING)] /\ Webhook # {}

VARIABLES
  clock,
  hits,           \* times of the sender's requests in the last minute
  accepted,       \* (observation) when requests were let in
  owed,           \* webhooks that the sender has no answer for
  request,        \* what each request does
  seen,           \* _seen_order; _seen is what it lists
  forgotten,      \* (observation) ids that once were in it
  processed,      \* (observation) times a message has been given to the agent
  published,      \* events of each publisher so far
  telling,        \* sockets whose handler its last event is still to reach
  ready,          \* calls the loop has been handed: [socket, event]
  stream,         \* what each socket does
  queue, sending, sent,       \* its events: waiting, taken out, gone out
  dropped,        \* (observation) those that found its queue full
  edgeEnds

hookVars == <<clock, hits, accepted, owed, request, seen, forgotten, processed>>
streamVars == <<published, telling, ready, stream, queue, sending, sent, dropped>>
edgeVars == <<hookVars, streamVars, edgeEnds>>

Ids == UNION {ToSet(Carries[w]) : w \in Webhook}
Events == Publisher \X (1 .. MaxEvents)
NoEvent == <<>>
Free == [at |-> "free", hook |-> CHOOSE w \in Webhook : TRUE, todo |-> <<>>]

EdgeInit ==
  /\ clock = 0 /\ hits = <<>> /\ accepted = <<>>
  /\ owed = Webhook /\ request = [r \in Request |-> Free]
  /\ seen = <<>> /\ forgotten = {} /\ processed = [i \in Ids |-> 0]
  /\ published = [p \in Publisher |-> 0] /\ telling = [p \in Publisher |-> {}]
  /\ ready = <<>> /\ stream = [s \in Socket |-> "none"]
  /\ queue = [s \in Socket |-> <<>>] /\ sending = [s \in Socket |-> NoEvent]
  /\ sent = [s \in Socket |-> <<>>] /\ dropped = [s \in Socket |-> {}]
  /\ edgeEnds = 0

-----------------------------------------------------------------------------
(* limits, whatsapp_webhook, extract_messages, process.                    *)

Tick ==
  /\ clock < MaxTicks /\ clock' = clock + 1
  /\ UNCHANGED <<hits, accepted, owed, request, seen, forgotten, processed,
                 streamVars, edgeEnds>>

\* What is older than a minute is taken off the front.
LastMinute ==
  LET old == CHOOSE n \in 0 .. Len(hits) :
               /\ \A i \in 1 .. n : hits[i] + Minute < clock
               /\ n < Len(hits) => hits[n + 1] + Minute >= clock
  IN SubSeq(hits, old + 1, Len(hits))

\* The count begins anew with every minute of the clock.
Deliver_Minutely(r, w) ==
  /\ request[r].at = "free" /\ w \in owed
  /\ LET recent == SelectSeq(hits, LAMBDA t : t >= (clock \div Minute) * Minute) IN
       IF Len(recent) >= Limit
       THEN hits' = recent /\ UNCHANGED <<accepted, request>>
       ELSE /\ hits' = Append(recent, clock)
            /\ accepted' = Append(accepted, clock)
            /\ request' = [request EXCEPT ![r] = [Free EXCEPT !.at = "arrived", !.hook = w]]
  /\ UNCHANGED <<clock, owed, seen, forgotten, processed, streamVars, edgeEnds>>

\* A request that is refused gives the sender no answer.
Deliver(r, w) ==
  /\ request[r].at = "free" /\ w \in owed
  /\ IF Len(LastMinute) >= Limit
     THEN hits' = LastMinute /\ UNCHANGED <<accepted, request>>
     ELSE /\ hits' = Append(LastMinute, clock)
          /\ accepted' = Append(accepted, clock)
          /\ request' = [request EXCEPT ![r] = [Free EXCEPT !.at = "arrived", !.hook = w]]
  /\ UNCHANGED <<clock, owed, seen, forgotten, processed, streamVars, edgeEnds>>

\* _new_message for one message after the other: the new ones, what is remembered
\* then, and what no longer is.
Remember(found, i) ==
  LET order == Append(found.seen, i)
      full == Len(order) > Remembered
  IN IF Contains(found.seen, i) THEN found
     ELSE [new |-> Append(found.new, i),
           seen |-> IF full THEN Tail(order) ELSE order,
           out |-> IF full THEN found.out \cup {Head(order)} ELSE found.out]
Extracted(ids, memory, lost) ==
  LET found[n \in 0 .. Len(ids)] ==
        IF n = 0 THEN [new |-> <<>>, seen |-> memory, out |-> lost]
        ELSE Remember(found[n - 1], ids[n])
  IN found[Len(ids)]

\* The ids are remembered when their messages have been processed.
ExtractMessages_Unmarked(r) ==
  LET w == request[r].hook
      found == Extracted(Carries[w], seen, forgotten)
  IN /\ request[r].at = "arrived"
     /\ request' = [request EXCEPT ![r] = IF found.new = <<>> THEN Free
                                          ELSE [@ EXCEPT !.at = "tasks", !.todo = found.new]]
     /\ owed' \in {owed, owed \ {w}}
     /\ UNCHANGED <<clock, hits, accepted, seen, forgotten, processed, streamVars,
                    edgeEnds>>

\* The answer is given at once, and may be lost on its way.
ExtractMessages(r) ==
  LET w == request[r].hook
      found == Extracted(Carries[w], seen, forgotten)
  IN /\ request[r].at = "arrived"
     /\ request' = [request EXCEPT ![r] = IF found.new = <<>> THEN Free
                                          ELSE [@ EXCEPT !.at = "tasks", !.todo = found.new]]
     /\ seen' = found.seen /\ forgotten' = found.out
     /\ owed' \in {owed, owed \ {w}}
     /\ UNCHANGED <<clock, hits, accepted, processed, streamVars, edgeEnds>>

\* A turn of the agent; an exception of it becomes the text of the answer.
Process(r) ==
  /\ request[r].at = "tasks"
  /\ processed' = [processed EXCEPT ![Head(request[r].todo)] = @ + 1]
  /\ request' = [request EXCEPT ![r].at = "answer", ![r].todo = Tail(@)]
  /\ UNCHANGED <<clock, hits, accepted, owed, seen, forgotten, streamVars, edgeEnds>>

\* Sending the answer is not guarded: when it raises, the other messages of the
\* request are never processed.
SendAnswer(r) ==
  /\ request[r].at = "answer"
  /\ \E ok \in BOOLEAN :
       request' = [request EXCEPT ![r] = IF ok /\ @.todo # <<>> THEN [@ EXCEPT !.at = "tasks"]
                                         ELSE Free]
  /\ UNCHANGED <<clock, hits, accepted, owed, seen, forgotten, processed,
                 streamVars, edgeEnds>>

-----------------------------------------------------------------------------
(* EventBus and the sockets of /v1/events.                                 *)

Connect(s) ==
  /\ stream[s] = "none" /\ stream' = [stream EXCEPT ![s] = "open"]
  /\ UNCHANGED <<hookVars, published, telling, ready, queue, sending, sent,
                 dropped, edgeEnds>>

\* The handlers are looked up under the lock; that of a closed socket is still
\* among them.
PublishEvent(p) ==
  /\ telling[p] = {} /\ published[p] < MaxEvents
  /\ published' = [published EXCEPT ![p] = @ + 1]
  /\ telling' = [telling EXCEPT ![p] = {s \in Socket : stream[s] # "none"}]
  /\ UNCHANGED <<hookVars, ready, stream, queue, sending, sent, dropped, edgeEnds>>

\* A handler hands the loop a call.
Tell(p, s) ==
  /\ s \in telling[p] /\ telling' = [telling EXCEPT ![p] = @ \ {s}]
  /\ ready' = Append(ready, [socket |-> s, event |-> <<p, published[p]>>])
  /\ UNCHANGED <<hookVars, published, stream, queue, sending, sent, dropped, edgeEnds>>

Enqueued(call) ==
  IF Len(queue[call.socket]) < Room
  THEN queue' = [queue EXCEPT ![call.socket] = Append(@, call.event)] /\ UNCHANGED dropped
  ELSE dropped' = [dropped EXCEPT ![call.socket] = @ \cup {call.event}] /\ UNCHANGED queue

\* The calls are made in any order.
Put_Unordered ==
  /\ \E i \in DOMAIN ready : Enqueued(ready[i]) /\ ready' = RemoveAt(ready, i)
  /\ UNCHANGED <<hookVars, published, telling, stream, sending, sent, edgeEnds>>

Put ==
  /\ ready # <<>> /\ Enqueued(Head(ready)) /\ ready' = Tail(ready)
  /\ UNCHANGED <<hookVars, published, telling, stream, sending, sent, edgeEnds>>

TakeEvent(s) ==
  /\ stream[s] = "open" /\ sending[s] = NoEvent /\ queue[s] # <<>>
  /\ sending' = [sending EXCEPT ![s] = Head(queue[s])]
  /\ queue' = [queue EXCEPT ![s] = Tail(@)]
  /\ UNCHANGED <<hookVars, published, telling, ready, stream, sent, dropped, edgeEnds>>

\* That the other side has gone is noticed here only.
SendEvent(s) ==
  /\ sending[s] # NoEvent /\ sending' = [sending EXCEPT ![s] = NoEvent]
  /\ \/ sent' = [sent EXCEPT ![s] = Append(@, sending[s])] /\ UNCHANGED stream
     \/ stream' = [stream EXCEPT ![s] = "closed"] /\ UNCHANGED sent
  /\ UNCHANGED <<hookVars, published, telling, ready, queue, dropped, edgeEnds>>

-----------------------------------------------------------------------------
\* The process ends and another one is started: what it remembered is gone.
ServerEnds ==
  /\ edgeEnds < MaxEdgeEnds /\ edgeEnds' = edgeEnds + 1
  /\ hits' = <<>> /\ accepted' = <<>>
  /\ request' = [r \in Request |-> Free]
  /\ seen' = <<>> /\ forgotten' = forgotten \cup ToSet(seen)
  /\ published' = [p \in Publisher |-> 0] /\ telling' = [p \in Publisher |-> {}]
  /\ ready' = <<>> /\ stream' = [s \in Socket |-> "none"]
  /\ queue' = [s \in Socket |-> <<>>] /\ sending' = [s \in Socket |-> NoEvent]
  /\ sent' = [s \in Socket |-> <<>>] /\ dropped' = [s \in Socket |-> {}]
  /\ UNCHANGED <<clock, owed, processed>>

RequestStep(r) ==
  (\E w \in Webhook : Deliver(r, w)) \/ ExtractMessages(r) \/ Process(r) \/ SendAnswer(r)
StreamStep ==
  \/ \E s \in Socket : Connect(s) \/ TakeEvent(s) \/ SendEvent(s)
  \/ \E p \in Publisher : PublishEvent(p) \/ \E s \in Socket : Tell(p, s)
  \/ Put
EdgeNext == Tick \/ (\E r \in Request : RequestStep(r)) \/ StreamStep \/ ServerEnds

EdgeSpec == EdgeInit /\ [][EdgeNext]_edgeVars

-----------------------------------------------------------------------------
(* Properties.                                                             *)

RequestRecord == [at : {"free", "arrived", "tasks", "answer"}, hook : Webhook, todo : Seq(Ids)]

EdgeTypeOK ==
  /\ clock \in 0 .. MaxTicks /\ edgeEnds \in 0 .. MaxEdgeEnds
  /\ hits \in Seq(0 .. MaxTicks) /\ Len(hits) <= Limit /\ accepted \in Seq(0 .. MaxTicks)
  /\ owed \subseteq Webhook /\ request \in [Request -> RequestRecord]
  /\ \A r \in Request : request[r].at = "tasks" => request[r].todo # <<>>
  /\ seen \in Seq(Ids) /\ Len(seen) <= Remembered
  /\ forgotten \subseteq Ids /\ processed \in [Ids -> Nat]
  /\ published \in [Publisher -> 0 .. MaxEvents] /\ telling \in [Publisher -> SUBSET Socket]
  /\ \A p \in Publisher : telling[p] # {} => published[p] > 0
  /\ ready \in Seq([socket : Socket, event : Events])
  /\ stream \in [Socket -> {"none", "open", "closed"}]
  /\ queue \in [Socket -> Seq(Events)] /\ \A s \in Socket : Len(queue[s]) <= Room
  /\ sending \in [Socket -> Events \cup {NoEvent}] /\ sent \in [Socket -> Seq(Events)]
  /\ dropped \in [Socket -> SUBSET Events]

\* No minute has more than its number of accepted requests, wherever it begins.
\* (limits)
RateIsKept ==
  \A t \in 0 .. MaxTicks :
    Cardinality({i \in DOMAIN accepted : t <= accepted[i] /\ accepted[i] <= t + Minute}) <= Limit

\* README.md:32, "duplicate message IDs are ignored": a message delivered again,
\* also while it is being processed, is not given to the agent again as long as
\* its id is remembered.  (_new_message, extract_messages)
DuplicatesAreIgnored == \A i \in Ids : processed[i] > 1 => i \in forgotten

\* A socket gets the events of a publisher in their order and once, and misses
\* none between two of them but for a full queue.  (publish, handler)
StreamIsInOrder ==
  \A s \in Socket : \A i, j \in DOMAIN sent[s] :
    LET early == sent[s][i]
        late == sent[s][j]
    IN i < j /\ early[1] = late[1] =>
         /\ early[2] < late[2]
         /\ \A n \in early[2] + 1 .. late[2] - 1 :
              \/ <<early[1], n>> \in dropped[s]
              \/ \E k \in i .. j : sent[s][k] = <<early[1], n>>

\* What comes in and what goes out at the edge of the server.
EdgeIsSound == RateIsKept /\ DuplicatesAreIgnored /\ StreamIsInOrder
=============================================================================
