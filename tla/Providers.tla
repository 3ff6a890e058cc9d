------------------------------ MODULE Providers -----------------------------
(***************************************************************************)
(* Model providers: the tables (models/management.py), the router that     *)
(* tries one model after the other (models/intelligent_router.py) and the  *)
(* connection of a provider (onboarding/providers.py).                     *)
(*                                                                         *)
(* A turn and its sub-agents route at the same time, each in a thread of   *)
(* its own, while the owner edits the tables and tests providers.  Every   *)
(* call of the store is a transaction of its own; one that reads and then  *)
(* writes is two, as the read does not begin one.                          *)
(***************************************************************************)
EXTENDS Naturals, Sequences, FiniteSets, SequencesExt

CONSTANTS
  ProviderId,     \* ids that rows may get
  Kind, ModelName,
  Address,        \* addresses of providers that the owner may give
  Routing,        \* threads that route or test
  Connecting,     \* threads that connect a provider
  Rule,           \* routing rules the owner may set
  Catalogue,      \* [Kind -> names its discovery may lead to]
  MaxRoutes, MaxStoreErrors, MaxEdits       \* bounds

ASSUME ProvidersAssumption ==
  /\ Catalogue \in [Kind -> SUBSET ModelName]
  /\ "none" \notin Kind /\ "none" \notin ProviderId /\ "none" \notin Address
  /\ {MaxRoutes, MaxStoreErrors, MaxEdits} \subseteq Nat

VARIABLES
  providers,      \* the rows, by id
  models,         \* the rows
  rule,           \* the rule of the default task
  route,          \* what each routing thread does
  usage,          \* rows of model_usage: <<thread, request, model, status>>
  link,           \* what each connecting thread does
  routes, storeErrors, edits

providersVars == <<providers, models, rule, route, usage, link, routes,
                   storeErrors, edits>>

\* The address that a kind has of itself, PROVIDER_PRESETS; one that is not given
\* is "none".
Preset == "preset"
Addresses == Address \cup {Preset}
Given(url) == IF url = "none" THEN Preset ELSE url

NoRow == [kind |-> "none", url |-> "none", on |-> FALSE, priority |-> 0,
          health |-> "unknown", failures |-> 0]
Rows == {p \in ProviderId : providers[p] # NoRow}
NewRow(kind, url, on) == [kind |-> kind, url |-> Given(url), on |-> on, priority |-> 100,
                          health |-> "unknown", failures |-> 0]
NoRoute == [at |-> "idle", test |-> FALSE, request |-> 0, all |-> <<>>,
            left |-> <<>>, count |-> 0, result |-> "none"]
NoLink == [at |-> "idle", kind |-> "none", url |-> "none", id |-> "none",
           name |-> "none", known |-> FALSE]

ProvidersInit ==
  /\ \E kind \in Kind, p \in ProviderId, name \in ModelName :   \* _seed_legacy_provider
       /\ providers = [q \in ProviderId |-> IF q = p THEN NewRow(kind, "none", TRUE) ELSE NoRow]
       /\ models = {[provider |-> p, name |-> name, on |-> TRUE, cost |-> 0,
                     caps |-> {"text", "tools"}, priority |-> 100]}
  /\ rule \in Rule /\ route = [r \in Routing |-> NoRoute] /\ usage = {}
  /\ link = [c \in Connecting |-> NoLink]
  /\ routes = 0 /\ storeErrors = 0 /\ edits = 0

tableVars == <<providers, models, rule, usage>>
boundVars == <<routes, storeErrors, edits>>

-----------------------------------------------------------------------------
(* candidates: what a route may use, the best first.                       *)

Eligible(manual) ==
  {m \in models :
     /\ m.on /\ providers[m.provider].on
     /\ IF manual # "none" THEN m.name = manual
        ELSE /\ rule.required \subseteq m.caps /\ m.cost <= rule.ceiling
             /\ providers[m.provider].health # "unhealthy"}

\* What is measured of past calls breaks the ties that this leaves; of several
\* preferred models the code takes the first, here any of them goes.
Score(m, strategy) ==
  LET pref == IF m.name \in rule.preferred THEN 0 ELSE 1
      sick == IF providers[m.provider].health = "healthy" THEN 0 ELSE 25
  IN CASE strategy = "cost"    -> <<m.cost, pref, m.priority, sick>>
       [] strategy = "quality" -> <<pref, m.priority, sick, m.cost>>
       [] strategy = "latency" -> <<sick>>
       [] OTHER -> <<pref, m.priority + providers[m.provider].priority + sick>>
Below(a, b) ==
  \E i \in DOMAIN a : a[i] < b[i] /\ \A j \in 1 .. i - 1 : a[j] = b[j]
Ranked(manual) ==
  LET strategy == IF manual = "none" THEN rule.strategy ELSE "manual"
  IN {s \in SetToSeqs(Eligible(manual)) :
        \A i, j \in DOMAIN s :
          i < j => ~Below(Score(s[j], strategy), Score(s[i], strategy))}

-----------------------------------------------------------------------------
(* complete and test_provider.                                             *)

Proceeds(r, record) == route' = [route EXCEPT ![r] = record]
RouteAt(r, place) == route[r].at = place
Tried(r) == Head(route[r].left)
StoreFails ==
  /\ storeErrors < MaxStoreErrors /\ storeErrors' = storeErrors + 1
  /\ UNCHANGED <<routes, edits>>

BeginRoute(r, manual) ==
  /\ RouteAt(r, "idle") /\ routes < MaxRoutes /\ routes' = routes + 1
  /\ \E order \in Ranked(manual) :
       Proceeds(r, [NoRoute EXCEPT !.at = "next", !.request = routes + 1,
                                   !.all = order, !.left = order])
  /\ UNCHANGED <<tableVars, storeErrors, edits, link>>

BeginTest(r, m) ==
  /\ RouteAt(r, "idle") /\ routes < MaxRoutes /\ routes' = routes + 1
  /\ m \in models /\ m.on
  /\ Proceeds(r, [NoRoute EXCEPT !.at = "call", !.test = TRUE, !.left = <<m>>])
  /\ UNCHANGED <<tableVars, storeErrors, edits, link>>

\* A provider that has been deleted since raises out of the whole route.
NextModel(r) ==
  /\ RouteAt(r, "next")
  /\ Proceeds(r, IF route[r].left = <<>>
                 THEN [route[r] EXCEPT !.at = "ended",
                         !.result = IF route[r].all = <<>> THEN "legacy" ELSE "exhausted"]
                 ELSE IF Tried(r).provider \notin Rows
                 THEN [route[r] EXCEPT !.at = "ended", !.result = "raised"]
                 ELSE [route[r] EXCEPT !.at = "call"])
  /\ UNCHANGED <<tableVars, boundVars, link>>

Marked(p, health, failures) ==
  IF p \in Rows THEN [providers EXCEPT ![p].health = health, ![p].failures = failures]
  ELSE providers

\* The usage is written before the call, for what it will have been.
CallAnswers_Booked(r) ==
  /\ RouteAt(r, "call") /\ providers' = Marked(Tried(r).provider, "healthy", 0)
  /\ Proceeds(r, [route[r] EXCEPT !.at = IF route[r].test THEN "ended" ELSE "book",
                                  !.result = IF route[r].test THEN "answer" ELSE @])
  /\ usage' = IF route[r].test THEN usage
              ELSE usage \cup {<<r, route[r].request, Tried(r), "success">>}
  /\ UNCHANGED <<models, rule, boundVars, link>>

\* An answer makes the provider healthy.  A test is over then.
CallAnswers(r) ==
  /\ RouteAt(r, "call") /\ providers' = Marked(Tried(r).provider, "healthy", 0)
  /\ Proceeds(r, [route[r] EXCEPT !.at = IF route[r].test THEN "ended" ELSE "book",
                                  !.result = IF route[r].test THEN "answer" ELSE @])
  /\ UNCHANGED <<models, rule, usage, boundVars, link>>

\* It does not answer, or the store fails to write that it did.
CallFails(r) ==
  /\ RouteAt(r, "call")
  /\ Proceeds(r, [route[r] EXCEPT !.at = "fail"])
  /\ UNCHANGED <<tableVars, boundVars, link>>

BookAnswer(r) ==
  /\ RouteAt(r, "book")
  /\ \/ /\ usage' = usage \cup {<<r, route[r].request, Tried(r), "success">>}
        /\ Proceeds(r, [route[r] EXCEPT !.at = "ended", !.result = "answer"])
        /\ UNCHANGED boundVars
     \/ /\ StoreFails /\ UNCHANGED usage
        /\ Proceeds(r, [route[r] EXCEPT !.at = "fail"])
  /\ UNCHANGED <<providers, models, rule, link>>

\* health: the count is read, then written one higher.
CountFailures(r) ==
  /\ RouteAt(r, "fail")
  /\ Proceeds(r, [route[r] EXCEPT !.at = "mark",
                    !.count = IF Tried(r).provider \in Rows
                              THEN providers[Tried(r).provider].failures + 1 ELSE 1])
  /\ UNCHANGED <<tableVars, boundVars, link>>

MarkFailure(r) ==
  /\ RouteAt(r, "mark")
  /\ providers' = Marked(Tried(r).provider,
                         IF route[r].count < 3 THEN "degraded" ELSE "unhealthy",
                         route[r].count)
  /\ Proceeds(r, [route[r] EXCEPT !.at = IF route[r].test THEN "ended" ELSE "note",
                                  !.result = IF route[r].test THEN "failed" ELSE @])
  /\ UNCHANGED <<models, rule, usage, boundVars, link>>

NoteFailure(r) ==
  /\ RouteAt(r, "note")
  /\ usage' = usage \cup {<<r, route[r].request, Tried(r), "failed">>}
  /\ Proceeds(r, [route[r] EXCEPT !.at = "next", !.left = Tail(@)])
  /\ UNCHANGED <<providers, models, rule, boundVars, link>>

\* The store fails while a failure is handled: that raises.
HandlerRaises(r) ==
  /\ route[r].at \in {"fail", "mark", "note"} /\ StoreFails
  /\ Proceeds(r, [route[r] EXCEPT !.at = "ended", !.result = "raised"])
  /\ UNCHANGED <<tableVars, link>>

EndRoute(r) ==
  /\ RouteAt(r, "ended") /\ Proceeds(r, NoRoute)
  /\ UNCHANGED <<tableVars, boundVars, link>>

-----------------------------------------------------------------------------
(* What the owner does to the tables.                                      *)

Edits == edits < MaxEdits /\ edits' = edits + 1 /\ UNCHANGED <<routes, storeErrors>>

DeleteProvider(p) ==
  /\ p \in Rows /\ Edits
  /\ providers' = [providers EXCEPT ![p] = NoRow]
  /\ models' = {m \in models : m.provider # p}
  /\ UNCHANGED <<rule, usage, route, link>>

EditProvider(p, on, url) ==
  /\ p \in Rows /\ Edits
  /\ providers' = [providers EXCEPT ![p].on = on, ![p].url = url]
  /\ UNCHANGED <<models, rule, usage, route, link>>

\* The dashboard's form inserts a row and looks for none that is there.
AddProvider(kind, url, on) ==
  /\ Edits
  /\ \E p \in ProviderId \ Rows : providers' = [providers EXCEPT ![p] = NewRow(kind, url, on)]
  /\ UNCHANGED <<models, rule, usage, route, link>>

SetRule ==
  /\ Edits /\ rule' \in Rule \ {rule}
  /\ UNCHANGED <<providers, models, usage, route, link>>

-----------------------------------------------------------------------------
(* connect_provider_atomically.                                            *)

Links(c, record) == link' = [link EXCEPT ![c] = record]

\* A row of the kind is taken, and of the address if one is given: any of them.
LookUp(c, kind, url) ==
  LET same == {p \in Rows : providers[p].kind = kind /\ url \in {"none", providers[p].url}}
  IN /\ link[c].at = "idle" /\ Edits
     /\ \E p \in IF same = {} THEN {"none"} ELSE same :
          Links(c, [NoLink EXCEPT !.at = "upsert", !.kind = kind, !.url = url, !.id = p])
     /\ UNCHANGED <<tableVars, route>>

\* What was found is updated, its address too, health and failures apart; a row
\* deleted since is updated nowhere.
UpsertProvider(c) ==
  /\ link[c].at = "upsert"
  /\ \E p \in IF link[c].id # "none" THEN {link[c].id} ELSE ProviderId \ Rows :
       /\ providers' =
            IF link[c].id = "none"
            THEN [providers EXCEPT ![p] = NewRow(link[c].kind, link[c].url, TRUE)]
            ELSE IF p \in Rows
            THEN [providers EXCEPT ![p].on = TRUE, ![p].priority = 100,
                                   ![p].url = Given(link[c].url)]
            ELSE providers
       /\ Links(c, [link[c] EXCEPT !.at = "discover", !.id = p])
  /\ UNCHANGED <<models, rule, usage, route, boundVars>>

HasModel(p, name) == \E m \in models : m.provider = p /\ m.name = name

\* Discovery, or the fallback for it, gives a name; the name is looked up.
Discover(c) ==
  /\ link[c].at = "discover"
  /\ \E name \in Catalogue[link[c].kind] :
       Links(c, IF link[c].id \notin Rows THEN NoLink
                ELSE [link[c] EXCEPT !.at = "model", !.name = name,
                                     !.known = HasModel(link[c].id, name)])
  /\ UNCHANGED <<tableVars, route, boundVars>>

\* An insert that another one was faster with, or whose provider is gone, raises.
UpsertModel(c) ==
  LET p == link[c].id
      name == link[c].name
      row == [provider |-> p, name |-> name, on |-> TRUE, cost |-> 0,
              caps |-> {"text", "tools", "code"}, priority |-> 100]
  IN /\ link[c].at = "model" /\ Links(c, NoLink)
     /\ models' = IF link[c].known
                  THEN {IF m.provider = p /\ m.name = name THEN row ELSE m : m \in models}
                  ELSE IF p \in Rows /\ ~HasModel(p, name) THEN models \cup {row}
                  ELSE models
     /\ UNCHANGED <<providers, rule, usage, route, boundVars>>

-----------------------------------------------------------------------------
RouteStep(r) ==
  \/ NextModel(r) \/ CallAnswers(r) \/ CallFails(r) \/ BookAnswer(r)
  \/ CountFailures(r) \/ MarkFailure(r) \/ NoteFailure(r) \/ HandlerRaises(r)
LinkStep(c) == UpsertProvider(c) \/ Discover(c) \/ UpsertModel(c)

ProvidersNext ==
  \/ \E r \in Routing :
       \/ \E manual \in ModelName \cup {"none"} : BeginRoute(r, manual)
       \/ \E m \in models : BeginTest(r, m)
       \/ RouteStep(r) \/ EndRoute(r)
  \/ \E p \in ProviderId :
       DeleteProvider(p) \/ \E on \in BOOLEAN, url \in Addresses : EditProvider(p, on, url)
  \/ \E kind \in Kind, url \in Addresses \cup {"none"}, on \in BOOLEAN :
       AddProvider(kind, url, on)
  \/ SetRule
  \/ \E c \in Connecting : \/ \E kind \in Kind, url \in Addresses \cup {"none"} : LookUp(c, kind, url)
                           \/ LinkStep(c)

ProvidersSpec == ProvidersInit /\ [][ProvidersNext]_providersVars

-----------------------------------------------------------------------------
(* Properties.                                                             *)

ProviderRow == [kind : Kind, url : Addresses, on : BOOLEAN, priority : Nat,
                health : {"unknown", "healthy", "degraded", "unhealthy"}, failures : Nat]
ModelRow == [provider : ProviderId, name : ModelName, on : {TRUE}, cost : Nat,
             caps : SUBSET {"text", "tools", "code"}, priority : Nat]
RouteRecord ==
  [at : {"idle", "next", "call", "book", "fail", "mark", "note", "ended"}, test : BOOLEAN,
   request : Nat, all : Seq(ModelRow), left : Seq(ModelRow), count : Nat,
   result : {"none", "legacy", "exhausted", "raised", "answer", "failed"}]
LinkRecord ==
  [at : {"idle", "upsert", "discover", "model"}, kind : Kind \cup {"none"},
   url : Addresses \cup {"none"}, id : ProviderId \cup {"none"},
   name : ModelName \cup {"none"}, known : BOOLEAN]

ProvidersTypeOK ==
  /\ providers \in [ProviderId -> ProviderRow \cup {NoRow}]
  /\ models \subseteq ModelRow /\ IsFiniteSet(models)
  /\ \A m \in models : m.provider \in Rows
  /\ \A m, n \in models : m.provider = n.provider /\ m.name = n.name => m = n
  /\ rule \in Rule /\ route \in [Routing -> RouteRecord]
  /\ \A r \in Routing : route[r].at \in {"call", "book", "fail", "mark", "note"} =>
       route[r].left # <<>>
  /\ \A r \in Routing : route[r].request <= routes
  /\ usage \subseteq Routing \X Nat \X ModelRow \X {"success", "failed"}
  /\ \A u \in usage : u[2] <= routes
  /\ link \in [Connecting -> LinkRecord]
  /\ \A c \in Connecting : /\ link[c].at # "idle" => link[c].kind \in Kind
                           /\ link[c].at \in {"discover", "model"} => link[c].id \in ProviderId
                           /\ link[c].at = "model" => link[c].name \in ModelName
  /\ routes \in 0 .. MaxRoutes /\ storeErrors \in 0 .. MaxStoreErrors /\ edits \in 0 .. MaxEdits

\* When a route ends, the usage table tells what it did: an answer is the one
\* success of its request, everything tried before it failed, and a route that
\* gives up has a failure for every candidate.  Store errors, edits and other
\* routes come in between.  (complete, record_usage)
RouteIsAccounted ==
  \A r \in Routing :
    LET noted(status) == {m \in ToSet(route[r].all) :
                            <<r, route[r].request, m, status>> \in usage}
        before == ToSet(route[r].all) \ ToSet(route[r].left)
    IN route[r].at = "ended" /\ ~route[r].test =>
         /\ route[r].result = "answer" => noted("success") = {Tried(r)} /\ noted("failed") = before
         /\ route[r].result # "answer" => noted("success") = {}
         /\ route[r].result = "exhausted" => noted("failed") = ToSet(route[r].all)
=============================================================================
