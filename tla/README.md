# AIBA agent: TLA+ specifications

Models of the AIBA agent, of its concurrent core and of the services around it, checked with TLC on small
instances and, for the properties that matter most, proved with TLAPS for every
value of the constants. The source of every definition is the Python code; the
map of definitions to lines is in `PROJECT.json`.

Check a run with `tlc -config <Run>.cfg <MC module>.tla`, the proofs with
`tlapm <Module>Proofs.tla`.

## The system

One process (`main.py`, `product_server.py`) builds one `AgentLoop`
(`agent/loop.py`, extended by `agent/enhanced_loop.py`), which owns everything
else. Short-lived command line processes (`cli/capability.py`) build an
`AgentLoop` of their own on the same files.

| Part | State | Operations | What is hard | What makes it correct |
|---|---|---|---|---|
| Agent turn (`agent/loop.py`, `enhanced_loop.py`, `tasks.py`, `sessions.py`, `conversation_store.py`) | run lock, current user, task/session/conversation rows | `handle`, recovery at construction, `close` | turns of several users and of the job worker meet at the run lock; history is read before it | one turn at a time; each turn sees the turns before it; no row is left running |
| Subagents (`agent/subagents.py`, `subagent_manager.py`) | sqlite rows, active ids, per-parent counts, cancel flags, consents, an executor | `delegate`, `run_many`, `cancel`, `shutdown`, worker loop, recovery | executor threads, cancels and shutdown against dispatch and provider calls in flight | limits, no leaked slot, truthful records, nothing runs after a stop |
| Jobs (`runtime/queue.py`, `worker.py`) | job rows, one worker thread per process | `enqueue`, `claim`, `complete`, `fail`, `recover`, `run_once` | crash between handler and record, several processes on one file, a store error on the wrong statement | each job ends complete or failed, within its attempts, once for good |
| Scheduler (`runtime/scheduler.py`) | schedule rows, one scheduler thread per process | `add_interval`, `tick` | two databases without a common transaction | a due run is enqueued, once per interval |
| Events (`runtime/events.py`, `api/server.py`) | handlers, one bounded queue per socket | `publish`, `subscribe` | callbacks on foreign threads, queue at its limit | a socket gets a publisher's events in order, with no gap but those a full queue makes |
| Tools (`tools/registry.py`, `security/policy.py`, `approvals/manager.py`, `skills/manager.py`) | registered tools, the policy file, grants and refusals of a request | `execute`, `request_scope`, `set_tool_permission` | requests at once, skills that call tools, workers on other threads, policy edits | nothing runs unless every gate is passed; a refusal reaches the client |
| Clarify (`tools/clarify.py`) | pending questions | `ask`, `answer` | answer against timeout | an answer is used once: by the ask that waits or by a turn of its own |
| MCP client (`mcp_client/`) | parsed config, four call slots | `execute`, `status` | nested time bounds, slots, a file edited under the process | what runs was vetted by one content of the file; every call reports; no slot is lost |
| Computer node (`computer/node.py`, `controller.py`) | pairing and kill files; per process: flags, budget, opt-ins | `pair`, `enable`, `emergency_stop`, `revoke`, `authorize` | commands and the server are different processes on the same two files; crashes between the writes | no action after a stop or a revocation |
| Providers (`models/`, `onboarding/providers.py`) | provider, model, rule and usage rows, health | `complete`, `test_provider`, `upsert_provider`, `connect_provider_atomically` | failures feed back into routing; the store may fail inside the handling of a failure | the usage table tells what a route did |
| Updates, backups, migrations (`updates/`, `aiba_launcher.py`, `operations/`) | state file, staged archive, kept sources, backup folders, migration rows | `check`, `stage`, `apply_staged`, `create`, `restore`, `apply` | checks and stages of several processes on one file, failure half way, processes that start together | one release is served; every served database is migrated; what a restore replaces is in a backup |
| Personality and onboarding (`personality/experience.py`) | a profile: cached and a file | `intercept`, commands, `_save` | threads of one user, a crash inside a save | a pause the user was told of holds |
| Memory, skills | vault rows, revisions | `add`, `update`, `rollback` | several writers of one user | rows stay with their owner |
| Connectors (`connectors/`, the webhook and the limits of `api/server.py`) | update offset, prompted version; seen ids, hits of a host | `poll_once`, `on_callback`, webhook, `process` | redelivery, restart, replies that fail | a message is handled, and once while it is remembered; no minute has more requests than its limit |
| Browser session (`tools/browser_session.py`, `security/egress_proxy.py`, `urlguard.py`) | Playwright objects, pending download, switches | `open`, `click`, `download`, `close` | pages that act by themselves, names that move, several threads | only public addresses are reached; a download is saved once |

`PROJECT.json` lists every component, with the reason where one is not
modelled, and the hazards of the code, each at its line.

Processes and threads share state in four ways: sqlite files (every access a
transaction of its own, `sqlite_utils.connect`), plain files, fields of objects
guarded by a lock or by nothing, and the event bus, which calls its handlers on
the publisher's thread.

## Modules

| Module | Models |
|---|---|
| `SubagentPool` | the subagent store, pool, worker loop and manager: `agent/subagents.py`, `agent/subagent_manager.py`, and how `agent/loop.py` and `cli/capability.py` use them |
| `SlotPool` | what the pool promises, abstractly: a two-level semaphore |
| `SubagentPoolProofs` | theorems about `SubagentPool` |
| `JobQueue` | `runtime/queue.py` and the worker threads of `runtime/worker.py` |
| `DurableQueue` | what the queue promises, abstractly: the life cycle of a job |
| `JobQueueProofs` | theorems about `JobQueue` |
| `Scheduler` | `runtime/scheduler.py` composed with `JobQueue`, which it extends |
| `SchedulerProofs` | theorems about `Scheduler`, from those about the queue |
| `ComputerNode` | the gate of desktop control and its controller: `computer/node.py`, `computer/controller.py` |
| `ComputerNodeProofs` | theorems about `ComputerNode` |
| `AgentTurn` | a handled message: `agent/enhanced_loop.py`, `tasks.py`, `sessions.py`, `conversation_store.py`, the loop of `reasoning/engine.py`, the memory pause of `personality/experience.py` |
| `Dialogue` | what the conversation store promises its readers, abstractly |
| `AgentTurnProofs` | theorems about `AgentTurn` |
| `McpBridge` | `mcp_client/client.py`, `config.py`, `policy.py` |
| `PermissionFile` | `permissions.json` and the commands `aiba tools enable` and `disable`: `diagnostics/capability_state.py`, `cli/capability.py` |
| `ToolGate` | extends it with the gates of a tool call: `tools/registry.py`, `security/policy.py`, `approvals/manager.py`, a skill's and a worker's calls, the capability report |
| `BrowserSession` | `tools/browser_session.py` with its proxy and the URL guard |
| `TelegramChat` | `connectors/telegram.py` and `tools/clarify.py` |
| `Updates` | `updates/manager.py` and `aiba_launcher.py` |
| `Databases` | `operations/migrations.py`, `operations/backup.py` |
| `Providers` | `models/management.py`, `models/intelligent_router.py`, `connect_provider_atomically` |
| `Profile` | `personality/experience.py` |
| `ServerEdge` | the limits, the WhatsApp webhook and the event sockets of `api/server.py`, with `connectors/whatsapp.py` and `runtime/events.py` |
| `ToolsProofs` | theorems about `PermissionFile`, `ToolGate`, `BrowserSession` and `McpBridge` |
| `ChannelsProofs` | theorems about `TelegramChat`, `Profile` and `ServerEdge` |
| `OperationsProofs` | theorems about `Updates`, `Databases` and `Providers` |
| `MCSubagentPool`, `MCJobQueue`, `MCScheduler`, `MCComputerNode`, `MCAgentTurn` | constants for TLC |
| `MCTools`, `MCServices` | constants for TLC and the *scenes* of modules that share no state |

In all modules every update of a database, of a file or of a field that another
thread can see is a step of its own; the reads that make up one test, one scan
or one SQL statement are one step. Operators whose name ends in a suffix
(`CanDispatch_OffByOne`, `Recover_Skips`) are variants with a plausible bug, used
to see that a property notices it; no action refers to them.

### SubagentPool

Actors and how they correspond to the code:

- A **caller** is a thread inside `run_many`; `delegate` alone is a batch of one
  whose wait expires. `cpc[c]` is its place in the code, `cur[c]` the id whose
  `delegate`/`_maybe_dispatch`/`dispatch` it is in, `todo[c]`, `batch[c]`,
  `results[c]`, `pending[c]` the locals of `run_many`. `AgentLoop._run_lock`
  leaves one caller in a process (subagents are started from a turn only), which
  is what the runs have; the proofs hold for any number, but for those of the
  limits, which are false with two.
- A **worker** is one work item of the executor. `wpc[s]` is its place in
  `_run_guarded`/`_run`/`_worker_loop`/`_end`. `try`, `except` and `guard` are
  the three places that write the outcome: the try block of `_run`, its except
  clauses, the except clause of `_run_guarded`; a failing write falls through
  from one to the next, and after the third the outcome is `unwritten`. The writes
  of the others can fail as well: an error in `create`, in the mark or in the
  rollback of a dispatch leaves `run_many` (`CallerRaises`; a refused rollback
  leaves its record RUNNING and `unwritten`), one in `cancel` leaves `cancel`
  (`CancelRaises`).
- An **operator** is a thread inside `cancel`; one thread is inside `shutdown`.
- `Restart` is the death of the process and the constructor of the next one;
  `PeerStarts` is another process that constructs an `AgentLoop`.

`_end` is two steps (the unlocked pop and the locked count). The variable `event`
is chosen once, from the constant `Scenario`, and says what the environment may
do in a behaviour: cancel, shut down, start a second process, fail the store, let
the caller's wait expire. One run thereby covers several environments without
their product. Deadlines, the cost cap, provider answers and failures are
nondeterministic and always possible.

Not in the model: texts, cost figures, audit and progress events, the cap of 50
objectives, `list`/`status`/`synthesize` (read only), and the tool handler
behind a worker's tool call (the gates before it are in `ToolGate`).

Properties:

- `SlotsAccounted`: each parent's counter is the number of its ids that a caller
  or a worker holds. Rollback, failing writes, shutdown and cancel all run
  through `_end`; one missed or doubled `_end` breaks it.
- `BoundedSlots`: the limits hold with one caller although test and taking are
  separate; with two callers they do not. (`LimitsRespected` says the limits alone.)
- `ReportIsTrue`: results and pending ids come from two scans, between which and
  after which workers, cancels and second processes write. What was reported has
  ended for good, nothing is in both lists, and an id in neither ended in between.
- `RunningHasWorker`: the record never says RUNNING without a worker, the
  promise of `dispatch`'s docstring, through rollback and recovery. The one
  exception is a record whose last status the store refused: the outcome three
  times, or the QUEUED of a rollback (`subagents.py:319`), whose error is then
  raised in place of the rejected submit. It stays RUNNING until the next process
  recovers it, so that the docstring holds for what the executor refuses only.
- `LateReplyIsInert`: an answer in flight when the flag was set starts no tool
  and completes nothing.
- `CloseReachesEveryWorker`: once shutdown drains, every worker that has not
  stopped is flagged.
- `NeverRunTwice`: no id reaches the executor twice, however often it is dispatched.
- `WorkerConfined`: a worker's tools are narrowed to what its parent listed, the
  policy permits and the delegation consented to, and a consent that was given has
  reached it by then.
- Liveness: `BatchCompletes`, `EveryWorkerStops`, `CancelTakesEffect`. The first
  is about behaviours without a deadline on the wait and without shutdown, the
  last about those without shutdown: a cancel that meets the rollback of a
  rejected submit is overwritten, since the rollback writes QUEUED whatever the
  record says (`subagents.py:319`). Where the store fails, both have the
  exceptions the code makes: `run_many` raises, or waits for its deadline if the
  outcome of one of its workers was refused three times; `cancel` raises, or the
  worker it flagged could not write its outcome.

Fairness (`Fairness`): weak fairness of each caller, worker, operator inside
`cancel` and of a shutdown under way. Threads are scheduled by the system;
provider calls are bounded by the timeouts of `models/provider.py`, tools by
their own, and `run_many` polls every 20 ms. Executor threads take items from a
queue; the model lets any submitted item go next, and since ids are finitely many
and each runs once, weak fairness is enough. Starting a batch, cancelling,
closing, restarting are never required.

`BoundedSlots` is refinement: `SubagentPool` under `FairSpec` implements
`SlotPool!Spec` with `held` the keys of `_active`, including that every slot
taken is given back.

### JobQueue

`status`, `stamp` (created_at) and `attempts` are the columns of `jobs.db`. An
enqueue reads the clock (`Stamp`), then inserts (`Insert`), so that another
thread's job may come first in the table and later in the order; `Enqueue` is
both at once, for callers that nothing interleaves with. `wpc[w]` is the place of
a worker thread in `run_forever`/`run_once`, `held[w]` the job of its round. The
handler either returns or raises. `fail` is two steps: it reads the attempts and
writes the verdict by id alone.

`StoreFails` lets every statement raise ("database is locked"). Where the code
catches it (`complete` inside the try block) the round goes on as a failure;
where nothing does (`recover`, `claim`, `fail`) the thread ends while its process
lives on. `Crash` is the death of the process, `Start` a process that starts its
worker, at most `MaxStarts` times; a `OneShot` worker is `--worker-once`, which
never recovers. `MaxAttempts` is the column's default, which every caller uses,
as they do priority 100 and `run_after` equal to the creation.

- `AttemptsBounded`: at most `max_attempts` attempts plus one for every time
  `recover` took the job back; the number of crashes is the only way over the
  limit, whichever stale verdicts other workers write.
- `FailedAfterAllAttempts`: a job is given up only after all its attempts.
  `AttemptsRespected`, which the run checks, is both.
- `NoneLeftRunning` and `DoneForGood` (the refinement of `DurableQueue` by
  `Phase`) are about one server; with a second process that starts its worker
  they are false, as the run `JobQueueShared` shows.

### Scheduler

Extends `JobQueue`: the second thread of every process. `nextRun` is the column of
`schedules.db`; `writer` holds the threads with an open write transaction there.
A tick reads the clock and the due rows, and for each row enqueues a job
(`TickEnqueue`, committed in the other database at once) and updates the row
(`TickMove`); its commit moves all of them. A tick that dies or raises keeps its
jobs and loses its moves (`TickLost`). The next unused job id is chosen by
`Fresh`, which stands for `uuid4`. One unit of `time` is the minimum interval.
`fired` and `redo` are observations: jobs enqueued per schedule, and those whose
tick was lost.

- `OncePerInterval`: apart from lost ticks a schedule fires at most once per
  interval; missed runs are not made up for.
- `DueIsFired`, `EveryJobEnds`: if a server stays up in the end (`Serving`), due
  schedules fire and queued jobs end, whatever happened before.

Fairness: each thread takes its next step (the system schedules it, a handler
returns because a turn is bounded by its step cap and timeouts). A failing store
is never required: a thread that polls an empty queue may go on for ever. It is not
assumed that a process is ever started, restarted or kept alive; the liveness
properties have that as their premise, because a thread that met a locked
database is not started again before its process is.

### ComputerNode

A **process** is the server or a command such as `aiba --computer-stop`: each
builds an `AgentLoop` and with it a gate (`paired`, `enabled`, `killed`, `used`,
`optedIn`), from the pairing file (`stored`) and the kill file (`killFile`), read
one after the other at its start and never again. `pair`, `emergency_stop` and
`revoke` change the memory first, then the files; the pairing file is replaced
atomically, the kill file is truncated and written in place (`torn` in between; an
empty file does not parse and counts as no stop). `acting[p]` is the action a turn
of the process has been authorised for and the back end is executing; the lock of
the gate keeps `authorize` out of an operation under way, and the run lock leaves
one action at a time. `Exit` may happen anywhere.

`verdict` and `since` are observations: the last operation that returned without
another one overlapping it (`alone`), and the processes started since.

- `StopSurvivesRestart`, `RevokeSurvivesRestart`: processes started since act on
  nothing, whatever they are told to enable.
  `RevokeSurvivesRestart` also says that revoking is a way out of a stop. Pairing is not: it clears
  the flag in memory and leaves the kill file, so that the node is stopped again
  after the next restart; nor is enabling, which the message of `authorize` names
  (`node.py:255`).

The budget is bounded within a process (`TypeOK`); it is kept in memory, so a
restart grants it again, although `node.py:17` has it hold since pairing. One
operation overlapping another may leave any mixture of the two files; no property
says otherwise.

### AgentTurn

A **turn** is a thread inside `AgentLoop.handle`: of a connector, of the API, or
the job worker. `pc[t]` is its place; `history`, `blocked`, `steps`, `recalled`
are what it keeps in locals (its dialogue, whether `remember` is blocked, the
rounds of the engine, the owners of the memories in its prompt) and `reply` how it
ended: a text, `silent` when the clarify tool asked the user back (`engine.py:84-86`
returns the empty string), or the text of a failure. `scope` is the field of the
one retrieval engine. The stores are `log` (`conversation_messages`), `task`,
`session` and `rows`, the vault as who wrote for whom: by the tool, by the learner,
or as a reflection. `heard` and `allowed` are observations of the turn's start.

Every write is a step, and every write can raise while `storeFails` is in
`event`. What follows is in the code's order: before the lock and in most places
under it the exception leaves `handle` (`Raise`), inside the try block it becomes a
failure (`fail`), around the session row and the learner it is swallowed. `Crash`
is the death of the process, `Start` the next one, `PeerStarts` a command that
builds an `AgentLoop` beside the server and so marks its running tasks.

- `OneExchangeAtATime`: refinement of `Dialogue`. A question is recorded, and the
  next message recorded in any conversation is its answer, unless it is given up.
- `HistoryFollowsAnswers`: the history is read before the lock, so a turn that
  waits does not see the turn it waits for; but whatever had been answered before
  it began is in it, up to the window.
- `TasksAreTrue`: what the tables say when `handle` has returned
  (`ReplyIsRecorded`), and after a restart (`DeadTasksAreMarked`).
- `RecallIsOwn`, `PauseHolds`: memory of other users, and of a paused one. A paused
  turn stores nothing by the two ways that look at the pause, `remember` called by
  the model and the learner, although they look at it at two moments. Three ways do
  not look and are in the model (`RememberAround`, `EditMemory`, the reflection):
  `remember` called by a skill's step or by a worker, both of which call the
  registry without the blocked tools (`skills/manager.py:115`), `update_memory`,
  which is not among them (`loop.py:237`), and the reflection. `PauseHolds`
  is not about these; the run `TurnPaused` shows the promise broken.
- `EveryTurnEnds`, under weak fairness of each turn's next step: model calls have
  timeouts and the engine has a step cap.

Abstractions: message texts (so `Recent` may cut anywhere within the window, as
the character budget does), tools that store no memory, the ranking of memories,
the review file and skill proposals, the commands that onboarding answers. A
reflection file whose row was not written becomes a row at the next retrieval;
here it stays without. A turn without a user id has nobody who could pause it. One
process handles turns; others only construct their loop.

Seen while modelling, and not a property: sessions left active by a crash are
never recovered, since nothing calls `sessions.recover_interrupted`; a job whose
turn fails is complete, since `handle` returns the failure as text; a reflection
that raises after the task was completed makes the job of the turn run again.

### McpBridge

A **call** is one thread inside `execute` or `status`; `at[c]` is its place, `conf[c]`
the configuration it goes by. `FileParses` is `load_config` with everything it
refuses: a file is sound as a whole or not at all. What passes the gates is handed
to one of `Slots` threads as an operation, `op[c]`, which may go on when the call
has given up. Time is counted in a unit that divides all bounds; `left`, `stageLeft`
and `wholeLeft` are what remains of the backstop, of a stage's timeout and of the
bound on a whole stdio operation. A server answers, raises or hangs.

- `HandedOverIsVetted`: one whole content of the file allowed what runs, although
  it is edited and racing first calls read different contents.
- `EveryCallReports`, `SlotsComeBack`: nested timeouts end every wait and every
  operation although servers hang on every slot.

`McpFairness` is weak fairness of each call's and operation's next step and of the
clock: threads are scheduled, timers of `asyncio` and `future.result` expire. An
answer of a server or of the person asked is never required.

What the model shows besides: an operation still queued for a slot can start after
its caller was told that it "was cancelled" (`client.py:516`), since the future is
not; a load error is kept when a later load succeeds; and of two first calls the
slower one's, perhaps older, content is the one that is cached. Nothing but tests
calls `clear_config_cache`.

### ToolGate

A **context** is the thread of a request of the product bridge or of a worker that
the request started; `using[ctx]` is the stack of tools it is inside, so that a
skill's steps are calls below `run_skill`. `policy` is `permissions.json` as it was
at the start of the process, `disk` the file, which commands rewrite
(`PermissionFile`); `grants` and `asked` are the context variables of
`ApprovalManager`.

A **command** reads the file and changes a row of what it read (`ReadFile`), opens
`permissions.json.tmp`, which empties it (`OpenTemp`), writes it (`WriteTemp`) and
renames it (`ReplaceFile`); it may end at any point (`CommandEnds`). There is no lock
and one temporary name: a command that overlaps another may lose its change, find
its file renamed away, write into the file the other has put in place (`target`
says which name its open file goes by), or leave behind the end of a longer text
(`garbled`), and then no process starts. `alone` marks commands that met no other,
`verdict` says how those left a tool, `since` what of it a process could read.

- `OnlyGrantedRuns`: what runs is permitted and switched on, and what needs an
  approval was named by the body of the request whose own thread it runs on.
- `DenialIsReported`: the client learns of every refusal in its own thread.
- `SwitchIsKept`: what a command that was alone switched off is, in a process started
  since, ready in no report, offered to no model and run by nobody, and what it
  switched on is permitted, whatever commands about other tools met in the file
  before or after; and no command, alone or not, changes an approval.

Seen while modelling: the steps of a skill call the registry without the tools that
the conversation blocks, so a skill's `remember` runs while the memory is paused;
what a worker was refused reaches no client; the policy is read once, although a
comment (`loop.py:319-321`) has it checked again "after policy changes"; two commands
that switch tools at once lose one of the changes, fail on the temporary file whose
name they share, or leave a file no process can read.

### BrowserSession

A **surfer** is a thread that calls browser tools. `pw`, `proxy`, `browser` are what
`_ensure` has started, piece by piece; `pw` is the thread that started Playwright,
whose objects answer no other. Any request of the page, by a tool, a redirect or a
script, is in `requests`; `dns` says whether a name leads to a public address, and
may change between any two looks. `last` is `_last_download`.

The route handler is a filter beside the proxy and not relied upon: `RouteGuard` may
take any request for one that is not of the main frame, since what it asks for that
(`browser_session.py:183`) is not among what Playwright documents of a request, and
redirects do not come by it at all.

- `PeersAreReviewed`: connections go to public addresses only, because the proxy
  connects to the address it has judged and not to the name.
- `SavedOnce`: a download is saved once, through failing saves and other threads.

Seen while modelling: nothing calls `configure` or `close_session`; `screenshot`,
`upload` and a `download` with a path declare `path` and hand the handler a keyword
it does not know, so they raise; the gate of sensitive actions lets pass when the
page's state cannot be read, and the page may move on between gate and action; a
download that arrives during `save_as` is forgotten by the clearing that follows.
`CloseSession` ends with the proxy, the threads of which may still be copying bytes
between two connections they have made (`egress_proxy.py:98-101`): those go to an
address that was judged, and are not followed further.

### TelegramChat

The server keeps updates until a poll asks for later ones (`acked`), the process
counts those it has begun (`offset`) and loses that count in a crash. `poll` is the
place of the polling thread, inside a turn included; `job` another holder of the
run lock. Questions of either go through `Clarify.ask`, whose look at the answer and
wait are separate steps.

An exception out of `poll_once` is caught by `run`, which polls again, or is none of
those that `run` names: then the polling thread is over and the process lives on
without it (`AfterAnError`).

- `DeliveryIsSound`: what the server has dropped was handled to an answer or is in
  `raised`, and one process handles nothing twice. `raised` are the updates whose
  handling ended in an exception after the offset had moved (`telegram.py:101`): the
  first message of a user whose profile cannot be saved (`telegram.py:93`,
  `experience.py:238-240`), or a turn that fails and whose crash report fails too
  (`telegram.py:95`). Those are lost, without an answer; the others of the same
  batch are not, since the next poll acknowledges only what was begun.
- `AnswerGoesOneWay`: the ask returns an answer or a button starts a turn with it.

Seen while modelling: no ask ever returns an answer. Its buttons are sent when its wait
has ended (`clarify.py` calls `on_pending` after `q.wait`), and nobody answers what is
not shown, so a blocking ask always runs into its timeout; the proof of
`AnswersGoOneWay` rests on this. An ask on the polling thread would in any case
wait for a button this thread has to receive. Each late or
repeated click starts a turn of its own; a click on a question from before a restart
is dropped without a word; Later on an old prompt makes the version prompted anew,
although `telegram.py:76` speaks of "one native update prompt per discovered version".

### Updates

A **stager** is the server's checker thread, a Telegram button or a command; all
write one state file (`note`) and, per release, one archive. `launch` is the
launcher's place in `apply_staged`, item by item. `source` and `kept` say of which
release each item is; the service manager restarts the launcher for ever. An item is
a file: `Files[r]` are those of a release. An apply puts the files of its release in
place, a directory being merged with what it holds, and removes nothing, so that a
file the release no longer has stays (`manager.py:67-71`).

- `ServedIsOneRelease`: an apply that failed half way is completed before anything
  is served: every file of the version served is of that version, and the others are
  leftovers of older releases, never of a newer one. The premise `meddled` is needed: a check or a stage by a command
  between the failure and the restart takes the archive or its name away, and the
  mixture is served.
- `KeptIsPrevious`, of the files a release has, is violated, see below.

Seen while modelling: the server runs on the files of its release and on all that
older releases had besides, which the backup of it then counts as its own; a stage
that replaces an archive already staged and is cut off
leaves a torn one, at which the launcher raises at every start; a crash between the
unlinking and the state file leaves a staged version without archive; of two
stagers of one release the failing one unlinks what the other staged.

### Databases

Each **process** migrates file by file at its start, serves and writes, or backs up
and restores, file by file. `lost` collects contents that a restore has replaced
without a copy, `outdated` the processes whose files were replaced under them.

- `DatabasesAreKept`: who serves has every schema; what a restore replaces is in
  some backup, also if the restore stops half way.

What is written after the safety backup has copied a file and before the file is
replaced is lost; `BACKUP_AND_RESTORE.md` has the operator stop processes first, but
the restoring command starts a worker of its own. Two first starts at once: the
second raises, and its agent is not built.

### Providers

A **routing** thread is inside `complete` or `test_provider`, a **connecting** one
inside `connect_provider_atomically`; `providers`, `models`, `rule` and `usage` are
the tables. `health` is two statements, and each may raise, in the try block (the
answer is thrown away and the next model asked) or in its except clause (the route
raises).

A connection takes a row of its kind, and of its address if it is given one, and
updates it, or inserts one (`LookUp`, `UpsertProvider`); `AddProvider` and
`EditProvider` are the plain insert and update of the API. Which of several preferred
models comes first is left open (`Score`).

- `RouteIsAccounted`: the usage table tells what each ended route did, through store
  errors, edits and other routes.

Seen while modelling: the upsert "Prevents duplicate providers" (`management.py:94`)
only as long as nothing else makes them. A kind connected with an address after it was
connected without one gets a second row; so it does by the plain insert of the API,
and by two connections that look it up at once. A connection without an address takes
whichever row of the kind comes first and resets its address. An upsert does not reset the health, and an unhealthy provider
is no candidate, so only a manual test brings it back; a provider deleted after the
candidates were listed raises out of the route before the next model is tried.

### Profile

One user's messages on several threads. `heap` are the profiles in memory, shared
once one is `cached`; a save empties the temporary file, writes it and renames it,
and `text` is what each inode holds, `Garbled` in between. A turn of a job is here a message
that no command is in: it looks at the profile and so may fill the cache.

- `PauseIsKept`: a pause that was confirmed is in memory and in the file, and no
  answer is kept under it. `disturbed` excepts two messages at once (one temporary
  name for both, a cache filled twice) and a file that cannot be read (an `OSError`
  starts a fresh profile, in which the memory is active).

The mirror `USER.md` is left out; lines 281-284 of `experience.py` are not reachable.

### ServerEdge

`hits` is the window of one host, here WhatsApp's, `request[r]` an open webhook with
the background tasks it has left, `seen` the remembered ids in order. For the
events, `telling` is a publisher's list of handlers still to call, `ready` the calls
that the loop was handed by `call_soon_threadsafe`, `queue` a socket's queue.

- `EdgeIsSound`: no interval of a minute has more accepted requests than the limit,
  wherever it begins (`RateIsKept`); a message delivered again is not processed
  again while its id is remembered (`DuplicatesAreIgnored`); a socket gets a
  publisher's events in order, once, and misses only what found its queue full
  (`StreamIsInOrder`).

Seen while modelling: ids are remembered by the process only, a thousand of them, so
README's "duplicate message IDs are ignored" ends with either; an answer that
cannot be sent raises and drops the other messages of its webhook, which was
answered with success long before; the same goes for a crash; the handler of a
closed socket stays subscribed and fills the queue nobody reads.

## Runs

| Run | Instance | Shows |
|---|---|---|
| `SubagentSafety` | 3 ids, 2 parents, limits 2 and 1, 1 caller, 1 operator, 1 restart; four environments: shutdown with cancel, beside a second process, or with failing stores (2 ids, no restart), and failing stores with expiring waits | `SlotsAccounted`, `RunningHasWorker`, `LateReplyIsInert`, `WorkerConfined`, `CloseReachesEveryWorker`, `ReportIsTrue`, `NeverRunTwice` |
| `SubagentLive` | 2 ids of one parent, 1 slot; two environments: store failures with cancel, and with shutdown | `BatchCompletes`, `EveryWorkerStops`, `CancelTakesEffect`, `BoundedSlots` |
| `JobQueuePeers` | 2 jobs, 2 servers and a one-shot worker, 2 attempts, 3 starts, store failures | `AttemptsRespected` |
| `SchedulerRestarts` | 1 server, 4 jobs (1 direct), 1 schedule, clock up to 3, 2 starts, store failures | `NoneLeftRunning`, `OncePerInterval`, `DoneForGood`, `EveryJobEnds`, `DueIsFired` |
| `ComputerRestarts` | 2 processes at a time, 5 starts, 2 actions (1 optional), budget 1 | `StopSurvivesRestart`, `RevokeSurvivesRestart` |
| `TurnRestarts` | 2 turns, 2 conversations (of an operator and another user, or both turns in one), 2 rounds, window 1, 2 starts; three environments: pause, crash, failing stores with a second process | `HistoryFollowsAnswers`, `RecallIsOwn`, `TasksAreTrue`, `PauseHolds`, `OneExchangeAtATime`, `EveryTurnEnds` |
| `ToolsScenes` | MCP: 2 calls, 1 slot, 3 files, 1 edit. Gates: 5 tools, 2 clients with a worker each, a skill of two steps; 1 command before they begin, and in a scene of its own 2 commands beside one client. Browser: 2 threads, 2 names, 3 calls, 1 each of moves, page requests and downloads | `HandedOverIsVetted`, `EveryCallReports`, `SlotsComeBack`; `OnlyGrantedRuns`, `DenialIsReported`, `SwitchIsKept`; `PeersAreReviewed`, `SavedOnce` |
| `ServicesScenes` | Chat: 2 updates, 1 question, 1 crash. Updates: 3 releases, one of which lacks a file of the others, 2 stagers, 3 items. Databases: 2 files, 2 processes, 3 starts. Providers: 2 ids, 2 models, 2 routing and 2 connecting threads. Profile: 2 threads, 3 messages. Edge: 2 webhooks, 2 requests, limit 2 in 2 ticks; 1 socket with room for 1, 2 publishers, 3 events each | `DeliveryIsSound`, `AnswerGoesOneWay`; `ServedIsOneRelease`; `DatabasesAreKept`; `RouteIsAccounted`; `PauseIsKept`; `EdgeIsSound` |
| `JobQueueShared`, `ComputerStop`, `TurnPaused`, `UpdateBackup` | 2 processes, 1 turn, 1 apply | four counterexamples, below |

Scenes. `MCTools` and `MCServices` each extend modules that share no state. A
behaviour picks one `scene`, runs that module's `Next` and leaves the others as they
begin: the run is as many runs as it has scenes, with the properties of each, and
says nothing of components beside each other. Some scenes narrow their module to
keep it small: the gates are looked at once with requests, workers and at most one
command that does not overlap a turn, and once with two commands and one request
that calls `write` only; the providers are looked at once with both routes and one edit and
once with the edits, one route and no store errors; the edge once without publishers and once
without requests and with the clock standing; a profile begins at the last open
question, and once two messages of it have overlapped no more arrive; the first
provider exists. `MCSubagentPool` has both parents delegate (under cancels
the consenting one once) and lets the environments with a cancel or a shutdown use two
ids and no restart. The type invariants that are in no run's list (`McpTypeOK`, `EdgeTypeOK`, ...) hold in the same instances.

Bounds. Two ids make two workers contend for one slot of a parent and let one be
queued behind the other; three ids over two parents make both limits bind. A
worker with one step passes every branch of the loop with and without a step
left. One restart covers recovery, since a second one starts from the states the
first leaves. Two attempts tell a retry from the last one; three starts let two
processes recover each other's jobs and one of them return; the clock goes far
enough for a schedule to be due twice. Two gates at a time are enough for a server
and an owner's command, five starts for either to be started again after each of
the other's operations. Two turns meet at the lock in every order, in one
conversation or in two of different users; a window of one message makes the
history lose messages; two rounds are a tool call and an answer. One slot and two
calls let a hanging server keep another call waiting; a skill of two steps can fail
at the first or at the second; one move of a name falls before, between or after its
checks. Two items are enough for a mixture of two releases, a third one for a leftover of a
release that dropped it, a third release for an apply on top of one; two files and two
processes for a migration or a restore to be overtaken between them; a queue of one for it to be full; two remembered ids and three
messages for one to be forgotten. The id, worker and process sets of the core are
symmetric; symmetry is used in runs without liveness only. Deadlock is not checked: ids,
starts and the clock run out and the system stops.

### Where the code and its documentation disagree

Each is a run TLC must find violated, with the quoted line in `PROJECT.json`.

- `OneWorkerPerJob`: any second process that builds an `AgentLoop`, as most
  command line options do, requeues the jobs of the living server and runs them
  a second time.
- `StopReachesEveryone`: `aiba --computer-stop` does not reach a server that is
  running, which reads the kill file at its start only.
- `PausedStoresNothing`: a turn of a user who paused the memory is stored as a
  reflection, which becomes a row of the vault; and a skill's `remember`, a worker's
  and `update_memory` are not blocked.
- `KeptIsPrevious`: an apply that failed after some of its items and is taken up again
  copies the mixture over the backup the first had made, so that the "previous
  source" is kept nowhere.

More are visible in the models and have no run: a worker that ends between the two
scans closing `run_many` is reported neither as a result nor as pending
(`CollectResults`, `CollectPending`); `cancel` writes CANCELLED over a worker that
completed after `cancel` read QUEUED (`CancelRead`, `CancelWrite`); an MCP call
reported as cancelled may start afterwards (`GiveUp`, `StartOp`); an id still queued when its
caller stops waiting is never dispatched, although `subagent_manager.py:154-156`
speaks of "a later delegate"; any second process marks the living workers of the
first as timed out (`PeerStarts` of `SubagentPool`); a provider failure under a
worker is recorded as a completed worker with the error as its result
(`ProviderReplies`, `Act`); and the budget and the recovery from a stop, above.

## Proofs

`SubagentPoolProofs`, for all constants that satisfy `PoolAssumption`:

- `TypeCorrect`: `Spec => []TypeOK`. `TypeOK` alone is not inductive: an id is
  needed wherever a caller or an operator is inside a call (`Named`) and a call
  under way must leave room for the step it will count (`StepRoom`).
- `SlotsAreAccounted`: `Spec => []SlotsAccounted`. The argument is that every
  charge has one holder. `OwnInv` says who owns an id: batches are disjoint, a
  caller works on an id of its own batch, which has no worker yet and is not
  queued once it is marked. `ActiveExact` says exactly which ids are keys of
  `_active`, so that the pop of `_end` always finds its id. From these each
  action leaves the set of holders alone, adds one id and one to its parent's
  count (`DispatchBegin`), removes both (`RollbackDrop`, `ReleaseSlot`), or
  starts afresh (`Restart`); the four lemmas `KeepAccount`, `GainAccount`,
  `LoseAccount` and `ChargedType` do the counting.

`JobQueueProofs`, for all constants that satisfy `QueueAssumption`:

- `QueueTypeCorrect`: `QueueSpec => []QueueTypeOK`; the type is inductive.
- `GivenUpLast`: `FailedAfterAllAttempts`, strengthened by what a thread about to
  write "failed" has seen of the attempts, which never go down.
- `AttemptsAreBounded`: the attempts a job may still get are counted in tickets:
  one if it is queued or running, one for every thread that may still queue it
  again. The tickets beyond the first were all paid for by a recovery
  (`BudgetInv`); claiming, retrying and recovering are the lemmas `ClaimBudget`,
  `RetryBudget` and `KeepBudget`. `AttemptsAreRespected` is both.
- `NoneIsLeftRunning` and `QueueIsDurable`, for one worker that is not one-shot:
  a running job is the one that worker holds, except between a crash and the
  next recovery; every step of the queue is then a step of `DurableQueue` or
  leaves the phases alone.

`SchedulerProofs`: every step of `Scheduler` is a step of `JobQueue` or leaves it
alone (`UsesQueue`), so `DurableUnderScheduler` and `NoneLeftUnderScheduler`
follow from the queue's theorems without a new induction. `FiresOncePerInterval`
bounds the runs of a schedule by the clock: `Paid(s)` is the time its runs stand
for; a row no tick has in hand is due at least an interval later (`PaidInv`), and
a row in hand was due when its tick read the clock (`TickInv`).

`ComputerNodeProofs`, for any number of processes and any budget: `TypeCorrect`,
and `StopHolds`, `RevokeHolds` from one inductive invariant. An
operation that is alone is the only one inside a file operation (`AloneInv`), so
that the files say what it meant when it returns (`FileInv`), and a process
started since has read just that and nothing else (`SinceInv`).

`AgentTurnProofs`, for any number of turns, users and conversations: all safety
properties of the module. `TurnInv` is the core: whoever is between taking and
releasing the lock is its holder (`LockInv`, from which at most one turn is
there), and a turn between its question and its answer finds the question at the
end of its conversation (`OpenInv`). `OthersStay`, `Moves` and `Asking` say once
what a step of one turn does to the others, to the lock and to the conversations,
so that each theorem (`TurnsAreADialogue`, `RepliesAreRecorded`, `RecallsAreOwn`,
`PausesHold`, `HistoriesFollow`, `DeadTasksMarked`; `TasksTrue` is two of them) looks at the turn that moves.
`HistoriesFollow` needs no lock: a turn that has returned never writes again
(`HistoryInv`), and a piece of a conversation is the same piece of what is
appended to it (`PieceOfAppended`).

The other safety properties of `SubagentPool`, for any number of ids, parents,
callers and operators:

- `NeverTwice`: a caller that is dispatching has an id without a worker
  (`CallOwned`), and a worker never returns to `none`.
- `ReportsAreTrue`: only a caller that dispatches an id takes it out of a terminal
  state (`EndedStays`), batches share no id, and a caller past its fill loop
  dispatches nothing (`ReportInv`).
- `FullMeansBusy`: by `ActiveExact` and `SlotsAccounted`, an id that is refused is
  refused for slots that as many ids hold. It is the safety half of `BatchCompletes`.
- `NoneIsStranded`, `LateRepliesAreInert`, `WorkersAreConfined`, `CloseReachesAll` from
  one invariant, `ReachInv`: a RUNNING record without a worker has a caller between
  mark and submit, or was refused its last status (`RunInv`); until a worker leaves its run it has no outcome, and a
  flag that was seen stays set (`LateInv`); a consent is recorded before anything is
  dispatched that has asked for it (`ConsentInv`); an executor that was closed stays
  closed, so that nothing is submitted behind the flagging (`CloseInv`).
- `LimitsHold` assumes `OneCaller`: with one delegating thread the room that
  `can_dispatch` saw is still there when `_begin` takes it (`RoomInv`), since
  everybody else only gives slots back.
- `PoolRefinesSlots`, under the same assumption: `SlotPool`'s initial state, and each
  step one of `SlotPool` or a stutter. What it lacks of `BoundedSlots` is the
  fairness of `SlotPool`.

`ToolsProofs`, for every manifest, policy, set of requests, sites, servers and files:

- `FileKeepsVerdict`: a command that is alone has the temporary file to itself, and
  one that is not promises nothing about its tool (`AloneInv`); what is in the file,
  under the temporary name or about to be written says what the verdicts say
  (`SaysInv`). `GateUsesFile`: processes only read the file, so that this holds beside
  them. `SwitchKept`: the policy of a process is such a file (`PolicySays`), every
  content came from the first one by switches (`Family`), and `OnlyGranted` has the
  rest.
- `OnlyGranted`: a grant is one of the body of its own request and never leaves its
  thread (`GrantsAreOwn`), and the bodies of requests that have not begun are under
  no tool (`NewIsIdle`). `DenialsReported`: what a request records is what its
  thread was refused (`RecordsMatch`).
- `PeersReviewed`: what the proxy has resolved is public, and there is no page and no
  request without the proxy (`PeersInv`). `SavedAtMostOnce`: a saved download is
  neither pending nor being saved, and arrived before what is (`SavedIsOver`).
- `HandedOverVetted`: each place of a call is behind the tests it has passed, all made
  against one configuration, which is a content the file once had (`CallInv`,
  `LoadedSound`). `NoWaitIsUnbounded` is the safety half of `EveryCallReports` and
  `SlotsComeBack`: no more operations than slots, each with a timer within the bounds
  of its server, no caller waiting without backstop or operation (`CallBounded`).

`ChannelsProofs`:

- `DeliveryHolds`: the updates still to be handled follow without a gap on those
  begun with (`BatchGoesOn`), which were handled or raised, but for the one under way
  (`BegunWasHandled`). `AnswersGoOneWay`: a question is shown by its own ask only,
  at its end, and nobody answers what is not shown (`AsksItsOwn`, `AnswersNeedButtons`).
- `PauseKept`: while messages do not overlap, one thread has the profile, and each of
  its places says what memory, temporary file and file hold (`Doing`).
- `EdgeSound` is three inductions. For the rate, the window is the end of what was
  let in, what is before it is older than a minute, and `Limit` requests on more
  than a minute has passed (`HitsInv`); the requests of any minute are then
  neighbours, at most `Limit`. For duplicates, an id that is still remembered is
  on one request's list at most, or processed once (`SeenInv`). For the stream, the
  events of a socket stand in line from those gone out to the calls still to be
  made, and nothing is missing in it but what was dropped or is still to be told
  (`LineInv`). `Extracted` is a recursive function of a list of ids: what it keeps
  and finds is proved by its least counterexample (`ExtractedFacts`).

`OperationsProofs`:

- `OneReleaseServes`: unless a stager has worked meanwhile, files that are not of the
  version they should be of are seen only with the server down and the archive still
  staged that makes them so again, and an apply goes on to where they are; what is
  staged is newer than all that is there, so that leftovers are old (`ApplyInv`).
- `DatabasesKept`: a process has migrated the databases before the one it is at, since
  versions are only added (`MigrateInv`); a restore has a copy of those before the
  one it copies, and of all when it replaces the first, but for what it knows was
  written later (`CopyInv`).
- `RoutesAreAccounted`: the entries of a request, while its route is under way, are a
  failure for each candidate left behind and a success for the one that answered
  (`LedgerInv`).

The assumptions are those the modules name (`PoolAssumption`, `QueueAssumption`, ...): bounds are
natural numbers, sets that the code needs are not empty; and `OneCaller` and the one
worker of `JobQueueProofs` where stated. Types are proved with every invariant
(`...TypeCorrect`), so that the type invariants in no run's list hold beyond the
instances.

Only model-checked: liveness (`BatchCompletes`, `EveryWorkerStops`, `CancelTakesEffect`,
`EveryJobEnds`, `DueIsFired`, `EveryTurnEnds`, `EveryCallReports`, `SlotsComeBack`, and the
fairness in `BoundedSlots`), since fairness and ENABLED are out of the prover's reach;
of three of them the safety half is proved (`FullMeansBusy`, `NoWaitIsUnbounded`).
Every safety invariant and action property that a run expects to hold is proved.

## Plan

1. `SubagentPool`, `SlotPool`, their proofs (done).
2. `JobQueue`, `DurableQueue`, `Scheduler` composed with them, their proofs (done).
3. `ComputerNode`: gate and controller with restart, its proofs (done).
4. `AgentTurn`, `Dialogue`: a handled message and its stores, its proofs (done).
5. `PermissionFile`, `ToolGate`, `McpBridge`, `BrowserSession`, with `MCTools` (done).
6. `TelegramChat`, `Updates`, `Databases`, `Providers`, `Profile`, `ServerEdge`, with
   `MCServices` (done). Left: edits and the file sync of the vault, the remote
   transport, the Slack and Discord connectors.
7. Proofs of the remaining safety invariants: of `SubagentPool`, with the refinement of
   `SlotPool`, and of the modules of 5 and 6 (done). Left: what the modules of 5 and 6
   promise beside each other, since each is checked and proved alone.

## Not modelled

- The sandbox, host files, media, vision and web fetching: sequential calls into the
  operating system or the network, or conversions of files, without state of their own.
- Remote computer transport, Slack, Discord: planned.
- Wire formats of providers, rendering of messages, parsing of addresses and of a
  model's text, ranking of memories: text.
- Revisions of skills: only tests and the improver create or roll them back.
- Settings, the audit log, metrics, the crash log: loaded once or appended to.
- Setup scripts, importers, installers: run once by an operator.
- The endpoints of the API server that only call a component, and the dashboard.
