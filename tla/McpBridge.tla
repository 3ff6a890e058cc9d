------------------------------ MODULE McpBridge ------------------------------
(***************************************************************************)
(* The MCP client: mcp_client/client.py, config.py and policy.py.  A call  *)
(* is one invocation of `execute` (or of `status`) on a thread of its own, *)
(* a turn or a subagent worker.  It passes the gates, then hands an        *)
(* operation to a pool of MAX_CONCURRENT_CALLS threads and waits for it,   *)
(* but no longer than a backstop.  The operation has time bounds of its    *)
(* own.  The operator may rewrite config/mcp_servers.json at any time; the *)
(* first call that succeeds in reading it caches what it read.             *)
(*                                                                         *)
(* Time is counted in units that all bounds are multiples of: a timer      *)
(* holds what is left, a tick takes one unit from every running timer, and *)
(* no tick passes a timer that has run out.                                *)
(***************************************************************************)
EXTENDS Integers, FiniteSets

CONSTANTS
  Call,           \* invocations of execute or status
  McpRequest,     \* what a call may ask: [kind, typed, server, tool, args]
  McpFile,        \* contents the operator may give the configuration file
  McpSwitches,    \* sets of switches a process may run with
  Slots,          \* MAX_CONCURRENT_CALLS
  MinTime,        \* one second, the least bound the backstop allows for
  Slack,          \* five seconds, added to the bounds of a stdio operation
  Grace,          \* ten seconds, added to the bounds of a call
  MaxEdits        \* bound: times the operator rewrites the file

ASSUME McpAssumption ==
  /\ Slots \in Nat \ {0} /\ MaxEdits \in Nat
  /\ {MinTime, Slack, Grace} \subseteq Nat \ {0}
  /\ McpRequest # {}
  /\ \A f \in McpFile : \A s \in DOMAIN f.servers :
       f.servers[s].startup \in Int /\ f.servers[s].call \in Int

VARIABLES
  mcpOn,          \* switches: "enabled", "sdk", "remote", "approver"
  file, written,  \* the file, and the contents it has had (an observation)
  edits,
  loaded,         \* _loaded: the parsed configuration, or none
  loadError,      \* _load_error is set
  at,             \* place of a call in execute
  req, conf,      \* what it asks, and the configuration it goes by
  granted,        \* it was approved
  left,           \* what is left of its backstop
  op,             \* stage of the operation it handed over
  stageLeft, wholeLeft,   \* what is left of that stage, and of the operation
  outcome         \* how the operation ended

mcpVars == <<mcpOn, file, written, edits, loaded, loadError, at, req, conf,
             granted, left, op, stageLeft, wholeLeft, outcome>>

Places == {"new", "loading", "keeping", "checking", "asking", "cleared", "waiting",
           "ok", "error"}
Reported == {"ok", "error"}
Stages == {"none", "queued", "spawning", "initializing", "calling", "ended"}
Running == {"spawning", "initializing", "calling"}
NoConf == [known |-> FALSE, servers |-> <<>>]
Unbounded == -1
Larger(a, b) == IF a > b THEN a ELSE b

-----------------------------------------------------------------------------
(* The configuration file.  A malformed part of any server, even of one    *)
(* that is disabled, makes the whole file an error.                        *)

\* Arguments against an operator's schema: which keys, of which types.
SchemaValid(args, schema) ==
  /\ schema.required \subseteq DOMAIN args
  /\ schema.closed => DOMAIN args \subseteq DOMAIN schema.props
  /\ \A k \in DOMAIN args \cap DOMAIN schema.props : args[k] = schema.props[k]

ToolRowParses(row) ==
  /\ row.enabled => row.schema.type # "none"
  /\ row.schema.type \in {"none", "object"}

EnvNamesParse(srv) == srv.env # "secret"
SizesParse(srv) ==
  srv.startup > 0 /\ srv.call > 0 /\ srv.output \in 1 .. 8192
ArgvSafe(srv) == srv.command = "plain"
RemoteUrlAllowed(srv) == srv.url = "https"
Confined(srv) == srv.cwd # "outside"

ServerParses(srv) ==
  /\ srv.transport \in {"stdio", "http"}
  /\ \A t \in DOMAIN srv.tools : ToolRowParses(srv.tools[t])
  /\ EnvNamesParse(srv)
  /\ srv.transport = "stdio" => ArgvSafe(srv)
  /\ srv.transport = "http" => RemoteUrlAllowed(srv)
  /\ Confined(srv)
  /\ SizesParse(srv)

FileParses(f) ==
  /\ f.json # "invalid"
  /\ \A s \in DOMAIN f.servers : ServerParses(f.servers[s])

Parsed(f) == [known |-> TRUE, servers |-> f.servers]

\* tool_policy: a tool that is not listed is a row that is not enabled.
ToolPolicy(srv, tool) ==
  IF tool \in DOMAIN srv.tools THEN srv.tools[tool]
  ELSE [enabled |-> FALSE, approval |-> TRUE, schema |-> [type |-> "none"]]

\* What the gates of execute ask of the configuration, approval apart.
Allowed(servers, r, on) ==
  /\ r.server \in DOMAIN servers
  /\ servers[r.server].enabled
  /\ LET row == ToolPolicy(servers[r.server], r.tool)
     IN row.enabled /\ SchemaValid(r.args, row.schema)
  /\ servers[r.server].transport = "http" => "remote" \in on

-----------------------------------------------------------------------------
McpInit ==
  /\ mcpOn \in McpSwitches
  /\ file \in McpFile /\ written = {file} /\ edits = 0
  /\ loaded = NoConf /\ loadError = FALSE
  /\ at = [c \in Call |-> "new"]
  /\ req = [c \in Call |-> CHOOSE r \in McpRequest : TRUE]
  /\ conf = [c \in Call |-> NoConf]
  /\ granted = [c \in Call |-> FALSE]
  /\ left = [c \in Call |-> 0]
  /\ op = [c \in Call |-> "none"]
  /\ stageLeft = [c \in Call |-> Unbounded]
  /\ wholeLeft = [c \in Call |-> Unbounded]
  /\ outcome = [c \in Call |-> "none"]

callVars == <<req, conf, granted, left>>
opVars == <<op, stageLeft, wholeLeft, outcome>>
confVars == <<mcpOn, file, written, edits, loaded, loadError>>
Goto(c, place) == at' = [at EXCEPT ![c] = place]

Srv(c) == conf[c].servers[req[c].server]
Row(c) == ToolPolicy(Srv(c), req[c].tool)

EditFile(f) ==
  /\ edits < MaxEdits /\ f # file
  /\ file' = f /\ written' = written \cup {f} /\ edits' = edits + 1
  /\ UNCHANGED <<mcpOn, loaded, loadError, at, callVars, opVars>>

\* Types, master switch, SDK, names: execute before it touches the file.
Denied(r) ==
  \/ r.kind = "call" /\ ~r.typed
  \/ "enabled" \notin mcpOn
  \/ r.kind = "call" /\ "sdk" \notin mcpOn

Execute(c, r) ==
  /\ at[c] = "new"
  /\ req' = [req EXCEPT ![c] = r]
  /\ Goto(c, IF Denied(r) THEN "error" ELSE "loading")
  /\ UNCHANGED <<confVars, conf, granted, left, opVars>>

\* load_config: what was parsed once is kept, and so is an error.
LoadCached(c) ==
  /\ at[c] = "loading" /\ loaded.known
  /\ Goto(c, IF loadError THEN "error" ELSE "checking")
  /\ conf' = [conf EXCEPT ![c] = IF loadError THEN NoConf ELSE loaded]
  /\ UNCHANGED <<confVars, req, granted, left, opVars>>

LoadFile(c) ==
  /\ at[c] = "loading" /\ ~loaded.known
  /\ IF FileParses(file)
     THEN /\ conf' = [conf EXCEPT ![c] = Parsed(file)] /\ Goto(c, "keeping")
          /\ UNCHANGED loadError
     ELSE loadError' = TRUE /\ Goto(c, "error") /\ UNCHANGED conf
  /\ UNCHANGED <<mcpOn, file, written, edits, loaded, req, granted, left, opVars>>

\* It is kept over what another call has read meanwhile.
KeepLoaded(c) ==
  /\ at[c] = "keeping" /\ loaded' = conf[c]
  /\ Goto(c, "checking")
  /\ UNCHANGED <<mcpOn, file, written, edits, loadError, callVars, opVars>>

\* status reads the configuration and reports; it starts nothing.
Status(c) ==
  /\ at[c] = "checking" /\ req[c].kind = "status"
  /\ Goto(c, "ok")
  /\ UNCHANGED <<confVars, callVars, opVars>>

\* The schema is looked up, and whether its row is enabled is not.
Check_Unlisted(c) ==
  /\ at[c] = "checking" /\ req[c].kind = "call"
  /\ Goto(c, IF req[c].server \notin DOMAIN conf[c].servers THEN "error"
             ELSE IF Row(c).approval /\ "approver" \in mcpOn
                  THEN "asking" ELSE "cleared")
  /\ UNCHANGED <<confVars, callVars, opVars>>

Check(c) ==
  /\ at[c] = "checking" /\ req[c].kind = "call"
  /\ LET known == req[c].server \in DOMAIN conf[c].servers
     IN Goto(c, CASE ~known -> "error"
                  [] known /\ ~Srv(c).enabled -> "error"
                  [] known /\ Srv(c).enabled /\ ~Row(c).enabled -> "error"
                  [] OTHER ->
                       IF ~SchemaValid(req[c].args, Row(c).schema) THEN "error"
                       ELSE IF Row(c).approval /\ "approver" \in mcpOn
                            THEN "asking" ELSE "cleared")
  /\ UNCHANGED <<confVars, callVars, opVars>>

Approve(c) ==
  /\ at[c] = "asking"
  /\ Goto(c, "cleared") /\ granted' = [granted EXCEPT ![c] = TRUE]
  /\ UNCHANGED <<confVars, req, conf, left, opVars>>

Refuse(c) ==
  /\ at[c] = "asking"
  /\ Goto(c, "error")
  /\ UNCHANGED <<confVars, callVars, opVars>>

RemoteRefused(c) == Srv(c).transport = "http" /\ "remote" \notin mcpOn
Backstop(srv) == Larger(Larger(srv.startup, srv.call), MinTime) + Grace

Submit(c) ==
  /\ at[c] = "cleared"
  /\ IF RemoteRefused(c)
     THEN Goto(c, "error") /\ UNCHANGED <<left, op>>
     ELSE /\ Goto(c, "waiting")
          /\ left' = [left EXCEPT ![c] = Backstop(Srv(c))]
          /\ op' = [op EXCEPT ![c] = "queued"]
  /\ UNCHANGED <<confVars, req, conf, granted, stageLeft, wholeLeft, outcome>>

-----------------------------------------------------------------------------
(* The operation, on a thread of the pool.                                 *)

Enter(c, stage, bound) ==
  /\ op' = [op EXCEPT ![c] = stage]
  /\ stageLeft' = [stageLeft EXCEPT ![c] = bound]

\* A stdio operation is bounded as a whole; an http one by its stages only.
StartOp(c) ==
  /\ op[c] = "queued"
  /\ Cardinality({d \in Call : op[d] \in Running}) < Slots
  /\ IF Srv(c).transport = "stdio"
     THEN /\ Enter(c, "spawning", Unbounded)
          /\ wholeLeft' = [wholeLeft EXCEPT
                             ![c] = Srv(c).startup + Srv(c).call + Slack]
     ELSE Enter(c, "initializing", Srv(c).startup) /\ UNCHANGED wholeLeft
  /\ UNCHANGED <<confVars, at, callVars, outcome>>

Spawned(c) ==
  /\ op[c] = "spawning"
  /\ Enter(c, "initializing", Srv(c).startup)
  /\ UNCHANGED <<confVars, at, callVars, wholeLeft, outcome>>

\* A call_tool without wait_for.
Initialized_Unbounded(c) ==
  /\ op[c] = "initializing"
  /\ Enter(c, "calling", Unbounded)
  /\ UNCHANGED <<confVars, at, callVars, wholeLeft, outcome>>

Initialized(c) ==
  /\ op[c] = "initializing"
  /\ Enter(c, "calling", Srv(c).call)
  /\ UNCHANGED <<confVars, at, callVars, wholeLeft, outcome>>

EndOp(c, how) ==
  /\ op' = [op EXCEPT ![c] = "ended"]
  /\ stageLeft' = [stageLeft EXCEPT ![c] = Unbounded]
  /\ wholeLeft' = [wholeLeft EXCEPT ![c] = Unbounded]
  /\ outcome' = [outcome EXCEPT ![c] = how]
  /\ UNCHANGED <<confVars, at, callVars>>

\* The server answers; is_error makes the answer a failure.
Answered(c) == op[c] = "calling" /\ \E how \in {"ok", "error"} : EndOp(c, how)

\* The launcher, the SDK or the connection raises.
OpRaises(c) == op[c] \in Running /\ EndOp(c, "error")

\* asyncio.wait_for gives up on a stage or on the whole.
OpTimesOut(c) ==
  /\ op[c] \in Running /\ (stageLeft[c] = 0 \/ wholeLeft[c] = 0)
  /\ EndOp(c, "error")

-----------------------------------------------------------------------------
Report(c) ==
  /\ at[c] = "waiting" /\ op[c] = "ended"
  /\ Goto(c, outcome[c])
  /\ UNCHANGED <<confVars, callVars, opVars>>

\* future.result without a timeout.
GiveUp_Never(c) == FALSE

\* The backstop: the caller is told the call was cancelled.  Nothing else
\* happens: the future is neither cancelled nor looked at again.
GiveUp(c) ==
  /\ at[c] = "waiting" /\ left[c] = 0
  /\ Goto(c, "error")
  /\ UNCHANGED <<confVars, callVars, opVars>>

Due(c) ==
  \/ at[c] = "waiting" /\ left[c] = 0
  \/ op[c] \in Running /\ (stageLeft[c] = 0 \/ wholeLeft[c] = 0)

Less(timer) == [c \in Call |-> IF timer[c] > 0 THEN timer[c] - 1 ELSE timer[c]]

Tick ==
  /\ \E c \in Call : at[c] = "waiting" \/ op[c] \in Running
  /\ ~ \E c \in Call : Due(c)
  /\ left' = [c \in Call |-> IF at[c] = "waiting" THEN left[c] - 1 ELSE left[c]]
  /\ stageLeft' = Less(stageLeft) /\ wholeLeft' = Less(wholeLeft)
  /\ UNCHANGED <<confVars, at, req, conf, granted, op, outcome>>

CallStep(c) ==
  \/ LoadCached(c) \/ LoadFile(c) \/ KeepLoaded(c) \/ Status(c) \/ Check(c)
  \/ Submit(c) \/ Report(c) \/ GiveUp(c)
ServerStep(c) == Spawned(c) \/ Initialized(c) \/ Answered(c) \/ OpRaises(c)
OpStep(c) == StartOp(c) \/ OpTimesOut(c)

McpNext ==
  \/ \E c \in Call, r \in McpRequest : Execute(c, r)
  \/ \E c \in Call : \/ CallStep(c) \/ ServerStep(c) \/ OpStep(c)
                     \/ Approve(c) \/ Refuse(c)
  \/ \E f \in McpFile : EditFile(f)
  \/ Tick

\* Threads and time go on.  A server need never answer, nor a person.
McpFairness ==
  /\ \A c \in Call : WF_mcpVars(CallStep(c)) /\ WF_mcpVars(OpStep(c))
  /\ WF_mcpVars(Tick)

McpSpec == McpInit /\ [][McpNext]_mcpVars /\ McpFairness

-----------------------------------------------------------------------------
(* Properties.                                                             *)

McpTypeOK ==
  /\ mcpOn \in McpSwitches /\ file \in McpFile /\ written \subseteq McpFile
  /\ edits \in 0 .. MaxEdits /\ loadError \in BOOLEAN
  /\ loaded \in {NoConf} \cup {Parsed(f) : f \in McpFile}
  /\ conf \in [Call -> {NoConf} \cup {Parsed(f) : f \in McpFile}]
  /\ at \in [Call -> Places] /\ req \in [Call -> McpRequest]
  /\ granted \in [Call -> BOOLEAN] /\ op \in [Call -> Stages]
  /\ left \in [Call -> Nat]
  /\ stageLeft \in [Call -> Nat \cup {Unbounded}]
  /\ wholeLeft \in [Call -> Nat \cup {Unbounded}]
  /\ outcome \in [Call -> {"none", "ok", "error"}]

\* An operation was handed over only if one single content of the file, sound
\* as a whole, lists the server and the tool as enabled and accepts the
\* arguments, and the person asked said yes: whatever the file has become
\* since, and whichever of several calls parsed it.  (execute, config.py)
HandedOverIsVetted ==
  \A c \in Call : op[c] # "none" =>
    /\ {"enabled", "sdk"} \subseteq mcpOn
    /\ \E f \in written :
         /\ FileParses(f) /\ Allowed(f.servers, req[c], mcpOn)
         /\ ToolPolicy(f.servers[req[c].server], req[c].tool).approval
              /\ "approver" \in mcpOn => granted[c]

\* A call that waits is told something, though the server hangs, and though it
\* hangs for others on every slot.  (_run_on_loop, the backstop)
EveryCallReports ==
  \A c \in Call : at[c] = "waiting" ~> at[c] \in Reported

\* An operation handed over ends, also one nobody waits for: no hanging server
\* keeps a slot.  (_async_stdlib_call, _async_http_call)
SlotsComeBack == \A c \in Call : op[c] = "queued" ~> op[c] = "ended"
=============================================================================
