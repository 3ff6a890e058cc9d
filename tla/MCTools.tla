------------------------------- MODULE MCTools -------------------------------
(***************************************************************************)
(* Three parts of the tool layer that share no state: `scene` says which   *)
(* of them a behaviour is about, and the two others stay as they begin.    *)
(* The gates have two scenes, about requests and about commands.           *)
(***************************************************************************)
EXTENDS McpBridge, ToolGate, BrowserSession

VARIABLE scene
toolsVars == <<mcpVars, gateVars, browserVars, scene>>

\* One server, as the operator may write it.
McpServer(transport, on, call) ==
  [transport |-> transport, enabled |-> TRUE, command |-> "plain",
   url |-> "https", env |-> "plain", cwd |-> "none", startup |-> 2,
   call |-> call, output |-> 128,
   tools |-> [look |-> [enabled |-> on, approval |-> transport = "stdio",
                        schema |-> [type |-> "object", props |-> [q |-> "string"],
                                    required |-> {"q"}, closed |-> TRUE]]]]
McpDoc(servers) == [json |-> "object", servers |-> servers]
McpFiles ==
  {McpDoc([far |-> McpServer("http", TRUE, 2), near |-> McpServer("stdio", FALSE, 2)]),
   McpDoc([near |-> McpServer("stdio", TRUE, 2)]),
   McpDoc([near |-> McpServer("stdio", TRUE, 2),
           far |-> [McpServer("http", FALSE, 2) EXCEPT !.url = "internal"]])}
McpAsk(server, args) ==
  [kind |-> "call", typed |-> TRUE, server |-> server, tool |-> "look", args |-> args]
McpRequests ==
  {McpAsk("near", [q |-> "string"]), McpAsk("far", [q |-> "string"]),
   [McpAsk("near", [q |-> "string"]) EXCEPT !.tool = "erase"],
   [McpAsk("near", [q |-> "string"]) EXCEPT !.kind = "status"]}
McpRuns == {{"enabled", "sdk", "remote", "approver"}, {"enabled", "sdk"}}

GateTools == {"look", "write", "remember", "run_skill", "delegate_task"}
GateManifest ==
  [t \in GateTools \ {"look"} |->
     [flag |-> IF t = "delegate_task" THEN "subagents" ELSE "none",
      dep |-> IF t = "write" THEN "python:x" ELSE "none", approval |-> t # "remember"]]
Listed == [t \in GateTools |-> [listed |-> TRUE, enabled |-> TRUE, approval |-> t # "look"]]
GateFiles ==
  {Listed, [Listed EXCEPT !["write"] = [listed |-> FALSE, enabled |-> FALSE, approval |-> TRUE]]}
GateFlagRuns == {{}, {"subagents"}}
GateDepRuns == {{"python:x"}}
GateSkill == <<"remember", "write">>
GateBodies == {{"run_skill", "write"}, {"run_skill", "delegate_task"}}
GateOrders == {<<"write", FALSE>>, <<"write", TRUE>>, <<"remember", FALSE>>}

BrowserAskOf(kind) ==
  [kind |-> kind, host |-> "site", secret |-> FALSE, file |-> "none", direct |-> TRUE]
BrowserAsks ==
  {BrowserAskOf("open"), [BrowserAskOf("open") EXCEPT !.host = "local"],
   BrowserAskOf("download"),
   [BrowserAskOf("type") EXCEPT !.secret = TRUE],
   [BrowserAskOf("upload") EXCEPT !.file = "present", !.direct = FALSE]}


\* The others do not begin.
OnlyFirst(set, pc) == LET first == CHOOSE x \in set : TRUE
                      IN \A x \in set \ {first} : pc[x] = "new"
One(var, set) == var = CHOOSE x \in set : TRUE

ToolsInit ==
  /\ scene \in {"mcp", "gate", "switches", "browser"}
  /\ McpInit /\ GateInit /\ BrowserInit /\ dns["local"] = "private"
  /\ scene # "mcp" => One(mcpOn, McpSwitches) /\ One(file, McpFile)
  /\ scene \notin {"gate", "switches"} => One(disk, PermissionFiles)
  /\ scene # "gate" => One(flagsOn, FlagRuns)
  /\ scene # "switches" => One(order, [Command -> Orders])
  /\ scene # "browser" => /\ One(browserOn, BOOLEAN)
                          /\ dns["site"] = "public"

ToolsNext ==
  /\ UNCHANGED scene
  /\ \/ scene = "mcp" /\ McpNext /\ UNCHANGED <<gateVars, browserVars>>
     \/ scene = "gate" /\ GateNext /\ UNCHANGED <<mcpVars, browserVars>>
        /\ OnlyFirst(Command, cli')
        /\ (\A w \in Command : cli'[w] \in UnderWay =>
               ~ \E q \in Client : place'[q] = "turn" \/ delegated'[q])
     \/ scene = "switches" /\ GateNext /\ UNCHANGED <<mcpVars, browserVars>>
        /\ OnlyFirst(Client, place')
        /\ (\A ctx \in Context : Inside(ctx)' => Innermost(ctx)' = "write")
     \/ scene = "browser" /\ BrowserNext /\ UNCHANGED <<mcpVars, gateVars>>

ToolsSpec == ToolsInit /\ [][ToolsNext]_toolsVars /\ McpFairness

ToolsTypeOK == McpTypeOK /\ GateTypeOK /\ BrowserTypeOK
=============================================================================
