------------------------------ MODULE ToolGate ------------------------------
(***************************************************************************)
(* What stands between a tool call and its effect: the registry            *)
(* (tools/registry.py) with the policy of permissions.json                 *)
(* (security/policy.py), the manifest's feature flags, the approvals of a  *)
(* request (approvals/manager.py, api/product_bridge.py), skills that call *)
(* the registry again (skills/manager.py), and beside them the capability  *)
(* report (diagnostics/capabilities.py).  PermissionFile is what becomes   *)
(* of permissions.json under a process that has read it.                   *)
(*                                                                         *)
(* A tool call runs in a context: the thread of a request of the product   *)
(* bridge, or that of a subagent worker the request started.  Grants and   *)
(* recorded requests are context variables, so a worker has its own.       *)
(***************************************************************************)
EXTENDS PermissionFile, Sequences

CONSTANTS
  Registered,     \* those the AgentLoop registers
  FlagRuns,       \* feature flags a process may have on
  DepRuns,        \* optional dependencies a machine may have
  Skill, Delegate,    \* run_skill and delegate_task
  SkillSteps,     \* the tools a skill's steps call, in order
  MemoryTool,     \* what is blocked for a user who paused the memory
  Client,         \* requests of the product bridge
  Bodies          \* what their approved_tools may be

ASSUME GateAssumption ==
  /\ Registered \subseteq GateTool
  /\ {Skill, Delegate} \cup MemoryTool \subseteq GateTool
  /\ Bodies \subseteq SUBSET GateTool
  /\ SkillSteps \in Seq(GateTool \ {Skill, Delegate})

VARIABLES
  policy,         \* SecurityPolicy.config: the file as it was at start,
  since,          \* (observation) and how commands had left the tools then
  flagsOn, deps,  \* what is on and installed, decided at start
  place,          \* place of a request
  given,          \* approved_tools of its body
  grants,         \* _grants of a context
  asked,          \* _requested of a request's thread (a worker's is read by
                  \* nobody, and left out)
  paused,         \* the user of a request has paused the memory
  delegated,      \* delegate_task has run, workers may go on
  using,          \* the tools a context is inside, outermost first
  step,           \* steps of its skill already called
  denied,         \* (observation) what was refused for want of an approval
  response        \* approval_required of the answer

setVars == <<policy, since, flagsOn, deps>>
scopeVars == <<place, given, paused, response>>
runVars == <<delegated, using, step>>
gateVars == <<fileVars, setVars, scopeVars, runVars, grants, asked, denied>>

Context == Client \X {"own", "worker"}

-----------------------------------------------------------------------------
(* The gates.                                                              *)

\* check_tool
Permitted(t) == policy[t].listed /\ policy[t].enabled
NeedsApproval(t) == policy[t].approval

FeatureFlagOn(t) ==
  t \in DOMAIN Manifest /\ Manifest[t].flag # "none"
    => Manifest[t].flag \in flagsOn

\* _availability; the reason is left out.
Available(t) == t \in Registered /\ Permitted(t) /\ FeatureFlagOn(t)

\* schemas: what a model is shown.
Offered(excluded) == {t \in Registered \ excluded : Permitted(t) /\ FeatureFlagOn(t)}

\* build_report.  A flag the runtime map has is taken from there.
DepSatisfied(t) == Manifest[t].dep = "none" \/ Manifest[t].dep \in deps
Ready_Unlisted(t) ==
  t \in DOMAIN Manifest /\ t \in Registered /\ FeatureFlagOn(t) /\ DepSatisfied(t)
Ready(t) ==
  /\ t \in DOMAIN Manifest /\ t \in Registered
  /\ policy[t].listed /\ policy[t].enabled
  /\ FeatureFlagOn(t) /\ DepSatisfied(t)

-----------------------------------------------------------------------------

GateInit ==
  /\ FileInit /\ policy = disk /\ since = verdict
  /\ flagsOn \in FlagRuns /\ deps \in DepRuns
  /\ place = [q \in Client |-> "new"] /\ given = [q \in Client |-> {}]
  /\ grants = [ctx \in Context |-> {}] /\ asked = [q \in Client |-> {}]
  /\ paused = [q \in Client |-> FALSE] /\ delegated = [q \in Client |-> FALSE]
  /\ using = [ctx \in Context |-> <<>>] /\ step = [ctx \in Context |-> 0]
  /\ denied = [q \in Client |-> {}] /\ response = [q \in Client |-> {}]

-----------------------------------------------------------------------------
(* A request: request_scope around handle, which takes the run lock.       *)

\* _grants as an attribute of the manager, not a context variable.
OpenScope_Shared(q, approved) ==
  /\ place[q] = "new"
  /\ place' = [place EXCEPT ![q] = "waiting"]
  /\ given' = [given EXCEPT ![q] = approved]
  /\ grants' = [ctx \in Context |-> approved]
  /\ asked' = [asked EXCEPT ![q] = {}]
  /\ \E b \in BOOLEAN : paused' = [paused EXCEPT ![q] = b]
  /\ UNCHANGED <<fileVars, setVars, runVars, denied, response>>

OpenScope(q, approved) ==
  /\ place[q] = "new"
  /\ place' = [place EXCEPT ![q] = "waiting"]
  /\ given' = [given EXCEPT ![q] = approved]
  /\ grants' = [grants EXCEPT ![<<q, "own">>] = approved]
  /\ asked' = [asked EXCEPT ![q] = {}]
  /\ \E b \in BOOLEAN : paused' = [paused EXCEPT ![q] = b]
  /\ UNCHANGED <<fileVars, setVars, runVars, denied, response>>

TakeRunLock(q) ==
  /\ place[q] = "waiting" /\ \A r \in Client : place[r] # "turn"
  /\ place' = [place EXCEPT ![q] = "turn"]
  /\ UNCHANGED <<fileVars, setVars, runVars, given, paused, response, grants,
                 asked, denied>>

Inside(ctx) == using[ctx] # <<>>
Innermost(ctx) == using[ctx][Len(using[ctx])]
Leave(ctx) == using' = [using EXCEPT ![ctx] = SubSeq(@, 1, Len(@) - 1)]

\* handle returns; pending_requests is read before the scope closes.
Respond(q) ==
  /\ place[q] = "turn" /\ ~Inside(<<q, "own">>)
  /\ place' = [place EXCEPT ![q] = "answered"]
  /\ response' = [response EXCEPT ![q] = asked[q]]
  /\ grants' = [grants EXCEPT ![<<q, "own">>] = {}]
  /\ asked' = [asked EXCEPT ![q] = {}]
  /\ UNCHANGED <<fileVars, setVars, runVars, given, paused, denied>>

-----------------------------------------------------------------------------
(* ToolRegistry.execute, one call after the other in a context.            *)

\* What the conversation blocks.  A skill calls the registry without it.
BlockedFor(ctx) ==
  IF paused[ctx[1]] /\ ~Inside(ctx) THEN MemoryTool ELSE {}

\* The engine of a turn or a worker that is inside nothing may call any tool,
\* and a skill the tool of its next step.
MayCall(ctx, t) ==
  /\ IF ctx[2] = "own" THEN place[ctx[1]] = "turn" ELSE delegated[ctx[1]]
  /\ Inside(ctx) => /\ Innermost(ctx) = Skill /\ step[ctx] < Len(SkillSteps)
                    /\ t = SkillSteps[step[ctx] + 1]

Passes(ctx, t) == t \notin BlockedFor(ctx) /\ Available(t)

\* approve, where nobody is at the terminal.
Approved(ctx, t) == t \in grants[ctx]

Refused(ctx, t) == NeedsApproval(t) /\ ~Approved(ctx, t)

Record_First(q, t) == asked' = [asked EXCEPT ![q] = IF @ = {} THEN {t} ELSE @]
Record(q, t) == asked' = [asked EXCEPT ![q] = @ \cup {t}]

\* The first step that fails ends a skill.
EndSkill(ctx) == IF Inside(ctx) THEN Leave(ctx) ELSE UNCHANGED using

CallDenied(ctx, t) ==
  /\ MayCall(ctx, t) /\ Passes(ctx, t) /\ Refused(ctx, t)
  /\ IF ctx[2] = "own"
     THEN Record(ctx[1], t) /\ denied' = [denied EXCEPT ![ctx[1]] = @ \cup {t}]
     ELSE UNCHANGED <<asked, denied>>
  /\ EndSkill(ctx)
  /\ UNCHANGED <<fileVars, setVars, scopeVars, delegated, step, grants>>

\* Blocked, unavailable, of the wrong arguments, or raising.
CallFails(ctx, t) ==
  /\ MayCall(ctx, t)
  /\ ~(Passes(ctx, t) /\ Refused(ctx, t))
  /\ EndSkill(ctx)
  /\ UNCHANGED <<fileVars, setVars, scopeVars, delegated, step, grants, asked,
                 denied>>

CallRuns(ctx, t) ==
  /\ MayCall(ctx, t) /\ Passes(ctx, t) /\ ~Refused(ctx, t)
  /\ using' = [using EXCEPT ![ctx] = Append(@, t)]
  /\ step' = [step EXCEPT ![ctx] = IF Inside(ctx) THEN @ + 1 ELSE 0]
  /\ delegated' = [delegated EXCEPT ![ctx[1]] = @ \/ t = Delegate]
  /\ UNCHANGED <<fileVars, setVars, scopeVars, grants, asked, denied>>

\* delegate_task waits for its workers, but not for ever.
ToolEnds(ctx) ==
  /\ Inside(ctx)
  /\ Innermost(ctx) = Skill => step[ctx] = Len(SkillSteps)
  /\ Leave(ctx)
  /\ UNCHANGED <<fileVars, setVars, scopeVars, delegated, step, grants, asked,
                 denied>>

-----------------------------------------------------------------------------
\* The process is started again: only then is the file read.
Restart ==
  /\ diskIs = "whole" /\ <<policy, since>> # <<disk, verdict>>
  /\ policy' = disk /\ since' = verdict /\ flagsOn' \in FlagRuns /\ UNCHANGED deps
  /\ place' = [q \in Client |-> IF place[q] \in {"waiting", "turn"} THEN "lost"
                                ELSE place[q]]
  /\ grants' = [ctx \in Context |-> {}] /\ asked' = [q \in Client |-> {}]
  /\ using' = [ctx \in Context |-> <<>>] /\ step' = [ctx \in Context |-> 0]
  /\ delegated' = [q \in Client |-> FALSE]
  /\ UNCHANGED <<fileVars, given, paused, response, denied>>

ContextStep(ctx) ==
  \/ ToolEnds(ctx)
  \/ \E t \in GateTool : CallDenied(ctx, t) \/ CallFails(ctx, t) \/ CallRuns(ctx, t)

GateNext ==
  \/ \E q \in Client : \/ \E approved \in Bodies : OpenScope(q, approved)
                       \/ TakeRunLock(q) \/ Respond(q)
  \/ \E ctx \in Context : ContextStep(ctx)
  \/ FileNext /\ UNCHANGED <<setVars, scopeVars, runVars, grants, asked, denied>>
  \/ Restart

GateSpec == GateInit /\ [][GateNext]_gateVars

-----------------------------------------------------------------------------
(* Properties.                                                             *)

GateTypeOK ==
  /\ FileTypeOK /\ policy \in Rows /\ since \in [GateTool -> {"none", "on", "off"}]
  /\ place \in [Client -> {"new", "waiting", "turn", "answered", "lost"}]
  /\ given \in [Client -> SUBSET GateTool] /\ response \in [Client -> SUBSET GateTool]
  /\ asked \in [Client -> SUBSET GateTool] /\ denied \in [Client -> SUBSET GateTool]
  /\ grants \in [Context -> SUBSET GateTool]
  /\ paused \in [Client -> BOOLEAN] /\ delegated \in [Client -> BOOLEAN]
  /\ using \in [Context -> Seq(GateTool)]
  /\ step \in [Context -> 0 .. Len(SkillSteps)]

\* A tool that is running is registered, permitted and switched on by what the
\* process read at its start; and where it needs an approval it runs in the
\* request's own thread and that request's body named it, whatever requests run
\* or wait beside it and however deep in a skill or a worker the call is made.
\* (execute, request_scope, SkillManager.execute, _subagent_handler)
OnlyGrantedRuns ==
  \A ctx \in Context : \A i \in DOMAIN using[ctx] :
    LET t == using[ctx][i]
    IN /\ Available(t)
       /\ NeedsApproval(t) => ctx[2] = "own" /\ t \in given[ctx[1]]

\* Every call of its own thread that was refused for want of an approval is in
\* the answer, also one a skill made: the client can grant and ask again.
\* (approve, pending_requests, product_bridge.execute)
DenialIsReported ==
  \A q \in Client : place[q] = "answered" => response[q] = denied[q]

\* What a command that was alone has switched off is reported as not ready, shown
\* to no model and run by nobody in a process started since, and what it has
\* switched on is permitted there; and no command has ever changed whether a tool
\* needs an approval.  Commands that overlapped may lose each other's switches,
\* but not an approval.  (set_tool_permission: "approval is never removed by this
\* command"; build_report, schemas, execute, all by the policy of their process)
SwitchIsKept ==
  \A t \in GateTool :
    /\ since[t] = "off" => /\ ~Ready(t) /\ t \notin Offered({})
                           /\ \A ctx \in Context : \A i \in DOMAIN using[ctx] :
                                using[ctx][i] # t
    /\ since[t] = "on" => Permitted(t)
    /\ diskIs = "whole" /\ policy[t].listed /\ disk[t].listed =>
         disk[t].approval = policy[t].approval
=============================================================================
