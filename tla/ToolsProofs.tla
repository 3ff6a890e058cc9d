---------------------------- MODULE ToolsProofs ----------------------------
(***************************************************************************)
(* Theorems about the tool layer: what commands that switch tools leave in *)
(* permissions.json (PermissionFile), what a tool of the registry runs     *)
(* with and what is reported of it (ToolGate), which peers a shared        *)
(* browser reaches and how often a download is saved (BrowserSession), and *)
(* what an MCP server is handed (McpBridge).                               *)
(***************************************************************************)
EXTENDS McpBridge, ToolGate, BrowserSession, FiniteSetTheorems, TLAPS

-----------------------------------------------------------------------------
(* PermissionFile.                                                         *)

LEMMA SwitchedFits ==
  ASSUME NEW rows \in Rows, NEW t \in DOMAIN Manifest, NEW on \in BOOLEAN
  PROVE  /\ Switched(rows, t, on) \in Rows
         /\ Switched(rows, t, on)[t].listed /\ Switched(rows, t, on)[t].enabled = on
         /\ \A u \in GateTool \ {t} : Switched(rows, t, on)[u] = rows[u]
  BY FileAssumption DEF Switched, Rows, PermissionRow

LEMMA FileInitType == FileInit => FileTypeOK
  BY FileAssumption DEF FileInit, FileTypeOK

LEMMA FileStepType == FileTypeOK /\ [FileNext]_fileVars => FileTypeOK'
<1> SUFFICES ASSUME FileTypeOK, [FileNext]_fileVars PROVE FileTypeOK'
  OBVIOUS
<1> USE FileAssumption DEF FileTypeOK, Becomes, UnderWay
<1>1. ASSUME NEW w \in Command, ReadFile(w) PROVE FileTypeOK'
  <2>1. Switched(disk, ToldTo(w), order[w][2]) \in Rows
    BY SwitchedFits DEF ToldTo
  <2> QED
    BY <1>1, <2>1 DEF ReadFile
<1>2. ASSUME NEW w \in Command, OpenTemp(w) PROVE FileTypeOK'
  BY <1>2 DEF OpenTemp
<1>3. ASSUME NEW w \in Command, WriteTemp(w) PROVE FileTypeOK'
  BY <1>3 DEF WriteTemp
<1>4. ASSUME NEW w \in Command, ReplaceFile(w) PROVE FileTypeOK'
  <2>1. verdict' \in [GateTool -> {"none", "on", "off"}]
    BY <1>4 DEF ReplaceFile
  <2>2. diskIs' \in {"whole", "empty", "garbled"} /\ tempIs' = "absent"
    BY <1>4 DEF ReplaceFile
  <2> QED
    BY <1>4, <2>1, <2>2 DEF ReplaceFile
<1>5. ASSUME NEW w \in Command, CommandEnds(w) PROVE FileTypeOK'
  BY <1>5 DEF CommandEnds
<1>6. CASE UNCHANGED fileVars
  BY <1>6 DEF fileVars
<1> QED
  BY <1>1, <1>2, <1>3, <1>4, <1>5, <1>6 DEF FileNext

\* What rows say of a tool is how a command that was alone left it.
Says(rows, t) ==
  verdict[t] # "none" => rows[t].listed /\ rows[t].enabled = (verdict[t] = "on")

\* A command that is alone has the temporary file to itself, and one that is not
\* promises nothing about its tool.
AloneInv ==
  \A w \in Command : cli[w] \in UnderWay =>
    /\ Others(w) # {} => ~alone[w]
    /\ ~alone[w] => verdict[ToldTo(w)] = "none"
    /\ alone[w] /\ cli[w] = "open" => target[w] = "temp" /\ tempIs = "empty"
    /\ alone[w] /\ cli[w] = "written" => tempIs = "whole" /\ temp = draft[w]

\* What is in the file, what a command will write and what stands under the
\* temporary name while somebody may put it in place.
SaysInv ==
  /\ diskIs = "whole" => \A t \in GateTool : Says(disk, t)
  /\ \A w \in Command : cli[w] \in UnderWay =>
       /\ draft[w][ToldTo(w)].listed /\ draft[w][ToldTo(w)].enabled = order[w][2]
       /\ \A t \in GateTool \ {ToldTo(w)} : Says(draft[w], t)
  /\ \A w \in Command : cli[w] \in {"open", "written"} /\ tempIs = "whole" =>
       \A t \in GateTool : (alone[w] /\ t = ToldTo(w)) \/ Says(temp, t)

FileInv == FileTypeOK /\ AloneInv /\ SaysInv

LEMMA FileInvInit == FileInit => FileInv
  BY FileInitType, FileAssumption
  DEF FileInit, FileInv, AloneInv, SaysInv, Says, UnderWay, FileTypeOK

LEMMA FileInvStep == FileInv /\ [FileNext]_fileVars => FileInv'
<1> SUFFICES ASSUME FileInv, FileTypeOK', [FileNext]_fileVars PROVE AloneInv' /\ SaysInv'
  BY FileStepType DEF FileInv
<1> USE FileAssumption DEF FileInv, FileTypeOK, UnderWay, Becomes, ToldTo
<1>0. \A w \in Command : order[w][1] \in DOMAIN Manifest /\ order[w][1] \in GateTool
                         /\ order[w][2] \in BOOLEAN
  OBVIOUS
<1>1. ASSUME NEW w \in Command, ReadFile(w) PROVE AloneInv' /\ SaysInv'
  <2>1. AloneInv'
    BY <1>1 DEF ReadFile, AloneInv, Others
  <2>2. \A t \in GateTool : verdict'[t] = "none" \/ verdict'[t] = verdict[t]
    BY <1>1 DEF ReadFile
  <2>3. \A v \in Command \ {w} : alone[v] /\ ~alone'[v] => verdict'[ToldTo(v)] = "none"
    BY <1>0, <1>1 DEF ReadFile
  <2>4. /\ draft'[w] = Switched(disk, ToldTo(w), order[w][2])
        /\ draft'[w][ToldTo(w)].listed /\ draft'[w][ToldTo(w)].enabled = order[w][2]
        /\ \A t \in GateTool \ {ToldTo(w)} : draft'[w][t] = disk[t]
    BY <1>0, <1>1, SwitchedFits DEF ReadFile
  <2>5. /\ \A v \in Command \ {w} : draft'[v] = draft[v] /\ cli'[v] = cli[v]
        /\ cli'[w] = "read" /\ diskIs = "whole"
        /\ UNCHANGED <<disk, temp, diskIs, tempIs, order, target>>
    BY <1>1 DEF ReadFile
  <2>6. \A any \in Rows : \A t \in GateTool : Says(any, t) => Says(any, t)'
    BY <2>2 DEF Says
  <2>7. \A t \in GateTool : Says(disk, t)'
    BY <2>2, <2>5 DEF SaysInv, Says
  <2>8. \A t \in GateTool \ {ToldTo(w)} : Says(draft[w], t)'
    BY <2>4, <2>5, <2>7 DEF Says
  <2>9. \A v \in Command \ {w} : cli[v] \in UnderWay =>
          /\ draft'[v][ToldTo(v)].listed /\ draft'[v][ToldTo(v)].enabled = order[v][2]
          /\ \A t \in GateTool \ {ToldTo(v)} : Says(draft[v], t)'
    BY <2>2, <2>5 DEF SaysInv, Says
  <2>10. \A v \in Command \ {w} : cli[v] \in {"open", "written"} /\ tempIs = "whole" =>
           \A t \in GateTool : (alone'[v] /\ t = ToldTo(v)) \/ Says(temp, t)'
    <3> SUFFICES ASSUME NEW v \in Command \ {w}, cli[v] \in {"open", "written"},
                        tempIs = "whole", NEW t \in GateTool,
                        ~(alone'[v] /\ t = ToldTo(v))
                 PROVE  Says(temp, t)'
      OBVIOUS
    <3>1. (alone[v] /\ t = ToldTo(v)) \/ Says(temp, t)
      BY DEF SaysInv
    <3>2. CASE Says(temp, t)
      BY <2>2, <2>5, <3>2 DEF Says
    <3>3. CASE alone[v] /\ t = ToldTo(v)
      <4>1. ~alone'[v]
        BY <3>3
      <4>2. verdict'[t] = "none"
        BY <2>3, <3>3, <4>1
      <4> QED
        BY <4>2 DEF Says
    <3> QED
      BY <3>1, <3>2, <3>3
  <2>11. SaysInv'
    <3>1. (\A v \in Command : cli[v] \in UnderWay =>
              /\ draft[v][ToldTo(v)].listed /\ draft[v][ToldTo(v)].enabled = order[v][2]
              /\ \A t \in GateTool \ {ToldTo(v)} : Says(draft[v], t))'
      BY <2>4, <2>5, <2>8, <2>9 DEF Says
    <3>2. (\A v \in Command : cli[v] \in {"open", "written"} /\ tempIs = "whole" =>
              \A t \in GateTool : (alone[v] /\ t = ToldTo(v)) \/ Says(temp, t))'
      BY <2>5, <2>10 DEF Says
    <3> QED
      BY <2>7, <3>1, <3>2 DEF SaysInv
  <2> QED
    BY <2>1, <2>11
<1>2. ASSUME NEW w \in Command, OpenTemp(w) PROVE AloneInv' /\ SaysInv'
  BY <1>2 DEF OpenTemp, AloneInv, SaysInv, Says, Others
<1>3. ASSUME NEW w \in Command, WriteTemp(w) PROVE AloneInv' /\ SaysInv'
  <2>0. /\ cli[w] = "open" /\ cli' = [cli EXCEPT ![w] = "written"]
        /\ UNCHANGED <<order, draft, target, alone, verdict>>
    BY <1>3 DEF WriteTemp
  <2>1. \A v \in Command \ {w} : cli[v] \in UnderWay => ~alone[v] /\ ~alone[w]
    BY <2>0 DEF AloneInv, Others
  <2>2. alone[w] => target[w] = "temp" /\ tempIs' = "whole" /\ temp' = draft[w]
    BY <1>3, <2>0 DEF WriteTemp, AloneInv, Clean
  <2>3. AloneInv'
    BY <2>0, <2>1, <2>2 DEF AloneInv, Others
  <2>4. ~alone[w] => \A t \in GateTool : Says(draft[w], t)
    BY <1>0, <2>0 DEF AloneInv, SaysInv, Says
  <2>5. \/ temp' = draft[w]
        \/ temp' = temp /\ tempIs' = tempIs
    BY <1>3 DEF WriteTemp
  <2>6. \/ ~alone[w] /\ disk' = draft[w]
        \/ disk' = disk /\ diskIs' = diskIs
    BY <1>3, <2>2 DEF WriteTemp
  <2>7. diskIs' = "whole" => \A t \in GateTool : Says(disk', t)
    BY <2>4, <2>6 DEF SaysInv
  <2>8. \A t \in GateTool \ {ToldTo(w)} : Says(draft[w], t)
    BY <2>0 DEF SaysInv
  <2>9. \A v \in Command : cli'[v] \in {"open", "written"} /\ tempIs' = "whole" =>
          \A t \in GateTool : (alone[v] /\ t = ToldTo(v)) \/ Says(temp', t)
    BY <2>0, <2>1, <2>4, <2>5, <2>8 DEF SaysInv
  <2>10. SaysInv'
    BY <2>0, <2>7, <2>9 DEF SaysInv, Says
  <2> QED
    BY <2>3, <2>10
<1>4. ASSUME NEW w \in Command, ReplaceFile(w) PROVE AloneInv' /\ SaysInv'
  <2>0. /\ cli[w] = "written" /\ cli' = [cli EXCEPT ![w] = "done"]
        /\ disk' = temp /\ diskIs' = tempIs /\ tempIs' = "absent"
        /\ UNCHANGED <<temp, order, draft, alone>>
    BY <1>4 DEF ReplaceFile
  <2>1. CASE alone[w]
    <3>1. \A v \in Command : cli'[v] \notin UnderWay
      BY <2>0, <2>1 DEF AloneInv, Others
    <3>2. tempIs = "whole" /\ temp = draft[w]
      BY <2>0, <2>1 DEF AloneInv
    <3>3. verdict' = [verdict EXCEPT ![ToldTo(w)] = IF order[w][2] THEN "on" ELSE "off"]
      BY <1>4, <2>1 DEF ReplaceFile
    <3>4. \A t \in GateTool \ {ToldTo(w)} : verdict'[t] = verdict[t] /\ Says(draft[w], t)
      BY <2>0, <3>3 DEF SaysInv
    <3>5. draft[w][ToldTo(w)].listed /\ draft[w][ToldTo(w)].enabled = order[w][2]
      BY <2>0 DEF SaysInv
    <3>6. verdict'[ToldTo(w)] = IF order[w][2] THEN "on" ELSE "off"
      BY <1>0, <3>3
    <3>7. \A t \in GateTool :
             verdict'[t] # "none" => draft[w][t].listed
                                     /\ draft[w][t].enabled = (verdict'[t] = "on")
      BY <1>0, <3>4, <3>5, <3>6 DEF Says
    <3> QED
      BY <2>0, <3>1, <3>2, <3>7 DEF AloneInv, SaysInv, Says
  <2>2. CASE ~alone[w]
    <3>1. UNCHANGED verdict
      BY <1>4, <2>2 DEF ReplaceFile
    <3>2. diskIs' = "whole" => \A t \in GateTool : Says(disk', t)
      BY <2>0, <2>2 DEF SaysInv
    <3>3. \A v \in Command : cli'[v] \in UnderWay => ~alone[v]
      BY <2>0 DEF AloneInv, Others
    <3> QED
      BY <2>0, <3>1, <3>2, <3>3 DEF AloneInv, SaysInv, Says, Others
  <2> QED
    BY <2>1, <2>2
<1>5. ASSUME NEW w \in Command, CommandEnds(w) PROVE AloneInv' /\ SaysInv'
  BY <1>5 DEF CommandEnds, AloneInv, SaysInv, Says, Others
<1>6. CASE UNCHANGED fileVars
  BY <1>6 DEF fileVars, AloneInv, SaysInv, Says, Others
<1> QED
  BY <1>1, <1>2, <1>3, <1>4, <1>5, <1>6 DEF FileNext

\* A command that was alone leaves the file as it was told, for the tools that no
\* later command is about, however many commands meet in it after.
THEOREM FileKeepsVerdict == FileSpec => []FileInv
  BY FileInvInit, FileInvStep, PTL DEF FileSpec

\* Rows that came from those of `origin` by switches: none has gone, and a row
\* that has come has the manifest's approval.
Descends(rows, origin) ==
  \A t \in GateTool :
    /\ origin[t].listed => rows[t].listed
    /\ rows[t].listed =>
         rows[t].approval = IF origin[t].listed THEN origin[t].approval
                            ELSE Manifest[t].approval

Family(origin) ==
  /\ Descends(disk, origin) /\ Descends(temp, origin)
  /\ \A w \in Command : Descends(draft[w], origin)

LEMMA SwitchDescends ==
  ASSUME NEW rows \in Rows, NEW origin \in Rows, Descends(rows, origin),
         NEW t \in DOMAIN Manifest, NEW on \in BOOLEAN
  PROVE  Descends(Switched(rows, t, on), origin)
  BY FileAssumption DEF Descends, Switched, Rows, PermissionRow

LEMMA FamilyInit == FileInit => \E origin \in Rows : Family(origin)
<1> SUFFICES ASSUME FileInit PROVE disk \in Rows /\ Family(disk)
  OBVIOUS
<1> QED
  BY FileAssumption DEF FileInit, Family, Descends

LEMMA FamilyStep ==
  ASSUME FileTypeOK, [FileNext]_fileVars, NEW origin \in Rows, Family(origin)
  PROVE  Family(origin)'
<1> USE FileAssumption DEF Family
<1>1. ASSUME NEW w \in Command, ReadFile(w) PROVE Family(origin)'
  <2>1. Descends(Switched(disk, ToldTo(w), order[w][2]), origin)
    BY SwitchDescends DEF FileTypeOK, ToldTo
  <2>2. /\ draft' = [draft EXCEPT ![w] = Switched(disk, ToldTo(w), order[w][2])]
        /\ UNCHANGED <<disk, temp>>
    BY <1>1 DEF ReadFile
  <2>3. \A v \in Command : Descends(draft'[v], origin)
    BY <2>1, <2>2 DEF FileTypeOK
  <2> QED
    BY <2>2, <2>3 DEF Descends
<1>2. ASSUME NEW w \in Command, WriteTemp(w) PROVE Family(origin)'
  <2>1. /\ disk' \in {disk, draft[w]} /\ temp' \in {temp, draft[w]}
        /\ UNCHANGED draft
    BY <1>2 DEF WriteTemp
  <2> QED
    BY <2>1 DEF Descends
<1>3. ASSUME NEW w \in Command, OpenTemp(w) \/ ReplaceFile(w) \/ CommandEnds(w)
      PROVE  Family(origin)'
  <2>1. disk' \in {disk, temp} /\ temp' = temp /\ UNCHANGED draft
    BY <1>3 DEF OpenTemp, ReplaceFile, CommandEnds
  <2> QED
    BY <2>1 DEF Descends
<1>4. CASE UNCHANGED fileVars
  BY <1>4 DEF fileVars, Descends
<1> QED
  BY <1>1, <1>2, <1>3, <1>4 DEF FileNext

-----------------------------------------------------------------------------
(* ToolGate.                                                               *)

LEMMA GateInitType == GateInit => GateTypeOK
<1> SUFFICES ASSUME GateInit PROVE GateTypeOK
  OBVIOUS
<1>1. FileTypeOK /\ policy \in Rows /\ since \in [GateTool -> {"none", "on", "off"}]
  BY FileInitType DEF GateInit, FileTypeOK
<1> QED
  BY <1>1, GateAssumption DEF GateInit, GateTypeOK, Context

\* What a call leaves of the tools a context is inside.
LEMMA LeaveType ==
  ASSUME GateTypeOK, NEW ctx \in Context, Inside(ctx)
  PROVE  /\ SubSeq(using[ctx], 1, Len(using[ctx]) - 1) \in Seq(GateTool)
         /\ Len(SubSeq(using[ctx], 1, Len(using[ctx]) - 1)) = Len(using[ctx]) - 1
         /\ \A i \in 1 .. Len(using[ctx]) - 1 :
              SubSeq(using[ctx], 1, Len(using[ctx]) - 1)[i] = using[ctx][i]
<1>1. using[ctx] \in Seq(GateTool) /\ using[ctx] # <<>>
  BY DEF GateTypeOK, Inside
<1> QED
  BY <1>1

\* Every step of the process leaves the file to the commands.
LEMMA GateLeavesFile == [GateNext]_gateVars => [FileNext]_fileVars
  BY DEF GateNext, ContextStep, OpenScope, TakeRunLock, Respond, ToolEnds, CallDenied,
         CallFails, CallRuns, Restart, gateVars

LEMMA GateStepType == GateTypeOK /\ [GateNext]_gateVars => GateTypeOK'
<1> SUFFICES ASSUME GateTypeOK, [GateNext]_gateVars, FileTypeOK' PROVE GateTypeOK'
  BY GateLeavesFile, FileStepType DEF GateTypeOK
<1> USE GateAssumption DEF GateTypeOK, setVars, scopeVars, runVars
<1>1. ASSUME NEW q \in Client, NEW approved \in Bodies, OpenScope(q, approved)
      PROVE  GateTypeOK'
  BY <1>1 DEF OpenScope, Context
<1>2. ASSUME NEW q \in Client, TakeRunLock(q) \/ Respond(q) PROVE GateTypeOK'
  BY <1>2 DEF TakeRunLock, Respond, Context
<1>3. ASSUME NEW ctx \in Context, ToolEnds(ctx) PROVE GateTypeOK'
  BY <1>3, LeaveType DEF ToolEnds, Leave
<1>4. ASSUME NEW ctx \in Context, NEW t \in GateTool, CallDenied(ctx, t)
      PROVE  GateTypeOK'
  <2>1. using' \in [Context -> Seq(GateTool)]
    BY <1>4, LeaveType DEF CallDenied, EndSkill, Leave
  <2>2. ctx[1] \in Client
    BY DEF Context
  <2>3. asked' \in [Client -> SUBSET GateTool] /\ denied' \in [Client -> SUBSET GateTool]
    <3>1. CASE ctx[2] = "own"
      <4>1. /\ asked' = [asked EXCEPT ![ctx[1]] = @ \cup {t}]
            /\ denied' = [denied EXCEPT ![ctx[1]] = @ \cup {t}]
        BY <1>4, <3>1 DEF CallDenied, Record
      <4> QED
        BY <2>2, <4>1
    <3>2. CASE ctx[2] # "own"
      BY <1>4, <3>2 DEF CallDenied
    <3> QED
      BY <3>1, <3>2
  <2> QED
    BY <1>4, <2>1, <2>3 DEF CallDenied
<1>5. ASSUME NEW ctx \in Context, NEW t \in GateTool, CallFails(ctx, t)
      PROVE  GateTypeOK'
  <2>1. using' \in [Context -> Seq(GateTool)]
    BY <1>5, LeaveType DEF CallFails, EndSkill, Leave
  <2> QED
    BY <1>5, <2>1 DEF CallFails
<1>6. ASSUME NEW ctx \in Context, NEW t \in GateTool, CallRuns(ctx, t)
      PROVE  GateTypeOK'
  <2>1. ctx[1] \in Client
    BY DEF Context
  <2>2. step' \in [Context -> 0 .. Len(SkillSteps)]
    BY <1>6 DEF CallRuns, MayCall
  <2>3. using' \in [Context -> Seq(GateTool)]
    BY <1>6 DEF CallRuns
  <2> QED
    BY <1>6, <2>1, <2>2, <2>3 DEF CallRuns
<1>7. CASE FileNext /\ UNCHANGED <<setVars, scopeVars, runVars, grants, asked, denied>>
  BY <1>7
<1>8. CASE Restart
  <2>1. policy' \in Rows /\ since' \in [GateTool -> {"none", "on", "off"}]
    BY <1>8 DEF Restart, FileTypeOK
  <2> QED
    BY <1>8, <2>1 DEF Restart
<1>9. CASE UNCHANGED gateVars
  BY <1>9 DEF gateVars
<1> QED
  BY <1>1, <1>2, <1>3, <1>4, <1>5, <1>6, <1>7, <1>8, <1>9
  DEF GateNext, ContextStep

\* Every variable of the tool gate keeps its type.
THEOREM GateTypeCorrect == GateSpec => []GateTypeOK
  BY GateInitType, GateStepType, PTL DEF GateSpec

-----------------------------------------------------------------------------
(* Nothing runs without its permission and its approval.                   *)

\* A grant is one of the body of the request, and never leaves its thread.
GrantsAreOwn ==
  \A q \in Client :
    grants[<<q, "own">>] \subseteq given[q] /\ grants[<<q, "worker">>] = {}

\* A request that has not begun is inside nothing, so that its body does not
\* change under a tool.
NewIsIdle == \A q \in Client : place[q] = "new" => using[<<q, "own">>] = <<>>

GrantInv == GateTypeOK /\ GrantsAreOwn /\ NewIsIdle /\ OnlyGrantedRuns

\* A tool in use may go on being used while nothing it was let through by
\* changes.
LEMMA KeepsUsing ==
  ASSUME GrantInv, GateTypeOK', UNCHANGED <<setVars, given, using>>
  PROVE  OnlyGrantedRuns'
  BY DEF GrantInv, OnlyGrantedRuns, Available, Permitted, FeatureFlagOn, NeedsApproval,
         setVars

LEMMA KeepsLeaving ==
  ASSUME GrantInv, GateTypeOK', UNCHANGED <<setVars, given>>,
         NEW ctx \in Context, Inside(ctx), Leave(ctx)
  PROVE  OnlyGrantedRuns' /\ Len(using'[ctx]) < Len(using[ctx])
<1> USE DEF GrantInv, GateTypeOK
<1>1. \A c \in Context : \A i \in DOMAIN using'[c] :
         i \in DOMAIN using[c] /\ using'[c][i] = using[c][i]
  <2> TAKE c \in Context
  <2>1. CASE c # ctx
    BY <2>1 DEF Leave
  <2>2. CASE c = ctx
    BY <2>2, LeaveType DEF Leave
  <2> QED
    BY <2>1, <2>2
<1>2. Len(using'[ctx]) < Len(using[ctx])
  <2>1. Len(using[ctx]) \in Nat
    OBVIOUS
  <2>2. using'[ctx] = SubSeq(using[ctx], 1, Len(using[ctx]) - 1)
    BY DEF Leave
  <2>3. Len(using'[ctx]) = Len(using[ctx]) - 1
    BY <2>2, LeaveType
  <2> QED
    BY <2>1, <2>3
<1> QED
  BY <1>1, <1>2
  DEF OnlyGrantedRuns, Available, Permitted, FeatureFlagOn, NeedsApproval, setVars

LEMMA StepGrant == GrantInv /\ [GateNext]_gateVars => GrantInv'
<1> SUFFICES ASSUME GrantInv, GateTypeOK', [GateNext]_gateVars
             PROVE  GrantsAreOwn' /\ NewIsIdle' /\ OnlyGrantedRuns'
  BY GateStepType DEF GrantInv
<1> DEFINE Goal == GrantsAreOwn' /\ NewIsIdle' /\ OnlyGrantedRuns'
<1> USE GateAssumption
    DEF GrantInv, GrantsAreOwn, NewIsIdle, GateTypeOK, Context,
        setVars, scopeVars, runVars
<1>1. ASSUME NEW q \in Client, NEW approved \in Bodies, OpenScope(q, approved)
      PROVE  Goal
  <2>1. using[<<q, "own">>] = <<>>
    BY <1>1 DEF OpenScope
  <2>2. \A ctx \in Context : \A i \in DOMAIN using[ctx] :
           ctx[2] = "own" => given'[ctx[1]] = given[ctx[1]]
    BY <1>1, <2>1 DEF OpenScope
  <2>3. OnlyGrantedRuns'
    BY <1>1, <2>2
    DEF OpenScope, OnlyGrantedRuns, Available, Permitted, FeatureFlagOn, NeedsApproval
  <2> QED
    BY <1>1, <2>3 DEF OpenScope
<1>2. ASSUME NEW q \in Client, TakeRunLock(q) \/ Respond(q) PROVE Goal
  <2>1. OnlyGrantedRuns'
    BY <1>2, KeepsUsing DEF TakeRunLock, Respond
  <2>2. /\ UNCHANGED <<given, using>>
        /\ \A r \in Client : place'[r] = "new" => place[r] = "new"
        /\ \/ UNCHANGED grants
           \/ grants' = [grants EXCEPT ![<<q, "own">>] = {}]
    BY <1>2 DEF TakeRunLock, Respond
  <2>3. \A ctx \in Context : grants'[ctx] \subseteq grants[ctx]
    BY <2>2
  <2> QED
    BY <2>1, <2>2, <2>3
<1>3. ASSUME NEW ctx \in Context, ToolEnds(ctx) PROVE Goal
  <2>1. OnlyGrantedRuns'
    BY <1>3, KeepsLeaving DEF ToolEnds
  <2> QED
    BY <1>3, <2>1 DEF ToolEnds, Leave, Inside
<1>4. ASSUME NEW ctx \in Context, NEW t \in GateTool, CallDenied(ctx, t) \/ CallFails(ctx, t)
      PROVE  Goal
  <2>1. UNCHANGED <<setVars, given, place, grants>> /\ EndSkill(ctx)
    BY <1>4 DEF CallDenied, CallFails
  <2>2. OnlyGrantedRuns'
    BY <2>1, KeepsUsing, KeepsLeaving DEF EndSkill
  <2> QED
    BY <2>1, <2>2 DEF EndSkill, Leave, Inside
<1>5. ASSUME NEW ctx \in Context, NEW t \in GateTool, CallRuns(ctx, t) PROVE Goal
  <2>0. Available(t) /\ (NeedsApproval(t) => t \in grants[ctx])
    BY <1>5 DEF CallRuns, Passes, Refused, Approved
  <2>1. NeedsApproval(t) => ctx[2] = "own" /\ t \in given[ctx[1]]
    <3>1. ctx[1] \in Client /\ ctx[2] \in {"own", "worker"} /\ ctx = <<ctx[1], ctx[2]>>
      OBVIOUS
    <3>2. grants[<<ctx[1], "worker">>] = {} /\ grants[<<ctx[1], "own">>] \subseteq given[ctx[1]]
      BY <3>1
    <3>3. ctx[2] = "worker" => grants[ctx] = {}
      BY <3>1, <3>2
    <3>4. ctx[2] = "own" => grants[ctx] \subseteq given[ctx[1]]
      BY <3>1, <3>2
    <3> QED
      BY <2>0, <3>1, <3>3, <3>4
  <2>2. \A c \in Context : \A i \in DOMAIN using'[c] :
           \/ i \in DOMAIN using[c] /\ using'[c][i] = using[c][i]
           \/ c = ctx /\ using'[c][i] = t
    BY <1>5 DEF CallRuns
  <2>3. UNCHANGED <<setVars, given, place, grants>>
    BY <1>5 DEF CallRuns
  <2>4. OnlyGrantedRuns'
    <3>1. SUFFICES ASSUME NEW c \in Context, NEW i \in DOMAIN using'[c]
                   PROVE  ( /\ Available(using[c][i])
                            /\ NeedsApproval(using[c][i]) =>
                                 c[2] = "own" /\ using[c][i] \in given[c[1]] )'
      BY DEF OnlyGrantedRuns
    <3>2. using'[c][i] \in GateTool
      OBVIOUS
    <3>3. /\ Available(using'[c][i])
          /\ NeedsApproval(using'[c][i]) => c[2] = "own" /\ using'[c][i] \in given[c[1]]
      <4>1. CASE i \in DOMAIN using[c] /\ using'[c][i] = using[c][i]
        BY <4>1 DEF OnlyGrantedRuns
      <4>2. CASE c = ctx /\ using'[c][i] = t
        BY <2>0, <2>1, <4>2
      <4> QED
        BY <2>2, <4>1, <4>2
    <3> QED
      BY <2>3, <3>2, <3>3 DEF Available, Permitted, FeatureFlagOn, NeedsApproval
  <2>5. NewIsIdle'
    BY <1>5, <2>3 DEF CallRuns, MayCall
  <2> QED
    BY <2>3, <2>4, <2>5
<1>6. CASE FileNext /\ UNCHANGED <<setVars, scopeVars, runVars, grants, asked, denied>>
  <2>1. UNCHANGED <<setVars, given, place, grants, using>>
    BY <1>6
  <2> QED
    BY <2>1, KeepsUsing
<1>7. CASE Restart
  BY <1>7 DEF Restart, OnlyGrantedRuns
<1>8. CASE UNCHANGED gateVars
  <2>1. UNCHANGED <<setVars, given, place, grants, using>>
    BY <1>8 DEF gateVars
  <2> QED
    BY <2>1, KeepsUsing
<1> QED
  BY <1>1, <1>2, <1>3, <1>4, <1>5, <1>6, <1>7, <1>8 DEF GateNext, ContextStep

LEMMA InitGrant == GateInit => GrantInv
  BY GateInitType DEF GateInit, GrantInv, GrantsAreOwn, NewIsIdle, OnlyGrantedRuns, Context

\* A tool that is running passed the policy the process read, and where it
\* needs an approval the body of its own request named it: for every manifest,
\* permission file, set of requests and skill.
THEOREM OnlyGranted == GateSpec => []OnlyGrantedRuns
<1>1. GrantInv => OnlyGrantedRuns
  BY DEF GrantInv
<1> QED
  BY <1>1, InitGrant, StepGrant, PTL DEF GateSpec

-----------------------------------------------------------------------------
(* A refusal is in the answer.                                             *)

\* What was refused so far is what the request has recorded, up to its answer.
RecordsMatch ==
  \A q \in Client :
    /\ place[q] \in {"new", "waiting"} => asked[q] = {} /\ denied[q] = {}
    /\ place[q] = "turn" => asked[q] = denied[q]

DenialInv == GateTypeOK /\ RecordsMatch /\ DenialIsReported

LEMMA StepDenial == DenialInv /\ [GateNext]_gateVars => DenialInv'
<1> SUFFICES ASSUME DenialInv, GateTypeOK', [GateNext]_gateVars
             PROVE  RecordsMatch' /\ DenialIsReported'
  BY GateStepType DEF DenialInv
<1> DEFINE Goal == RecordsMatch' /\ DenialIsReported'
<1> USE GateAssumption
    DEF DenialInv, RecordsMatch, DenialIsReported, GateTypeOK, Context,
        setVars, scopeVars, runVars
<1>1. ASSUME NEW q \in Client, NEW approved \in Bodies, OpenScope(q, approved)
      PROVE  Goal
  BY <1>1 DEF OpenScope
<1>2. ASSUME NEW q \in Client, TakeRunLock(q) \/ Respond(q) PROVE Goal
  <2>1. CASE TakeRunLock(q)
    BY <2>1 DEF TakeRunLock
  <2>2. CASE Respond(q)
    <3>1. /\ place' = [place EXCEPT ![q] = "answered"] /\ place[q] = "turn"
          /\ response' = [response EXCEPT ![q] = asked[q]]
          /\ asked' = [asked EXCEPT ![q] = {}] /\ denied' = denied
      BY <2>2 DEF Respond
    <3> QED
      BY <3>1
  <2> QED
    BY <1>2, <2>1, <2>2
<1>3. ASSUME NEW ctx \in Context, ToolEnds(ctx) PROVE Goal
  BY <1>3 DEF ToolEnds
<1>4. ASSUME NEW ctx \in Context, NEW t \in GateTool, CallDenied(ctx, t) PROVE Goal
  <2>1. CASE ctx[2] = "own"
    <3>1. ctx[1] \in Client
      OBVIOUS
    <3>2. /\ place[ctx[1]] = "turn" /\ UNCHANGED <<place, response>>
          /\ asked' = [asked EXCEPT ![ctx[1]] = @ \cup {t}]
          /\ denied' = [denied EXCEPT ![ctx[1]] = @ \cup {t}]
      BY <1>4, <2>1 DEF CallDenied, MayCall, Record
    <3> QED
      BY <3>1, <3>2
  <2>2. CASE ctx[2] # "own"
    BY <1>4, <2>2 DEF CallDenied
  <2> QED
    BY <2>1, <2>2
<1>5. ASSUME NEW ctx \in Context, NEW t \in GateTool, CallFails(ctx, t) \/ CallRuns(ctx, t)
      PROVE  Goal
  BY <1>5 DEF CallFails, CallRuns
<1>6. CASE FileNext /\ UNCHANGED <<setVars, scopeVars, runVars, grants, asked, denied>>
  BY <1>6
<1>7. CASE Restart
  BY <1>7 DEF Restart
<1>8. CASE UNCHANGED gateVars
  BY <1>8 DEF gateVars
<1> QED
  BY <1>1, <1>2, <1>3, <1>4, <1>5, <1>6, <1>7, <1>8 DEF GateNext, ContextStep

LEMMA InitDenial == GateInit => DenialInv
  BY GateInitType DEF GateInit, DenialInv, RecordsMatch, DenialIsReported

\* The answer of a request names exactly the tools its thread was refused,
\* however many, however deep in a skill, and whatever requests run beside it.
THEOREM DenialsReported == GateSpec => []DenialIsReported
<1>1. DenialInv => DenialIsReported
  BY DEF DenialInv
<1> QED
  BY <1>1, InitDenial, StepDenial, PTL DEF GateSpec

-----------------------------------------------------------------------------
(* What a switch does to the processes started after it.                   *)

\* The commands and permissions.json behave as they would without the process:
\* it reads the file at its start and never writes it.
THEOREM GateUsesFile == GateSpec => FileSpec
<1>1. GateInit => FileInit
  BY DEF GateInit
<1> QED
  BY <1>1, GateLeavesFile, PTL DEF GateSpec, FileSpec

\* The policy is what a file said that kept every verdict, and came from the first
\* one by switches.
PolicySays ==
  \A t \in GateTool :
    since[t] # "none" => policy[t].listed /\ policy[t].enabled = (since[t] = "on")

SwitchInv ==
  /\ GateTypeOK /\ FileInv /\ PolicySays
  /\ \E origin \in Rows : Family(origin) /\ Descends(policy, origin)

LEMMA InitSwitch == GateInit => SwitchInv
<1> SUFFICES ASSUME GateInit PROVE SwitchInv
  OBVIOUS
<1>1. GateTypeOK /\ FileInv /\ FileInit /\ policy = disk
  BY GateInitType, FileInvInit DEF GateInit
<1>2. PolicySays
  BY <1>1 DEF GateInit, FileInit, PolicySays
<1>3. PICK origin \in Rows : Family(origin)
  BY <1>1, FamilyInit
<1> QED
  BY <1>1, <1>2, <1>3 DEF SwitchInv, Family

LEMMA StepSwitch == SwitchInv /\ [GateNext]_gateVars => SwitchInv'
<1> SUFFICES ASSUME SwitchInv, [GateNext]_gateVars PROVE SwitchInv'
  OBVIOUS
<1>1. GateTypeOK' /\ FileInv' /\ [FileNext]_fileVars /\ FileTypeOK
  BY GateStepType, FileInvStep, GateLeavesFile DEF SwitchInv, GateTypeOK
<1>2. PICK origin \in Rows : Family(origin) /\ Descends(policy, origin)
  BY DEF SwitchInv
<1>3. Family(origin)'
  BY <1>1, <1>2, FamilyStep
<1>4. \/ UNCHANGED <<policy, since>>
      \/ diskIs = "whole" /\ policy' = disk /\ since' = verdict
  BY DEF GateNext, ContextStep, OpenScope, TakeRunLock, Respond, ToolEnds, CallDenied,
         CallFails, CallRuns, Restart, gateVars, setVars
<1>5. Descends(policy', origin)
  BY <1>2, <1>4 DEF Family
<1>6. PolicySays'
  <2>1. CASE UNCHANGED <<policy, since>>
    BY <2>1 DEF SwitchInv, PolicySays
  <2>2. CASE diskIs = "whole" /\ policy' = disk /\ since' = verdict
    <3>1. \A t \in GateTool : Says(disk, t)
      BY <2>2 DEF SwitchInv, FileInv, SaysInv
    <3> QED
      BY <2>2, <3>1 DEF PolicySays, Says
  <2> QED
    BY <1>4, <2>1, <2>2
<1> QED
  BY <1>1, <1>3, <1>5, <1>6 DEF SwitchInv, Descends

\* In every process started since, a tool that a command has switched off is
\* ready in no report, offered to no model and run by nobody, and one it has
\* switched on is permitted; no command changes an approval: for every manifest,
\* first permission file and set of commands, however they overlap.
THEOREM SwitchKept == GateSpec => []SwitchIsKept
<1>1. SwitchInv /\ OnlyGrantedRuns => SwitchIsKept
  <2> SUFFICES ASSUME SwitchInv, OnlyGrantedRuns, NEW t \in GateTool
               PROVE  /\ since[t] = "off" =>
                           /\ ~Ready(t) /\ t \notin Offered({})
                           /\ \A ctx \in Context : \A i \in DOMAIN using[ctx] :
                                using[ctx][i] # t
                      /\ since[t] = "on" => Permitted(t)
                      /\ diskIs = "whole" /\ policy[t].listed /\ disk[t].listed =>
                           disk[t].approval = policy[t].approval
    BY DEF SwitchIsKept
  <2>1. since[t] = "off" => ~Permitted(t)
    BY DEF SwitchInv, PolicySays, Permitted
  <2>2. ~Permitted(t) => ~Ready(t) /\ t \notin Offered({})
    BY DEF Permitted, Ready, Offered
  <2>3. ~Permitted(t) => \A ctx \in Context : \A i \in DOMAIN using[ctx] : using[ctx][i] # t
    BY DEF OnlyGrantedRuns, Available
  <2>4. since[t] = "on" => Permitted(t)
    BY DEF SwitchInv, PolicySays, Permitted
  <2>5. policy[t].listed /\ disk[t].listed => disk[t].approval = policy[t].approval
    BY DEF SwitchInv, Family, Descends
  <2> QED
    BY <2>1, <2>2, <2>3, <2>4, <2>5
<1> QED
  BY <1>1, InitSwitch, StepSwitch, OnlyGranted, PTL DEF GateSpec

-----------------------------------------------------------------------------
(* BrowserSession.                                                         *)

LEMMA DownloadBound == MaxDownloads \in Nat
  BY BrowserAssumption

LEMMA RequestType ==
  ASSUME NEW h \in Host, NEW main \in BOOLEAN
  PROVE  Request(h, main) \in
           [host : Host, to : Address \cup {Unresolved}, main : BOOLEAN]
  BY DEF Request

LEMMA BrowserInitType == BrowserInit => BrowserTypeOK
<1> SUFFICES ASSUME BrowserInit PROVE BrowserTypeOK
  OBVIOUS
<1>1. (CHOOSE a \in BrowserAsk : TRUE) \in BrowserAsk
  BY BrowserAssumption
<1>2. closed \in BOOLEAN /\ proxy \in BOOLEAN /\ browser \in BOOLEAN
  BY Zenon DEF BrowserInit
<1> QED
  BY <1>1, <1>2, DownloadBound DEF BrowserInit, BrowserTypeOK

\* _ensure gives Playwright to the thread that calls it, or leaves it as it is.
LEMMA EnsureType ==
  ASSUME BrowserTypeOK, NEW s \in Surfer, NEW ok \in BOOLEAN, Ensure(s, ok)
  PROVE  /\ pw' \in Surfer \cup {Nobody} /\ proxy' \in BOOLEAN /\ browser' \in BOOLEAN
         /\ pw # Nobody => pw' = pw
         /\ proxy \/ ok => proxy'
  BY DEF BrowserTypeOK, Ensure, Usable

LEMMA BrowserStepType == BrowserTypeOK /\ [BrowserNext]_browserVars => BrowserTypeOK'
<1> SUFFICES ASSUME BrowserTypeOK, [BrowserNext]_browserVars PROVE BrowserTypeOK'
  OBVIOUS
<1> USE BrowserAssumption, DownloadBound
    DEF BrowserTypeOK, settings, pieces, netVars, downloadVars, Turn
<1>1. ASSUME NEW s \in Surfer, NEW a \in BrowserAsk, CallTool(s, a)
      PROVE  BrowserTypeOK'
  BY <1>1 DEF CallTool
<1>2. ASSUME NEW s \in Surfer, Gate(s) PROVE BrowserTypeOK'
  <2>1. /\ pw' \in Surfer \cup {Nobody} /\ proxy' \in BOOLEAN /\ browser' \in BOOLEAN
        /\ page' \in Host \cup {NoHost, Blank}
    BY <1>2, EnsureType DEF Gate
  <2>2. spot' \in [Surfer -> {"idle", "gate", "act", "load", "save"}]
    BY <1>2 DEF Gate
  <2> QED
    BY <1>2, <2>1, <2>2 DEF Gate
<1>3. ASSUME NEW s \in Surfer, OnPage(s) \/ ActFails(s) PROVE BrowserTypeOK'
  <2>1. /\ pw' \in Surfer \cup {Nobody} /\ proxy' \in BOOLEAN /\ browser' \in BOOLEAN
        /\ page' \in Host \cup {NoHost, Blank}
    BY <1>3, EnsureType DEF OnPage, ActFails
  <2> QED
    BY <1>3, <2>1 DEF OnPage, ActFails
<1>4. ASSUME NEW s \in Surfer, Navigate(s) PROVE BrowserTypeOK'
  <2>1. /\ pw' \in Surfer \cup {Nobody} /\ proxy' \in BOOLEAN /\ browser' \in BOOLEAN
        /\ page' \in Host \cup {NoHost, Blank}
    BY <1>4, EnsureType DEF Navigate
  <2>2. requests' \subseteq [host : Host, to : Address \cup {Unresolved}, main : BOOLEAN]
    <3>1. ask[s].host \in Host
      OBVIOUS
    <3>2. \/ UNCHANGED requests
          \/ requests' = requests \cup {Request(ask[s].host, TRUE)}
      BY <1>4 DEF Navigate
    <3> QED
      BY <3>1, <3>2, RequestType
  <2> QED
    BY <1>4, <2>1, <2>2 DEF Navigate
<1>5. ASSUME NEW s \in Surfer, NavigationEnds(s) \/ NothingToSave(s) PROVE BrowserTypeOK'
  BY <1>5 DEF NavigationEnds, NothingToSave
<1>6. ASSUME NEW s \in Surfer, TakeDownload(s) \/ SaveFails(s) PROVE BrowserTypeOK'
  <2>1. CASE TakeDownload(s)
    BY <2>1 DEF TakeDownload
  <2>2. CASE SaveFails(s)
    BY <2>2 DEF SaveFails
  <2> QED
    BY <1>6, <2>1, <2>2
<1>7. ASSUME NEW s \in Surfer, SaveEnds(s) PROVE BrowserTypeOK'
  <2>1. saving[s] \in 1 .. MaxDownloads
    BY <1>7 DEF SaveEnds, CanSave
  <2> QED
    BY <1>7, <2>1 DEF SaveEnds
<1>8. ASSUME NEW h \in Host, NEW addr \in Address, NameMoves(h, addr)
      PROVE  BrowserTypeOK'
  BY <1>8 DEF NameMoves
<1>9. ASSUME NEW h \in Host, NEW main \in BOOLEAN, PageLoads(h, main)
      PROVE  BrowserTypeOK'
  BY <1>9, RequestType DEF PageLoads
<1>10. ASSUME NEW r \in requests, ProxyResolves(r) \/ ProxyConnects(r)
       PROVE  BrowserTypeOK'
  BY <1>10 DEF ProxyResolves, ProxyConnects, Pinned, Address, Unresolved
<1>11. CASE DownloadArrives
  BY <1>11 DEF DownloadArrives
<1>12. ASSUME NEW sens \in BOOLEAN, NEW sec \in BOOLEAN, Configure(sens, sec)
       PROVE  BrowserTypeOK'
  BY <1>12 DEF Configure
<1>13. CASE CloseSession
  <2>1. closed' \in BOOLEAN /\ proxy' \in BOOLEAN /\ browser' \in BOOLEAN
    BY <1>13, Zenon DEF CloseSession
  <2> QED
    BY <1>13, <2>1 DEF CloseSession
<1>14. CASE UNCHANGED browserVars
  BY <1>14 DEF browserVars
<1> QED
  BY <1>1, <1>2, <1>3, <1>4, <1>5, <1>6, <1>7, <1>8, <1>9, <1>10, <1>11, <1>12,
     <1>13, <1>14
  DEF BrowserNext, SurferStep, NetworkStep

\* Every variable of the browser session keeps its type.
THEOREM BrowserTypeCorrect == BrowserSpec => []BrowserTypeOK
  BY BrowserInitType, BrowserStepType, PTL DEF BrowserSpec

-----------------------------------------------------------------------------
(* Only public addresses are connected to.                                 *)

\* What the proxy has resolved is public, and there is neither a page nor a
\* request without it.
PeersInv ==
  /\ BrowserTypeOK
  /\ \A r \in requests : r.to \in {Unresolved, "public"}
  /\ page # NoHost => proxy
  /\ PeersAreReviewed

LEMMA StepPeers == PeersInv /\ [BrowserNext]_browserVars => PeersInv'
<1> SUFFICES ASSUME PeersInv, BrowserTypeOK', [BrowserNext]_browserVars PROVE PeersInv'
  BY BrowserStepType DEF PeersInv
<1> USE BrowserAssumption
    DEF PeersInv, PeersAreReviewed, BrowserTypeOK, settings, pieces, netVars, downloadVars
<1>1. ASSUME NEW s \in Surfer, NEW a \in BrowserAsk, CallTool(s, a) PROVE PeersInv'
  BY <1>1 DEF CallTool
<1>2. ASSUME NEW s \in Surfer, Gate(s) \/ OnPage(s) \/ ActFails(s) PROVE PeersInv'
  <2>1. (page' # NoHost => proxy') /\ (proxy => proxy') /\ UNCHANGED netVars
    BY <1>2, EnsureType DEF Gate, OnPage, ActFails
  <2> QED
    BY <2>1
<1>3. ASSUME NEW s \in Surfer, Navigate(s) PROVE PeersInv'
  <2>1. /\ page' # NoHost /\ proxy' /\ UNCHANGED peers
        /\ \/ UNCHANGED requests
           \/ requests' = requests \cup {Request(ask[s].host, TRUE)}
    BY <1>3, EnsureType DEF Navigate, NoHost, Blank
  <2> QED
    BY <2>1 DEF Request
<1>4. ASSUME NEW s \in Surfer, NavigationEnds(s) \/ NothingToSave(s) PROVE PeersInv'
  BY <1>4 DEF NavigationEnds, NothingToSave
<1>5. ASSUME NEW s \in Surfer, TakeDownload(s) \/ SaveFails(s) \/ SaveEnds(s)
      PROVE  PeersInv'
  BY <1>5 DEF TakeDownload, SaveFails, SaveEnds
<1>6. ASSUME NEW h \in Host, NEW addr \in Address, NameMoves(h, addr) PROVE PeersInv'
  BY <1>6 DEF NameMoves
<1>7. ASSUME NEW h \in Host, NEW main \in BOOLEAN, PageLoads(h, main) PROVE PeersInv'
  <2>1. page # NoHost /\ UNCHANGED <<page, proxy, peers>>
        /\ requests' = requests \cup {Request(h, main)}
    BY <1>7 DEF PageLoads, NoHost
  <2> QED
    BY <2>1 DEF Request
<1>8. ASSUME NEW r \in requests, ProxyResolves(r) PROVE PeersInv'
  BY <1>8 DEF ProxyResolves, Pinned
<1>9. ASSUME NEW r \in requests, ProxyConnects(r) PROVE PeersInv'
  BY <1>9 DEF ProxyConnects
<1>10. CASE DownloadArrives
  BY <1>10 DEF DownloadArrives
<1>11. ASSUME NEW sens \in BOOLEAN, NEW sec \in BOOLEAN, Configure(sens, sec)
       PROVE  PeersInv'
  BY <1>11 DEF Configure
<1>12. CASE CloseSession
  BY <1>12 DEF CloseSession
<1>13. CASE UNCHANGED browserVars
  BY <1>13 DEF browserVars
<1> QED
  BY <1>1, <1>2, <1>3, <1>4, <1>5, <1>6, <1>7, <1>8, <1>9, <1>10, <1>11, <1>12, <1>13
  DEF BrowserNext, SurferStep, NetworkStep

\* For every set of sites and whatever they resolve to meanwhile, the browser is
\* connected to public addresses only, and loads nothing without the proxy.
THEOREM PeersReviewed == BrowserSpec => []PeersAreReviewed
<1>1. BrowserInit => PeersInv
  BY BrowserInitType DEF BrowserInit, PeersInv, PeersAreReviewed
<1>2. PeersInv => PeersAreReviewed
  BY DEF PeersInv
<1> QED
  BY <1>1, <1>2, StepPeers, PTL DEF BrowserSpec

-----------------------------------------------------------------------------
(* A download is saved once.                                               *)

\* A saved download is not the last one, and nobody can save it again: it went
\* with its browser, or the thread that owns the browser is saving another.
SavedIsOver ==
  \A d \in 1 .. MaxDownloads : saves[d] >= 1 =>
    /\ last # d /\ d <= arrived
    /\ d <= gone \/ (pw # Nobody /\ saving[pw] # d)

SaveInv == BrowserTypeOK /\ SavedIsOver /\ SavedOnce

LEMMA StepSave == SaveInv /\ [BrowserNext]_browserVars => SaveInv'
<1> SUFFICES ASSUME SaveInv, BrowserTypeOK', [BrowserNext]_browserVars
             PROVE  SavedIsOver' /\ SavedOnce'
  BY BrowserStepType DEF SaveInv
<1> DEFINE Goal == SavedIsOver' /\ SavedOnce'
<1> USE BrowserAssumption, DownloadBound
    DEF SaveInv, SavedIsOver, SavedOnce, BrowserTypeOK, settings, pieces, netVars,
        downloadVars
<1>1. ASSUME UNCHANGED downloadVars, pw # Nobody => pw' = pw PROVE Goal
  BY <1>1
<1>2. ASSUME NEW s \in Surfer, NEW a \in BrowserAsk, CallTool(s, a) PROVE Goal
  BY <1>1, <1>2 DEF CallTool
<1>3. ASSUME NEW s \in Surfer, Gate(s) \/ OnPage(s) \/ ActFails(s) \/ Navigate(s)
      PROVE  Goal
  <2>1. UNCHANGED downloadVars /\ (pw # Nobody => pw' = pw)
    BY <1>3, EnsureType DEF Gate, OnPage, ActFails, Navigate
  <2> QED
    BY <1>1, <2>1
<1>4. ASSUME NEW s \in Surfer, NavigationEnds(s) \/ NothingToSave(s) PROVE Goal
  BY <1>1, <1>4 DEF NavigationEnds, NothingToSave
<1>5. ASSUME NEW s \in Surfer, TakeDownload(s) PROVE Goal
  BY <1>5 DEF TakeDownload
<1>6. ASSUME NEW s \in Surfer, SaveFails(s) PROVE Goal
  BY <1>6 DEF SaveFails
<1>7. ASSUME NEW s \in Surfer, SaveEnds(s) PROVE Goal
  <2>1. /\ saving[s] \in 1 .. arrived /\ saving[s] > gone /\ pw = s
        /\ saves' = [saves EXCEPT ![saving[s]] = @ + 1]
        /\ saving' = [saving EXCEPT ![s] = 0]
        /\ last' = 0 /\ UNCHANGED <<arrived, gone, pw>>
    BY <1>7 DEF SaveEnds, CanSave
  <2>2. saves[saving[s]] = 0
    BY <2>1
  <2>3. s # Nobody
    BY DEF Nobody
  <2>4. \A d \in 1 .. MaxDownloads : saves'[d] <= 1
    BY <2>1, <2>2
  <2>5. ASSUME NEW d \in 1 .. MaxDownloads, saves'[d] >= 1
        PROVE  /\ last' # d /\ d <= arrived'
               /\ d <= gone' \/ (pw' # Nobody /\ saving'[pw'] # d)
    BY <2>1, <2>3, <2>5
  <2> QED
    BY <2>4, <2>5
<1>8. ASSUME NEW h \in Host, NEW addr \in Address, NameMoves(h, addr) PROVE Goal
  BY <1>1, <1>8 DEF NameMoves
<1>9. ASSUME NEW h \in Host, NEW main \in BOOLEAN, PageLoads(h, main) PROVE Goal
  BY <1>1, <1>9 DEF PageLoads
<1>10. ASSUME NEW r \in requests, ProxyResolves(r) \/ ProxyConnects(r) PROVE Goal
  BY <1>1, <1>10 DEF ProxyResolves, ProxyConnects
<1>11. CASE DownloadArrives
  BY <1>11 DEF DownloadArrives
<1>12. ASSUME NEW sens \in BOOLEAN, NEW sec \in BOOLEAN, Configure(sens, sec) PROVE Goal
  BY <1>1, <1>12 DEF Configure
<1>13. CASE CloseSession
  BY <1>13 DEF CloseSession
<1>14. CASE UNCHANGED browserVars
  BY <1>1, <1>14 DEF browserVars
<1> QED
  BY <1>2, <1>3, <1>4, <1>5, <1>6, <1>7, <1>8, <1>9, <1>10, <1>11, <1>12, <1>13, <1>14
  DEF BrowserNext, SurferStep, NetworkStep

\* However many threads save what the browser has downloaded, and however often
\* it fails, no download is saved twice.
THEOREM SavedAtMostOnce == BrowserSpec => []SavedOnce
<1>1. BrowserInit => SaveInv
  BY BrowserInitType, DownloadBound DEF BrowserInit, SaveInv, SavedIsOver, SavedOnce
<1>2. SaveInv => SavedOnce
  BY DEF SaveInv
<1> QED
  BY <1>1, <1>2, StepSave, PTL DEF BrowserSpec

-----------------------------------------------------------------------------
(* McpBridge.                                                              *)

\* A configuration that one content of the file stands for, sound as a whole.
Sound(k) == \E f \in written : FileParses(f) /\ k = Parsed(f)

\* What a call passed before it asks or is cleared, by the configuration it
\* goes by; a cleared one is granted where it has to be.
Vetted(c) ==
  /\ req[c].kind = "call" /\ req[c].server \in DOMAIN conf[c].servers
  /\ Srv(c).enabled /\ Row(c).enabled /\ SchemaValid(req[c].args, Row(c).schema)
Granted(c) == Row(c).approval /\ "approver" \in mcpOn => granted[c]

\* The file is among its contents so far, and what is kept was one of them.
LoadedSound == file \in written /\ (loaded.known => Sound(loaded))

\* What a call has passed at each place, before which nothing is handed over;
\* and an operation goes by the configuration its call was vetted against.
CallInv(c) ==
  /\ at[c] \in {"keeping", "checking", "asking", "cleared"} => Sound(conf[c])
  /\ at[c] \in {"loading", "keeping", "checking", "asking", "cleared"} => ~Denied(req[c])
  /\ at[c] \in {"asking", "cleared"} => Vetted(c)
  /\ at[c] = "cleared" => Granted(c)
  /\ at[c] \in {"new", "loading", "keeping", "checking", "asking", "cleared"}
       => op[c] = "none"
  /\ op[c] # "none" =>
       /\ {"enabled", "sdk"} \subseteq mcpOn
       /\ Sound(conf[c]) /\ Vetted(c) /\ Granted(c) /\ ~RemoteRefused(c)
  /\ op[c] = "ended" => outcome[c] \in {"ok", "error"}

McpInv == McpTypeOK /\ LoadedSound /\ \A c \in Call : CallInv(c)

\* The bounds of a server that a sound configuration lists.
LEMMA SoundBounds ==
  ASSUME McpTypeOK, NEW c \in Call, Sound(conf[c]), Vetted(c)
  PROVE  Srv(c).startup \in Nat /\ Srv(c).call \in Nat
<1>1. PICK f \in written : FileParses(f) /\ conf[c] = Parsed(f)
  BY DEF Sound
<1>2. f \in McpFile /\ conf[c].servers = f.servers
  BY <1>1 DEF McpTypeOK, Parsed
<1>3. ServerParses(Srv(c)) /\ Srv(c).startup \in Int /\ Srv(c).call \in Int
  BY <1>1, <1>2, McpAssumption DEF FileParses, Vetted, Srv
<1> QED
  BY <1>3 DEF ServerParses, SizesParse

LEMMA TimeBounds == MinTime \in Nat /\ Slack \in Nat /\ Grace \in Nat /\ MaxEdits \in Nat
  BY McpAssumption

LEMMA InitMcp == McpInit => McpInv
<1> SUFFICES ASSUME McpInit PROVE McpInv
  OBVIOUS
<1>1. (CHOOSE r \in McpRequest : TRUE) \in McpRequest
  BY McpAssumption
<1>2. loadError \in BOOLEAN
  BY Zenon DEF McpInit
<1>3. McpTypeOK
  BY <1>1, <1>2, TimeBounds DEF McpInit, McpTypeOK, Places, Stages
<1> QED
  BY <1>3 DEF McpInit, McpInv, LoadedSound, CallInv, NoConf

LEMMA StepMcpType == McpInv /\ [McpNext]_mcpVars => McpTypeOK'
<1> SUFFICES ASSUME McpInv, [McpNext]_mcpVars PROVE McpTypeOK'
  OBVIOUS
<1> USE TimeBounds
    DEF McpInv, McpTypeOK, callVars, opVars, confVars, Goto, Places, Stages, Unbounded
<1>1. ASSUME NEW c \in Call, NEW r \in McpRequest, Execute(c, r) PROVE McpTypeOK'
  BY <1>1 DEF Execute
<1>2. ASSUME NEW c \in Call, LoadCached(c) PROVE McpTypeOK'
  BY <1>2 DEF LoadCached
<1>3. ASSUME NEW c \in Call, LoadFile(c) PROVE McpTypeOK'
  <2>1. loadError' \in BOOLEAN
    BY <1>3 DEF LoadFile
  <2> QED
    BY <1>3, <2>1 DEF LoadFile
<1>4. ASSUME NEW c \in Call, KeepLoaded(c) PROVE McpTypeOK'
  BY <1>4 DEF KeepLoaded
<1>5. ASSUME NEW c \in Call, Status(c) \/ Refuse(c) \/ Report(c) \/ GiveUp(c)
      PROVE  McpTypeOK'
  <2>1. at' \in [Call -> Places]
    BY <1>5 DEF Status, Refuse, Report, GiveUp, CallInv
  <2> QED
    BY <1>5, <2>1 DEF Status, Refuse, Report, GiveUp
<1>6. ASSUME NEW c \in Call, Check(c) PROVE McpTypeOK'
  BY <1>6 DEF Check
<1>7. ASSUME NEW c \in Call, Approve(c) PROVE McpTypeOK'
  <2>1. granted' \in [Call -> BOOLEAN]
    BY <1>7, Zenon DEF Approve
  <2> QED
    BY <1>7, <2>1 DEF Approve
<1>8. ASSUME NEW c \in Call, Submit(c) PROVE McpTypeOK'
  <2>1. Backstop(Srv(c)) \in Nat
    BY <1>8, SoundBounds DEF Submit, CallInv, Backstop, Larger
  <2> QED
    BY <1>8, <2>1 DEF Submit
<1>9. ASSUME NEW c \in Call, ServerStep(c) \/ OpStep(c) PROVE McpTypeOK'
  <2>1. op[c] # "none" => Srv(c).startup \in Nat /\ Srv(c).call \in Nat
    BY SoundBounds DEF CallInv
  <2>2. CASE StartOp(c)
    BY <2>1, <2>2 DEF StartOp, Enter
  <2>3. CASE Spawned(c) \/ Initialized(c)
    BY <2>1, <2>3 DEF Spawned, Initialized, Enter
  <2>4. CASE Answered(c) \/ OpRaises(c) \/ OpTimesOut(c)
    <3>1. PICK how \in {"ok", "error"} : EndOp(c, how)
      BY <2>4 DEF Answered, OpRaises, OpTimesOut
    <3> QED
      BY <3>1 DEF EndOp
  <2> QED
    BY <1>9, <2>2, <2>3, <2>4 DEF ServerStep, OpStep
<1>10. ASSUME NEW f \in McpFile, EditFile(f) PROVE McpTypeOK'
  BY <1>10 DEF EditFile
<1>11. CASE Tick
  <2>1. left' \in [Call -> Nat]
    BY <1>11 DEF Tick, Due
  <2>2. /\ stageLeft' \in [Call -> Nat \cup {Unbounded}]
        /\ wholeLeft' \in [Call -> Nat \cup {Unbounded}]
    BY <1>11 DEF Tick, Less
  <2> QED
    BY <1>11, <2>1, <2>2 DEF Tick
<1>12. CASE UNCHANGED mcpVars
  BY <1>12 DEF mcpVars
<1> QED
  BY <1>1, <1>2, <1>3, <1>4, <1>5, <1>6, <1>7, <1>8, <1>9, <1>10, <1>11, <1>12
  DEF McpNext, CallStep

\* A call none of whose own state changes stays as vetted as it was.
Same(c) ==
  /\ req'[c] = req[c] /\ conf'[c] = conf[c] /\ mcpOn' = mcpOn
  /\ granted[c] => granted'[c]
Kept(c) == Same(c) /\ at'[c] = at[c] /\ op'[c] = op[c] /\ outcome'[c] = outcome[c]

LEMMA StaysVetted ==
  ASSUME NEW c \in Call, Same(c)
  PROVE  /\ Vetted(c)' <=> Vetted(c)
         /\ Granted(c) => Granted(c)'
         /\ RemoteRefused(c)' <=> RemoteRefused(c)
         /\ Denied(req[c])' <=> Denied(req[c])
  BY DEF Same, Vetted, Granted, RemoteRefused, Denied, Srv, Row

LEMMA KeptInv ==
  ASSUME NEW c \in Call, CallInv(c), Kept(c), written \subseteq written'
  PROVE  CallInv(c)'
<1>1. Same(c)
  BY DEF Kept
<1>2. Sound(conf[c]) => Sound(conf[c])'
  BY <1>1 DEF Sound, Same
<1> QED
  BY <1>1, <1>2, StaysVetted DEF CallInv, Kept, Same

LEMMA StepMcp == McpInv /\ [McpNext]_mcpVars => McpInv'
<1> SUFFICES ASSUME McpInv, McpTypeOK', [McpNext]_mcpVars
             PROVE  LoadedSound' /\ \A c \in Call : CallInv(c)'
  BY StepMcpType DEF McpInv
<1> DEFINE Goal == LoadedSound' /\ \A c \in Call : CallInv(c)'
<1> USE DEF McpInv, McpTypeOK, callVars, opVars, confVars, Goto
<1>1. ASSUME written \subseteq written', file' \in written', loaded' = loaded
      PROVE  LoadedSound'
  BY <1>1 DEF LoadedSound, Sound
<1>2. ASSUME UNCHANGED <<written, file, loaded>>, NEW c \in Call, CallInv(c)',
             \A d \in Call \ {c} : Kept(d)
      PROVE  Goal
  <2>1. LoadedSound'
    BY <1>1, <1>2 DEF LoadedSound
  <2> QED
    BY <1>2, <2>1, KeptInv
<1>3. ASSUME UNCHANGED <<confVars, callVars, opVars>>, NEW c \in Call, Goto(c, "error")
      PROVE  Goal
  <2>2. Same(c) /\ at'[c] = "error" /\ op'[c] = op[c] /\ outcome'[c] = outcome[c]
    BY <1>3 DEF Same
  <2>3. CallInv(c)'
    BY <1>3, <2>2, StaysVetted DEF CallInv, Sound
  <2> QED
    BY <1>2, <1>3, <2>3 DEF Kept, Same
<1>4. ASSUME NEW c \in Call, NEW r \in McpRequest, Execute(c, r) PROVE Goal
  <2>1. CallInv(c)'
    BY <1>4 DEF Execute, CallInv, Denied
  <2> QED
    BY <1>2, <1>4, <2>1 DEF Execute, Kept, Same
<1>5. ASSUME NEW c \in Call, LoadCached(c) PROVE Goal
  <2>1. CallInv(c)'
    BY <1>5 DEF LoadCached, CallInv, LoadedSound, Sound, Denied
  <2> QED
    BY <1>2, <1>5, <2>1 DEF LoadCached, Kept, Same
<1>6. ASSUME NEW c \in Call, LoadFile(c) PROVE Goal
  <2>1. CallInv(c)'
    BY <1>6 DEF LoadFile, CallInv, LoadedSound, Sound, Denied
  <2> QED
    BY <1>2, <1>6, <2>1 DEF LoadFile, Kept, Same
<1>7. ASSUME NEW c \in Call, KeepLoaded(c) PROVE Goal
  <2>1. Sound(conf[c])
    BY <1>7 DEF KeepLoaded, CallInv
  <2>2. LoadedSound'
    BY <1>7, <2>1 DEF KeepLoaded, LoadedSound, Sound
  <2>3. Same(c)
    BY <1>7 DEF KeepLoaded, Same
  <2>4. CallInv(c)'
    BY <1>7, <2>1, <2>3, StaysVetted DEF KeepLoaded, CallInv, Sound
  <2>5. \A d \in Call \ {c} : Kept(d)
    BY <1>7 DEF KeepLoaded, Kept, Same
  <2>6. written \subseteq written'
    BY <1>7 DEF KeepLoaded
  <2> QED
    BY <2>2, <2>4, <2>5, <2>6, KeptInv
<1>8. ASSUME NEW c \in Call, Status(c) PROVE Goal
  <2>1. Same(c) /\ at'[c] = "ok" /\ op'[c] = op[c] /\ outcome'[c] = outcome[c]
    BY <1>8 DEF Status, Same
  <2>2. CallInv(c)'
    BY <1>8, <2>1, StaysVetted DEF Status, CallInv, Sound
  <2> QED
    BY <1>2, <1>8, <2>2 DEF Status, Kept, Same
<1>9. ASSUME NEW c \in Call, Check(c) PROVE Goal
  <2>1. /\ UNCHANGED <<confVars, callVars, opVars>> /\ at[c] = "checking"
        /\ at'[c] # "error" => /\ Vetted(c)
                               /\ at'[c] = IF Row(c).approval /\ "approver" \in mcpOn
                                           THEN "asking" ELSE "cleared"
    BY <1>9 DEF Check, Vetted
  <2>2. CASE at'[c] = "error"
    BY <1>3, <1>9, <2>1, <2>2 DEF Check
  <2>3. CASE at'[c] # "error"
    <3>1. Same(c)
      BY <2>1 DEF Same
    <3>2. CallInv(c)'
      BY <2>1, <2>3, <3>1, StaysVetted DEF CallInv, Sound, Granted
    <3> QED
      BY <1>2, <1>9, <3>2 DEF Check, Kept, Same
  <2> QED
    BY <2>2, <2>3
<1>10. ASSUME NEW c \in Call, Approve(c) PROVE Goal
  <2>1. Same(c) /\ granted'[c]
    BY <1>10 DEF Approve, Same
  <2>2. CallInv(c)'
    BY <1>10, <2>1, StaysVetted DEF Approve, CallInv, Sound, Granted
  <2> QED
    BY <1>2, <1>10, <2>2 DEF Approve, Kept, Same
<1>11. ASSUME NEW c \in Call, Submit(c) PROVE Goal
  <2>1. Same(c) /\ UNCHANGED <<written, outcome>>
    BY <1>11 DEF Submit, Same
  <2>2. /\ at[c] = "cleared" /\ op[c] = "none"
        /\ \/ at'[c] = "error" /\ op'[c] = op[c]
           \/ at'[c] = "waiting" /\ op'[c] = "queued" /\ ~RemoteRefused(c)
    BY <1>11 DEF Submit, CallInv
  <2>3. {"enabled", "sdk"} \subseteq mcpOn /\ Sound(conf[c]) /\ Vetted(c) /\ Granted(c)
    BY <2>2 DEF CallInv, Denied, Vetted
  <2>4. Sound(conf[c])'
    BY <2>1, <2>3 DEF Sound, Same
  <2>5. CallInv(c)'
    BY <2>1, <2>2, <2>3, <2>4, StaysVetted DEF CallInv, Same
  <2> QED
    BY <1>2, <1>11, <2>5 DEF Submit, Kept, Same
<1>12. ASSUME NEW c \in Call, Refuse(c) \/ GiveUp(c) PROVE Goal
  BY <1>3, <1>12 DEF Refuse, GiveUp
<1>13. ASSUME NEW c \in Call, Report(c) PROVE Goal
  <2>1. Same(c) /\ at'[c] \in {"ok", "error"} /\ op'[c] = op[c] /\ outcome'[c] = outcome[c]
    BY <1>13 DEF Report, Same, CallInv
  <2>2. CallInv(c)'
    BY <1>13, <2>1, StaysVetted DEF Report, CallInv, Sound
  <2> QED
    BY <1>2, <1>13, <2>2 DEF Report, Kept, Same
<1>14. ASSUME NEW c \in Call, ServerStep(c) \/ OpStep(c) PROVE Goal
  <2>1. UNCHANGED <<confVars, at, callVars>> /\ op[c] # "none" /\ Same(c)
    BY <1>14 DEF ServerStep, OpStep, Spawned, Initialized, Answered, OpRaises, OpTimesOut,
                 EndOp, StartOp, Same, Running
  <2>2. \/ op'[c] \in {"spawning", "initializing", "calling"} /\ UNCHANGED outcome
        \/ outcome'[c] \in {"ok", "error"}
    BY <1>14 DEF ServerStep, OpStep, Spawned, Initialized, Answered, OpRaises, OpTimesOut,
                 EndOp, StartOp, Enter
  <2>3. \A d \in Call \ {c} : op'[d] = op[d] /\ outcome'[d] = outcome[d]
    BY <1>14 DEF ServerStep, OpStep, Spawned, Initialized, Answered, OpRaises, OpTimesOut,
                 EndOp, StartOp, Enter
  <2>4. CallInv(c)'
    BY <2>1, <2>2, StaysVetted DEF CallInv, Sound
  <2> QED
    BY <1>2, <2>1, <2>3, <2>4 DEF Kept, Same
<1>15. ASSUME NEW f \in McpFile, EditFile(f) PROVE Goal
  <2>1. written \subseteq written' /\ file' \in written' /\ loaded' = loaded
    BY <1>15 DEF EditFile
  <2>2. \A c \in Call : Kept(c)
    BY <1>15 DEF EditFile, Kept, Same
  <2> QED
    BY <1>1, <2>1, <2>2, KeptInv
<1>16. CASE Tick \/ UNCHANGED mcpVars
  <2>1. UNCHANGED <<confVars, at, req, conf, granted, op, outcome>>
    BY <1>16 DEF Tick, mcpVars
  <2>2. \A c \in Call : Kept(c)
    BY <2>1 DEF Kept, Same
  <2> QED
    BY <1>1, <2>1, <2>2, KeptInv DEF LoadedSound
<1> QED
  BY <1>4, <1>5, <1>6, <1>7, <1>8, <1>9, <1>10, <1>11, <1>12, <1>13, <1>14, <1>15, <1>16
  DEF McpNext, CallStep

\* Every variable of the MCP client keeps its type; no timer goes below zero,
\* because time does not pass a timer that has run out.
THEOREM McpTypeCorrect == McpSpec => []McpTypeOK
<1>1. McpInv => McpTypeOK
  BY DEF McpInv
<1> QED
  BY <1>1, InitMcp, StepMcp, PTL DEF McpSpec

\* For every set of servers, files, calls and switches: an operation is handed
\* over only as one sound content of the file allows, and approved where it says
\* so, however often the file is rewritten and whoever reads it.
THEOREM HandedOverVetted == McpSpec => []HandedOverIsVetted
<1>1. McpInv => HandedOverIsVetted
  <2> SUFFICES ASSUME McpInv, NEW c \in Call, op[c] # "none"
               PROVE  /\ {"enabled", "sdk"} \subseteq mcpOn
                      /\ \E f \in written :
                           /\ FileParses(f) /\ Allowed(f.servers, req[c], mcpOn)
                           /\ ToolPolicy(f.servers[req[c].server], req[c].tool).approval
                                /\ "approver" \in mcpOn => granted[c]
    BY DEF HandedOverIsVetted
  <2>1. /\ {"enabled", "sdk"} \subseteq mcpOn
        /\ Sound(conf[c]) /\ Vetted(c) /\ Granted(c) /\ ~RemoteRefused(c)
    BY DEF McpInv, CallInv
  <2>2. PICK f \in written : FileParses(f) /\ conf[c] = Parsed(f)
    BY <2>1 DEF Sound
  <2>3. conf[c].servers = f.servers
    BY <2>2 DEF Parsed
  <2>4. Allowed(f.servers, req[c], mcpOn)
    BY <2>1, <2>3 DEF Vetted, Allowed, RemoteRefused, Srv, Row
  <2>5. ToolPolicy(f.servers[req[c].server], req[c].tool).approval
          /\ "approver" \in mcpOn => granted[c]
    BY <2>1, <2>3 DEF Granted, Srv, Row
  <2> QED
    BY <2>1, <2>2, <2>4, <2>5
<1> QED
  BY <1>1, InitMcp, StepMcp, PTL DEF McpSpec

-----------------------------------------------------------------------------
(* Whatever waits has a bound.                                             *)

OnSlots == {c \in Call : op[c] \in Running}
WholeBound(c) == Srv(c).startup + Srv(c).call + Slack

\* An operation on a slot has a timer of its own or of its stage, a caller that
\* waits has its backstop and an operation to wait for, and one that is told of a
\* success had it from the server or asked for the status only.
CallBounded(c) ==
  /\ op[c] \in Running =>
       wholeLeft[c] \in 0 .. WholeBound(c) \/ stageLeft[c] \in 0 .. WholeBound(c)
  /\ at[c] = "waiting" => op[c] # "none" /\ left[c] \in 0 .. Backstop(Srv(c))
  /\ at[c] = "ok" =>
       req[c].kind = "status" \/ (op[c] = "ended" /\ outcome[c] = "ok")

SlotsBounded == IsFiniteSet(OnSlots) /\ Cardinality(OnSlots) <= Slots

WaitsBounded == SlotsBounded /\ \A c \in Call : CallBounded(c)

\* A call whose own place, stage and timers stay, or run on.
LEMMA WaitGoesOn ==
  ASSUME NEW c \in Call, CallBounded(c), Kept(c), McpInv,
         left'[c] = left[c] \/ left'[c] \in 0 .. left[c],
         stageLeft'[c] = stageLeft[c] \/ stageLeft'[c] \in 0 .. stageLeft[c],
         wholeLeft'[c] = wholeLeft[c] \/ wholeLeft'[c] \in 0 .. wholeLeft[c]
  PROVE  CallBounded(c)'
<1>1. UNCHANGED <<at[c], op[c], req[c], outcome[c]>>
      /\ WholeBound(c)' = WholeBound(c) /\ Backstop(Srv(c))' = Backstop(Srv(c))
  BY DEF Kept, Same, WholeBound, Backstop, Srv
<1>2. left[c] \in Nat /\ stageLeft[c] \in Nat \cup {-1} /\ wholeLeft[c] \in Nat \cup {-1}
  BY DEF McpInv, McpTypeOK, Unbounded
<1>3. \A b \in Nat : left[c] \in 0 .. b => left'[c] \in 0 .. b
  BY <1>2
<1>4. \A b \in Nat : stageLeft[c] \in 0 .. b => stageLeft'[c] \in 0 .. b
  BY <1>2
<1>5. \A b \in Nat : wholeLeft[c] \in 0 .. b => wholeLeft'[c] \in 0 .. b
  BY <1>2
<1>6. op[c] # "none" => WholeBound(c) \in Nat /\ Backstop(Srv(c)) \in Nat
  BY SoundBounds, TimeBounds DEF McpInv, CallInv, WholeBound, Backstop, Larger
<1> QED
  BY <1>1, <1>3, <1>4, <1>5, <1>6 DEF CallBounded, Running

LEMMA StepSlotsBounded ==
  McpInv /\ SlotsBounded /\ [McpNext]_mcpVars => SlotsBounded'
<1> SUFFICES ASSUME McpInv, SlotsBounded, [McpNext]_mcpVars PROVE SlotsBounded'
  OBVIOUS
<1> USE DEF McpInv, McpTypeOK, SlotsBounded, callVars, opVars, confVars
<1>0. Slots \in Nat \ {0}
  BY McpAssumption
<1>1. CASE OnSlots' = OnSlots
  BY <1>1
<1>2. ASSUME NEW c \in Call, StartOp(c) PROVE SlotsBounded'
  <2>1. OnSlots' = OnSlots \cup {c} /\ c \notin OnSlots /\ Cardinality(OnSlots) < Slots
    BY <1>2 DEF StartOp, Enter, OnSlots, Running
  <2>2. IsFiniteSet(OnSlots') /\ Cardinality(OnSlots') = Cardinality(OnSlots) + 1
    BY <2>1, FS_AddElement
  <2>3. Cardinality(OnSlots) \in Nat
    BY FS_CardinalityType
  <2> QED
    BY <1>0, <2>1, <2>2, <2>3
<1>3. ASSUME NEW c \in Call, NEW how \in {"ok", "error"}, EndOp(c, how) PROVE SlotsBounded'
  <2>1. OnSlots' \subseteq OnSlots
    BY <1>3 DEF EndOp, OnSlots, Running
  <2>2. IsFiniteSet(OnSlots') /\ Cardinality(OnSlots') <= Cardinality(OnSlots)
    BY <2>1, FS_Subset
  <2>3. Cardinality(OnSlots) \in Nat /\ Cardinality(OnSlots') \in Nat
    BY <2>2, FS_CardinalityType
  <2> QED
    BY <1>0, <2>2, <2>3
<1>4. ASSUME NEW c \in Call, Spawned(c) \/ Initialized(c) PROVE OnSlots' = OnSlots
  BY <1>4 DEF Spawned, Initialized, Enter, OnSlots, Running
<1>5. ASSUME NEW c \in Call, Submit(c) PROVE OnSlots' = OnSlots
  BY <1>5 DEF Submit, OnSlots, Running, CallInv
<1>6. \/ UNCHANGED op
      \/ \E c \in Call : \/ StartOp(c) \/ Spawned(c) \/ Initialized(c) \/ Submit(c)
                         \/ \E how \in {"ok", "error"} : EndOp(c, how)
  BY DEF McpNext, CallStep, ServerStep, OpStep, Execute, LoadCached, LoadFile, KeepLoaded,
     Status, Check, Report, GiveUp, Answered, OpRaises, OpTimesOut, Approve, Refuse, EditFile,
     Tick, mcpVars
<1>7. CASE UNCHANGED op
  BY <1>1, <1>7 DEF OnSlots
<1> QED
  BY <1>1, <1>2, <1>3, <1>4, <1>5, <1>6, <1>7

LEMMA StepCallBounded ==
  ASSUME McpInv, McpInv', [McpNext]_mcpVars, \A c \in Call : CallBounded(c)
  PROVE  \A c \in Call : CallBounded(c)'
<1> USE TimeBounds
    DEF McpInv, McpTypeOK, callVars, opVars, confVars, Goto, Unbounded, Running, Places, Stages
<1> SUFFICES ASSUME NEW c \in Call PROVE CallBounded(c)'
  OBVIOUS
<1>0. op[c] # "none" => Srv(c).startup \in Nat /\ Srv(c).call \in Nat
  BY SoundBounds DEF CallInv
<1>1. CASE /\ Kept(c) /\ left'[c] = left[c]
           /\ stageLeft'[c] = stageLeft[c] /\ wholeLeft'[c] = wholeLeft[c]
  BY <1>1, WaitGoesOn
<1>2. CASE Tick
  <2>1. Kept(c)
    BY <1>2 DEF Tick, Kept, Same
  <2>2. left'[c] = left[c] \/ left'[c] \in 0 .. left[c]
    BY <1>2 DEF Tick, Due
  <2>3. stageLeft'[c] = stageLeft[c] \/ stageLeft'[c] \in 0 .. stageLeft[c]
    BY <1>2 DEF Tick, Less
  <2>4. wholeLeft'[c] = wholeLeft[c] \/ wholeLeft'[c] \in 0 .. wholeLeft[c]
    BY <1>2 DEF Tick, Less
  <2> QED
    BY <2>1, <2>2, <2>3, <2>4, WaitGoesOn
\* Before it is handed over, and as it is refused.
<1>3. ASSUME (\E r \in McpRequest : Execute(c, r)) \/ LoadCached(c) \/ LoadFile(c)
             \/ KeepLoaded(c) \/ Status(c) \/ Check(c) \/ Approve(c) \/ Refuse(c)
      PROVE  CallBounded(c)'
  <2>1. op[c] = "none" /\ op' = op
    BY <1>3 DEF Execute, LoadCached, LoadFile, KeepLoaded, Status, Check, Approve, Refuse,
       CallInv
  <2>2. at'[c] \notin {"waiting", "ok"} \/ (Status(c) /\ at'[c] = "ok")
    BY <1>3 DEF Execute, LoadCached, LoadFile, KeepLoaded, Status, Check, Approve, Refuse
  <2> QED
    BY <2>1, <2>2 DEF CallBounded, Status
<1>4. CASE Submit(c)
  <2>1. Backstop(Srv(c)) \in Nat /\ Srv(c)' = Srv(c) /\ Backstop(Srv(c))' = Backstop(Srv(c))
    BY <1>4, SoundBounds DEF Submit, CallInv, Backstop, Larger, Srv
  <2>2. op[c] = "none"
    BY <1>4 DEF Submit, CallInv
  <2>3. CASE RemoteRefused(c)
    BY <1>4, <2>2, <2>3 DEF Submit, CallBounded
  <2>4. CASE ~RemoteRefused(c)
    <3>1. /\ at'[c] = "waiting" /\ op'[c] = "queued"
          /\ left'[c] = Backstop(Srv(c))
      BY <1>4, <2>4 DEF Submit
    <3> QED
      BY <2>1, <3>1 DEF CallBounded
  <2> QED
    BY <2>3, <2>4
<1>5. CASE Report(c) \/ GiveUp(c)
  <2>1. UNCHANGED <<op, outcome, stageLeft, wholeLeft, conf, req>>
    BY <1>5 DEF Report, GiveUp
  <2>2. WholeBound(c)' = WholeBound(c)
    BY <2>1 DEF WholeBound, Srv
  <2>3. at'[c] = "error" \/ (op[c] = "ended" /\ at'[c] = outcome[c])
    BY <1>5 DEF Report, GiveUp
  <2>4. op[c] = "ended" => outcome[c] \in {"ok", "error"}
    BY DEF CallInv
  <2> QED
    BY <2>1, <2>2, <2>3, <2>4 DEF CallBounded
<1>6. CASE ServerStep(c) \/ OpStep(c)
  <2>1. UNCHANGED <<at, req, conf, left>> /\ op[c] \notin {"none", "ended"}
    BY <1>6 DEF ServerStep, OpStep, Spawned, Initialized, Answered, OpRaises, OpTimesOut,
       EndOp, StartOp
  <2>2. WholeBound(c)' = WholeBound(c) /\ Backstop(Srv(c))' = Backstop(Srv(c))
        /\ WholeBound(c) \in Nat
    BY <1>0, <2>1 DEF WholeBound, Backstop, Srv
  <2>3. op'[c] \in Running =>
          wholeLeft'[c] \in 0 .. WholeBound(c) \/ stageLeft'[c] \in 0 .. WholeBound(c)
    <3>1. CASE StartOp(c)
      BY <1>0, <2>1, <3>1 DEF StartOp, Enter, WholeBound
    <3>2. CASE Spawned(c) \/ Initialized(c)
      BY <1>0, <2>1, <3>2 DEF Spawned, Initialized, Enter, WholeBound
    <3>3. CASE Answered(c) \/ OpRaises(c) \/ OpTimesOut(c)
      <4>1. op'[c] = "ended"
        BY <3>3 DEF Answered, OpRaises, OpTimesOut, EndOp
      <4> QED
        BY <4>1
    <3> QED
      BY <1>6, <3>1, <3>2, <3>3 DEF ServerStep, OpStep
  <2>4. op'[c] # "none"
    BY <1>6 DEF ServerStep, OpStep, Spawned, Initialized, Answered, OpRaises, OpTimesOut,
       EndOp, StartOp, Enter
  <2> QED
    BY <2>1, <2>2, <2>3, <2>4 DEF CallBounded
<1>7. \/ Tick \/ Submit(c) \/ Report(c) \/ GiveUp(c) \/ ServerStep(c) \/ OpStep(c)
      \/ (\E r \in McpRequest : Execute(c, r)) \/ LoadCached(c) \/ LoadFile(c)
      \/ KeepLoaded(c) \/ Status(c) \/ Check(c) \/ Approve(c) \/ Refuse(c)
      \/ /\ Kept(c) /\ left'[c] = left[c]
         /\ stageLeft'[c] = stageLeft[c] /\ wholeLeft'[c] = wholeLeft[c]
  <2> DEFINE Apart == /\ Kept(c) /\ left'[c] = left[c]
                      /\ stageLeft'[c] = stageLeft[c] /\ wholeLeft'[c] = wholeLeft[c]
  <2>1. ASSUME NEW d \in Call \ {c}, NEW r \in McpRequest, Execute(d, r) PROVE Apart
    BY <2>1 DEF Execute, Kept, Same
  <2>2. ASSUME NEW d \in Call \ {c},
               LoadCached(d) \/ LoadFile(d) \/ KeepLoaded(d) \/ Status(d) \/ Check(d)
        PROVE  Apart
    BY <2>2 DEF LoadCached, LoadFile, KeepLoaded, Status, Check, Kept, Same
  <2>3. ASSUME NEW d \in Call \ {c},
               Approve(d) \/ Refuse(d) \/ Submit(d) \/ Report(d) \/ GiveUp(d)
        PROVE  Apart
    BY <2>3 DEF Approve, Refuse, Submit, Report, GiveUp, Kept, Same
  <2>4. ASSUME NEW d \in Call \ {c}, ServerStep(d) \/ OpStep(d) PROVE Apart
    BY <2>4 DEF ServerStep, OpStep, Spawned, Initialized, Answered, OpRaises, OpTimesOut,
       EndOp, StartOp, Enter, Kept, Same
  <2>5. ASSUME NEW f \in McpFile, EditFile(f) PROVE Apart
    BY <2>5 DEF EditFile, Kept, Same
  <2>6. ASSUME UNCHANGED mcpVars PROVE Apart
    BY <2>6 DEF mcpVars, Kept, Same
  <2> QED
    BY <2>1, <2>2, <2>3, <2>4, <2>5, <2>6 DEF McpNext, CallStep
<1> QED
  BY <1>1, <1>2, <1>3, <1>4, <1>5, <1>6, <1>7

\* Nothing waits without a bound, for any number of calls and slots: no more
\* operations run than there are slots, each has a timer within the bounds of its
\* server, a waiting caller has its backstop and an operation; and nobody is told
\* of a success that no server answered.  With the fairness of threads and of time
\* this is why every call reports and every slot comes back.
THEOREM NoWaitIsUnbounded == McpSpec => []WaitsBounded
<1>1. McpInit => McpInv /\ WaitsBounded
  <2> SUFFICES ASSUME McpInit PROVE WaitsBounded
    BY InitMcp
  <2>1. OnSlots = {}
    BY DEF McpInit, OnSlots, Running
  <2>2. SlotsBounded
    BY <2>1, FS_EmptySet, McpAssumption DEF SlotsBounded
  <2> QED
    BY <2>2 DEF McpInit, WaitsBounded, CallBounded, Running
<1>2. McpInv /\ WaitsBounded /\ [McpNext]_mcpVars => (McpInv /\ WaitsBounded)'
  BY StepMcp, StepSlotsBounded, StepCallBounded DEF WaitsBounded
<1> QED
  BY <1>1, <1>2, PTL DEF McpSpec
=============================================================================
