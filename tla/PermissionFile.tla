---------------------------- MODULE PermissionFile ----------------------------
(***************************************************************************)
(* permissions.json and the commands that rewrite it, `aiba tools enable`  *)
(* and `aiba tools disable`: processes of their own (cli/capability.py)    *)
(* that read the file, change a row of it and put it in place again        *)
(* (diagnostics/capability_state.py), without a lock and through one       *)
(* temporary name.                                                         *)
(***************************************************************************)
EXTENDS Naturals, FiniteSets

CONSTANTS
  GateTool,       \* tools
  Manifest,       \* [tool -> [flag, dep, approval]] of the manifest's tools
  PermissionFiles,    \* contents permissions.json may have at first
  Command,        \* runs of `aiba tools enable|disable`
  Orders          \* <<tool, enabled>>: what these may be told

PermissionRow == [listed : BOOLEAN, enabled : BOOLEAN, approval : BOOLEAN]
Rows == [GateTool -> PermissionRow]

ASSUME FileAssumption ==
  /\ DOMAIN Manifest \subseteq GateTool
  /\ \A t \in DOMAIN Manifest : Manifest[t].approval \in BOOLEAN
  /\ PermissionFiles \subseteq Rows
  /\ Orders \subseteq (DOMAIN Manifest) \X BOOLEAN

VARIABLES
  disk, temp,     \* the rows of permissions.json and of permissions.json.tmp,
  diskIs, tempIs, \* and whether each is whole, empty, garbled or absent
  cli,            \* place of a command
  order, draft,   \* what it was told, and the rows as it will write them
  target,         \* the name that the file it has open goes by; "lost" when
                  \* another file has taken it
  alone,          \* (observation) no other command was under way beside it
  verdict         \* (observation) how a command that was alone left a tool

fileVars == <<disk, temp, diskIs, tempIs, cli, order, draft, target, alone, verdict>>

UnderWay == {"read", "open", "written"}
Becomes(w, place) == cli' = [cli EXCEPT ![w] = place]
Others(w) == {v \in Command \ {w} : cli[v] \in UnderWay}
ToldTo(w) == order[w][1]

-----------------------------------------------------------------------------
FileInit ==
  /\ disk \in PermissionFiles /\ temp = disk
  /\ diskIs = "whole" /\ tempIs = "absent"
  /\ cli = [w \in Command |-> "new"] /\ target = [w \in Command |-> "lost"]
  /\ order \in [Command -> Orders] /\ draft = [w \in Command |-> disk]
  /\ alone = [w \in Command |-> FALSE]
  /\ verdict = [t \in GateTool |-> "none"]

\* A row that is not there gets the manifest's approval; one that is there keeps
\* its own.
Switched_Resets(rows, t, on) ==
  [rows EXCEPT ![t] = [listed |-> TRUE, enabled |-> on,
                       approval |-> Manifest[t].approval]]
Switched(rows, t, on) ==
  [rows EXCEPT ![t] =
     [listed |-> TRUE, enabled |-> on,
      approval |-> IF rows[t].listed THEN rows[t].approval
                   ELSE Manifest[t].approval]]

\* Commands under way at once leave their tools as it happens.
ReadFile(w) ==
  /\ cli[w] = "new" /\ diskIs = "whole"
  /\ Becomes(w, "read")
  /\ draft' = [draft EXCEPT ![w] = Switched(disk, ToldTo(w), order[w][2])]
  /\ alone' = [v \in Command |-> IF v = w THEN Others(w) = {}
                                 ELSE alone[v] /\ v \notin Others(w)]
  /\ verdict' = [t \in GateTool |->
       IF Others(w) # {} /\ \E v \in Others(w) \cup {w} : t = ToldTo(v)
       THEN "none" ELSE verdict[t]]
  /\ UNCHANGED <<disk, temp, diskIs, tempIs, order, target>>

\* The temporary name is opened for writing, which empties what it names.
OpenTemp(w) ==
  /\ cli[w] = "read"
  /\ Becomes(w, "open") /\ tempIs' = "empty"
  /\ target' = [target EXCEPT ![w] = "temp"]
  /\ UNCHANGED <<disk, diskIs, temp, order, draft, alone, verdict>>

\* Over what another command has written since, the shorter text leaves the end
\* of the longer one behind.
Clean(w) == IF target[w] = "temp" THEN tempIs = "empty" ELSE diskIs = "empty"

WriteTemp(w) ==
  /\ cli[w] = "open"
  /\ Becomes(w, "written")
  /\ temp' = IF target[w] = "temp" THEN draft[w] ELSE temp
  /\ disk' = IF target[w] = "disk" THEN draft[w] ELSE disk
  /\ \E text \in {"whole"} \cup (IF Clean(w) THEN {} ELSE {"garbled"}) :
       /\ tempIs' = IF target[w] = "temp" THEN text ELSE tempIs
       /\ diskIs' = IF target[w] = "disk" THEN text ELSE diskIs
  /\ UNCHANGED <<order, draft, target, alone, verdict>>

\* The file that has the temporary name takes the place of the other, and with
\* it whoever has it open.
ReplaceFile(w) ==
  /\ cli[w] = "written" /\ tempIs # "absent"
  /\ Becomes(w, "done")
  /\ disk' = temp /\ diskIs' = tempIs /\ tempIs' = "absent"
  /\ target' = [v \in Command |-> IF target[v] = "temp" THEN "disk" ELSE "lost"]
  /\ verdict' = IF alone[w]
                THEN [verdict EXCEPT ![ToldTo(w)] = IF order[w][2] THEN "on" ELSE "off"]
                ELSE verdict
  /\ UNCHANGED <<temp, order, draft, alone>>

\* The file does not parse, the temporary file has gone, or the command dies.
CommandEnds(w) ==
  /\ cli[w] \in UnderWay \/ (cli[w] = "new" /\ diskIs # "whole")
  /\ Becomes(w, "done")
  /\ UNCHANGED <<disk, temp, diskIs, tempIs, order, draft, target, alone, verdict>>

FileNext ==
  \E w \in Command : \/ ReadFile(w) \/ OpenTemp(w) \/ WriteTemp(w)
                     \/ ReplaceFile(w) \/ CommandEnds(w)

FileSpec == FileInit /\ [][FileNext]_fileVars

-----------------------------------------------------------------------------
FileTypeOK ==
  /\ disk \in Rows /\ temp \in Rows
  /\ diskIs \in {"whole", "empty", "garbled"}
  /\ tempIs \in {"whole", "empty", "garbled", "absent"}
  /\ cli \in [Command -> {"new", "done"} \cup UnderWay]
  /\ order \in [Command -> Orders] /\ draft \in [Command -> Rows]
  /\ target \in [Command -> {"temp", "disk", "lost"}]
  /\ alone \in [Command -> BOOLEAN] /\ verdict \in [GateTool -> {"none", "on", "off"}]
=============================================================================
