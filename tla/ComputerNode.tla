----------------------------- MODULE ComputerNode -----------------------------
(***************************************************************************)
(* The gate of local desktop control, computer/node.py, and the controller *)
(* behind it, computer/controller.py.                                      *)
(*                                                                         *)
(* Every process builds a gate of its own from two files, the pairing and  *)
(* the kill flag, and never reads them again. The server runs turns that   *)
(* act on the desktop; an operator's command is a short-lived process that *)
(* builds a gate, changes it and exits. The lock of a gate makes its own   *)
(* operations exclusive; what two processes do to the files interleaves.   *)
(***************************************************************************)
EXTENDS Naturals

CONSTANTS
  Process,        \* processes that build a gate
  Action,         \* desktop actions
  OptionalAction, \* clipboard and process actions, which take an opt-in
  NoAction,       \* nothing is under way
  DesktopEnabled, \* settings.desktop_enabled
  MaxActions,     \* max_actions of a gate
  MaxStarts       \* bound on the processes started

ASSUME NodeAssumption ==
  /\ OptionalAction \subseteq Action
  /\ NoAction \notin Action
  /\ DesktopEnabled \in BOOLEAN
  /\ MaxActions \in Nat
  /\ MaxStarts \in Nat

VARIABLES
  \* the files
  stored,   \* whether the pairing file names a node
  killFile, \* the kill file: "none", "torn" while it is rewritten, "killed"
  \* the gate of a process
  pc,       \* where its operation is
  paired,   \* _digest is set
  enabled,  \* _enabled
  killed,   \* _killed
  used,     \* _actions_used
  optedIn,  \* _allow_clipboard and _allow_process
  acting,   \* the action its controller is executing
  \* observation
  starts,   \* processes started
  alone,    \* the process whose operation nobody else's has overlapped
  verdict,  \* the last operation to return, if it was alone
  since     \* processes started since then

fileVars  == <<stored, killFile>>
gateVars  == <<paired, enabled, killed, used, optedIn>>
watchVars == <<alone, verdict, since>>
vars == <<fileVars, pc, gateVars, acting, starts, watchVars>>

\* The places inside an operation that writes a file.
Writing == {"pair", "stopOpen", "stopWrite", "revoke", "unlink"}
Pc == {"off", "loadStore", "loadKill", "ready"} \cup Writing

TypeOK ==
  /\ stored \in BOOLEAN
  /\ killFile \in {"none", "torn", "killed"}
  /\ pc \in [Process -> Pc]
  /\ paired \in [Process -> BOOLEAN]
  /\ enabled \in [Process -> BOOLEAN]
  /\ killed \in [Process -> BOOLEAN]
  /\ used \in [Process -> 0..MaxActions]
  /\ optedIn \in [Process -> SUBSET OptionalAction]
  /\ acting \in [Process -> Action \cup {NoAction}]
  /\ starts \in 0..MaxStarts
  /\ alone \subseteq Process
  /\ verdict \in {"none", "stop", "revoke"}
  /\ since \subseteq Process

Init ==
  /\ stored = FALSE
  /\ killFile = "none"
  /\ pc = [p \in Process |-> "off"]
  /\ paired = [p \in Process |-> FALSE]
  /\ enabled = [p \in Process |-> FALSE]
  /\ killed = [p \in Process |-> FALSE]
  /\ used = [p \in Process |-> 0]
  /\ optedIn = [p \in Process |-> {}]
  /\ acting = [p \in Process |-> NoAction]
  /\ starts = 0
  /\ alone = {}
  /\ verdict = "none"
  /\ since = {}
-----------------------------------------------------------------------------
Go(p, to) == pc' = [pc EXCEPT ![p] = to]

\* An operation that writes a file begins: the last word is no longer said.
Begin(p, to) ==
  /\ pc[p] = "ready"
  /\ Go(p, to)
  /\ alone' = IF \E q \in Process : pc[q] \in Writing THEN {} ELSE {p}
  /\ verdict' = "none"
  /\ since' = {}

\* It returns. The watch is on the processes that start from here on.
Finish(p, v) ==
  /\ Go(p, "ready")
  /\ verdict' = IF p \in alone THEN v ELSE "none"
  /\ alone' = {}
  /\ since' = {}
-----------------------------------------------------------------------------
(* A process starts: __init__ and _load, which reads one file, then the other. *)

Start(p) ==
  /\ pc[p] = "off"
  /\ starts < MaxStarts
  /\ starts' = starts + 1
  /\ Go(p, "loadStore")
  /\ since' = since \cup {p}
  /\ enabled' = [enabled EXCEPT ![p] = DesktopEnabled]
  /\ UNCHANGED <<fileVars, paired, killed, used, optedIn, acting, alone, verdict>>

LoadStore(p) ==
  /\ pc[p] = "loadStore"
  /\ paired' = [paired EXCEPT ![p] = stored]
  /\ Go(p, "loadKill")
  /\ UNCHANGED <<fileVars, enabled, killed, used, optedIn, acting, starts, watchVars>>

\* Variant: the kill flag is not read back.
LoadKill_Forgets(p) ==
  /\ pc[p] = "loadKill"
  /\ killed' = [killed EXCEPT ![p] = FALSE]
  /\ Go(p, "ready")
  /\ UNCHANGED <<fileVars, paired, enabled, used, optedIn, acting, starts, watchVars>>

\* An empty file does not parse and counts as none.
LoadKill(p) ==
  /\ pc[p] = "loadKill"
  /\ killed' = [killed EXCEPT ![p] = (killFile = "killed")]
  /\ Go(p, "ready")
  /\ UNCHANGED <<fileVars, paired, enabled, used, optedIn, acting, starts, watchVars>>

\* The process exits or dies, in whatever it is doing; its gate is gone.
Exit(p) ==
  /\ pc[p] # "off"
  /\ Go(p, "off")
  /\ paired' = [paired EXCEPT ![p] = FALSE]
  /\ enabled' = [enabled EXCEPT ![p] = FALSE]
  /\ killed' = [killed EXCEPT ![p] = FALSE]
  /\ used' = [used EXCEPT ![p] = 0]
  /\ optedIn' = [optedIn EXCEPT ![p] = {}]
  /\ acting' = [acting EXCEPT ![p] = NoAction]
  /\ alone' = alone \ {p}
  /\ since' = since \ {p}
  /\ UNCHANGED <<fileVars, starts, verdict>>
-----------------------------------------------------------------------------
(* Operations of the owner. Those on the gate's fields alone are one step. *)

Pair(p) ==
  /\ Begin(p, "pair")
  /\ paired' = [paired EXCEPT ![p] = TRUE]
  /\ killed' = [killed EXCEPT ![p] = FALSE]
  /\ used' = [used EXCEPT ![p] = 0]
  /\ UNCHANGED <<fileVars, enabled, optedIn, acting, starts>>

\* The pairing file is replaced at once; the kill file stays.
PairPersists(p) ==
  /\ pc[p] = "pair"
  /\ stored' = paired[p]
  /\ Finish(p, "none")
  /\ UNCHANGED <<killFile, gateVars, acting, starts>>

Enable(p) ==
  /\ pc[p] = "ready"
  /\ paired[p]
  /\ enabled' = [enabled EXCEPT ![p] = TRUE]
  /\ UNCHANGED <<fileVars, pc, paired, killed, used, optedIn, acting, starts, watchVars>>

Disable(p) ==
  /\ pc[p] = "ready"
  /\ enabled' = [enabled EXCEPT ![p] = FALSE]
  /\ UNCHANGED <<fileVars, pc, paired, killed, used, optedIn, acting, starts, watchVars>>

EmergencyStop(p) ==
  /\ Begin(p, "stopOpen")
  /\ enabled' = [enabled EXCEPT ![p] = FALSE]
  /\ killed' = [killed EXCEPT ![p] = TRUE]
  /\ UNCHANGED <<fileVars, paired, used, optedIn, acting, starts>>

\* The kill file is written in place: opening it empties it.
StopOpensFile(p) ==
  /\ pc[p] = "stopOpen"
  /\ killFile' = "torn"
  /\ Go(p, "stopWrite")
  /\ UNCHANGED <<stored, gateVars, acting, starts, watchVars>>

StopWritesFile(p) ==
  /\ pc[p] = "stopWrite"
  /\ killFile' = "killed"
  /\ Finish(p, "stop")
  /\ UNCHANGED <<stored, gateVars, acting, starts>>

Revoke(p) ==
  /\ Begin(p, "revoke")
  /\ paired' = [paired EXCEPT ![p] = FALSE]
  /\ enabled' = [enabled EXCEPT ![p] = FALSE]
  /\ killed' = [killed EXCEPT ![p] = FALSE]
  /\ UNCHANGED <<fileVars, used, optedIn, acting, starts>>

\* Variant: the identity is forgotten in memory only.
RevokePersists_Forgets(p) ==
  /\ pc[p] = "revoke"
  /\ Go(p, "unlink")
  /\ UNCHANGED <<fileVars, gateVars, acting, starts, watchVars>>

RevokePersists(p) ==
  /\ pc[p] = "revoke"
  /\ stored' = paired[p]
  /\ Go(p, "unlink")
  /\ UNCHANGED <<killFile, gateVars, acting, starts, watchVars>>

\* Variant: the kill file stays.
RevokeUnlinks_Forgets(p) ==
  /\ pc[p] = "unlink"
  /\ Finish(p, "revoke")
  /\ UNCHANGED <<fileVars, gateVars, acting, starts>>

RevokeUnlinks(p) ==
  /\ pc[p] = "unlink"
  /\ killFile' = "none"
  /\ Finish(p, "revoke")
  /\ UNCHANGED <<stored, gateVars, acting, starts>>

SetOptIn(p) ==
  /\ pc[p] = "ready"
  /\ \E allowed \in SUBSET OptionalAction : optedIn' = [optedIn EXCEPT ![p] = allowed]
  /\ UNCHANGED <<fileVars, pc, paired, enabled, killed, used, acting, starts, watchVars>>

ResetBudget(p) ==
  /\ pc[p] = "ready"
  /\ used' = [used EXCEPT ![p] = 0]
  /\ UNCHANGED <<fileVars, pc, paired, enabled, killed, optedIn, acting, starts, watchVars>>
-----------------------------------------------------------------------------
(* A turn of the process asks the controller for an action. *)

\* Variant: the budget is off by one.
Authorized_OffByOne(p, a) ==
  /\ paired[p]
  /\ ~killed[p]
  /\ enabled[p]
  /\ a \in OptionalAction => a \in optedIn[p]
  /\ used[p] <= MaxActions

\* What authorize tests, under the gate's lock.
Authorized(p, a) ==
  /\ paired[p]
  /\ ~killed[p]
  /\ enabled[p]
  /\ a \in OptionalAction => a \in optedIn[p]
  /\ used[p] < MaxActions

Authorize(p, a) ==
  /\ pc[p] = "ready"
  /\ acting[p] = NoAction
  /\ Authorized(p, a)
  /\ used' = [used EXCEPT ![p] = @ + 1]
  /\ acting' = [acting EXCEPT ![p] = a]
  /\ UNCHANGED <<fileVars, pc, paired, enabled, killed, optedIn, starts, watchVars>>

\* The backend has carried the action out, or refused it or raised.
Act(p) ==
  /\ acting[p] # NoAction
  /\ acting' = [acting EXCEPT ![p] = NoAction]
  /\ UNCHANGED <<fileVars, pc, gateVars, starts, watchVars>>
-----------------------------------------------------------------------------
Operation(p) ==
  \/ Pair(p) \/ PairPersists(p) \/ Enable(p) \/ Disable(p)
  \/ EmergencyStop(p) \/ StopOpensFile(p) \/ StopWritesFile(p)
  \/ Revoke(p) \/ RevokePersists(p) \/ RevokeUnlinks(p)
  \/ SetOptIn(p) \/ ResetBudget(p)

Next ==
  \E p \in Process :
    \/ Start(p) \/ LoadStore(p) \/ LoadKill(p) \/ Exit(p)
    \/ Operation(p)
    \/ \E a \in Action : Authorize(p, a)
    \/ Act(p)

Spec == Init /\ [][Next]_vars
-----------------------------------------------------------------------------
(* Properties *)

\* An emergency stop that has returned survives restarts: until an owner pairs,
\* revokes or stops again, no process started since acts on the desktop, even
\* if it enables itself.
StopSurvivesRestart ==
  verdict = "stop" => \A p \in since : acting[p] = NoAction

\* A revoked node stays revoked: until an owner pairs again, no process started
\* since acts on the desktop. And revoking is a way out of an emergency stop:
\* nothing of the stop is left for these processes.
RevokeSurvivesRestart ==
  verdict = "revoke" =>
    \A p \in since : acting[p] = NoAction /\ (pc[p] = "ready" => ~killed[p])

\* An emergency stop is checked before every action: no process starts one
\* once the stop has returned.
StopReachesEveryone ==
  [][verdict = "stop" =>
       \A p \in Process : acting[p] = NoAction => acting'[p] = NoAction]_vars
=============================================================================
