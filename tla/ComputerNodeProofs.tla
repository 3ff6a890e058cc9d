-------------------------- MODULE ComputerNodeProofs --------------------------
(***************************************************************************)
(* Theorems about ComputerNode: its types, and that a stop or a revocation *)
(* that was not overlapped by another operation holds for every process    *)
(* started after it.                                                       *)
(***************************************************************************)
EXTENDS ComputerNode, TLAPS

USE DEF fileVars, gateVars, watchVars

LEMMA InitType == Init => TypeOK
<1> SUFFICES ASSUME Init PROVE TypeOK
  OBVIOUS
<1>1. stored \in BOOLEAN /\ paired \in [Process -> BOOLEAN]
      /\ enabled \in [Process -> BOOLEAN] /\ killed \in [Process -> BOOLEAN]
  BY Zenon DEF Init
<1>2. used \in [Process -> 0..MaxActions] /\ starts \in 0..MaxStarts
  BY NodeAssumption DEF Init
<1> QED
  BY <1>1, <1>2 DEF Init, TypeOK, Pc

LEMMA StepType == TypeOK /\ [Next]_vars => TypeOK'
<1> SUFFICES ASSUME TypeOK, [Next]_vars PROVE TypeOK'
  OBVIOUS
<1> USE NodeAssumption DEF TypeOK, Go, Pc, Writing
<1>1. ASSUME NEW p \in Process, Start(p) PROVE TypeOK'
  BY <1>1 DEF Start
<1>11. ASSUME NEW p \in Process, LoadStore(p) PROVE TypeOK'
  BY <1>11 DEF LoadStore
<1>12. ASSUME NEW p \in Process, LoadKill(p) PROVE TypeOK'
  BY <1>12 DEF LoadKill
<1>2. ASSUME NEW p \in Process, Exit(p) PROVE TypeOK'
  BY <1>2 DEF Exit
<1>3. ASSUME NEW p \in Process, Pair(p) PROVE TypeOK'
  BY <1>3 DEF Pair, Begin
<1>4. ASSUME NEW p \in Process, PairPersists(p) \/ StopWritesFile(p) \/ RevokeUnlinks(p)
      PROVE  TypeOK'
  BY <1>4 DEF PairPersists, StopWritesFile, RevokeUnlinks, Finish
<1>5. ASSUME NEW p \in Process, EmergencyStop(p) \/ Revoke(p) PROVE TypeOK'
  BY <1>5 DEF EmergencyStop, Revoke, Begin
<1>6. ASSUME NEW p \in Process, StopOpensFile(p) \/ RevokePersists(p) PROVE TypeOK'
  BY <1>6 DEF StopOpensFile, RevokePersists
<1>7. ASSUME NEW p \in Process, Enable(p) \/ Disable(p) PROVE TypeOK'
  BY <1>7 DEF Enable, Disable
<1>13. ASSUME NEW p \in Process, SetOptIn(p) \/ ResetBudget(p) PROVE TypeOK'
  BY <1>13 DEF SetOptIn, ResetBudget
<1>8. ASSUME NEW p \in Process, NEW a \in Action, Authorize(p, a) PROVE TypeOK'
  BY <1>8 DEF Authorize, Authorized
<1>9. ASSUME NEW p \in Process, Act(p) PROVE TypeOK'
  BY <1>9 DEF Act
<1>10. CASE UNCHANGED vars
  BY <1>10 DEF vars
<1> QED
  BY <1>1, <1>2, <1>3, <1>4, <1>5, <1>6, <1>7, <1>8, <1>9, <1>10, <1>11, <1>12, <1>13
  DEF Next, Operation

\* Every variable keeps its type; no process authorises more than its budget.
THEOREM TypeCorrect == Spec => []TypeOK
<1> QED
  BY InitType, StepType, PTL DEF Spec
-----------------------------------------------------------------------------
\* An operation that is alone is the only one that may write a file, and once
\* it has returned nobody is inside one.
AloneInv ==
  /\ \A p \in alone : /\ pc[p] \in Writing
                      /\ \A q \in Process \ {p} : pc[q] \notin Writing
  /\ verdict # "none" => \A q \in Process : pc[q] \notin Writing

\* What an operation has done to the files and to its own gate.
FileInv ==
  /\ \A p \in Process : pc[p] \in {"revoke", "unlink"} => ~paired[p]
  /\ \A p \in alone : pc[p] = "unlink" => ~stored
  /\ verdict = "stop" => killFile = "killed"
  /\ verdict = "revoke" => ~stored /\ killFile = "none"

\* What a process started since then knows.
SinceInv ==
  /\ \A p \in Process : pc[p] = "off" => acting[p] = NoAction
  /\ verdict # "none" =>
       \A p \in since : acting[p] = NoAction /\ pc[p] \in {"loadStore", "loadKill", "ready"}
  /\ verdict = "stop" => \A p \in since : pc[p] = "ready" => killed[p]
  /\ verdict = "revoke" =>
       \A p \in since : /\ pc[p] # "loadStore" => ~paired[p]
                        /\ pc[p] = "ready" => ~killed[p]

IInv == TypeOK /\ AloneInv /\ FileInv /\ SinceInv

LEMMA StepInv == IInv /\ TypeOK' /\ [Next]_vars => IInv'
<1> SUFFICES ASSUME IInv, TypeOK', [Next]_vars PROVE IInv'
  OBVIOUS
<1> USE DEF IInv, TypeOK, AloneInv, FileInv, SinceInv, Go, Writing
<1>1. ASSUME NEW p \in Process, Start(p) PROVE IInv'
  BY <1>1 DEF Start
<1>2. ASSUME NEW p \in Process, LoadStore(p) \/ LoadKill(p) PROVE IInv'
  BY <1>2 DEF LoadStore, LoadKill
<1>3. ASSUME NEW p \in Process, Exit(p) PROVE IInv'
  BY <1>3 DEF Exit
<1>4. ASSUME NEW p \in Process, Pair(p) \/ EmergencyStop(p) \/ Revoke(p) PROVE IInv'
  <2>1. /\ verdict' = "none" /\ since' = {}
        /\ alone' = IF \E q \in Process : pc[q] \in Writing THEN {} ELSE {p}
        /\ pc[p] = "ready"
        /\ \E to \in {"pair", "stopOpen", "revoke"} : pc' = [pc EXCEPT ![p] = to]
        /\ UNCHANGED <<acting, stored>>
    BY <1>4 DEF Pair, EmergencyStop, Revoke, Begin
  <2>2. \A q \in Process : pc'[q] \in {"revoke", "unlink"} => ~paired'[q]
    BY <1>4 DEF Pair, EmergencyStop, Revoke, Begin
  <2> QED
    BY <2>1, <2>2
<1>5. ASSUME NEW p \in Process, PairPersists(p) PROVE IInv'
  BY <1>5 DEF PairPersists, Finish
<1>6. ASSUME NEW p \in Process, StopWritesFile(p) PROVE IInv'
  BY <1>6 DEF StopWritesFile, Finish
<1>7. ASSUME NEW p \in Process, RevokeUnlinks(p) PROVE IInv'
  BY <1>7 DEF RevokeUnlinks, Finish
<1>8. ASSUME NEW p \in Process, StopOpensFile(p) PROVE IInv'
  BY <1>8 DEF StopOpensFile
<1>9. ASSUME NEW p \in Process, RevokePersists(p) PROVE IInv'
  BY <1>9 DEF RevokePersists
<1>10. ASSUME NEW p \in Process, Enable(p) \/ Disable(p) \/ SetOptIn(p) \/ ResetBudget(p)
       PROVE  IInv'
  BY <1>10 DEF Enable, Disable, SetOptIn, ResetBudget
<1>11. ASSUME NEW p \in Process, NEW a \in Action, Authorize(p, a) PROVE IInv'
  BY <1>11 DEF Authorize, Authorized
<1>12. ASSUME NEW p \in Process, Act(p) PROVE IInv'
  BY <1>12 DEF Act
<1>13. CASE UNCHANGED vars
  BY <1>13 DEF vars
<1> QED
  BY <1>1, <1>2, <1>3, <1>4, <1>5, <1>6, <1>7, <1>8, <1>9, <1>10, <1>11, <1>12, <1>13
  DEF Next, Operation

LEMMA InvHolds == Spec => []IInv
<1>1. Init => IInv
  BY InitType DEF Init, IInv, AloneInv, FileInv, SinceInv, Writing
<1>2. IInv /\ [Next]_vars => IInv'
  BY StepType, StepInv DEF IInv
<1> QED
  BY <1>1, <1>2, PTL DEF Spec

\* However many processes start, load, exit and crash, an emergency stop that
\* has returned holds for all that start after it.
THEOREM StopHolds == Spec => []StopSurvivesRestart
<1>1. IInv => StopSurvivesRestart
  BY DEF IInv, SinceInv, StopSurvivesRestart
<1> QED
  BY <1>1, InvHolds, PTL

\* So does a revocation, and it leaves nothing of an earlier stop.
THEOREM RevokeHolds == Spec => []RevokeSurvivesRestart
<1>1. IInv => RevokeSurvivesRestart
  BY DEF IInv, SinceInv, RevokeSurvivesRestart
<1> QED
  BY <1>1, InvHolds, PTL
=============================================================================
