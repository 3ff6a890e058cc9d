-------------------------- MODULE OperationsProofs --------------------------
(***************************************************************************)
(* Theorems about the operations beside the agent: the update of its       *)
(* sources (Updates), the migration, backup and restore of its databases   *)
(* (Databases), and the tables of model providers (Providers).             *)
(***************************************************************************)
EXTENDS Updates, Databases, Providers, FiniteSetTheorems, WellFoundedInduction, TLAPS

\* A set of natural numbers that is not empty has a least element.
LEMMA LeastNatural ==
  ASSUME NEW S \in SUBSET Nat, S # {}
  PROVE  \E n \in S : \A m \in S : n <= m
<1> DEFINE Less == OpToRel(<, Nat)
<1>1. IsWellFoundedOn(Less, Nat)
  BY NatLessThanWellFounded
<1>2. PICK n \in S : \A m \in S : ~ (<<m, n>> \in Less)
  <2> HIDE DEF Less
  <2> QED
    BY <1>1, WFMin, Zenon
<1>3. \A m \in S : <<m, n>> \in Less \/ ~ (m < n)
  BY DEF OpToRel
<1>4. \A m \in S : ~ (m < n)
  <2> HIDE DEF Less
  <2> QED
    BY <1>2, <1>3
<1> QED
  BY <1>4

-----------------------------------------------------------------------------
(* Updates.                                                                *)

LEMMA UpdateBounds ==
  /\ MaxStops \in Nat /\ MaxOps \in Nat /\ None = 0 /\ None \notin Release
  /\ Release \subseteq Nat /\ "VERSION" \in Item
  /\ \A r \in Release : Files[r] \subseteq Item /\ "VERSION" \in Files[r]
<1>1. PICK r \in Release : TRUE
  BY UpdatesAssumption
<1>2. \A q \in Release : Files[q] \subseteq Item /\ "VERSION" \in Files[q]
  BY UpdatesAssumption DEF EveryReleaseHasItsVersion
<1> QED
  BY <1>1, <1>2, UpdatesAssumption DEF None

Notes == [latest : Release \cup {None}, manifest : Release \cup {None},
          staged : Release \cup {None}]
Stagings == [at : {"idle", "fetched", "open", "download", "record"},
             release : Release \cup {None}, wants : {"check", "stage"}, sent : {0} \cup Chunks]
Launches == [at : {"down", "keep", "copy", "unlink", "note"}, release : Release \cup {None},
             old : Release \cup {None}, todo : SUBSET Item]

\* A stager goes on with the release it has, or comes to rest.
LEMMA TakesType ==
  ASSUME UpdatesTypeOK, NEW s \in Stager, stager[s].at # "idle",
         NEW at \in {"idle", "open", "download", "record"}, Takes(s, at)
  PROVE  /\ stager' \in [Stager -> Stagings]
         /\ \A r \in Stager : stager'[r].at # "idle" => stager'[r].release \in Release
<1>1. stager' = [stager EXCEPT ![s] = [stager[s] EXCEPT !.at = at]]
  BY DEF Takes, UpdatesTypeOK
<1>2. stager \in [Stager -> Stagings] /\ [stager[s] EXCEPT !.at = at] \in Stagings
  BY DEF UpdatesTypeOK, Stagings
<1>3. [stager[s] EXCEPT !.at = at].release \in Release
  BY <1>2 DEF UpdatesTypeOK, Stagings
<1> QED
  BY <1>1, <1>2, <1>3 DEF UpdatesTypeOK

LEMMA UpdatesInitType == UpdatesInit => UpdatesTypeOK
<1> SUFFICES ASSUME UpdatesInit PROVE UpdatesTypeOK
  OBVIOUS
<1>1. manifest \in Release
  <2>1. \E r \in Release : \A s \in Release : r <= s
    BY LeastNatural, UpdatesAssumption
  <2> QED
    BY <2>1 DEF UpdatesInit
<1>2. /\ BlankNote \in Notes /\ NoApply \in Launches
      /\ stager \in [Stager -> Stagings]
  BY DEF UpdatesInit, BlankNote, AtRest, NoApply, Notes, Launches, Stagings
<1>3. \A s \in Stager : stager[s].at = "idle"
  BY DEF UpdatesInit, AtRest
<1>4. launch.at = "down" /\ launch \in Launches /\ note \in Notes
  BY <1>2 DEF UpdatesInit, NoApply
<1>5. /\ source \in [Item -> Release \cup {None}] /\ source["VERSION"] \in Release
      /\ ops \in 0 .. MaxOps /\ stops \in 0 .. MaxStops
      /\ archive \in [Release -> (SUBSET Chunks) \cup {Missing}]
  <2>1. source \in [Item -> Release \cup {None}] /\ source["VERSION"] \in Release
    BY <1>1, UpdateBounds DEF UpdatesInit
  <2>2. ops \in 0 .. MaxOps /\ stops \in 0 .. MaxStops
    BY UpdateBounds DEF UpdatesInit
  <2>3. archive \in [Release -> (SUBSET Chunks) \cup {Missing}]
    BY DEF UpdatesInit
  <2> QED
    BY <2>1, <2>2, <2>3
<1>6. kept \in [Release -> [Item -> Release \cup {None}]]
  BY DEF UpdatesInit
<1> QED
  BY <1>1, <1>2, <1>3, <1>4, <1>5, <1>6
  DEF UpdatesInit, UpdatesTypeOK, Notes, Launches, Stagings

LEMMA TornNotes ==
  ASSUME UpdatesTypeOK, NEW s \in Stager, NEW n \in Torn(s)
  PROVE  n \in [latest : Release \cup {None}, manifest : Release \cup {None},
                staged : Release \cup {None}]
  BY DEF Torn, UpdatesTypeOK, BlankNote

LEMMA UpdatesStepType == UpdatesTypeOK /\ [UpdatesNext]_updatesVars => UpdatesTypeOK'
<1> SUFFICES ASSUME UpdatesTypeOK, [UpdatesNext]_updatesVars PROVE UpdatesTypeOK'
  OBVIOUS
<1> USE UpdateBounds DEF UpdatesTypeOK
<1>1. ASSUME NEW r \in Release, Announce(r) PROVE UpdatesTypeOK'
  BY <1>1 DEF Announce
<1>2. ASSUME NEW s \in Stager, FetchManifest(s) \/ StageKnown(s) PROVE UpdatesTypeOK'
  <2>1. CASE FetchManifest(s)
    BY <2>1 DEF FetchManifest, None
  <2>2. CASE StageKnown(s)
    BY <2>2 DEF StageKnown
  <2> QED
    BY <1>2, <2>1, <2>2
<1>3. ASSUME NEW s \in Stager, RecordCheck(s) \/ RecordStaged(s) PROVE UpdatesTypeOK'
  <2>1. /\ stager[s].at # "idle" /\ stager[s].release \in Release
        /\ \E at \in {"idle", "open"} : Takes(s, at)
    BY <1>3 DEF RecordCheck, RecordStaged
  <2>2. note' \in Notes
    BY <1>3, <2>1 DEF RecordCheck, RecordStaged, Notes
  <2> QED
    BY <1>3, <2>1, <2>2, TakesType DEF RecordCheck, RecordStaged, Notes, Stagings
<1>4. ASSUME NEW s \in Stager, OpenTarget(s) \/ DownloadFails(s) \/ CheckDigest(s)
      PROVE  UpdatesTypeOK'
  <2>1. /\ stager[s].at # "idle" /\ stager[s].release \in Release
        /\ \E at \in {"idle", "download", "record"} : Takes(s, at)
    BY <1>4 DEF OpenTarget, DownloadFails, CheckDigest
  <2>2. archive' \in [Release -> (SUBSET Chunks) \cup {Missing}]
    BY <1>4, <2>1 DEF OpenTarget, DownloadFails, CheckDigest
  <2> QED
    BY <1>4, <2>1, <2>2, TakesType DEF OpenTarget, DownloadFails, CheckDigest, Stagings
<1>5. ASSUME NEW s \in Stager, ReadChunk(s) PROVE UpdatesTypeOK'
  BY <1>5 DEF ReadChunk
<1>6. ASSUME NEW s \in Stager, CommandDies(s) PROVE UpdatesTypeOK'
  BY <1>6, TornNotes DEF CommandDies, AtRest
<1>7. CASE ServerStops
  <2>1. note' \in [latest : Release \cup {None}, manifest : Release \cup {None},
                   staged : Release \cup {None}]
    BY <1>7, TornNotes DEF ServerStops
  <2> QED
    BY <1>7, <2>1 DEF ServerStops, AtRest
<1>8. CASE BeginApply
  <2>1. note.staged \in Release /\ CurrentVersion \in Release
    BY <1>8 DEF BeginApply, HasStaged, CurrentVersion
  <2> QED
    BY <1>8, <2>1 DEF BeginApply, Applies, Present
<1>9. ASSUME NEW i \in Item, KeepItem(i) \/ CopyItem(i) PROVE UpdatesTypeOK'
  <2>1. /\ launch.release \in Release /\ launch.old \in Release
        /\ source[i] \in Release \cup {None} /\ Files[launch.release] \subseteq Item
    BY <1>9 DEF KeepItem, CopyItem
  <2>2. /\ kept' \in [Release -> [Item -> Release \cup {None}]]
        /\ source' \in [Item -> Release \cup {None}] /\ source'["VERSION"] \in Release
    <3>1. CASE KeepItem(i)
      BY <2>1, <3>1 DEF KeepItem
    <3>2. CASE CopyItem(i)
      BY <2>1, <3>2 DEF CopyItem
    <3> QED
      BY <1>9, <3>1, <3>2
  <2>3. /\ launch' \in Launches /\ launch'.release = launch.release
        /\ launch'.old = launch.old
    <3>1. launch \in Launches
      BY DEF Launches
    <3>2. \/ launch' = [launch EXCEPT !.at = "copy", !.todo = Files[launch.release]]
          \/ launch' = [launch EXCEPT !.at = "unlink", !.todo = {}]
          \/ launch' = [launch EXCEPT !.todo = @ \ {i}]
      BY <1>9 DEF KeepItem, CopyItem
    <3>3. CASE launch' = [launch EXCEPT !.at = "copy", !.todo = Files[launch.release]]
      BY <2>1, <3>1, <3>3 DEF Launches
    <3>4. CASE launch' = [launch EXCEPT !.at = "unlink", !.todo = {}]
      BY <3>1, <3>4 DEF Launches
    <3>5. CASE launch' = [launch EXCEPT !.todo = @ \ {i}]
      BY <3>1, <3>5 DEF Launches
    <3> QED
      BY <3>2, <3>3, <3>4, <3>5
  <2> QED
    BY <1>9, <2>1, <2>2, <2>3 DEF KeepItem, CopyItem, Launches
<1>10. CASE ApplyFails \/ FinishApply \/ StartServer
  BY <1>10 DEF ApplyFails, FinishApply, StartServer, NoApply, BlankNote
<1>11. CASE UnlinkStaged
  <2>1. launch.release \in Release /\ launch.old \in Release
    BY <1>11 DEF UnlinkStaged
  <2>2. /\ launch' \in Launches /\ launch'.release = launch.release
        /\ launch'.old = launch.old
    BY <1>11 DEF UnlinkStaged, Launches
  <2>3. archive' \in [Release -> (SUBSET Chunks) \cup {Missing}]
    BY <1>11, <2>1 DEF UnlinkStaged
  <2> QED
    BY <1>11, <2>1, <2>2, <2>3 DEF UnlinkStaged, Launches
<1>12. CASE UNCHANGED updatesVars
  BY <1>12 DEF updatesVars
<1> QED
  BY <1>1, <1>2, <1>3, <1>4, <1>5, <1>6, <1>7, <1>8, <1>9, <1>10, <1>11, <1>12
  DEF UpdatesNext, StagerStep, Launcher

\* Every variable of the updates keeps its type.
THEOREM UpdatesTypeCorrect == UpdatesSpec => []UpdatesTypeOK
  BY UpdatesInitType, UpdatesStepType, PTL DEF UpdatesSpec

Quiet == \A s \in Stager : stager[s].at = "idle"

\* No file of the source is newer than r, if r is a release.
NoneNewer(r) == r # None => \A i \in Item : source[i] <= r

\* A file comes from a release that has it, a copy copies what its release has,
\* and the state file does not name at once what may be staged and what is.
SourcesAreReleases ==
  /\ \A i \in Item, r \in Release : source[i] = r => i \in Files[r]
  /\ launch.at = "copy" => launch.todo \subseteq Files[launch.release]
  /\ note.manifest = None \/ note.staged = None

\* What is to be applied, or may come to be, is no older than what is there.
UpdatesGoUp ==
  /\ NoneNewer(note.manifest) /\ NoneNewer(note.staged)
  /\ \A s \in Stager :
       stager[s].at \in {"open", "download", "record"} => NoneNewer(stager[s].release)

\* Files of two releases that no order explains are seen only with the server
\* down, no stager at work, and the archive still staged that makes them those of
\* one again; an apply goes on to where that is so.
AppliesGoOn ==
  /\ launch.at \in {"keep", "copy"} =>
       Quiet /\ note.staged = launch.release /\ Whole(launch.release)
  /\ launch.at = "copy" => \A i \in Files[launch.release] \ launch.todo : source[i] = launch.release
  /\ launch.at \in {"unlink", "note"} => OneRelease
  /\ ~OneRelease => ~serving /\ Quiet /\ note.staged # None /\ Whole(note.staged)

\* The last two hold unless a stager has worked on an unfinished apply.
ApplyInv ==
  /\ UpdatesTypeOK /\ SourcesAreReleases
  /\ launch.at # "down" => ~serving
  /\ ~meddled => AppliesGoOn /\ UpdatesGoUp

LEMMA SourcesAreNumbers ==
  ASSUME UpdatesTypeOK
  PROVE  /\ CurrentVersion \in Release /\ CurrentVersion \in Nat
         /\ \A i \in Item : source[i] \in Nat
<1>1. source \in [Item -> Release \cup {None}] /\ source["VERSION"] \in Release
  BY DEF UpdatesTypeOK
<1>2. None \in Nat /\ Release \subseteq Nat
  BY UpdateBounds
<1> QED
  BY <1>1, <1>2 DEF CurrentVersion

\* While a stager is at work the sources are of one release, and no file is newer
\* than the version it has read.
LEMMA BusyIsUniform ==
  ASSUME ApplyInv, ~meddled, NEW s \in Stager, stager[s].at # "idle"
  PROVE  OneRelease /\ \A i \in Item : source[i] <= CurrentVersion
<1>1. OneRelease
  BY DEF ApplyInv, AppliesGoOn, Quiet
<1>2. CurrentVersion \in Nat /\ \A i \in Item : source[i] \in Nat
  BY SourcesAreNumbers DEF ApplyInv
<1> QED
  BY <1>1, <1>2 DEF OneRelease

LEMMA StepApply == ApplyInv /\ [UpdatesNext]_updatesVars => ApplyInv'
<1> SUFFICES ASSUME ApplyInv, UpdatesTypeOK, UpdatesTypeOK', [UpdatesNext]_updatesVars
             PROVE  ApplyInv'
  BY UpdatesStepType DEF ApplyInv
<1>0. /\ SourcesAreReleases
      /\ launch.at # "down" => ~serving
      /\ ~meddled => AppliesGoOn /\ UpdatesGoUp
  BY DEF ApplyInv
<1>1. ASSUME UNCHANGED <<note, archive, stager, source, launch, serving, meddled>>
      PROVE  ApplyInv'
  BY <1>0, <1>1
  DEF ApplyInv, SourcesAreReleases, AppliesGoOn, UpdatesGoUp, NoneNewer, OneRelease, Quiet,
      Whole, CurrentVersion
<1>2. ASSUME NEW s \in Stager, FetchManifest(s) \/ StageKnown(s) PROVE ApplyInv'
  <2>1. /\ UNCHANGED <<note, archive, source, launch, serving>>
        /\ meddled' = (meddled \/ Unfinished)
    BY <1>2 DEF FetchManifest, StageKnown
  <2>2. SourcesAreReleases' /\ (launch'.at # "down" => ~serving')
    BY <1>0, <2>1 DEF SourcesAreReleases
  <2>3. ASSUME ~meddled' PROVE AppliesGoOn' /\ UpdatesGoUp'
    <3>1. ~meddled /\ OneRelease /\ launch.at \notin {"keep", "copy"}
      BY <2>1, <2>3 DEF Unfinished
    <3>2. OneRelease'
      BY <2>1, <3>1 DEF OneRelease, CurrentVersion
    <3>3. AppliesGoOn'
      BY <2>1, <3>1, <3>2 DEF AppliesGoOn
    <3>4. UpdatesGoUp
      BY <1>0, <3>1
    <3>5. \A r \in Stager : stager'[r] = stager[r] \/ stager'[r].at = "fetched"
                                \/ (stager'[r].release = note.manifest)
      BY <1>2 DEF FetchManifest, StageKnown, UpdatesTypeOK
    <3>6. UpdatesGoUp'
      BY <2>1, <3>4, <3>5 DEF UpdatesGoUp, NoneNewer
    <3> QED
      BY <3>3, <3>6
  <2> QED
    BY <2>2, <2>3 DEF ApplyInv
<1>3. ASSUME NEW s \in Stager, stager[s].at # "idle",
             UNCHANGED <<source, launch, serving, meddled>>,
             note'.manifest = None \/ note'.staged = None,
             ~meddled => UpdatesGoUp'
      PROVE  ApplyInv'
  <2>1. SourcesAreReleases'
    BY <1>0, <1>3 DEF SourcesAreReleases
  <2>2. ASSUME ~meddled PROVE AppliesGoOn'
    <3>1. OneRelease /\ launch.at \notin {"keep", "copy"}
      BY <1>0, <1>3, <2>2, BusyIsUniform DEF AppliesGoOn, Quiet
    <3>2. OneRelease'
      BY <1>3, <3>1 DEF OneRelease, CurrentVersion
    <3> QED
      BY <1>3, <3>1, <3>2 DEF AppliesGoOn
  <2> QED
    BY <1>0, <1>3, <2>1, <2>2 DEF ApplyInv
<1>4. ASSUME NEW s \in Stager, RecordCheck(s) PROVE ApplyInv'
  <2>1. /\ stager[s].at = "fetched" /\ stager[s].release \in Release
        /\ UNCHANGED <<source, launch, serving, meddled>>
        /\ note'.staged = None
        /\ note'.manifest = None
             \/ (note'.manifest = stager[s].release /\ stager[s].release > CurrentVersion)
        /\ \A r \in Stager : stager'[r] = stager[r] \/ stager'[r].at = "idle"
             \/ (stager'[r].release = stager[s].release /\ stager[s].release > CurrentVersion)
    BY <1>4 DEF RecordCheck, Takes, UpdatesTypeOK
  <2>2. ASSUME ~meddled PROVE UpdatesGoUp'
    <3>1. \A i \in Item : source[i] <= CurrentVersion
      BY <2>1, <2>2, BusyIsUniform
    <3>2. CurrentVersion \in Nat /\ stager[s].release \in Nat /\ \A i \in Item : source[i] \in Nat
      BY <2>1, UpdateBounds, SourcesAreNumbers
    <3>3. stager[s].release > CurrentVersion => \A i \in Item : source[i] <= stager[s].release
      BY <3>1, <3>2
    <3>4. UpdatesGoUp
      BY <1>0, <2>2
    <3> QED
      BY <2>1, <3>3, <3>4 DEF UpdatesGoUp, NoneNewer
  <2> QED
    BY <1>3, <2>1, <2>2
<1>5. ASSUME NEW s \in Stager, StagerStep(s) \/ CommandDies(s), ~RecordCheck(s) PROVE ApplyInv'
  <2>1. /\ stager[s].at # "idle" /\ UNCHANGED <<source, launch, serving, meddled>>
        /\ \/ note' \in {note, BlankNote}
           \/ /\ stager[s].at = "record" /\ note'.manifest = None
              /\ note'.staged = stager[s].release
        /\ \A r \in Stager : \/ stager'[r] = stager[r]
                             \/ stager'[r].at = "idle"
                             \/ /\ stager[r].at \in {"open", "download", "record"}
                                /\ stager'[r].release = stager[r].release
    BY <1>5 DEF StagerStep, OpenTarget, ReadChunk, DownloadFails, CheckDigest, RecordStaged,
                CommandDies, Torn, Takes, AtRest, UpdatesTypeOK
  <2>2. ASSUME ~meddled PROVE UpdatesGoUp'
    <3>1. UpdatesGoUp
      BY <1>0, <2>2
    <3> QED
      BY <2>1, <3>1 DEF UpdatesGoUp, NoneNewer, BlankNote
  <2>3. note'.manifest = None \/ note'.staged = None
    BY <1>0, <2>1 DEF SourcesAreReleases, BlankNote
  <2> QED
    BY <1>3, <2>1, <2>2, <2>3
<1>6. CASE ServerStops
  <2>1. /\ UNCHANGED <<archive, source, launch, meddled>> /\ serving /\ ~serving'
        /\ note' \in {note, BlankNote}
        /\ \A s \in Stager : stager'[s] = stager[s] \/ stager'[s].at = "idle"
    BY <1>6 DEF ServerStops, Torn, AtRest
  <2>2. SourcesAreReleases' /\ launch'.at = "down"
    BY <1>0, <2>1 DEF SourcesAreReleases, BlankNote, UpdatesTypeOK
  <2>3. ASSUME ~meddled PROVE AppliesGoOn' /\ UpdatesGoUp'
    <3>1. OneRelease /\ UpdatesGoUp
      BY <1>0, <2>1, <2>3 DEF AppliesGoOn
    <3>2. OneRelease'
      BY <2>1, <3>1 DEF OneRelease, CurrentVersion
    <3> QED
      BY <2>1, <2>2, <3>1, <3>2 DEF AppliesGoOn, UpdatesGoUp, NoneNewer, BlankNote
  <2> QED
    BY <2>1, <2>2, <2>3 DEF ApplyInv
<1>7. CASE BeginApply
  <2>1. /\ launch.at = "down" /\ ~serving /\ Whole(note.staged)
        /\ launch' = Applies /\ meddled' = (meddled \/ Busy)
        /\ UNCHANGED <<note, archive, stager, source, serving>>
    BY <1>7 DEF BeginApply
  <2>2. SourcesAreReleases'
    BY <1>0, <2>1 DEF SourcesAreReleases, Applies
  <2>3. ASSUME ~meddled' PROVE AppliesGoOn' /\ UpdatesGoUp'
    <3>1. ~meddled /\ Quiet /\ AppliesGoOn /\ UpdatesGoUp
      BY <1>0, <2>1, <2>3 DEF Busy, Quiet
    <3> QED
      BY <2>1, <3>1
      DEF AppliesGoOn, UpdatesGoUp, NoneNewer, Applies, OneRelease, CurrentVersion, Quiet, Whole
  <2> QED
    BY <2>1, <2>2, <2>3 DEF ApplyInv
<1>8. ASSUME NEW i \in Item, KeepItem(i) PROVE ApplyInv'
  <2>1. /\ launch.at = "keep" /\ UNCHANGED <<note, archive, stager, source, serving, meddled>>
        /\ launch'.release = launch.release
        /\ \/ launch'.at = "keep"
           \/ launch'.at = "copy" /\ launch'.todo = Files[launch.release]
    BY <1>8 DEF KeepItem, UpdatesTypeOK
  <2> QED
    BY <1>0, <2>1
    DEF ApplyInv, SourcesAreReleases, AppliesGoOn, UpdatesGoUp, NoneNewer, OneRelease, Quiet,
        Whole, CurrentVersion
<1>9. ASSUME NEW i \in Item, CopyItem(i) PROVE ApplyInv'
  <2> DEFINE new == launch.release
  <2>1. /\ launch.at = "copy" /\ i \in launch.todo /\ new \in Release
        /\ source' = [source EXCEPT ![i] = new]
        /\ UNCHANGED <<note, archive, stager, serving, meddled>> /\ launch'.release = new
        /\ \/ launch'.at = "copy" /\ launch'.todo = launch.todo \ {i}
           \/ launch'.at = "unlink" /\ launch.todo = {i}
    BY <1>9 DEF CopyItem, UpdatesTypeOK
  <2>2. i \in Files[new]
    BY <1>0, <2>1 DEF SourcesAreReleases
  <2>3. \A j \in Item : source'[j] = IF j = i THEN new ELSE source[j]
    BY <2>1 DEF UpdatesTypeOK
  <2>4. SourcesAreReleases'
    BY <1>0, <2>1, <2>2, <2>3 DEF SourcesAreReleases
  <2>5. ASSUME ~meddled PROVE AppliesGoOn' /\ UpdatesGoUp'
    <3>1. /\ Quiet /\ note.staged = new /\ Whole(new) /\ note.staged # None /\ ~serving
          /\ note.manifest = None /\ \A j \in Item : source[j] <= new
      BY <1>0, <2>1, <2>5, UpdateBounds DEF AppliesGoOn, UpdatesGoUp, NoneNewer, SourcesAreReleases
    <3>2. new \in Nat /\ \A j \in Item : source'[j] \in Nat /\ source'[j] <= new
      <4>1. new \in Nat /\ \A j \in Item : source[j] \in Nat
        BY <2>1, UpdateBounds, SourcesAreNumbers
      <4>2. \A j \in Item : source'[j] = new \/ source'[j] = source[j]
        BY <2>3
      <4> QED
        BY <3>1, <4>1, <4>2
    <3>3. UpdatesGoUp'
      BY <2>1, <3>1, <3>2 DEF UpdatesGoUp, NoneNewer, Quiet
    <3>4. \A j \in Files[new] \ (launch.todo \ {i}) : source'[j] = new
      BY <1>0, <2>1, <2>3, <2>5, UpdateBounds DEF AppliesGoOn
    <3>5. ASSUME launch'.at = "unlink" PROVE OneRelease'
      <4>1. \A j \in Files[new] : source'[j] = new
        BY <2>1, <3>4, <3>5
      <4>2. CurrentVersion' = new
        BY <2>1, <4>1, UpdateBounds DEF CurrentVersion
      <4>3. ASSUME NEW j \in Item, j \notin Files[new] PROVE source'[j] < new
        <5>1. source'[j] # new
          BY <2>1, <2>4, <4>3, UpdateBounds DEF SourcesAreReleases
        <5> QED
          BY <3>2, <5>1
      <4> QED
        BY <4>1, <4>2, <4>3 DEF OneRelease
    <3> QED
      BY <2>1, <3>1, <3>3, <3>4, <3>5 DEF AppliesGoOn, Quiet, Whole
  <2>6. launch.at # "down" /\ ~serving'
    BY <1>0, <2>1
  <2> QED
    BY <2>1, <2>4, <2>5, <2>6 DEF ApplyInv
<1>10. CASE ApplyFails
  <2>1. /\ launch.at # "down" /\ launch'.at = "down"
        /\ UNCHANGED <<note, archive, stager, source, serving, meddled>>
    BY <1>10 DEF ApplyFails, NoApply
  <2> QED
    BY <1>0, <2>1
    DEF ApplyInv, SourcesAreReleases, AppliesGoOn, UpdatesGoUp, NoneNewer, OneRelease, Quiet,
        Whole, CurrentVersion
<1>11. CASE UnlinkStaged
  <2>1. /\ launch.at = "unlink" /\ launch'.at = "note"
        /\ UNCHANGED <<note, stager, source, serving, meddled>>
    BY <1>11 DEF UnlinkStaged, UpdatesTypeOK
  <2> QED
    BY <1>0, <2>1
    DEF ApplyInv, SourcesAreReleases, AppliesGoOn, UpdatesGoUp, NoneNewer, OneRelease,
        CurrentVersion
<1>12. CASE FinishApply
  <2>1. /\ launch.at = "note" /\ launch'.at = "down" /\ note' = BlankNote
        /\ UNCHANGED <<archive, stager, source, meddled>>
    BY <1>12 DEF FinishApply, NoApply
  <2> QED
    BY <1>0, <2>1
    DEF ApplyInv, SourcesAreReleases, AppliesGoOn, UpdatesGoUp, NoneNewer, OneRelease,
        CurrentVersion, BlankNote
<1>13. CASE StartServer
  <2>1. /\ launch.at = "down" /\ ~HasStaged
        /\ UNCHANGED <<note, archive, stager, source, launch, meddled>>
    BY <1>13 DEF StartServer
  <2>2. ~meddled => OneRelease
    BY <1>0, <2>1 DEF AppliesGoOn, HasStaged, Whole, Chunks, Missing
  <2> QED
    BY <1>0, <2>1, <2>2
    DEF ApplyInv, SourcesAreReleases, AppliesGoOn, UpdatesGoUp, NoneNewer, OneRelease,
        CurrentVersion
<1>14. (\E r \in Release : Announce(r)) => UNCHANGED <<note, archive, stager, source, launch, serving, meddled>>
  BY DEF Announce
<1>15. UNCHANGED updatesVars => UNCHANGED <<note, archive, stager, source, launch, serving, meddled>>
  BY DEF updatesVars
<1> QED
  BY <1>1, <1>2, <1>4, <1>5, <1>6, <1>7, <1>8, <1>9, <1>10, <1>11, <1>12, <1>13, <1>14, <1>15
  DEF UpdatesNext, Launcher

\* For every history of releases, and wherever an apply breaks off: every file of
\* the version the server runs on comes from that version, and what is left over
\* from older ones, unless a stager worked on an unfinished apply.
THEOREM OneReleaseServes == UpdatesSpec => []ServedIsOneRelease
<1>1. UpdatesInit => ApplyInv
  <2> SUFFICES ASSUME UpdatesInit PROVE ApplyInv
    OBVIOUS
  <2>1. UpdatesTypeOK
    BY UpdatesInitType
  <2>2. /\ source = [i \in Item |-> IF i \in Files[manifest] THEN manifest ELSE None]
        /\ manifest \in Release /\ launch.at = "down" /\ note = BlankNote
        /\ \A s \in Stager : stager[s].at = "idle"
    BY <2>1 DEF UpdatesInit, NoApply, AtRest, UpdatesTypeOK
  <2>3. CurrentVersion = manifest /\ None < manifest
    BY <2>2, UpdateBounds, UpdatesAssumption DEF CurrentVersion, None
  <2>4. OneRelease
    BY <2>2, <2>3 DEF OneRelease
  <2>5. SourcesAreReleases
    BY <2>2, UpdateBounds DEF SourcesAreReleases, BlankNote
  <2> QED
    BY <2>1, <2>2, <2>4, <2>5 DEF ApplyInv, AppliesGoOn, UpdatesGoUp, NoneNewer, BlankNote
<1>2. ApplyInv => ServedIsOneRelease
  BY DEF ApplyInv, AppliesGoOn, ServedIsOneRelease
<1> QED
  BY <1>1, <1>2, StepApply, PTL DEF UpdatesSpec

-----------------------------------------------------------------------------
(* Databases.                                                              *)

LEMMA DatabaseFacts ==
  /\ Len(Database) \in Nat \ {0} /\ DOMAIN Database = 1 .. Len(Database)
  /\ \A i \in 1 .. Len(Database) : Database[i] \in Names
  /\ \A d \in Names : (\E i \in 1 .. Len(Database) : Database[i] = d) /\ Target[d] \in Nat \ {0}
  /\ \A i, j \in 1 .. Len(Database) : Database[i] = Database[j] => i = j
  /\ MaxWrites \in Nat /\ MaxStarts \in Nat
<1>1. Len(Database) \in Nat \ {0} /\ DOMAIN Database = 1 .. Len(Database)
  BY DatabasesAssumption
<1>2. Target \in [Names -> Nat \ {0}]
  BY DatabasesAssumption DEF Names
<1> QED
  BY <1>1, <1>2, DatabasesAssumption DEF Names

\* A place goes on to fit while writes are counted and backups are added.
LEMMA StillFits ==
  ASSUME NEW made, NEW more, made \subseteq more, NEW n \in Nat, NEW m \in Nat, n <= m
  PROVE  /\ \A files : FilesFit(files, n) => FilesFit(files, m)
         /\ \A record : HostFits(record, made, n) => HostFits(record, more, m)
<1>1. ASSUME NEW files, FilesFit(files, n) PROVE FilesFit(files, m)
  <2>1. ASSUME NEW i \in 1 .. Len(files) PROVE files[i].content <= m
    <3>1. files[i] \in FileRecord /\ files[i].content <= n
      BY <1>1 DEF FilesFit
    <3> QED
      BY <3>1 DEF FileRecord
  <2> QED
    BY <1>1, <2>1 DEF FilesFit
<1>2. HostRecord(made) \subseteq HostRecord(more)
  BY DEF HostRecord
<1> QED
  BY <1>1, <1>2 DEF HostFits

LEMMA CreatingFits ==
  ASSUME NEW copies, NEW n \in Nat, NEW record \in HostRecord(copies), record.at = "create",
         record.place = 1, record.files = <<>>
  PROVE  HostFits(record, copies, n)
<1>1. <<>> \in Seq(FileRecord) /\ Len(<<>>) = 0 /\ Len(Database) \in Nat
  BY DatabaseFacts
<1>2. FilesFit(<<>>, n)
  BY <1>1 DEF FilesFit
<1>3. 0 = 1 - 1
  OBVIOUS
<1> QED
  BY <1>1, <1>2, <1>3 DEF HostFits

LEMMA DownFits ==
  ASSUME NEW copies, NEW n \in Nat
  PROVE  /\ HostFits(Down, copies, n) /\ HostFits([Down EXCEPT !.at = "up"], copies, n)
         /\ HostFits([Down EXCEPT !.at = "read", !.place = 1], copies, n)
         /\ HostFits([Down EXCEPT !.at = "create", !.place = 1], copies, n)
         /\ \A b \in copies :
              HostFits([Down EXCEPT !.at = "create", !.place = 1, !.from = b], copies, n)
<1>1. /\ <<>> \in Seq(FileRecord) /\ Len(<<>>) = 0
      /\ 0 \in 0 .. Len(Database) /\ 1 \in 0 .. Len(Database)
  BY DatabaseFacts
<1>2. Down \in HostRecord(copies) /\ Down.files = <<>>
  BY <1>1 DEF HostRecord, Down
<1>3. HostFits(Down, copies, n) /\ HostFits([Down EXCEPT !.at = "up"], copies, n)
  BY <1>2 DEF HostFits, HostRecord, Down
<1>4. HostFits([Down EXCEPT !.at = "read", !.place = 1], copies, n)
  <2> DEFINE record == [Down EXCEPT !.at = "read", !.place = 1]
  <2>1. record \in HostRecord(copies) /\ record.at = "read" /\ record.place = 1
    BY <1>1, <1>2 DEF HostRecord
  <2> HIDE DEF record
  <2>2. HostFits(record, copies, n)
    BY <2>1 DEF HostFits
  <2> QED
    BY <2>2 DEF record
<1>5. HostFits([Down EXCEPT !.at = "create", !.place = 1], copies, n)
  <2> DEFINE record == [Down EXCEPT !.at = "create", !.place = 1]
  <2>1. /\ record \in HostRecord(copies) /\ record.at = "create" /\ record.place = 1
        /\ record.files = <<>>
    BY <1>1, <1>2 DEF HostRecord
  <2> HIDE DEF record
  <2>2. HostFits(record, copies, n)
    BY <2>1, CreatingFits
  <2> QED
    BY <2>2 DEF record
<1>6. ASSUME NEW b \in copies
      PROVE  HostFits([Down EXCEPT !.at = "create", !.place = 1, !.from = b], copies, n)
  <2> DEFINE record == [Down EXCEPT !.at = "create", !.place = 1, !.from = b]
  <2>1. /\ record \in HostRecord(copies) /\ record.at = "create" /\ record.place = 1
        /\ record.files = <<>>
    BY <1>1, <1>2 DEF HostRecord
  <2> HIDE DEF record
  <2>2. HostFits(record, copies, n)
    BY <2>1, CreatingFits
  <2> QED
    BY <2>2 DEF record
<1> QED
  BY <1>3, <1>4, <1>5, <1>6

\* One process changes its place, and the others stay.
LEMMA OneHost ==
  ASSUME DatabasesTypeOK, NEW h \in Host, NEW record, host' = [host EXCEPT ![h] = record],
         HostFits(record, backups', writes'), writes' \in 0 .. MaxWrites, writes <= writes',
         backups \subseteq backups'
  PROVE  /\ host' \in [Host -> HostRecord(backups')]
         /\ \A k \in Host : HostFits(host'[k], backups', writes')
<1>1. writes \in Nat /\ writes' \in Nat /\ host \in [Host -> HostRecord(backups)]
  BY DatabaseFacts DEF DatabasesTypeOK
<1>2. \A k \in Host : HostFits(host'[k], backups', writes')
  BY <1>1, StillFits DEF DatabasesTypeOK
<1>3. \A k \in Host : host'[k] \in HostRecord(backups')
  BY <1>2 DEF HostFits
<1> QED
  BY <1>1, <1>2, <1>3

LEMMA DatabasesInitType == DatabasesInit => DatabasesTypeOK
<1> SUFFICES ASSUME DatabasesInit PROVE DatabasesTypeOK
  OBVIOUS
<1>1. /\ rows \in [Names -> SUBSET Nat] /\ content \in [Names -> Nat]
      /\ \A d \in Names : rows[d] \subseteq 1 .. Target[d] /\ content[d] <= writes
  BY DatabaseFacts DEF DatabasesInit
<1>2. \A h \in Host : host[h] = Down /\ HostFits(host[h], backups, writes)
  BY DownFits DEF DatabasesInit
<1>3. host \in [Host -> HostRecord(backups)]
  BY <1>2 DEF DatabasesInit, HostFits
<1> QED
  BY <1>1, <1>2, <1>3, DatabaseFacts DEF DatabasesInit, DatabasesTypeOK

LEMMA CurrentIn ==
  ASSUME DatabasesTypeOK, NEW h \in Host,
         host[h].at \in {"read", "migrate", "create", "replace"}
  PROVE  /\ host[h].place \in 1 .. Len(Database) /\ Current(h) \in Names
         /\ Current(h) = Database[host[h].place]
<1>1. host[h].place \in 1 .. Len(Database)
  BY DatabaseFacts DEF DatabasesTypeOK, HostFits, HostRecord
<1> QED
  BY <1>1, DatabaseFacts DEF Current

LEMMA UnappliedIn ==
  ASSUME DatabasesTypeOK, NEW h \in Host, host[h].at = "migrate", Unapplied(h) # {}
  PROVE  /\ Lowest(Unapplied(h)) \in 1 .. Target[Current(h)]
         /\ Lowest(Unapplied(h)) \notin host[h].seen
<1>1. Target[Current(h)] \in Nat /\ Unapplied(h) \subseteq Nat
  BY CurrentIn, DatabaseFacts DEF Unapplied
<1>2. \E v \in Unapplied(h) : \A w \in Unapplied(h) : v <= w
  BY <1>1, LeastNatural
<1>3. Lowest(Unapplied(h)) \in Unapplied(h)
  BY <1>2 DEF Lowest
<1> QED
  BY <1>3 DEF Unapplied

\* What is left to show of a step of one process that makes no backup.
LEMMA HostStepType ==
  ASSUME DatabasesTypeOK, NEW h \in Host, NEW record, host' = [host EXCEPT ![h] = record],
         HostFits(record, backups, writes), UNCHANGED <<writes, backups>>,
         rows' \in [Names -> SUBSET Nat], content' \in [Names -> Nat],
         \A d \in Names : rows'[d] \subseteq 1 .. Target[d] /\ content'[d] <= writes,
         starts' \in 0 .. MaxStarts, outdated' \subseteq Host, lost' \subseteq Names
  PROVE  DatabasesTypeOK'
<1>1. /\ HostFits(record, backups', writes') /\ backups \subseteq backups'
      /\ writes' \in 0 .. MaxWrites /\ writes <= writes'
  BY DatabaseFacts DEF DatabasesTypeOK
<1>2. /\ host' \in [Host -> HostRecord(backups')]
      /\ \A k \in Host : HostFits(host'[k], backups', writes')
  BY <1>1, OneHost
<1> QED
  BY <1>2 DEF DatabasesTypeOK

\* What a restore finds at its place, and leaves.
LEMMA ReplacedFits ==
  ASSUME DatabasesTypeOK, NEW h \in Host, ReplaceDatabase(h)
  PROVE  /\ host[h].from \in backups /\ host[h].place \in 1 .. Len(Database)
         /\ Current(h) = Database[host[h].place] /\ Current(h) \in Names
         /\ rows' = [rows EXCEPT ![Current(h)] = host[h].from[host[h].place].rows]
         /\ content' = [content EXCEPT ![Current(h)] = host[h].from[host[h].place].content]
         /\ host[h].from[host[h].place] \in FileRecord
         /\ host[h].from[host[h].place].rows \subseteq 1 .. Target[Current(h)]
         /\ host[h].from[host[h].place].content <= writes
<1>1. host[h].at = "replace"
  BY DEF ReplaceDatabase
<1>2. host[h].from \in backups
  BY <1>1 DEF DatabasesTypeOK, HostFits, HostRecord
<1>3. /\ host[h].place \in 1 .. Len(Database) /\ Current(h) = Database[host[h].place]
      /\ Current(h) \in Names
  BY <1>1, CurrentIn
<1>4. FilesFit(host[h].from, writes) /\ Len(host[h].from) = Len(Database)
  BY <1>2 DEF DatabasesTypeOK
<1>5. host[h].place \in 1 .. Len(host[h].from)
  BY <1>3, <1>4
<1>6. /\ host[h].from[host[h].place] \in FileRecord
      /\ host[h].from[host[h].place].rows \subseteq 1 .. Target[Current(h)]
      /\ host[h].from[host[h].place].content <= writes
  BY <1>3, <1>4, <1>5 DEF FilesFit
<1>7. /\ rows' = [rows EXCEPT ![Current(h)] = host[h].from[host[h].place].rows]
      /\ content' = [content EXCEPT ![Current(h)] = host[h].from[host[h].place].content]
  BY DEF ReplaceDatabase
<1> QED
  BY <1>2, <1>3, <1>6, <1>7

\* The copies of a process when it has made one more.
LEMMA CopiesFit ==
  ASSUME DatabasesTypeOK, NEW h \in Host, host[h].at = "create"
  PROVE  /\ FilesFit(Append(host[h].files, FileOf(Current(h))), writes)
         /\ Len(Append(host[h].files, FileOf(Current(h)))) = host[h].place
         /\ FileOf(Current(h)) \in FileRecord
<1> DEFINE d == Current(h)
           files == host[h].files
<1>1. d \in Names /\ d = Database[host[h].place] /\ host[h].place \in 1 .. Len(Database)
  BY CurrentIn
<1>2. FilesFit(files, writes) /\ Len(files) = host[h].place - 1
  BY DEF DatabasesTypeOK, HostFits
<1>3. /\ FileOf(d) \in FileRecord /\ FileOf(d).rows \subseteq 1 .. Target[d]
      /\ FileOf(d).content <= writes
  BY <1>1 DEF DatabasesTypeOK, FileOf, FileRecord
<1> HIDE DEF d, files
<1> DEFINE f == FileOf(d)
<1> HIDE DEF f
<1>4. files \in Seq(FileRecord) /\ f \in FileRecord
  BY <1>2, <1>3 DEF FilesFit, f
<1>5. /\ Append(files, f) \in Seq(FileRecord) /\ Len(Append(files, f)) = Len(files) + 1
      /\ \A i \in 1 .. Len(files) : Append(files, f)[i] = files[i]
      /\ Append(files, f)[Len(files) + 1] = f
  BY <1>4
<1>6. Len(files) + 1 = host[h].place /\ Len(files) \in Nat /\ Len(Database) \in Nat
  BY <1>1, <1>2, <1>4, DatabaseFacts
<1>7. ASSUME NEW i \in 1 .. Len(Append(files, f))
      PROVE  /\ Append(files, f)[i].rows \subseteq 1 .. Target[Database[i]]
             /\ Append(files, f)[i].content <= writes
  <2>1. CASE i \in 1 .. Len(files)
    BY <1>2, <1>5, <2>1 DEF FilesFit
  <2>2. CASE i = Len(files) + 1
    BY <1>1, <1>3, <1>5, <1>6, <2>2 DEF f
  <2> QED
    BY <1>5, <1>6, <2>1, <2>2
<1>8. FilesFit(Append(files, f), writes) /\ Len(Append(files, f)) = host[h].place
  BY <1>1, <1>5, <1>6, <1>7 DEF FilesFit
<1> QED
  BY <1>3, <1>8 DEF f, d, files

\* A process that has migrated, or copied, one database more.
LEMMA NextFits ==
  ASSUME DatabasesTypeOK, NEW h \in Host,
         host[h].at \in {"read", "migrate", "create", "replace"}, ~AtLast(h)
  PROVE  host[h].place + 1 \in 1 .. Len(Database)
  BY CurrentIn, DatabaseFacts DEF AtLast

LEMMA DatabasesStepType == DatabasesTypeOK /\ [DatabasesNext]_databasesVars => DatabasesTypeOK'
<1> SUFFICES ASSUME DatabasesTypeOK, [DatabasesNext]_databasesVars PROVE DatabasesTypeOK'
  OBVIOUS
<1>1. /\ rows \in [Names -> SUBSET Nat] /\ content \in [Names -> Nat]
      /\ \A d \in Names : rows[d] \subseteq 1 .. Target[d] /\ content[d] <= writes
      /\ starts \in 0 .. MaxStarts /\ outdated \subseteq Host /\ lost \subseteq Names
      /\ writes \in Nat /\ host \in [Host -> HostRecord(backups)]
  BY DatabaseFacts DEF DatabasesTypeOK
<1>2. ASSUME NEW h \in Host PROVE host[h] \in HostRecord(backups) /\ HostFits(host[h], backups, writes)
  BY DEF DatabasesTypeOK
<1>3. ASSUME NEW h \in Host, StartHost(h) PROVE DatabasesTypeOK'
  <2>1. starts' \in 0 .. MaxStarts
    BY <1>1, <1>3, DatabaseFacts DEF StartHost
  <2> QED
    BY <1>1, <1>3, <2>1, DownFits, HostStepType DEF StartHost, Does
<1>4. ASSUME NEW h \in Host, ReadApplied(h) PROVE DatabasesTypeOK'
  <2> DEFINE record == [host[h] EXCEPT !.at = "migrate", !.seen = rows[Current(h)]]
  <2>1. rows[Current(h)] \in SUBSET Nat /\ host[h].place > 0
    BY <1>1, <1>2, <1>4, CurrentIn DEF ReadApplied, HostFits
  <2>2. record \in HostRecord(backups) /\ record.at = "migrate" /\ record.place = host[h].place
    BY <1>2, <2>1 DEF HostRecord
  <2>3. host' = [host EXCEPT ![h] = record]
    BY <1>4 DEF ReadApplied, Does
  <2> HIDE DEF record
  <2>4. HostFits(record, backups, writes)
    BY <2>1, <2>2 DEF HostFits
  <2> QED
    BY <1>1, <1>4, <2>3, <2>4, HostStepType DEF ReadApplied
<1>5. ASSUME NEW h \in Host, Migrate(h) PROVE DatabasesTypeOK'
  <2> DEFINE v == Lowest(Unapplied(h))
             record == [host[h] EXCEPT !.seen = @ \cup {v}]
  <2>1. host[h].at = "migrate" /\ v \in 1 .. Target[Current(h)] /\ v \in Nat
    BY <1>5, UnappliedIn, CurrentIn, DatabaseFacts DEF Migrate
  <2>2. CASE v \in rows[Current(h)]
    BY <1>1, <1>5, <2>2, DownFits, HostStepType DEF Migrate, Does
  <2>3. CASE v \notin rows[Current(h)]
    <3>1. /\ rows' = [rows EXCEPT ![Current(h)] = @ \cup {v}]
          /\ host' = [host EXCEPT ![h] = record]
          /\ UNCHANGED <<content, writes, starts, backups, outdated, lost>>
      BY <1>5, <2>3 DEF Migrate, Does
    <3>2. record \in HostRecord(backups) /\ record.at = "migrate" /\ record.place = host[h].place
      BY <1>2, <2>1 DEF HostRecord
    <3>3. host[h].place > 0 /\ Current(h) \in Names
      BY <1>2, <2>1, CurrentIn DEF HostFits
    <3> HIDE DEF record, v
    <3>4. HostFits(record, backups, writes)
      BY <3>2, <3>3 DEF HostFits
    <3>5. rows' \in [Names -> SUBSET Nat] /\ \A d \in Names : rows'[d] \subseteq 1 .. Target[d]
      BY <1>1, <2>1, <3>1, <3>3
    <3> QED
      BY <1>1, <3>1, <3>4, <3>5, HostStepType
  <2> QED
    BY <2>2, <2>3
<1>6. ASSUME NEW h \in Host, NextDatabase(h) PROVE DatabasesTypeOK'
  <2>1. CASE AtLast(h)
    BY <1>1, <1>6, <2>1, DownFits, HostStepType DEF NextDatabase, Does
  <2>2. CASE ~AtLast(h)
    <3> DEFINE record == [host[h] EXCEPT !.at = "read", !.place = @ + 1, !.seen = {}]
    <3>1. host[h].at = "migrate" /\ host[h].place + 1 \in 1 .. Len(Database)
      BY <1>6, <2>2, NextFits DEF NextDatabase
    <3>2. host[h].place + 1 \in 0 .. Len(Database)
      BY <3>1, DatabaseFacts
    <3>3. record \in HostRecord(backups) /\ record.at = "read" /\ record.place = host[h].place + 1
      BY <1>2, <3>2 DEF HostRecord
    <3>4. host' = [host EXCEPT ![h] = record]
      BY <1>6, <2>2 DEF NextDatabase, Does
    <3> HIDE DEF record
    <3>5. HostFits(record, backups, writes)
      BY <3>1, <3>3 DEF HostFits
    <3> QED
      BY <1>1, <1>6, <3>4, <3>5, HostStepType DEF NextDatabase
  <2> QED
    BY <2>1, <2>2
<1>7. ASSUME NEW h \in Host, NEW d \in Names, Write(h, d) PROVE DatabasesTypeOK'
  <2>1. /\ writes' = writes + 1 /\ writes' \in 0 .. MaxWrites
        /\ content' = [content EXCEPT ![d] = writes + 1]
        /\ UNCHANGED <<rows, starts, backups, outdated, lost>>
        /\ host' = [k \in Host |-> [host[k] EXCEPT !.late = @ \cup {d}]]
    BY <1>1, <1>7, DatabaseFacts DEF Write
  <2>2. /\ writes' \in Nat /\ writes <= writes' /\ backups \subseteq backups
    BY <1>1, <2>1
  <2>3. content' \in [Names -> Nat] /\ \A e \in Names : content'[e] <= writes'
    BY <1>1, <2>1
  <2>4. ASSUME NEW k \in Host PROVE HostFits(host'[k], backups, writes')
    <3> DEFINE record == [host[k] EXCEPT !.late = @ \cup {d}]
    <3>1. HostFits(host[k], backups, writes')
      BY <1>1, <1>2, <2>2, StillFits
    <3>2. /\ record \in HostRecord(backups) /\ record.at = host[k].at
          /\ record.place = host[k].place /\ record.files = host[k].files
          /\ record.from = host[k].from
      BY <1>2 DEF HostRecord
    <3> HIDE DEF record
    <3>3. HostFits(record, backups, writes')
      BY <3>1, <3>2 DEF HostFits
    <3> QED
      BY <2>1, <3>3 DEF record
  <2>5. \A files : FilesFit(files, writes) => FilesFit(files, writes')
    BY <1>1, <2>2, StillFits
  <2>6. \A b \in backups : FilesFit(b, writes') /\ Len(b) = Len(Database)
    BY <2>5 DEF DatabasesTypeOK
  <2>7. host' \in [Host -> HostRecord(backups)]
    BY <2>1, <2>4 DEF HostFits
  <2> QED
    BY <1>1, <2>1, <2>3, <2>4, <2>6, <2>7 DEF DatabasesTypeOK
<1>8. ASSUME NEW h \in Host, BeginCreate(h) PROVE DatabasesTypeOK'
  BY <1>1, <1>8, DownFits, HostStepType DEF BeginCreate, Does
<1>9. ASSUME NEW h \in Host, NEW b \in backups, BeginRestore(h, b) PROVE DatabasesTypeOK'
  BY <1>1, <1>9, DownFits, HostStepType DEF BeginRestore, Does
<1>10. ASSUME NEW h \in Host, CopyDatabase(h) PROVE DatabasesTypeOK'
  <2> DEFINE d == Current(h)
             files == Append(host[h].files, FileOf(d))
             record == IF ~AtLast(h)
                       THEN [host[h] EXCEPT !.place = @ + 1, !.files = files, !.late = @ \ {d}]
                       ELSE IF host[h].from = <<>> THEN [Down EXCEPT !.at = "up"]
                       ELSE [host[h] EXCEPT !.at = "replace", !.place = 1, !.late = @ \ {d}]
  <2>1. /\ host[h].at = "create" /\ host' = [host EXCEPT ![h] = record]
        /\ backups' = IF AtLast(h) THEN backups \cup {files} ELSE backups
        /\ UNCHANGED <<rows, content, writes, starts, outdated, lost>>
    BY <1>10 DEF CopyDatabase, Does
  <2>2. /\ FilesFit(files, writes) /\ Len(files) = host[h].place
        /\ host[h].place \in 1 .. Len(Database) /\ files \in Seq(FileRecord)
    BY <2>1, CopiesFit, CurrentIn DEF FilesFit
  <2>3. HostFits(record, backups', writes)
    <3>1. CASE ~AtLast(h)
      <4> DEFINE next == [host[h] EXCEPT !.place = @ + 1, !.files = files, !.late = @ \ {d}]
      <4>1. host[h].place + 1 \in 0 .. Len(Database) /\ backups' = backups
        BY <2>1, <3>1, NextFits
      <4> HIDE DEF files, d
      <4>2. /\ next \in HostRecord(backups) /\ next.at = "create"
            /\ next.place = host[h].place + 1 /\ next.files = files
        BY <1>2, <2>1, <2>2, <4>1 DEF HostRecord
      <4>3. record = next
        BY <3>1 DEF d, files
      <4> HIDE DEF next, record
      <4>4. HostFits(next, backups, writes)
        BY <2>2, <4>2 DEF HostFits
      <4> QED
        BY <4>1, <4>3, <4>4
    <3>2. CASE AtLast(h) /\ host[h].from = <<>>
      BY <1>1, <3>2, DownFits
    <3>3. CASE AtLast(h) /\ host[h].from # <<>>
      <4> DEFINE next == [host[h] EXCEPT !.at = "replace", !.place = 1, !.late = @ \ {d}]
      <4> HIDE DEF files, d
      <4>1. host[h] \in HostRecord(backups') /\ 1 \in 0 .. Len(Database)
        BY <1>2, <2>1, DatabaseFacts DEF HostRecord
      <4>2. /\ next \in HostRecord(backups') /\ next.at = "replace"
            /\ next.place = 1 /\ next.from = host[h].from
        BY <4>1 DEF HostRecord
      <4>3. record = next
        BY <3>3 DEF d, files
      <4> HIDE DEF next, record
      <4>4. HostFits(next, backups', writes)
        BY <3>3, <4>2 DEF HostFits
      <4> QED
        BY <4>3, <4>4
    <3> QED
      BY <3>1, <3>2, <3>3
  <2> HIDE DEF record, files, d
  <2>4. backups \subseteq backups' /\ writes' \in 0 .. MaxWrites /\ writes <= writes'
    BY <1>1, <2>1 DEF DatabasesTypeOK
  <2>5. HostFits(record, backups', writes')
    BY <2>1, <2>3
  <2>6. /\ host' \in [Host -> HostRecord(backups')]
        /\ \A k \in Host : HostFits(host'[k], backups', writes')
    BY <2>1, <2>4, <2>5, OneHost
  <2>7. ASSUME AtLast(h) PROVE Len(files) = Len(Database)
    BY <2>2, <2>7 DEF AtLast
  <2>8. \A b \in backups' : FilesFit(b, writes) /\ Len(b) = Len(Database)
    BY <2>1, <2>2, <2>7 DEF DatabasesTypeOK
  <2> QED
    BY <1>1, <2>1, <2>4, <2>6, <2>8 DEF DatabasesTypeOK
<1>11. ASSUME NEW h \in Host, ReplaceDatabase(h) PROVE DatabasesTypeOK'
  <2>1. /\ host[h].at = "replace" /\ UNCHANGED <<writes, starts, backups>>
        /\ outdated' \subseteq Host /\ lost' \subseteq Names
    BY <1>1, <1>11, ReplacedFits DEF ReplaceDatabase
  <2>2. /\ rows' \in [Names -> SUBSET Nat] /\ content' \in [Names -> Nat]
        /\ \A d \in Names : rows'[d] \subseteq 1 .. Target[d] /\ content'[d] <= writes
    <3> DEFINE file == host[h].from[host[h].place]
    <3>1. /\ rows' = [rows EXCEPT ![Current(h)] = file.rows]
          /\ content' = [content EXCEPT ![Current(h)] = file.content]
          /\ file.rows \subseteq 1 .. Target[Current(h)] /\ file.content <= writes
          /\ file.rows \in SUBSET Nat /\ file.content \in Nat /\ Current(h) \in Names
      BY <1>11, ReplacedFits DEF FileRecord
    <3> HIDE DEF file
    <3> QED
      BY <1>1, <3>1
  <2>3. CASE AtLast(h)
    BY <1>1, <1>11, <2>1, <2>2, <2>3, DownFits, HostStepType DEF ReplaceDatabase, Does
  <2>4. CASE ~AtLast(h)
    <3> DEFINE record == [host[h] EXCEPT !.place = @ + 1]
    <3>1. host[h].place + 1 \in 1 .. Len(Database)
      BY <2>1, <2>4, NextFits
    <3>2. /\ record \in HostRecord(backups) /\ record.at = "replace"
          /\ record.place = host[h].place + 1 /\ record.from = host[h].from
      BY <1>2, <2>1, <3>1, DatabaseFacts DEF HostRecord
    <3>3. host' = [host EXCEPT ![h] = record]
      BY <1>11, <2>4 DEF ReplaceDatabase, Does
    <3> HIDE DEF record
    <3>4. HostFits(record, backups, writes)
      BY <1>2, <2>1, <3>1, <3>2 DEF HostFits
    <3> QED
      BY <1>1, <2>1, <2>2, <3>3, <3>4, HostStepType
  <2> QED
    BY <2>3, <2>4
<1>12. ASSUME NEW h \in Host, HostEnds(h) PROVE DatabasesTypeOK'
  BY <1>1, <1>12, DownFits, HostStepType DEF HostEnds, Does
<1>13. CASE UNCHANGED databasesVars
  BY <1>13 DEF databasesVars, DatabasesTypeOK
<1> QED
  BY <1>3, <1>4, <1>5, <1>6, <1>7, <1>8, <1>9, <1>10, <1>11, <1>12, <1>13 DEF DatabasesNext

\* In every reachable state the tables, the backups and the processes have their types.
THEOREM DatabasesTypeCorrect == DatabasesSpec => []DatabasesTypeOK
  BY DatabasesInitType, DatabasesStepType, PTL DEF DatabasesSpec

\* ServedIsMigrated while processes migrate: what is behind their place is done,
\* and a version they take as applied is; processes on replaced files excepted.
Full(d) == rows[d] = 1 .. Target[d]
Migrated(h) ==
  /\ host[h].at \in {"read", "migrate"} =>
       \A i \in 1 .. Len(Database) : i < host[h].place => Full(Database[i])
  /\ host[h].at = "migrate" => host[h].seen \subseteq rows[Current(h)]
  /\ Running(h) => \A d \in Names : Full(d)
MigrateInv == DatabasesTypeOK /\ \A h \in Host \ outdated : Migrated(h)

\* Versions are only added by the steps of processes, so what one process has
\* found done stays done.
LEMMA StillMigrated ==
  ASSUME MigrateInv, DatabasesTypeOK', NEW h \in Host \ outdated,
         \A d \in Names : rows[d] \subseteq rows'[d],
         host'[h].at = host[h].at, host'[h].place = host[h].place, host'[h].seen = host[h].seen
  PROVE  Migrated(h)'
<1>1. \A d \in Names : Full(d) => Full(d)'
  BY DEF Full, DatabasesTypeOK
<1>2. Migrated(h)
  BY DEF MigrateInv
<1>3. Current(h)' = Current(h) /\ Running(h)' = Running(h)
  BY DEF Current, Running
<1>4. host[h].at = "migrate" => Current(h) \in Names
  BY CurrentIn DEF MigrateInv
<1> QED
  BY <1>1, <1>2, <1>3, <1>4, DatabaseFacts DEF Migrated

\* A step of one process that adds versions only.
LEMMA OneMigrates ==
  ASSUME MigrateInv, DatabasesTypeOK', NEW h \in Host, NEW record,
         host' = [host EXCEPT ![h] = record], \A d \in Names : rows[d] \subseteq rows'[d],
         outdated \ {h} \subseteq outdated', h \in outdated' \/ Migrated(h)'
  PROVE  MigrateInv'
<1>1. ASSUME NEW k \in Host, k \notin outdated', k # h PROVE Migrated(k)'
  <2>1. host'[k] = host[k] /\ k \in Host \ outdated
    BY <1>1 DEF MigrateInv, DatabasesTypeOK
  <2> QED
    BY <2>1, StillMigrated
<1> QED
  BY <1>1 DEF MigrateInv

LEMMA StepMigrate == MigrateInv /\ [DatabasesNext]_databasesVars => MigrateInv'
<1> SUFFICES ASSUME MigrateInv, DatabasesTypeOK, DatabasesTypeOK', [DatabasesNext]_databasesVars
             PROVE  MigrateInv'
  BY DatabasesStepType DEF MigrateInv
<1>1. host \in [Host -> HostRecord(backups)]
  BY DEF DatabasesTypeOK
<1>2. ASSUME NEW h \in Host, StartHost(h) PROVE MigrateInv'
  <2>1. /\ host'[h].at = "read" /\ host'[h].place = 1 /\ UNCHANGED rows
        /\ outdated' = outdated \ {h}
    BY <1>1, <1>2 DEF StartHost, Does, Down
  <2>2. Migrated(h)'
    BY <2>1, DatabaseFacts DEF Migrated, Running
  <2> QED
    BY <1>2, <2>1, <2>2, OneMigrates DEF StartHost, Does
<1>3. ASSUME NEW h \in Host, ReadApplied(h) PROVE MigrateInv'
  <2>1. /\ host[h].at = "read" /\ host[h] \in HostRecord(backups)
        /\ host'[h] = [host[h] EXCEPT !.at = "migrate", !.seen = rows[Current(h)]]
        /\ UNCHANGED <<rows, outdated>>
    BY <1>1, <1>3 DEF ReadApplied, Does
  <2>2. /\ host'[h].at = "migrate" /\ host'[h].place = host[h].place
        /\ host'[h].seen = rows[Current(h)]
    BY <2>1 DEF HostRecord
  <2>3. ASSUME h \notin outdated PROVE Migrated(h)'
    <3>1. Migrated(h)
      BY <2>3 DEF MigrateInv
    <3> QED
      BY <2>1, <2>2, <3>1 DEF Migrated, Running, Current, Full
  <2> QED
    BY <1>3, <2>1, <2>3, OneMigrates DEF ReadApplied, Does
<1>4. ASSUME NEW h \in Host, Migrate(h) PROVE MigrateInv'
  <2> DEFINE v == Lowest(Unapplied(h))
             record == [host[h] EXCEPT !.seen = @ \cup {v}]
  <2>1. CASE v \in rows[Current(h)]
    <3>1. host' = [host EXCEPT ![h] = Down] /\ UNCHANGED <<rows, outdated>>
      BY <1>4, <2>1 DEF Migrate, Does
    <3>2. host'[h].at = "down"
      BY <1>1, <3>1 DEF Down
    <3>3. Migrated(h)'
      BY <3>2 DEF Migrated, Running
    <3> QED
      BY <3>1, <3>3, OneMigrates
  <2>2. CASE v \notin rows[Current(h)]
    <3>1. /\ rows' = [rows EXCEPT ![Current(h)] = @ \cup {v}]
          /\ host' = [host EXCEPT ![h] = record] /\ UNCHANGED outdated
          /\ host[h].at = "migrate" /\ host[h] \in HostRecord(backups)
      BY <1>1, <1>4, <2>2 DEF Migrate, Does
    <3>2. host'[h].at = "migrate" /\ host'[h].place = host[h].place
          /\ host'[h].seen = host[h].seen \cup {v}
      BY <1>1, <3>1 DEF HostRecord
    <3>3. Current(h) \in Names /\ Current(h)' = Current(h)
      BY <3>1, <3>2, CurrentIn DEF Current
    <3> HIDE DEF record, v
    <3>4. /\ \A d \in Names : rows[d] \subseteq rows'[d]
          /\ rows'[Current(h)] = rows[Current(h)] \cup {v}
      BY <3>1, <3>3 DEF DatabasesTypeOK
    <3>5. ASSUME h \notin outdated PROVE Migrated(h)'
      <4>1. Migrated(h) /\ \A d \in Names : Full(d) => Full(d)'
        BY <3>4, <3>5 DEF MigrateInv, Full, DatabasesTypeOK
      <4> QED
        BY <3>1, <3>2, <3>3, <3>4, <4>1, DatabaseFacts DEF Migrated, Running
    <3> QED
      BY <3>1, <3>4, <3>5, OneMigrates
  <2> QED
    BY <2>1, <2>2
<1>5. ASSUME NEW h \in Host, NextDatabase(h) PROVE MigrateInv'
  <2>1. host[h].at = "migrate" /\ Unapplied(h) = {} /\ UNCHANGED <<rows, outdated>>
    BY <1>5 DEF NextDatabase
  <2>2. /\ Current(h) = Database[host[h].place] /\ host[h].place \in 1 .. Len(Database)
        /\ Current(h) \in Names
    BY <2>1, CurrentIn
  <2>3. ASSUME h \notin outdated
        PROVE  \A i \in 1 .. Len(Database) : i <= host[h].place => Full(Database[i])
    <3>1. Migrated(h)
      BY <2>3 DEF MigrateInv
    <3>2. 1 .. Target[Current(h)] \subseteq rows[Current(h)]
      BY <2>1, <3>1 DEF Unapplied, Migrated
    <3>3. Full(Current(h))
      BY <2>2, <3>2 DEF Full, DatabasesTypeOK
    <3> QED
      BY <2>1, <2>2, <3>1, <3>3 DEF Migrated
  <2>4. CASE AtLast(h)
    <3>1. host' = [host EXCEPT ![h] = [Down EXCEPT !.at = "up"]]
      BY <1>5, <2>4 DEF NextDatabase, Does
    <3>2. host'[h].at = "up"
      BY <1>1, <3>1 DEF Down
    <3>3. ASSUME h \notin outdated PROVE Migrated(h)'
      <4>1. \A d \in Names : Full(d)'
        BY <2>1, <2>3, <2>4, <3>3, DatabaseFacts DEF AtLast, Full
      <4> QED
        BY <3>2, <4>1 DEF Migrated, Running
    <3> QED
      BY <2>1, <3>1, <3>3, OneMigrates
  <2>5. CASE ~AtLast(h)
    <3> DEFINE record == [host[h] EXCEPT !.at = "read", !.place = @ + 1, !.seen = {}]
    <3>1. host' = [host EXCEPT ![h] = record]
      BY <1>5, <2>5 DEF NextDatabase, Does
    <3>2. host'[h].at = "read" /\ host'[h].place = host[h].place + 1
      BY <1>1, <3>1 DEF HostRecord
    <3>3. ASSUME h \notin outdated PROVE Migrated(h)'
      <4>1. \A i \in 1 .. Len(Database) : i < host'[h].place => Full(Database[i])'
        BY <2>1, <2>2, <2>3, <3>2, <3>3, DatabaseFacts DEF Full
      <4> QED
        BY <3>2, <4>1 DEF Migrated, Running
    <3> QED
      BY <2>1, <3>1, <3>3, OneMigrates
  <2> QED
    BY <2>4, <2>5
<1>6. ASSUME NEW h \in Host, NEW d \in Names, Write(h, d) PROVE MigrateInv'
  <2>1. /\ UNCHANGED <<rows, outdated>>
        /\ host' = [k \in Host |-> [host[k] EXCEPT !.late = @ \cup {d}]]
    BY <1>6 DEF Write
  <2>2. ASSUME NEW k \in Host \ outdated PROVE Migrated(k)'
    <3>1. host[k] \in HostRecord(backups) /\ host'[k] = [host[k] EXCEPT !.late = @ \cup {d}]
      BY <1>1, <2>1
    <3>2. /\ host'[k].at = host[k].at /\ host'[k].place = host[k].place
          /\ host'[k].seen = host[k].seen
      BY <3>1 DEF HostRecord
    <3> QED
      BY <2>1, <3>2, StillMigrated
  <2> QED
    BY <2>1, <2>2 DEF MigrateInv
<1>7. ASSUME NEW h \in Host, NEW record, Running(h), host' = [host EXCEPT ![h] = record],
             record.at \in {"down", "up", "create", "replace"}, UNCHANGED <<rows, outdated>>
      PROVE  MigrateInv'
  <2>1. ASSUME h \notin outdated PROVE Migrated(h)'
    <3>1. Migrated(h) /\ host'[h] = record
      BY <1>1, <1>7, <2>1 DEF MigrateInv
    <3> QED
      BY <1>7, <3>1 DEF Migrated, Running, Full
  <2> QED
    BY <1>7, <2>1, OneMigrates
<1>8. ASSUME NEW h \in Host, BeginCreate(h) PROVE MigrateInv'
  BY <1>7, <1>8 DEF BeginCreate, Does, Down, Running
<1>9. ASSUME NEW h \in Host, NEW b \in backups, BeginRestore(h, b) PROVE MigrateInv'
  BY <1>7, <1>9 DEF BeginRestore, Does, Down, Running
<1>10. ASSUME NEW h \in Host, CopyDatabase(h) PROVE MigrateInv'
  <2>1. /\ host[h].at = "create" /\ host[h] \in HostRecord(backups)
        /\ UNCHANGED <<rows, outdated>>
    BY <1>1, <1>10 DEF CopyDatabase
  <2>2. CASE ~AtLast(h)
    <3> DEFINE d == Current(h)
               record == [host[h] EXCEPT !.place = @ + 1,
                            !.files = Append(host[h].files, FileOf(d)), !.late = @ \ {d}]
    <3>1. host' = [host EXCEPT ![h] = record]
      BY <1>10, <2>2 DEF CopyDatabase, Does
    <3>2. record.at = "create"
      BY <2>1 DEF HostRecord
    <3> HIDE DEF record
    <3> QED
      BY <1>7, <2>1, <3>1, <3>2 DEF Running
  <2>3. CASE AtLast(h) /\ host[h].from = <<>>
    BY <1>7, <1>10, <2>1, <2>3 DEF CopyDatabase, Does, Down, Running
  <2>4. CASE AtLast(h) /\ host[h].from # <<>>
    <3> DEFINE record == [host[h] EXCEPT !.at = "replace", !.place = 1,
                                         !.late = @ \ {Current(h)}]
    <3>1. host' = [host EXCEPT ![h] = record]
      BY <1>10, <2>4 DEF CopyDatabase, Does
    <3>2. record.at = "replace"
      BY <2>1 DEF HostRecord
    <3> HIDE DEF record
    <3> QED
      BY <1>7, <2>1, <3>1, <3>2 DEF Running
  <2> QED
    BY <2>2, <2>3, <2>4
<1>11. ASSUME NEW h \in Host, ReplaceDatabase(h) PROVE MigrateInv'
  <2>1. /\ host[h].at = "replace" /\ outdated' = outdated \cup {k \in Host : host[k].at # "down"}
        /\ \A k \in Host : k # h => host'[k] = host[k]
    BY <1>1, <1>11 DEF ReplaceDatabase, Does
  <2>2. ASSUME NEW k \in Host \ outdated' PROVE Migrated(k)'
    <3>1. host'[k].at = "down"
      BY <2>1
    <3> QED
      BY <3>1 DEF Migrated, Running
  <2> QED
    BY <2>2 DEF MigrateInv
<1>12. ASSUME NEW h \in Host, HostEnds(h) PROVE MigrateInv'
  <2>1. host' = [host EXCEPT ![h] = Down] /\ UNCHANGED <<rows, outdated>>
    BY <1>12 DEF HostEnds, Does
  <2>2. host'[h].at = "down"
    BY <1>1, <2>1 DEF Down
  <2>3. Migrated(h)'
    BY <2>2 DEF Migrated, Running
  <2> QED
    BY <2>1, <2>3, OneMigrates
<1>13. CASE UNCHANGED databasesVars
  BY <1>13 DEF databasesVars, MigrateInv, Migrated, Running, Current, Full
<1> QED
  BY <1>2, <1>3, <1>4, <1>5, <1>6, <1>8, <1>9, <1>10, <1>11, <1>12, <1>13 DEF DatabasesNext

\* RestoreCanBeUndone while copies are made: what a process has copied is as it
\* was, or late, or in a backup; and before anything is replaced all of it is
\* in a backup.
Backed(copies, d, value) ==
  \E b \in copies, i \in 1 .. Len(Database) : Database[i] = d /\ b[i].content = value
Safe(h, d) == d \in host[h].late \/ Backed(backups, d, content[d])
Copied(h) ==
  /\ host[h].at = "create" =>
       \A i \in 1 .. Len(Database) : i < host[h].place =>
         Safe(h, Database[i]) \/ host[h].files[i].content = content[Database[i]]
  /\ host[h].at = "replace" => \A d \in Names : Safe(h, d)
CopyInv == DatabasesTypeOK /\ lost = {} /\ \A h \in Host : Copied(h)

\* A content changes to what a process knows to be late, or to what a backup holds.
LEMMA StillCopied ==
  ASSUME CopyInv, NEW h \in Host, backups \subseteq backups',
         host'[h].at = host[h].at, host'[h].place = host[h].place,
         host'[h].files = host[h].files, host'[h].from = host[h].from,
         host[h].late \subseteq host'[h].late,
         \A d \in Names : \/ content'[d] = content[d] \/ d \in host'[h].late
                          \/ Backed(backups', d, content'[d])
  PROVE  Copied(h)'
<1>1. \A d \in Names : Safe(h, d) => Safe(h, d)'
  BY DEF Safe, Backed
<1>2. Copied(h) /\ \A i \in 1 .. Len(Database) : Database[i] \in Names
  BY DatabaseFacts DEF CopyInv
<1>3. ASSUME host'[h].at = "create", NEW i \in 1 .. Len(Database), i < host'[h].place
      PROVE  Safe(h, Database[i])' \/ host'[h].files[i].content = content'[Database[i]]
  <2>1. Safe(h, Database[i]) \/ host[h].files[i].content = content[Database[i]]
    BY <1>2, <1>3 DEF Copied
  <2> QED
    BY <1>1, <1>2, <1>3, <2>1 DEF Safe
<1> QED
  BY <1>1, <1>2, <1>3 DEF Copied

LEMMA OneCopies ==
  ASSUME CopyInv, DatabasesTypeOK', NEW h \in Host, NEW record,
         host' = [host EXCEPT ![h] = record], backups \subseteq backups', lost' = {},
         \A d \in Names : content'[d] = content[d] \/ Backed(backups', d, content'[d]),
         Copied(h)'
  PROVE  CopyInv'
<1>1. ASSUME NEW k \in Host, k # h PROVE Copied(k)'
  <2>1. host'[k] = host[k]
    BY <1>1 DEF CopyInv, DatabasesTypeOK
  <2> QED
    BY <2>1, StillCopied
<1> QED
  BY <1>1 DEF CopyInv

\* A step after which the process makes no copy, or has made none yet.
LEMMA NothingCopied ==
  ASSUME CopyInv, DatabasesTypeOK', NEW h \in Host, NEW record,
         host' = [host EXCEPT ![h] = record], backups \subseteq backups', UNCHANGED <<content, lost>>,
         \/ record.at \in {"down", "read", "migrate", "up"}
         \/ record.at = "create" /\ record.place = 1
  PROVE  CopyInv'
<1>1. host'[h] = record /\ lost' = {}
  BY DEF CopyInv, DatabasesTypeOK
<1>2. Copied(h)'
  BY <1>1, DatabaseFacts DEF Copied
<1> QED
  BY <1>1, <1>2, OneCopies

LEMMA StepCopy == CopyInv /\ [DatabasesNext]_databasesVars => CopyInv'
<1> SUFFICES ASSUME CopyInv, DatabasesTypeOK, DatabasesTypeOK', [DatabasesNext]_databasesVars
             PROVE  CopyInv'
  BY DatabasesStepType DEF CopyInv
<1>1. host \in [Host -> HostRecord(backups)] /\ lost = {}
  BY DEF DatabasesTypeOK, CopyInv
<1>2. ASSUME NEW h \in Host, StartHost(h) PROVE CopyInv'
  BY <1>2, NothingCopied DEF StartHost, Does, Down
<1>3. ASSUME NEW h \in Host, ReadApplied(h) PROVE CopyInv'
  <2> DEFINE record == [host[h] EXCEPT !.at = "migrate", !.seen = rows[Current(h)]]
  <2>1. record.at = "migrate" /\ host' = [host EXCEPT ![h] = record]
    BY <1>1, <1>3 DEF ReadApplied, Does, HostRecord
  <2> HIDE DEF record
  <2> QED
    BY <1>3, <2>1, NothingCopied DEF ReadApplied
<1>4. ASSUME NEW h \in Host, Migrate(h) PROVE CopyInv'
  <2> DEFINE v == Lowest(Unapplied(h))
             record == IF v \in rows[Current(h)] THEN Down
                       ELSE [host[h] EXCEPT !.seen = @ \cup {v}]
  <2>1. host[h].at = "migrate" /\ host' = [host EXCEPT ![h] = record]
    BY <1>4 DEF Migrate, Does
  <2>2. record.at \in {"down", "migrate"}
    BY <1>1, <2>1 DEF HostRecord, Down
  <2> HIDE DEF record
  <2> QED
    BY <1>4, <2>1, <2>2, NothingCopied DEF Migrate
<1>5. ASSUME NEW h \in Host, NextDatabase(h) PROVE CopyInv'
  <2> DEFINE record == IF AtLast(h) THEN [Down EXCEPT !.at = "up"]
                       ELSE [host[h] EXCEPT !.at = "read", !.place = @ + 1, !.seen = {}]
  <2>1. host' = [host EXCEPT ![h] = record]
    BY <1>5 DEF NextDatabase, Does
  <2>2. record.at \in {"up", "read"}
    BY <1>1 DEF HostRecord, Down
  <2> HIDE DEF record
  <2> QED
    BY <1>5, <2>1, <2>2, NothingCopied DEF NextDatabase
<1>6. ASSUME NEW h \in Host, NEW d \in Names, Write(h, d) PROVE CopyInv'
  <2>1. /\ UNCHANGED <<backups, lost>> /\ content' = [content EXCEPT ![d] = writes + 1]
        /\ host' = [k \in Host |-> [host[k] EXCEPT !.late = @ \cup {d}]]
    BY <1>6 DEF Write
  <2>2. ASSUME NEW k \in Host PROVE Copied(k)'
    <3>1. host[k] \in HostRecord(backups) /\ host'[k] = [host[k] EXCEPT !.late = @ \cup {d}]
      BY <1>1, <2>1
    <3>2. /\ host'[k].at = host[k].at /\ host'[k].place = host[k].place
          /\ host'[k].files = host[k].files /\ host'[k].from = host[k].from
          /\ host'[k].late = host[k].late \cup {d}
      BY <3>1 DEF HostRecord
    <3>3. \A e \in Names : content'[e] = content[e] \/ e \in host'[k].late
      BY <2>1, <3>2 DEF DatabasesTypeOK
    <3> QED
      BY <2>1, <3>2, <3>3, StillCopied
  <2> QED
    BY <1>1, <2>1, <2>2 DEF CopyInv
<1>7. ASSUME NEW h \in Host, BeginCreate(h) PROVE CopyInv'
  BY <1>7, NothingCopied DEF BeginCreate, Does, Down
<1>8. ASSUME NEW h \in Host, NEW b \in backups, BeginRestore(h, b) PROVE CopyInv'
  BY <1>8, NothingCopied DEF BeginRestore, Does, Down
<1>9. ASSUME NEW h \in Host, CopyDatabase(h) PROVE CopyInv'
  <2> DEFINE d == Current(h)
             files == Append(host[h].files, FileOf(d))
  <2>1. /\ host[h].at = "create" /\ host[h] \in HostRecord(backups)
        /\ backups' = IF AtLast(h) THEN backups \cup {files} ELSE backups
        /\ UNCHANGED <<content, lost>>
    BY <1>1, <1>9 DEF CopyDatabase
  <2>2. /\ d \in Names /\ d = Database[host[h].place] /\ host[h].place \in 1 .. Len(Database)
        /\ FilesFit(host[h].files, writes) /\ Len(host[h].files) = host[h].place - 1
        /\ FileOf(d) \in FileRecord /\ FileOf(d).content = content[d]
    BY <2>1, CurrentIn, CopiesFit DEF FileOf, DatabasesTypeOK, HostFits
  <2>3. /\ files[host[h].place].content = content[d]
        /\ \A i \in 1 .. Len(Database) : i < host[h].place => files[i] = host[h].files[i]
    <3> HIDE DEF d
    <3> DEFINE f == FileOf(d)
    <3>1. f \in FileRecord /\ host[h].files \in Seq(FileRecord) /\ f.content = content[d]
      BY <2>2 DEF FilesFit
    <3> HIDE DEF f
    <3>2. /\ Append(host[h].files, f)[Len(host[h].files) + 1] = f
          /\ \A i \in 1 .. Len(host[h].files) : Append(host[h].files, f)[i] = host[h].files[i]
      BY <3>1
    <3>3. /\ Len(host[h].files) + 1 = host[h].place
          /\ \A i \in 1 .. Len(Database) : i < host[h].place => i \in 1 .. Len(host[h].files)
      BY <2>2, DatabaseFacts
    <3> QED
      BY <3>1, <3>2, <3>3 DEF f
  <2>4. \A i \in 1 .. Len(Database) : i < host[h].place =>
          /\ Database[i] # d
          /\ Safe(h, Database[i]) \/ files[i].content = content[Database[i]]
    <3> TAKE i \in 1 .. Len(Database)
    <3> HAVE i < host[h].place
    <3>1. Database[i] # d
      BY <2>2, DatabaseFacts
    <3>2. Safe(h, Database[i]) \/ host[h].files[i].content = content[Database[i]]
      BY <2>1 DEF CopyInv, Copied
    <3> QED
      BY <2>3, <3>1, <3>2
  <2> HIDE DEF files, d
  <2>5. CASE ~AtLast(h)
    <3> DEFINE record == [host[h] EXCEPT !.place = @ + 1, !.files = files, !.late = @ \ {d}]
    <3>1. host' = [host EXCEPT ![h] = record] /\ backups' = backups
      BY <1>9, <2>1, <2>5 DEF CopyDatabase, Does, d, files
    <3>2. /\ host'[h].at = "create" /\ host'[h].place = host[h].place + 1
          /\ host'[h].files = files /\ host'[h].late = host[h].late \ {d}
      BY <1>1, <2>1, <3>1 DEF HostRecord
    <3>3. ASSUME NEW i \in 1 .. Len(Database), i < host[h].place + 1
          PROVE  Safe(h, Database[i])' \/ files[i].content = content[Database[i]]
      <4>1. CASE i = host[h].place
        BY <2>2, <2>3, <4>1
      <4>2. CASE i < host[h].place
        BY <2>1, <2>4, <3>1, <3>2, <4>2 DEF Safe
      <4> QED
        BY <2>2, <3>3, <4>1, <4>2
    <3>4. Copied(h)'
      BY <2>1, <3>2, <3>3 DEF Copied
    <3> QED
      BY <1>1, <2>1, <3>1, <3>4, OneCopies
  <2>6. CASE AtLast(h) /\ host[h].from = <<>>
    BY <1>9, <2>1, <2>6, NothingCopied DEF CopyDatabase, Does, Down
  <2>7. CASE AtLast(h) /\ host[h].from # <<>>
    <3> DEFINE record == [host[h] EXCEPT !.at = "replace", !.place = 1, !.late = @ \ {d}]
    <3>1. host' = [host EXCEPT ![h] = record] /\ backups' = backups \cup {files}
      BY <1>9, <2>1, <2>7 DEF CopyDatabase, Does, d, files
    <3>2. host'[h].at = "replace" /\ host'[h].late = host[h].late \ {d}
      BY <1>1, <2>1, <3>1 DEF HostRecord
    <3>3. ASSUME NEW i \in 1 .. Len(Database)
          PROVE  Safe(h, Database[i])'
      <4>1. files[i].content = content[Database[i]] => Backed(backups', Database[i], content[Database[i]])
        BY <3>1 DEF Backed
      <4>2. CASE i = host[h].place
        BY <2>1, <2>2, <2>3, <4>1, <4>2 DEF Safe
      <4>3. CASE i < host[h].place
        BY <2>1, <2>4, <3>1, <3>2, <4>1, <4>3 DEF Safe, Backed
      <4>4. i = host[h].place \/ i < host[h].place
        <5>1. host[h].place = Len(Database)
          BY <2>7 DEF AtLast
        <5>2. Len(Database) \in Nat
          BY DatabaseFacts
        <5> QED
          BY <3>3, <5>1, <5>2
      <4> QED
        BY <4>2, <4>3, <4>4
    <3>4. Copied(h)'
      BY <3>2, <3>3, DatabaseFacts DEF Copied
    <3> QED
      BY <1>1, <2>1, <3>1, <3>4, OneCopies
  <2> QED
    BY <2>5, <2>6, <2>7
<1>10. ASSUME NEW h \in Host, ReplaceDatabase(h) PROVE CopyInv'
  <2> DEFINE d == Current(h)
             file == host[h].from[host[h].place]
  <2>1. /\ host[h].at = "replace" /\ host[h] \in HostRecord(backups) /\ UNCHANGED backups
        /\ lost' = IF Held(d, content[d]) \/ d \in host[h].late THEN lost ELSE lost \cup {d}
    BY <1>1, <1>10 DEF ReplaceDatabase
  <2>2. /\ host[h].from \in backups /\ host[h].place \in 1 .. Len(Database)
        /\ d = Database[host[h].place] /\ d \in Names
        /\ content' = [content EXCEPT ![d] = file.content]
    BY <1>10, ReplacedFits
  <2>3. \A e \in Names : Safe(h, e)
    BY <2>1 DEF CopyInv, Copied
  <2>4. lost' = {}
    BY <1>1, <2>1, <2>2, <2>3 DEF Safe, Held, Backed
  <2>5. \A e \in Names : content'[e] = content[e] \/ Backed(backups', e, content'[e])
    <3>1. Backed(backups', d, file.content)
      BY <2>1, <2>2 DEF Backed
    <3>2. content \in [Names -> Nat]
      BY DEF DatabasesTypeOK
    <3> HIDE DEF d, file
    <3> QED
      BY <2>2, <3>1, <3>2
  <2>6. CASE AtLast(h)
    <3>1. host' = [host EXCEPT ![h] = Down]
      BY <1>10, <2>6 DEF ReplaceDatabase, Does
    <3>2. host'[h].at = "down"
      BY <1>1, <3>1 DEF Down
    <3>3. Copied(h)'
      BY <3>2 DEF Copied
    <3> QED
      BY <2>1, <2>4, <2>5, <3>1, <3>3, OneCopies
  <2>7. CASE ~AtLast(h)
    <3> DEFINE record == [host[h] EXCEPT !.place = @ + 1]
    <3>1. host' = [host EXCEPT ![h] = record]
      BY <1>10, <2>7 DEF ReplaceDatabase, Does
    <3>2. host'[h].at = "replace" /\ host'[h].late = host[h].late
      BY <1>1, <2>1, <3>1 DEF HostRecord
    <3>3. Copied(h)'
      BY <2>1, <2>3, <2>5, <3>2 DEF Copied, Safe
    <3> QED
      BY <2>1, <2>4, <2>5, <3>1, <3>3, OneCopies
  <2> QED
    BY <2>6, <2>7
<1>11. ASSUME NEW h \in Host, HostEnds(h) PROVE CopyInv'
  BY <1>11, NothingCopied DEF HostEnds, Does, Down
<1>12. CASE UNCHANGED databasesVars
  BY <1>12 DEF databasesVars, CopyInv, Copied, Safe
<1> QED
  BY <1>2, <1>3, <1>4, <1>5, <1>6, <1>7, <1>8, <1>9, <1>10, <1>11, <1>12 DEF DatabasesNext

\* For every set of databases and every interleaving of processes that migrate,
\* back up, restore and write: a process on its own files serves migrated
\* databases, and what a restore replaces is in a backup.
THEOREM DatabasesKept == DatabasesSpec => []DatabasesAreKept
<1>1. DatabasesInit => MigrateInv /\ CopyInv
  BY DatabasesInitType DEF DatabasesInit, MigrateInv, Migrated, Running, CopyInv, Copied, Down
<1>2. MigrateInv /\ CopyInv => DatabasesAreKept
  BY DEF DatabasesAreKept, ServedIsMigrated, RestoreCanBeUndone, MigrateInv, Migrated, Full, CopyInv
<1> QED
  BY <1>1, <1>2, StepMigrate, StepCopy, PTL DEF DatabasesSpec

-----------------------------------------------------------------------------
(* Providers.                                                              *)

LEMMA ProviderBounds ==
  /\ MaxRoutes \in Nat /\ MaxStoreErrors \in Nat /\ MaxEdits \in Nat
  /\ "none" \notin Kind /\ "none" \notin ProviderId /\ Catalogue \in [Kind -> SUBSET ModelName]
  BY ProvidersAssumption

Distinct(s) == \A i, j \in DOMAIN s : s[i] = s[j] => i = j

\* What is left of candidates when the first has been tried.
LEMMA TailFacts ==
  ASSUME NEW S, NEW s \in Seq(S), s # <<>>
  PROVE  /\ Tail(s) \in Seq(S) /\ Head(s) \in S /\ Head(s) \in ToSet(s)
         /\ Distinct(s) => Distinct(Tail(s)) /\ ToSet(Tail(s)) = ToSet(s) \ {Head(s)}
<1>1. /\ Tail(s) \in Seq(S) /\ Head(s) \in S /\ Head(s) = s[1] /\ Len(s) \in Nat \ {0}
      /\ Len(Tail(s)) = Len(s) - 1 /\ \A i \in 1 .. Len(s) - 1 : Tail(s)[i] = s[i + 1]
      /\ DOMAIN s = 1 .. Len(s) /\ DOMAIN Tail(s) = 1 .. Len(s) - 1
  OBVIOUS
<1> DEFINE t == Tail(s)
           first == Head(s)
<1> HIDE DEF t, first
<1>2. ASSUME Distinct(s) PROVE Distinct(t)
  BY <1>1, <1>2 DEF Distinct, t
<1>3. ASSUME Distinct(s) PROVE ToSet(t) = ToSet(s) \ {first}
  <2>1. ASSUME NEW x \in ToSet(t) PROVE x \in ToSet(s) \ {first}
    <3>1. PICK i \in 1 .. Len(s) - 1 : x = s[i + 1]
      BY <1>1, <2>1 DEF ToSet, t
    <3>2. i + 1 \in DOMAIN s /\ 1 \in DOMAIN s /\ i + 1 # 1
      BY <1>1
    <3> QED
      BY <1>1, <1>3, <3>1, <3>2 DEF ToSet, Distinct, first
  <2>2. ASSUME NEW x \in ToSet(s), x # first PROVE x \in ToSet(t)
    <3>1. PICK i \in 1 .. Len(s) : x = s[i]
      BY <1>1, <2>2 DEF ToSet
    <3>2. i # 1 /\ i - 1 \in 1 .. Len(s) - 1 /\ (i - 1) + 1 = i
      BY <1>1, <2>2, <3>1 DEF first
    <3>3. i - 1 \in DOMAIN t /\ t[i - 1] = x
      BY <1>1, <3>1, <3>2 DEF t
    <3> QED
      BY <3>3 DEF ToSet
  <2> QED
    BY <2>1, <2>2
<1>4. first \in ToSet(s)
  BY <1>1 DEF ToSet, first
<1> QED
  BY <1>1, <1>2, <1>3, <1>4 DEF t, first

LEMMA RankedFacts ==
  ASSUME ProvidersTypeOK, NEW manual, NEW order \in Ranked(manual)
  PROVE  order \in Seq(ModelRow) /\ Distinct(order)
<1>1. Eligible(manual) \subseteq models
  BY DEF Eligible
<1>2. IsFiniteSet(Eligible(manual)) /\ Eligible(manual) \subseteq ModelRow
  BY <1>1, FS_Subset DEF ProvidersTypeOK
<1>3. Cardinality(Eligible(manual)) \in Nat
  BY <1>2, FS_CardinalityType
<1>4. order \in SetToSeqs(Eligible(manual))
  BY DEF Ranked
<1>5. /\ order \in [1 .. Cardinality(Eligible(manual)) -> Eligible(manual)]
      /\ \A i, j \in 1 .. Cardinality(Eligible(manual)) : i # j => order[i] # order[j]
  BY <1>4 DEF SetToSeqs
<1> QED
  BY <1>2, <1>3, <1>5 DEF Distinct

\* The rows that the tables start with and get.
LEMMA RowFacts ==
  /\ NoRow \notin ProviderRow
  /\ \A kind \in Kind, url \in Addresses \cup {"none"}, on \in BOOLEAN :
       NewRow(kind, url, on) \in ProviderRow
  /\ NoRoute \in RouteRecord /\ NoRoute.at = "idle" /\ NoRoute.request = 0
  /\ NoLink \in LinkRecord /\ NoLink.at = "idle"
<1>1. NoRow \notin ProviderRow
  BY ProviderBounds DEF NoRow, ProviderRow
<1>2. \A kind \in Kind, url \in Addresses \cup {"none"}, on \in BOOLEAN :
       NewRow(kind, url, on) \in ProviderRow
  BY DEF NewRow, ProviderRow, Given, Addresses
<1>3. NoRoute \in RouteRecord /\ NoRoute.at = "idle" /\ NoRoute.request = 0
  BY DEF NoRoute, RouteRecord
<1>4. NoLink \in LinkRecord /\ NoLink.at = "idle"
  BY DEF NoLink, LinkRecord
<1> QED
  BY <1>1, <1>2, <1>3, <1>4

LEMMA ProvidersInitType == ProvidersInit => ProvidersTypeOK
<1> SUFFICES ASSUME ProvidersInit PROVE ProvidersTypeOK
  OBVIOUS
<1>1. PICK kind \in Kind, p \in ProviderId, name \in ModelName :
        /\ providers = [q \in ProviderId |-> IF q = p THEN NewRow(kind, "none", TRUE) ELSE NoRow]
        /\ models = {[provider |-> p, name |-> name, on |-> TRUE, cost |-> 0,
                      caps |-> {"text", "tools"}, priority |-> 100]}
  BY DEF ProvidersInit
<1> DEFINE row == [provider |-> p, name |-> name, on |-> TRUE, cost |-> 0,
                   caps |-> {"text", "tools"}, priority |-> 100]
<1>2. row \in ModelRow /\ row.provider = p
  BY DEF ModelRow
<1>3. IsFiniteSet(models) /\ models = {row}
  BY <1>1, FS_Singleton
<1>4. providers \in [ProviderId -> ProviderRow \cup {NoRow}] /\ p \in Rows
  BY <1>1, RowFacts DEF Rows
<1> HIDE DEF row
<1>5. /\ routes \in 0 .. MaxRoutes /\ storeErrors \in 0 .. MaxStoreErrors /\ edits \in 0 .. MaxEdits
      /\ \A r \in Routing : route[r].request <= routes
  BY ProviderBounds, RowFacts DEF ProvidersInit
<1>6. /\ route \in [Routing -> RouteRecord] /\ link \in [Connecting -> LinkRecord]
      /\ \A r \in Routing : route[r].at = "idle"
      /\ \A c \in Connecting : link[c].at = "idle"
  BY RowFacts DEF ProvidersInit
<1>7. rule \in Rule /\ usage = {}
  BY DEF ProvidersInit
<1> QED
  BY <1>2, <1>3, <1>4, <1>5, <1>6, <1>7 DEF ProvidersTypeOK

\* A route goes on, and the tables and links stay as they are, but for the health
\* of providers and a row of usage.
LEMMA RouteGoesType ==
  ASSUME ProvidersTypeOK, NEW r \in Routing, NEW record \in RouteRecord, Proceeds(r, record),
         record.at \in {"call", "book", "fail", "mark", "note"} => record.left # <<>>,
         record.request <= routes', routes <= routes', routes' \in 0 .. MaxRoutes,
         storeErrors' \in 0 .. MaxStoreErrors, UNCHANGED <<models, rule, edits, link>>,
         providers' \in [ProviderId -> ProviderRow \cup {NoRow}],
         \A p \in ProviderId : providers'[p] # NoRow <=> providers[p] # NoRow,
         usage' \subseteq Routing \X Nat \X ModelRow \X {"success", "failed"},
         \A u \in usage' : u[2] <= routes'
  PROVE  ProvidersTypeOK'
<1>1. /\ route \in [Routing -> RouteRecord] /\ routes \in Nat /\ routes' \in Nat
      /\ \A q \in Routing : route[q].request \in Nat /\ route[q].request <= routes
  BY ProviderBounds DEF ProvidersTypeOK, RouteRecord
<1>2. route' = [route EXCEPT ![r] = record] /\ record.request \in Nat
  BY DEF Proceeds, RouteRecord
<1>3. /\ route' \in [Routing -> RouteRecord]
      /\ \A q \in Routing : route'[q].at \in {"call", "book", "fail", "mark", "note"} =>
           route'[q].left # <<>>
  BY <1>1, <1>2 DEF ProvidersTypeOK
<1>4. ASSUME NEW q \in Routing PROVE route'[q].request <= routes'
  <2>1. CASE q = r
    BY <1>1, <1>2, <2>1
  <2>2. CASE q # r
    BY <1>1, <1>2, <2>2
  <2> QED
    BY <2>1, <2>2
<1>5. \A m \in models' : m.provider \in Rows'
  BY DEF Rows, ProvidersTypeOK
<1> QED
  BY <1>3, <1>4, <1>5 DEF ProvidersTypeOK

\* What a route at its place is, with a new place.
LEMMA RouteFields ==
  ASSUME ProvidersTypeOK, NEW r \in Routing
  PROVE  /\ route[r] \in RouteRecord /\ route[r].request \in Nat /\ route[r].request <= routes
         /\ route[r].all \in Seq(ModelRow) /\ route[r].left \in Seq(ModelRow)
         /\ route[r].test \in BOOLEAN /\ route[r].count \in Nat
         /\ route[r].left # <<>> => Tried(r) \in ModelRow
<1>1. route[r] \in RouteRecord /\ route[r].request <= routes
  BY DEF ProvidersTypeOK
<1>2. route[r].left \in Seq(ModelRow)
  BY <1>1 DEF RouteRecord
<1>3. route[r].left # <<>> => Tried(r) \in ModelRow
  BY <1>2 DEF Tried
<1> QED
  BY <1>1, <1>3 DEF RouteRecord

LEMMA MarkedFacts ==
  ASSUME ProvidersTypeOK, NEW p, NEW health \in {"unknown", "healthy", "degraded", "unhealthy"},
         NEW failures \in Nat
  PROVE  /\ Marked(p, health, failures) \in [ProviderId -> ProviderRow \cup {NoRow}]
         /\ \A q \in ProviderId :
              /\ Marked(p, health, failures)[q] # NoRow <=> providers[q] # NoRow
              /\ Marked(p, health, failures)[q].kind = providers[q].kind
<1> DEFINE row == [providers[p] EXCEPT !.health = health, !.failures = failures]
<1>1. providers \in [ProviderId -> ProviderRow \cup {NoRow}]
  BY DEF ProvidersTypeOK
<1>2. CASE p \notin Rows
  BY <1>1, <1>2 DEF Marked
<1>3. CASE p \in Rows
  <2>1. p \in ProviderId /\ providers[p] \in ProviderRow
    BY <1>1, <1>3 DEF Rows
  <2>2. row \in ProviderRow /\ row.kind = providers[p].kind
    BY <2>1 DEF ProviderRow
  <2>3. Marked(p, health, failures) = [providers EXCEPT ![p] = row]
    BY <1>3 DEF Marked
  <2>4. row # NoRow /\ providers[p] # NoRow
    BY <2>1, <2>2, RowFacts
  <2> HIDE DEF row
  <2> QED
    BY <1>1, <2>1, <2>2, <2>3, <2>4
<1> QED
  BY <1>2, <1>3

LEMMA MarkedRows ==
  ASSUME ProvidersTypeOK, NEW p, NEW health \in {"unknown", "healthy", "degraded", "unhealthy"},
         NEW failures \in Nat, providers' = Marked(p, health, failures)
  PROVE  /\ providers' \in [ProviderId -> ProviderRow \cup {NoRow}]
         /\ \A q \in ProviderId : /\ providers'[q] # NoRow <=> providers[q] # NoRow
                                  /\ providers'[q].kind = providers[q].kind
  BY MarkedFacts

LEMMA BooksType ==
  ASSUME ProvidersTypeOK, NEW r \in Routing, route[r].left # <<>>,
         NEW status \in {"success", "failed"},
         usage' = usage \cup {<<r, route[r].request, Tried(r), status>>}, UNCHANGED routes
  PROVE  /\ usage' \subseteq Routing \X Nat \X ModelRow \X {"success", "failed"}
         /\ \A u \in usage' : u[2] <= routes'
<1>1. /\ <<r, route[r].request, Tried(r), status>> \in Routing \X Nat \X ModelRow \X {"success", "failed"}
      /\ route[r].request <= routes
  BY RouteFields
<1> QED
  BY <1>1 DEF ProvidersTypeOK

\* A link goes on, and the routes stay as they are.
LEMMA LinkGoesType ==
  ASSUME ProvidersTypeOK, NEW c \in Connecting, NEW record \in LinkRecord, Links(c, record),
         record.at # "idle" => record.kind \in Kind,
         record.at \in {"discover", "model"} => record.id \in ProviderId,
         record.at = "model" => record.name \in ModelName
  PROVE  /\ link' \in [Connecting -> LinkRecord]
         /\ \A d \in Connecting : /\ link'[d].at # "idle" => link'[d].kind \in Kind
                                  /\ link'[d].at \in {"discover", "model"} => link'[d].id \in ProviderId
                                  /\ link'[d].at = "model" => link'[d].name \in ModelName
  BY DEF ProvidersTypeOK, Links

\* A step of a route changes no row of a provider but its health.
LEMMA RouteStepType ==
  ASSUME ProvidersTypeOK, NEW r \in Routing, RouteStep(r)
  PROVE  ProvidersTypeOK'
<1>1. /\ route[r] \in RouteRecord /\ route[r].request \in Nat /\ route[r].request <= routes
      /\ routes \in Nat /\ routes \in 0 .. MaxRoutes /\ storeErrors \in 0 .. MaxStoreErrors
      /\ providers \in [ProviderId -> ProviderRow \cup {NoRow}]
      /\ usage \subseteq Routing \X Nat \X ModelRow \X {"success", "failed"}
      /\ \A u \in usage : u[2] <= routes
      /\ route[r].at \in {"call", "book", "fail", "mark", "note"} => route[r].left # <<>>
  BY RouteFields, ProviderBounds DEF ProvidersTypeOK
<1>2. /\ UNCHANGED boundVars => UNCHANGED <<routes, storeErrors, edits>>
      /\ UNCHANGED tableVars => UNCHANGED <<providers, models, rule, usage>>
      /\ StoreFails => UNCHANGED <<routes, edits>> /\ storeErrors' \in 0 .. MaxStoreErrors
  BY <1>1, ProviderBounds DEF boundVars, tableVars, StoreFails
\* The record that goes on with another place and another result.
<1>3. ASSUME NEW place \in {"next", "call", "book", "fail", "mark", "note", "ended"},
             NEW result \in {"none", "legacy", "exhausted", "raised", "answer", "failed"}
      PROVE  LET record == [route[r] EXCEPT !.at = place, !.result = result]
             IN /\ record \in RouteRecord /\ record.at = place
                /\ record.left = route[r].left /\ record.request = route[r].request
  BY <1>1 DEF RouteRecord
<1>4. ASSUME NEW place \in {"next", "call", "book", "fail", "mark", "note", "ended"}
      PROVE  LET record == [route[r] EXCEPT !.at = place]
             IN /\ record \in RouteRecord /\ record.at = place
                /\ record.left = route[r].left /\ record.request = route[r].request
  BY <1>1 DEF RouteRecord
<1>5. CASE NextModel(r)
  <2>1. UNCHANGED <<providers, models, rule, usage, routes, storeErrors, edits, link>>
    BY <1>2, <1>5 DEF NextModel
  <2>2. CASE route[r].left = <<>>
    <3> DEFINE result == IF route[r].all = <<>> THEN "legacy" ELSE "exhausted"
               record == [route[r] EXCEPT !.at = "ended", !.result = result]
    <3>1. Proceeds(r, record)
      BY <1>5, <2>2 DEF NextModel
    <3>2. record \in RouteRecord /\ record.at = "ended" /\ record.request = route[r].request
      BY <1>3
    <3> HIDE DEF record
    <3> QED
      BY <1>1, <2>1, <3>1, <3>2, RouteGoesType
  <2>3. CASE route[r].left # <<>> /\ Tried(r).provider \notin Rows
    <3> DEFINE record == [route[r] EXCEPT !.at = "ended", !.result = "raised"]
    <3>1. Proceeds(r, record)
      BY <1>5, <2>3 DEF NextModel
    <3>2. record \in RouteRecord /\ record.at = "ended" /\ record.request = route[r].request
      BY <1>3
    <3> HIDE DEF record
    <3> QED
      BY <1>1, <2>1, <3>1, <3>2, RouteGoesType
  <2>4. CASE route[r].left # <<>> /\ Tried(r).provider \in Rows
    <3> DEFINE record == [route[r] EXCEPT !.at = "call"]
    <3>1. Proceeds(r, record)
      BY <1>5, <2>4 DEF NextModel
    <3>2. /\ record \in RouteRecord /\ record.request = route[r].request
          /\ record.left # <<>>
      BY <1>4, <2>4
    <3> HIDE DEF record
    <3> QED
      BY <1>1, <2>1, <3>1, <3>2, RouteGoesType
  <2> QED
    BY <2>2, <2>3, <2>4
<1>6. CASE CallAnswers(r)
  <2>1. PICK p : p = Tried(r).provider
    OBVIOUS
  <2>2. PICK health \in {"unknown", "healthy", "degraded", "unhealthy"} : health = "healthy"
    OBVIOUS
  <2>3. PICK failures \in Nat : failures = 0
    OBVIOUS
  <2>4. /\ providers' = Marked(p, health, failures) /\ route[r].left # <<>>
        /\ UNCHANGED <<models, rule, usage, routes, storeErrors, edits, link>>
    BY <1>1, <1>2, <1>6, <2>1, <2>2, <2>3 DEF CallAnswers, RouteAt
  <2>5. /\ providers' \in [ProviderId -> ProviderRow \cup {NoRow}]
        /\ \A q \in ProviderId : providers'[q] # NoRow <=> providers[q] # NoRow
    BY <2>2, <2>3, <2>4, MarkedRows
  <2>6. CASE route[r].test
    <3> DEFINE record == [route[r] EXCEPT !.at = "ended", !.result = "answer"]
    <3>1. Proceeds(r, record)
      BY <1>6, <2>6 DEF CallAnswers
    <3>2. record \in RouteRecord /\ record.request = route[r].request /\ record.left = route[r].left
      BY <1>3
    <3> HIDE DEF record
    <3> QED
      BY <1>1, <2>4, <2>5, <3>1, <3>2, RouteGoesType
  <2>7. CASE ~route[r].test
    <3> DEFINE record == [route[r] EXCEPT !.at = "book"]
    <3>1. Proceeds(r, record)
      BY <1>1, <1>6, <2>7 DEF CallAnswers, RouteRecord
    <3>2. record \in RouteRecord /\ record.request = route[r].request /\ record.left = route[r].left
      BY <1>4
    <3> HIDE DEF record
    <3> QED
      BY <1>1, <2>4, <2>5, <3>1, <3>2, RouteGoesType
  <2> QED
    BY <2>6, <2>7
<1>7. CASE CallFails(r)
  <2> DEFINE record == [route[r] EXCEPT !.at = "fail"]
  <2>1. /\ Proceeds(r, record) /\ route[r].left # <<>>
        /\ UNCHANGED <<providers, models, rule, usage, routes, storeErrors, edits, link>>
    BY <1>1, <1>2, <1>7 DEF CallFails, RouteAt
  <2>2. record \in RouteRecord /\ record.request = route[r].request /\ record.left = route[r].left
    BY <1>4
  <2> HIDE DEF record
  <2> QED
    BY <1>1, <2>1, <2>2, RouteGoesType
<1>8. CASE BookAnswer(r)
  <2>1. /\ route[r].left # <<>> /\ UNCHANGED <<providers, models, rule, link>>
    BY <1>1, <1>2, <1>8 DEF BookAnswer, RouteAt
  <2>2. CASE /\ usage' = usage \cup {<<r, route[r].request, Tried(r), "success">>}
             /\ Proceeds(r, [route[r] EXCEPT !.at = "ended", !.result = "answer"])
             /\ UNCHANGED boundVars
    <3> DEFINE record == [route[r] EXCEPT !.at = "ended", !.result = "answer"]
    <3>1. record \in RouteRecord /\ record.request = route[r].request /\ record.left = route[r].left
      BY <1>3
    <3>2. Proceeds(r, record) /\ UNCHANGED <<routes, storeErrors, edits>>
      BY <1>2, <2>2
    <3>3. /\ usage' \subseteq Routing \X Nat \X ModelRow \X {"success", "failed"}
          /\ \A u \in usage' : u[2] <= routes'
      BY <2>1, <2>2, <3>2, BooksType
    <3> HIDE DEF record
    <3> QED
      BY <1>1, <2>1, <3>1, <3>2, <3>3, RouteGoesType
  <2>3. CASE StoreFails /\ UNCHANGED usage /\ Proceeds(r, [route[r] EXCEPT !.at = "fail"])
    <3> DEFINE record == [route[r] EXCEPT !.at = "fail"]
    <3>1. record \in RouteRecord /\ record.request = route[r].request /\ record.left = route[r].left
      BY <1>4
    <3>2. /\ Proceeds(r, record) /\ UNCHANGED <<usage, routes, edits>>
          /\ storeErrors' \in 0 .. MaxStoreErrors
      BY <1>2, <2>3
    <3> HIDE DEF record
    <3> QED
      BY <1>1, <2>1, <3>1, <3>2, RouteGoesType
  <2> QED
    BY <1>8, <2>2, <2>3 DEF BookAnswer
<1>9. CASE CountFailures(r)
  <2> DEFINE count == IF Tried(r).provider \in Rows
                      THEN providers[Tried(r).provider].failures + 1 ELSE 1
             record == [route[r] EXCEPT !.at = "mark", !.count = count]
  <2>1. /\ Proceeds(r, record) /\ route[r].left # <<>>
        /\ UNCHANGED <<providers, models, rule, usage, routes, storeErrors, edits, link>>
    BY <1>1, <1>2, <1>9 DEF CountFailures, RouteAt
  <2>2. count \in Nat
    BY <1>1 DEF Rows, ProviderRow
  <2> HIDE DEF count
  <2>3. record \in RouteRecord /\ record.request = route[r].request /\ record.left = route[r].left
    BY <1>1, <2>2 DEF RouteRecord
  <2> HIDE DEF record
  <2> QED
    BY <1>1, <2>1, <2>3, RouteGoesType
<1>10. CASE MarkFailure(r)
  <2>1. PICK p : p = Tried(r).provider
    OBVIOUS
  <2>2. PICK failures \in Nat : failures = route[r].count
    BY RouteFields
  <2>3. PICK health \in {"unknown", "healthy", "degraded", "unhealthy"} :
          health = IF failures < 3 THEN "degraded" ELSE "unhealthy"
    OBVIOUS
  <2>4. /\ providers' = Marked(p, health, failures) /\ route[r].left # <<>>
        /\ UNCHANGED <<models, rule, usage, routes, storeErrors, edits, link>>
    BY <1>1, <1>2, <1>10, <2>1, <2>2, <2>3 DEF MarkFailure, RouteAt
  <2>5. /\ providers' \in [ProviderId -> ProviderRow \cup {NoRow}]
        /\ \A q \in ProviderId : providers'[q] # NoRow <=> providers[q] # NoRow
    <3>1. health \in {"unknown", "healthy", "degraded", "unhealthy"} /\ failures \in Nat
      BY <2>2, <2>3
    <3>2. providers' = Marked(p, health, failures)
      BY <2>4
    <3> QED
      BY <3>1, <3>2, MarkedRows
  <2>6. CASE route[r].test
    <3> DEFINE record == [route[r] EXCEPT !.at = "ended", !.result = "failed"]
    <3>1. Proceeds(r, record)
      BY <1>10, <2>6 DEF MarkFailure
    <3>2. record \in RouteRecord /\ record.request = route[r].request /\ record.left = route[r].left
      BY <1>3
    <3> HIDE DEF record
    <3> QED
      BY <1>1, <2>4, <2>5, <3>1, <3>2, RouteGoesType
  <2>7. CASE ~route[r].test
    <3> DEFINE record == [route[r] EXCEPT !.at = "note"]
    <3>1. Proceeds(r, record)
      BY <1>1, <1>10, <2>7 DEF MarkFailure, RouteRecord
    <3>2. record \in RouteRecord /\ record.request = route[r].request /\ record.left = route[r].left
      BY <1>4
    <3> HIDE DEF record
    <3> QED
      BY <1>1, <2>4, <2>5, <3>1, <3>2, RouteGoesType
  <2> QED
    BY <2>6, <2>7
<1>11. CASE NoteFailure(r)
  <2> DEFINE record == [route[r] EXCEPT !.at = "next", !.left = Tail(@)]
  <2>1. /\ Proceeds(r, record) /\ route[r].left # <<>>
        /\ usage' = usage \cup {<<r, route[r].request, Tried(r), "failed">>}
        /\ UNCHANGED <<providers, models, rule, routes, storeErrors, edits, link>>
    BY <1>1, <1>2, <1>11 DEF NoteFailure, RouteAt
  <2>2. Tail(route[r].left) \in Seq(ModelRow)
    BY <2>1, RouteFields
  <2>3. record \in RouteRecord /\ record.request = route[r].request /\ record.at = "next"
    BY <1>1, <2>2 DEF RouteRecord
  <2>4. /\ usage' \subseteq Routing \X Nat \X ModelRow \X {"success", "failed"}
        /\ \A u \in usage' : u[2] <= routes'
    BY <2>1, BooksType
  <2> HIDE DEF record
  <2> QED
    BY <1>1, <2>1, <2>3, <2>4, RouteGoesType
<1>12. CASE HandlerRaises(r)
  <2> DEFINE record == [route[r] EXCEPT !.at = "ended", !.result = "raised"]
  <2>1. /\ Proceeds(r, record) /\ storeErrors' \in 0 .. MaxStoreErrors
        /\ UNCHANGED <<providers, models, rule, usage, routes, edits, link>>
    BY <1>2, <1>12 DEF HandlerRaises
  <2>2. record \in RouteRecord /\ record.request = route[r].request /\ record.at = "ended"
    BY <1>3
  <2> HIDE DEF record
  <2> QED
    BY <1>1, <2>1, <2>2, RouteGoesType
<1> QED
  BY <1>5, <1>6, <1>7, <1>8, <1>9, <1>10, <1>11, <1>12 DEF RouteStep

\* The tables and the links change, and the routes stay as they are.
LEMMA TablesType ==
  ASSUME ProvidersTypeOK, UNCHANGED <<route, usage, routes, storeErrors>>, rule' \in Rule,
         providers' \in [ProviderId -> ProviderRow \cup {NoRow}],
         models' \subseteq ModelRow, IsFiniteSet(models'),
         \A m \in models' : m.provider \in Rows',
         \A m, n \in models' : m.provider = n.provider /\ m.name = n.name => m = n,
         link' \in [Connecting -> LinkRecord],
         \A d \in Connecting : /\ link'[d].at # "idle" => link'[d].kind \in Kind
                               /\ link'[d].at \in {"discover", "model"} => link'[d].id \in ProviderId
                               /\ link'[d].at = "model" => link'[d].name \in ModelName,
         edits' \in 0 .. MaxEdits
  PROVE  ProvidersTypeOK'
  BY DEF ProvidersTypeOK

LEMMA ModelsUnchanged ==
  ASSUME ProvidersTypeOK, UNCHANGED models,
         \A p \in ProviderId : providers[p] # NoRow => providers'[p] # NoRow
  PROVE  /\ models' \subseteq ModelRow /\ IsFiniteSet(models')
         /\ \A m \in models' : m.provider \in Rows'
         /\ \A m, n \in models' : m.provider = n.provider /\ m.name = n.name => m = n
  BY DEF ProvidersTypeOK, Rows

LEMMA LinksUnchanged ==
  ASSUME ProvidersTypeOK, UNCHANGED link
  PROVE  /\ link' \in [Connecting -> LinkRecord]
         /\ \A d \in Connecting : /\ link'[d].at # "idle" => link'[d].kind \in Kind
                                  /\ link'[d].at \in {"discover", "model"} => link'[d].id \in ProviderId
                                  /\ link'[d].at = "model" => link'[d].name \in ModelName
  BY DEF ProvidersTypeOK

LEMMA BeginRouteType ==
  ASSUME ProvidersTypeOK, NEW r \in Routing, NEW manual, BeginRoute(r, manual)
  PROVE  ProvidersTypeOK'
<1>1. PICK order \in Ranked(manual) :
        Proceeds(r, [NoRoute EXCEPT !.at = "next", !.request = routes + 1,
                                    !.all = order, !.left = order])
  BY DEF BeginRoute
<1>2. order \in Seq(ModelRow)
  BY RankedFacts
<1>3. /\ routes \in Nat /\ routes' = routes + 1 /\ routes' \in 0 .. MaxRoutes
      /\ storeErrors' \in 0 .. MaxStoreErrors
      /\ UNCHANGED <<providers, models, rule, usage, edits, link>>
  BY ProviderBounds DEF BeginRoute, ProvidersTypeOK, tableVars
<1> DEFINE record == [NoRoute EXCEPT !.at = "next", !.request = routes + 1,
                                     !.all = order, !.left = order]
<1>4. record \in RouteRecord /\ record.at = "next" /\ record.request = routes + 1
  <2>1. NoRoute \in RouteRecord /\ routes + 1 \in Nat
    BY <1>3, RowFacts
  <2> QED
    BY <1>2, <2>1 DEF RouteRecord
<1>5. /\ usage' \subseteq Routing \X Nat \X ModelRow \X {"success", "failed"}
      /\ \A u \in usage : u[2] \in Nat /\ u[2] <= routes
      /\ providers' \in [ProviderId -> ProviderRow \cup {NoRow}]
  BY <1>3 DEF ProvidersTypeOK
<1>6. \A u \in usage' : u[2] <= routes'
  BY <1>3, <1>5
<1>7. Proceeds(r, record)
  BY <1>1
<1> HIDE DEF record
<1> QED
  BY <1>3, <1>4, <1>5, <1>6, <1>7, RouteGoesType

LEMMA BeginTestType ==
  ASSUME ProvidersTypeOK, NEW r \in Routing, NEW m \in models, BeginTest(r, m)
  PROVE  ProvidersTypeOK'
<1>1. /\ routes \in Nat /\ routes' = routes + 1 /\ routes' \in 0 .. MaxRoutes
      /\ storeErrors' \in 0 .. MaxStoreErrors
      /\ UNCHANGED <<providers, models, rule, usage, edits, link>>
  BY ProviderBounds DEF BeginTest, ProvidersTypeOK, tableVars
<1> DEFINE record == [NoRoute EXCEPT !.at = "call", !.test = TRUE, !.left = <<m>>]
<1>2. m \in ModelRow /\ <<m>> \in Seq(ModelRow) /\ <<m>> # <<>>
  BY DEF ProvidersTypeOK
<1>3. record \in RouteRecord /\ record.left # <<>> /\ record.request = 0
  <2>1. NoRoute \in RouteRecord /\ NoRoute.request = 0
    BY RowFacts
  <2>2. PICK flag \in BOOLEAN : flag = TRUE
    OBVIOUS
  <2>3. LET step == [NoRoute EXCEPT !.at = "call", !.test = flag, !.left = <<m>>]
        IN step \in RouteRecord /\ step.left = <<m>> /\ step.request = 0
    BY <1>2, <2>1 DEF RouteRecord
  <2> QED
    BY <1>2, <2>2, <2>3
<1>4. /\ usage' \subseteq Routing \X Nat \X ModelRow \X {"success", "failed"}
      /\ \A u \in usage : u[2] \in Nat /\ u[2] <= routes
      /\ providers' \in [ProviderId -> ProviderRow \cup {NoRow}]
  BY <1>1 DEF ProvidersTypeOK
<1>5. \A u \in usage' : u[2] <= routes'
  BY <1>1, <1>4
<1>6. Proceeds(r, record)
  BY DEF BeginTest
<1> HIDE DEF record
<1> QED
  BY <1>1, <1>3, <1>4, <1>5, <1>6, RouteGoesType

LEMMA EndRouteType ==
  ASSUME ProvidersTypeOK, NEW r \in Routing, EndRoute(r)
  PROVE  ProvidersTypeOK'
<1>1. /\ UNCHANGED <<providers, models, rule, usage, routes, storeErrors, edits, link>>
      /\ Proceeds(r, NoRoute) /\ routes \in Nat
  BY ProviderBounds DEF EndRoute, ProvidersTypeOK, tableVars, boundVars
<1>2. /\ usage' \subseteq Routing \X Nat \X ModelRow \X {"success", "failed"}
      /\ \A u \in usage' : u[2] <= routes'
      /\ providers' \in [ProviderId -> ProviderRow \cup {NoRow}]
      /\ routes' \in 0 .. MaxRoutes /\ storeErrors' \in 0 .. MaxStoreErrors
  BY <1>1 DEF ProvidersTypeOK
<1> QED
  BY <1>1, <1>2, RowFacts, RouteGoesType

LEMMA EditsType ==
  ASSUME ProvidersTypeOK, Edits
  PROVE  edits' \in 0 .. MaxEdits /\ UNCHANGED <<routes, storeErrors>>
  BY ProviderBounds DEF ProvidersTypeOK, Edits

LEMMA DeleteProviderType ==
  ASSUME ProvidersTypeOK, NEW p \in ProviderId, DeleteProvider(p)
  PROVE  ProvidersTypeOK'
<1>1. /\ providers' = [providers EXCEPT ![p] = NoRow] /\ UNCHANGED <<rule, usage, route, link>>
      /\ models' = {m \in models : m.provider # p} /\ Edits
  BY DEF DeleteProvider
<1>2. providers' \in [ProviderId -> ProviderRow \cup {NoRow}] /\ rule' \in Rule
  BY <1>1 DEF ProvidersTypeOK
<1>3. IsFiniteSet(models')
  <2>1. models' \subseteq models /\ IsFiniteSet(models)
    BY <1>1 DEF ProvidersTypeOK
  <2> QED
    BY <2>1, FS_Subset
<1>4. \A m \in models' : m.provider \in Rows'
  BY <1>1 DEF Rows, ProvidersTypeOK
<1>5. /\ models' \subseteq ModelRow
      /\ \A m, n \in models' : m.provider = n.provider /\ m.name = n.name => m = n
  BY <1>1 DEF ProvidersTypeOK
<1> QED
  BY <1>1, <1>2, <1>3, <1>4, <1>5, EditsType, LinksUnchanged, TablesType

\* A provider gets another row of its kind.
LEMMA NewRowType ==
  ASSUME ProvidersTypeOK, NEW p \in ProviderId, NEW row \in ProviderRow,
         providers' = [providers EXCEPT ![p] = row]
  PROVE  /\ providers' \in [ProviderId -> ProviderRow \cup {NoRow}]
         /\ \A q \in ProviderId : providers[q] # NoRow => providers'[q] # NoRow
  BY RowFacts DEF ProvidersTypeOK

LEMMA RowIs ==
  ASSUME ProvidersTypeOK, NEW p \in Rows
  PROVE  p \in ProviderId /\ providers[p] \in ProviderRow
  BY DEF ProvidersTypeOK, Rows

LEMMA EditProviderType ==
  ASSUME ProvidersTypeOK, NEW p \in ProviderId, NEW on \in BOOLEAN, NEW url \in Addresses,
         EditProvider(p, on, url)
  PROVE  ProvidersTypeOK'
<1> DEFINE row == [providers[p] EXCEPT !.on = on, !.url = url]
<1>1. /\ providers' = [providers EXCEPT ![p] = row] /\ p \in Rows /\ Edits
      /\ UNCHANGED <<models, rule, usage, route, link>>
  BY DEF EditProvider
<1>2. row \in ProviderRow
  BY <1>1, RowIs DEF ProviderRow
<1> HIDE DEF row
<1>3. /\ providers' \in [ProviderId -> ProviderRow \cup {NoRow}]
      /\ \A q \in ProviderId : providers[q] # NoRow => providers'[q] # NoRow
  BY <1>1, <1>2, NewRowType
<1>4. rule' \in Rule
  BY <1>1 DEF ProvidersTypeOK
<1> QED
  BY <1>1, <1>3, <1>4, EditsType, LinksUnchanged, ModelsUnchanged, TablesType

LEMMA AddProviderType ==
  ASSUME ProvidersTypeOK, NEW kind \in Kind, NEW url \in Addresses \cup {"none"},
         NEW on \in BOOLEAN, AddProvider(kind, url, on)
  PROVE  ProvidersTypeOK'
<1>1. PICK p \in ProviderId : providers' = [providers EXCEPT ![p] = NewRow(kind, url, on)]
  BY DEF AddProvider
<1>2. Edits /\ UNCHANGED <<models, rule, usage, route, link>>
  BY DEF AddProvider
<1>3. PICK row \in ProviderRow : row = NewRow(kind, url, on)
  BY RowFacts
<1>4. /\ providers' \in [ProviderId -> ProviderRow \cup {NoRow}]
      /\ \A q \in ProviderId : providers[q] # NoRow => providers'[q] # NoRow
  BY <1>1, <1>3, NewRowType
<1>5. rule' \in Rule
  BY <1>2 DEF ProvidersTypeOK
<1> QED
  BY <1>2, <1>4, <1>5, EditsType, LinksUnchanged, ModelsUnchanged, TablesType

LEMMA SetRuleType ==
  ASSUME ProvidersTypeOK, SetRule
  PROVE  ProvidersTypeOK'
<1>1. /\ Edits /\ rule' \in Rule /\ UNCHANGED <<providers, models, usage, route, link>>
  BY DEF SetRule
<1>2. providers' \in [ProviderId -> ProviderRow \cup {NoRow}]
  BY <1>1 DEF ProvidersTypeOK
<1> QED
  BY <1>1, <1>2, EditsType, LinksUnchanged, ModelsUnchanged, TablesType

LEMMA LookUpType ==
  ASSUME ProvidersTypeOK, NEW c \in Connecting, NEW kind \in Kind,
         NEW url \in Addresses \cup {"none"}, LookUp(c, kind, url)
  PROVE  ProvidersTypeOK'
<1>1. /\ Edits /\ UNCHANGED <<providers, models, rule, usage, route>>
  BY DEF LookUp, tableVars
<1>2. PICK p \in ProviderId \cup {"none"} :
        Links(c, [NoLink EXCEPT !.at = "upsert", !.kind = kind, !.url = url, !.id = p])
  BY DEF LookUp, Rows
<1> DEFINE record == [NoLink EXCEPT !.at = "upsert", !.kind = kind, !.url = url, !.id = p]
<1>3. record \in LinkRecord /\ record.at = "upsert" /\ record.kind = kind
  BY RowFacts DEF LinkRecord
<1>4. Links(c, record)
  BY <1>2
<1> HIDE DEF record
<1>5. /\ link' \in [Connecting -> LinkRecord]
      /\ \A d \in Connecting : /\ link'[d].at # "idle" => link'[d].kind \in Kind
                               /\ link'[d].at \in {"discover", "model"} => link'[d].id \in ProviderId
                               /\ link'[d].at = "model" => link'[d].name \in ModelName
  BY <1>3, <1>4, LinkGoesType
<1>6. providers' \in [ProviderId -> ProviderRow \cup {NoRow}] /\ rule' \in Rule
  BY <1>1 DEF ProvidersTypeOK
<1> QED
  BY <1>1, <1>5, <1>6, EditsType, ModelsUnchanged, TablesType

LEMMA LinkRecordIs ==
  ASSUME ProvidersTypeOK, NEW c \in Connecting
  PROVE  /\ link[c] \in LinkRecord
         /\ link[c].at # "idle" => link[c].kind \in Kind
         /\ link[c].at \in {"discover", "model"} => link[c].id \in ProviderId
         /\ link[c].at = "model" => link[c].name \in ModelName
  BY DEF ProvidersTypeOK

LEMMA UpsertProviderType ==
  ASSUME ProvidersTypeOK, NEW c \in Connecting, UpsertProvider(c)
  PROVE  ProvidersTypeOK'
<1>1. PICK p \in IF link[c].id # "none" THEN {link[c].id} ELSE ProviderId \ Rows :
       /\ providers' =
            IF link[c].id = "none"
            THEN [providers EXCEPT ![p] = NewRow(link[c].kind, link[c].url, TRUE)]
            ELSE IF p \in Rows
            THEN [providers EXCEPT ![p].on = TRUE, ![p].priority = 100,
                                   ![p].url = Given(link[c].url)]
            ELSE providers
       /\ Links(c, [link[c] EXCEPT !.at = "discover", !.id = p])
  BY DEF UpsertProvider
<1>2. /\ UNCHANGED <<models, rule, usage, route, routes, storeErrors, edits>>
      /\ link[c].at = "upsert" /\ link[c] \in LinkRecord /\ link[c].kind \in Kind
  BY LinkRecordIs DEF UpsertProvider, boundVars
<1>3. p \in ProviderId
  BY <1>1, <1>2 DEF LinkRecord
<1> DEFINE record == [link[c] EXCEPT !.at = "discover", !.id = p]
<1>4. /\ record \in LinkRecord /\ record.at = "discover" /\ record.kind = link[c].kind
      /\ record.id = p
  BY <1>2, <1>3 DEF LinkRecord
<1>5. Links(c, record)
  BY <1>1
<1> HIDE DEF record
<1>6. /\ link' \in [Connecting -> LinkRecord]
      /\ \A d \in Connecting : /\ link'[d].at # "idle" => link'[d].kind \in Kind
                               /\ link'[d].at \in {"discover", "model"} => link'[d].id \in ProviderId
                               /\ link'[d].at = "model" => link'[d].name \in ModelName
  BY <1>2, <1>3, <1>4, <1>5, LinkGoesType
<1>7. /\ providers' \in [ProviderId -> ProviderRow \cup {NoRow}]
      /\ \A q \in ProviderId : providers[q] # NoRow => providers'[q] # NoRow
  <2>1. CASE link[c].id = "none"
    <3>1. PICK row \in ProviderRow : row = NewRow(link[c].kind, link[c].url, TRUE)
      BY <1>2, RowFacts DEF LinkRecord
    <3> QED
      BY <1>1, <1>3, <2>1, <3>1, NewRowType
  <2>2. CASE link[c].id # "none" /\ p \in Rows
    <3> DEFINE row == [providers[p] EXCEPT !.on = TRUE, !.priority = 100,
                                           !.url = Given(link[c].url)]
    <3>1. row \in ProviderRow
      <4>1. providers[p] \in ProviderRow
        BY <2>2, RowIs
      <4>2. PICK flag \in BOOLEAN : flag = TRUE
        OBVIOUS
      <4>3. Given(link[c].url) \in Addresses
        BY <1>2 DEF LinkRecord, Given, Addresses
      <4>4. [providers[p] EXCEPT !.on = flag, !.priority = 100, !.url = Given(link[c].url)]
              \in ProviderRow
        BY <4>1, <4>3 DEF ProviderRow
      <4> QED
        BY <4>2, <4>4
    <3>2. providers' = [providers EXCEPT ![p] = row]
      BY <1>1, <2>2
    <3> HIDE DEF row
    <3> QED
      BY <1>3, <3>1, <3>2, NewRowType
  <2>3. CASE link[c].id # "none" /\ p \notin Rows
    BY <1>1, <2>3 DEF ProvidersTypeOK
  <2> QED
    BY <2>1, <2>2, <2>3
<1>8. edits' \in 0 .. MaxEdits /\ rule' \in Rule
  BY <1>2 DEF ProvidersTypeOK
<1> QED
  BY <1>2, <1>6, <1>7, <1>8, ModelsUnchanged, TablesType

LEMMA DiscoverType ==
  ASSUME ProvidersTypeOK, NEW c \in Connecting, Discover(c)
  PROVE  ProvidersTypeOK'
<1>1. /\ UNCHANGED <<providers, models, rule, usage, route, routes, storeErrors, edits>>
      /\ link[c].at = "discover" /\ link[c] \in LinkRecord /\ link[c].kind \in Kind
      /\ link[c].id \in ProviderId
  BY LinkRecordIs DEF Discover, tableVars, boundVars
<1>2. PICK name \in Catalogue[link[c].kind] :
        Links(c, IF link[c].id \notin Rows THEN NoLink
                 ELSE [link[c] EXCEPT !.at = "model", !.name = name,
                                      !.known = HasModel(link[c].id, name)])
  BY DEF Discover
<1>3. name \in ModelName
  BY <1>1, ProviderBounds
<1>4. /\ link' \in [Connecting -> LinkRecord]
      /\ \A d \in Connecting : /\ link'[d].at # "idle" => link'[d].kind \in Kind
                               /\ link'[d].at \in {"discover", "model"} => link'[d].id \in ProviderId
                               /\ link'[d].at = "model" => link'[d].name \in ModelName
  <2>1. CASE link[c].id \notin Rows
    BY <1>2, <2>1, RowFacts, LinkGoesType
  <2>2. CASE link[c].id \in Rows
    <3>1. PICK flag \in BOOLEAN : flag = HasModel(link[c].id, name)
      BY DEF HasModel
    <3> DEFINE record == [link[c] EXCEPT !.at = "model", !.name = name, !.known = flag]
    <3>2. /\ record \in LinkRecord /\ record.at = "model" /\ record.kind = link[c].kind
          /\ record.id = link[c].id /\ record.name = name
      BY <1>1, <1>3 DEF LinkRecord
    <3>3. Links(c, record)
      BY <1>2, <2>2, <3>1
    <3> HIDE DEF record
    <3> QED
      BY <1>1, <1>3, <3>2, <3>3, LinkGoesType
  <2> QED
    BY <2>1, <2>2
<1>5. edits' \in 0 .. MaxEdits /\ rule' \in Rule /\ providers' \in [ProviderId -> ProviderRow \cup {NoRow}]
  BY <1>1 DEF ProvidersTypeOK
<1> QED
  BY <1>1, <1>4, <1>5, ModelsUnchanged, TablesType

LEMMA UpsertModelType ==
  ASSUME ProvidersTypeOK, NEW c \in Connecting, UpsertModel(c)
  PROVE  ProvidersTypeOK'
<1> DEFINE p == link[c].id
           name == link[c].name
           row == [provider |-> p, name |-> name, on |-> TRUE, cost |-> 0,
                   caps |-> {"text", "tools", "code"}, priority |-> 100]
           replaced(m) == IF m.provider = p /\ m.name = name THEN row ELSE m
<1>1. /\ UNCHANGED <<providers, rule, usage, route, routes, storeErrors, edits>>
      /\ link[c].at = "model" /\ p \in ProviderId /\ name \in ModelName /\ Links(c, NoLink)
      /\ models' = IF link[c].known THEN {replaced(m) : m \in models}
                   ELSE IF p \in Rows /\ ~HasModel(p, name) THEN models \cup {row}
                   ELSE models
  BY LinkRecordIs DEF UpsertModel, boundVars
<1>2. row \in ModelRow /\ row.provider = p /\ row.name = name
  BY <1>1 DEF ModelRow
<1>3. /\ models \subseteq ModelRow /\ IsFiniteSet(models)
      /\ \A m \in models : m.provider \in Rows
      /\ \A m, n \in models : m.provider = n.provider /\ m.name = n.name => m = n
  BY DEF ProvidersTypeOK
<1>4. Rows' = Rows
  BY <1>1 DEF Rows
<1> HIDE DEF row
<1>5. /\ models' \subseteq ModelRow /\ IsFiniteSet(models')
      /\ \A m \in models' : m.provider \in Rows'
      /\ \A m, n \in models' : m.provider = n.provider /\ m.name = n.name => m = n
  <2>1. CASE link[c].known
    <3>1. models' = {replaced(m) : m \in models}
      BY <1>1, <2>1
    <3>2. \A m \in models : replaced(m) \in ModelRow /\ replaced(m).provider = m.provider
                            /\ replaced(m).name = m.name
      BY <1>2, <1>3
    <3> DEFINE f == [m \in models |-> replaced(m)]
    <3>3. f \in Surjection(models, models')
      BY <3>1 DEF Surjection
    <3>4. IsFiniteSet(models')
      BY <1>3, <3>3, FS_Surjection
    <3> HIDE DEF replaced, f
    <3> QED
      BY <1>3, <1>4, <3>1, <3>2, <3>4
  <2>2. CASE ~link[c].known /\ p \in Rows /\ ~HasModel(p, name)
    <3>1. models' = models \cup {row}
      BY <1>1, <2>2
    <3>2. IsFiniteSet(models')
      BY <1>3, <3>1, FS_AddElement
    <3>3. \A m \in models : ~(m.provider = p /\ m.name = name)
      BY <2>2 DEF HasModel
    <3> QED
      BY <1>2, <1>3, <1>4, <2>2, <3>1, <3>2, <3>3
  <2>3. CASE models' = models
    BY <1>3, <1>4, <2>3
  <2> QED
    BY <1>1, <2>1, <2>2, <2>3
<1>6. /\ link' \in [Connecting -> LinkRecord]
      /\ \A d \in Connecting : /\ link'[d].at # "idle" => link'[d].kind \in Kind
                               /\ link'[d].at \in {"discover", "model"} => link'[d].id \in ProviderId
                               /\ link'[d].at = "model" => link'[d].name \in ModelName
  BY <1>1, RowFacts, LinkGoesType
<1>7. edits' \in 0 .. MaxEdits /\ rule' \in Rule /\ providers' \in [ProviderId -> ProviderRow \cup {NoRow}]
  BY <1>1 DEF ProvidersTypeOK
<1> QED
  BY <1>1, <1>5, <1>6, <1>7, TablesType

LEMMA ProvidersStepType == ProvidersTypeOK /\ [ProvidersNext]_providersVars => ProvidersTypeOK'
<1> SUFFICES ASSUME ProvidersTypeOK, [ProvidersNext]_providersVars PROVE ProvidersTypeOK'
  OBVIOUS
<1>1. ASSUME NEW r \in Routing, NEW manual \in ModelName \cup {"none"}, BeginRoute(r, manual)
      PROVE  ProvidersTypeOK'
  BY <1>1, BeginRouteType
<1>2. ASSUME NEW r \in Routing, NEW m \in models, BeginTest(r, m) PROVE ProvidersTypeOK'
  BY <1>2, BeginTestType
<1>3. ASSUME NEW r \in Routing, RouteStep(r) PROVE ProvidersTypeOK'
  BY <1>3, RouteStepType
<1>4. ASSUME NEW r \in Routing, EndRoute(r) PROVE ProvidersTypeOK'
  BY <1>4, EndRouteType
<1>5. ASSUME NEW p \in ProviderId, DeleteProvider(p) PROVE ProvidersTypeOK'
  BY <1>5, DeleteProviderType
<1>6. ASSUME NEW p \in ProviderId, NEW on \in BOOLEAN, NEW url \in Addresses,
             EditProvider(p, on, url)
      PROVE  ProvidersTypeOK'
  BY <1>6, EditProviderType
<1>7. CASE SetRule
  BY <1>7, SetRuleType
<1>8. ASSUME NEW c \in Connecting, NEW kind \in Kind, NEW url \in Addresses \cup {"none"},
             LookUp(c, kind, url)
      PROVE  ProvidersTypeOK'
  BY <1>8, LookUpType
<1>9. ASSUME NEW c \in Connecting, LinkStep(c) PROVE ProvidersTypeOK'
  BY <1>9, UpsertProviderType, DiscoverType, UpsertModelType DEF LinkStep
<1>10. CASE UNCHANGED providersVars
  <2>1. /\ UNCHANGED <<route, usage, routes, storeErrors, providers, models, rule, link, edits>>
    BY <1>10 DEF providersVars
  <2>2. edits' \in 0 .. MaxEdits /\ rule' \in Rule /\ providers' \in [ProviderId -> ProviderRow \cup {NoRow}]
    BY <2>1 DEF ProvidersTypeOK
  <2> QED
    BY <2>1, <2>2, LinksUnchanged, ModelsUnchanged, TablesType
<1>11. ASSUME NEW kind \in Kind, NEW url \in Addresses \cup {"none"}, NEW on \in BOOLEAN,
              AddProvider(kind, url, on)
       PROVE  ProvidersTypeOK'
  BY <1>11, AddProviderType
<1> QED
  BY <1>1, <1>2, <1>3, <1>4, <1>5, <1>6, <1>7, <1>8, <1>9, <1>10, <1>11 DEF ProvidersNext

\* Routes, tests, edits and connections leave tables that fit: every model has a
\* provider, once, and no usage is of a route that has not begun.
THEOREM ProvidersTypeCorrect == ProvidersSpec => []ProvidersTypeOK
  BY ProvidersInitType, ProvidersStepType, PTL DEF ProvidersSpec

-----------------------------------------------------------------------------
(* What the usage table has of a request, while its route is under way: a    *)
(* failure for every candidate that has been left behind, a success for the  *)
(* one that answered, and nothing else.                                      *)

NotedOf(entries, r, record, status) ==
  {m \in ToSet(record.all) : <<r, record.request, m, status>> \in entries}

Booked(entries, r, record) ==
  /\ Distinct(record.left) /\ ToSet(record.left) \subseteq ToSet(record.all)
  /\ NotedOf(entries, r, record, "failed") = ToSet(record.all) \ ToSet(record.left)
  /\ record.at = "ended" /\ record.result = "answer" =>
       /\ record.left # <<>>
       /\ NotedOf(entries, r, record, "success") = {Head(record.left)}
  /\ record.result # "answer" => NotedOf(entries, r, record, "success") = {}
  /\ record.at # "ended" => record.result = "none"
  /\ record.result = "exhausted" => record.left = <<>>

LedgerInv ==
  \A r \in Routing :
    /\ route[r].at # "idle" /\ ~route[r].test => Booked(usage, r, route[r])
    /\ route[r].at \in {"next", "book", "note"} => ~route[r].test

\* The usage of another thread is not this one's.
LEMMA OthersBook ==
  ASSUME ProvidersTypeOK, LedgerInv, NEW r \in Routing, NEW record, Proceeds(r, record),
         UNCHANGED usage \/ \E request, m, status : usage' = usage \cup {<<r, request, m, status>>},
         record.at # "idle" /\ ~record.test => Booked(usage', r, record),
         record.at \in {"next", "book", "note"} => ~record.test
  PROVE  LedgerInv'
<1>1. route \in [Routing -> RouteRecord] /\ route' = [route EXCEPT ![r] = record]
  BY DEF ProvidersTypeOK, Proceeds
<1>2. ASSUME NEW q \in Routing, q # r
      PROVE  /\ route'[q] = route[q]
             /\ \A request, m, status : <<q, request, m, status>> \in usage' <=>
                                        <<q, request, m, status>> \in usage
  BY <1>1, <1>2
<1>3. ASSUME NEW q \in Routing, q # r
      PROVE  /\ NotedOf(usage', q, route[q], "failed") = NotedOf(usage, q, route[q], "failed")
             /\ NotedOf(usage', q, route[q], "success") = NotedOf(usage, q, route[q], "success")
  BY <1>2, <1>3 DEF NotedOf
<1>4. ASSUME NEW q \in Routing, q # r
      PROVE  Booked(usage', q, route[q]) <=> Booked(usage, q, route[q])
  BY <1>3, <1>4 DEF Booked
<1>5. route'[r] = record
  BY <1>1
<1>6. ASSUME NEW q \in Routing
      PROVE  /\ route'[q].at # "idle" /\ ~route'[q].test => Booked(usage', q, route'[q])
             /\ route'[q].at \in {"next", "book", "note"} => ~route'[q].test
  <2>1. CASE q = r
    BY <1>5, <2>1
  <2>2. CASE q # r
    BY <1>2, <1>4, <2>2 DEF LedgerInv
  <2> QED
    BY <2>1, <2>2
<1> QED
  BY <1>6 DEF LedgerInv

\* A route that has neither answered nor moved on keeps what is booked.
LEMMA BooksStay ==
  ASSUME NEW entries, NEW r, NEW record, NEW step, Booked(entries, r, record),
         record.at # "ended", record.result = "none", step.all = record.all,
         step.left = record.left, step.request = record.request,
         \/ step.at # "ended" /\ step.result = "none"
         \/ step.at = "ended" /\ step.result \in {"legacy", "raised"}
         \/ step.at = "ended" /\ step.result = "exhausted" /\ record.left = <<>>
  PROVE  Booked(entries, r, step)
<1>1. \A status : NotedOf(entries, r, step, status) = NotedOf(entries, r, record, status)
  BY DEF NotedOf
<1> QED
  BY <1>1 DEF Booked

\* A failure is noted of the candidate that is left behind.
LEMMA FailureBooked ==
  ASSUME NEW entries, NEW r, NEW record \in RouteRecord, NEW step, Booked(entries, r, record),
         record.left # <<>>, record.at # "ended", step.at # "ended", step.result = record.result,
         step.all = record.all, step.left = Tail(record.left), step.request = record.request
  PROVE  Booked(entries \cup {<<r, record.request, Head(record.left), "failed">>}, r, step)
<1> DEFINE m == Head(record.left)
           after == entries \cup {<<r, record.request, m, "failed">>}
<1>1. record.left \in Seq(ModelRow)
  BY DEF RouteRecord
<1>2. /\ m \in ToSet(record.left) /\ Distinct(Tail(record.left))
      /\ ToSet(Tail(record.left)) = ToSet(record.left) \ {m}
  BY <1>1, TailFacts DEF Booked
<1> HIDE DEF m
<1>3. NotedOf(after, r, step, "failed") = NotedOf(entries, r, record, "failed") \cup {m}
  BY <1>2 DEF NotedOf, Booked
<1>4. NotedOf(after, r, step, "success") = NotedOf(entries, r, record, "success")
  BY DEF NotedOf
<1> HIDE DEF after
<1>5. Booked(after, r, step)
  BY <1>2, <1>3, <1>4 DEF Booked
<1> QED
  BY <1>5 DEF after, m

\* A success is noted of the candidate that answered.
LEMMA SuccessBooked ==
  ASSUME NEW entries, NEW r, NEW record \in RouteRecord, NEW step, Booked(entries, r, record),
         record.left # <<>>, record.at # "ended", step.at = "ended", step.result = "answer",
         step.all = record.all, step.left = record.left, step.request = record.request
  PROVE  Booked(entries \cup {<<r, record.request, Head(record.left), "success">>}, r, step)
<1> DEFINE m == Head(record.left)
           after == entries \cup {<<r, record.request, m, "success">>}
<1>1. record.left \in Seq(ModelRow)
  BY DEF RouteRecord
<1>2. m \in ToSet(record.left)
  BY <1>1, TailFacts
<1> HIDE DEF m
<1>3. NotedOf(after, r, step, "success") = NotedOf(entries, r, record, "success") \cup {m}
  BY <1>2 DEF NotedOf, Booked
<1>4. NotedOf(after, r, step, "failed") = NotedOf(entries, r, record, "failed")
  BY DEF NotedOf
<1>5. NotedOf(entries, r, record, "success") = {}
  BY DEF Booked
<1> HIDE DEF after
<1>6. Booked(after, r, step)
  BY <1>3, <1>4, <1>5 DEF Booked, m
<1> QED
  BY <1>6 DEF after, m

LEMMA BeginRouteLedger ==
  ASSUME ProvidersTypeOK, LedgerInv, NEW r \in Routing, NEW manual, BeginRoute(r, manual)
  PROVE  LedgerInv'
<1>1. PICK order \in Ranked(manual) :
        Proceeds(r, [NoRoute EXCEPT !.at = "next", !.request = routes + 1,
                                    !.all = order, !.left = order])
  BY DEF BeginRoute
<1>2. order \in Seq(ModelRow) /\ Distinct(order)
  BY RankedFacts
<1>3. UNCHANGED usage /\ routes \in Nat
  BY ProviderBounds DEF BeginRoute, tableVars, ProvidersTypeOK
<1> DEFINE record == [NoRoute EXCEPT !.at = "next", !.request = routes + 1,
                                     !.all = order, !.left = order]
<1>4. /\ record.at = "next" /\ record.request = routes + 1 /\ record.result = "none"
      /\ record.all = order /\ record.left = order /\ ~record.test
  BY DEF NoRoute
<1>5. Proceeds(r, record)
  BY <1>1
<1> HIDE DEF record
<1>6. \A m, status : <<r, routes + 1, m, status>> \notin usage
  <2> SUFFICES ASSUME NEW m, NEW status, <<r, routes + 1, m, status>> \in usage PROVE FALSE
    OBVIOUS
  <2>1. <<r, routes + 1, m, status>>[2] <= routes
    BY DEF ProvidersTypeOK
  <2> QED
    BY <1>3, <2>1
<1>7. \A status : NotedOf(usage, r, record, status) = {}
  BY <1>4, <1>6 DEF NotedOf
<1>8. Booked(usage', r, record)
  BY <1>2, <1>3, <1>4, <1>7 DEF Booked
<1> QED
  BY <1>3, <1>4, <1>5, <1>8, OthersBook

LEMMA BeginTestLedger ==
  ASSUME ProvidersTypeOK, LedgerInv, NEW r \in Routing, NEW m \in models, BeginTest(r, m)
  PROVE  LedgerInv'
<1> DEFINE record == [NoRoute EXCEPT !.at = "call", !.test = TRUE, !.left = <<m>>]
<1>1. record.test /\ record.at = "call"
  BY DEF NoRoute
<1>2. UNCHANGED usage /\ Proceeds(r, record)
  BY DEF BeginTest, tableVars
<1> HIDE DEF record
<1> QED
  BY <1>1, <1>2, OthersBook

LEMMA RouteStepLedger ==
  ASSUME ProvidersTypeOK, LedgerInv, NEW r \in Routing, RouteStep(r)
  PROVE  LedgerInv'
<1>1. /\ route[r] \in RouteRecord
      /\ route[r].at \in {"call", "book", "fail", "mark", "note"} => route[r].left # <<>>
      /\ route[r].at \in {"next", "book", "note"} => ~route[r].test
      /\ route[r].at # "idle" /\ ~route[r].test => Booked(usage, r, route[r])
  BY RouteFields DEF ProvidersTypeOK, LedgerInv
<1>2. route[r].at \notin {"idle", "ended"} /\ ~route[r].test => route[r].result = "none"
  BY <1>1 DEF Booked
\* The record that goes on with another place and another result.
<1>3. ASSUME NEW place \in {"next", "call", "book", "fail", "mark", "note", "ended"},
             NEW result \in {"none", "legacy", "exhausted", "raised", "answer", "failed"}
      PROVE  LET record == [route[r] EXCEPT !.at = place, !.result = result]
             IN /\ record.at = place /\ record.result = result /\ record.all = route[r].all
                /\ record.test = route[r].test
                /\ record.left = route[r].left /\ record.request = route[r].request
  BY <1>1 DEF RouteRecord
<1>4. ASSUME NEW place \in {"next", "call", "book", "fail", "mark", "note", "ended"}
      PROVE  LET record == [route[r] EXCEPT !.at = place]
             IN /\ record.at = place /\ record.result = route[r].result /\ record.all = route[r].all
                /\ record.test = route[r].test
                /\ record.left = route[r].left /\ record.request = route[r].request
  BY <1>1 DEF RouteRecord
\* It neither answers nor leaves a candidate behind.
<1>5. ASSUME NEW record, Proceeds(r, record), UNCHANGED usage,
             route[r].at \notin {"idle", "ended"}, record.all = route[r].all,
             record.left = route[r].left, record.request = route[r].request,
             record.test = route[r].test, record.at \in {"next", "book", "note"} => ~record.test,
             \/ record.test
             \/ record.at # "ended" /\ record.result = "none"
             \/ record.at = "ended" /\ record.result \in {"legacy", "raised"}
             \/ record.at = "ended" /\ record.result = "exhausted" /\ route[r].left = <<>>
      PROVE  LedgerInv'
  <2>1. CASE record.test
    BY <1>5, <2>1, OthersBook
  <2>2. CASE ~record.test
    <3>1. Booked(usage, r, record)
      BY <1>1, <1>2, <1>5, <2>2, BooksStay
    <3>2. Booked(usage', r, record)
      BY <1>5, <3>1
    <3> QED
      BY <1>5, <3>2, OthersBook
  <2> QED
    BY <2>1, <2>2
<1>6. CASE NextModel(r)
  <2>1. UNCHANGED usage /\ route[r].at = "next" /\ ~route[r].test
    BY <1>1, <1>6 DEF NextModel, RouteAt, tableVars
  <2>2. CASE route[r].left = <<>>
    <3>1. PICK result \in {"legacy", "exhausted"} :
            result = IF route[r].all = <<>> THEN "legacy" ELSE "exhausted"
      OBVIOUS
    <3> DEFINE record == [route[r] EXCEPT !.at = "ended", !.result = result]
    <3>2. Proceeds(r, record)
      BY <1>6, <2>2, <3>1 DEF NextModel
    <3>3. /\ record.at = "ended" /\ record.result = result /\ record.all = route[r].all
          /\ record.test = route[r].test
          /\ record.left = route[r].left /\ record.request = route[r].request
      BY <1>1 DEF RouteRecord
    <3> HIDE DEF record
    <3> QED
      BY <1>5, <2>1, <2>2, <3>1, <3>2, <3>3
  <2>3. CASE route[r].left # <<>> /\ Tried(r).provider \notin Rows
    <3> DEFINE record == [route[r] EXCEPT !.at = "ended", !.result = "raised"]
    <3>1. Proceeds(r, record)
      BY <1>6, <2>3 DEF NextModel
    <3>2. /\ record.at = "ended" /\ record.result = "raised" /\ record.all = route[r].all
          /\ record.test = route[r].test
          /\ record.left = route[r].left /\ record.request = route[r].request
      BY <1>3
    <3> HIDE DEF record
    <3> QED
      BY <1>5, <2>1, <3>1, <3>2
  <2>4. CASE route[r].left # <<>> /\ Tried(r).provider \in Rows
    <3> DEFINE record == [route[r] EXCEPT !.at = "call"]
    <3>1. Proceeds(r, record)
      BY <1>6, <2>4 DEF NextModel
    <3>2. /\ record.at = "call" /\ record.result = "none" /\ record.all = route[r].all
          /\ record.test = route[r].test
          /\ record.left = route[r].left /\ record.request = route[r].request
      BY <1>2, <1>4, <2>1
    <3> HIDE DEF record
    <3> QED
      BY <1>5, <2>1, <3>1, <3>2
  <2> QED
    BY <2>2, <2>3, <2>4
<1>7. CASE CallAnswers(r)
  <2>1. UNCHANGED usage /\ route[r].at = "call"
    BY <1>7 DEF CallAnswers, RouteAt
  <2>2. CASE route[r].test
    <3> DEFINE record == [route[r] EXCEPT !.at = "ended", !.result = "answer"]
    <3>1. Proceeds(r, record)
      BY <1>7, <2>2 DEF CallAnswers
    <3>2. /\ record.at = "ended" /\ record.all = route[r].all
          /\ record.test = route[r].test
          /\ record.left = route[r].left /\ record.request = route[r].request
      BY <1>3
    <3> HIDE DEF record
    <3> QED
      BY <1>5, <2>1, <2>2, <3>1, <3>2
  <2>3. CASE ~route[r].test
    <3> DEFINE record == [route[r] EXCEPT !.at = "book"]
    <3>1. Proceeds(r, record)
      BY <1>1, <1>7, <2>3 DEF CallAnswers, RouteRecord
    <3>2. /\ record.at = "book" /\ record.result = "none" /\ record.all = route[r].all
          /\ record.test = route[r].test
          /\ record.left = route[r].left /\ record.request = route[r].request
      BY <1>2, <1>4, <2>1, <2>3
    <3> HIDE DEF record
    <3> QED
      BY <1>5, <2>1, <2>3, <3>1, <3>2
  <2> QED
    BY <2>2, <2>3
<1>8. CASE CallFails(r)
  <2> DEFINE record == [route[r] EXCEPT !.at = "fail"]
  <2>1. UNCHANGED usage /\ route[r].at = "call" /\ Proceeds(r, record)
    BY <1>8 DEF CallFails, RouteAt, tableVars
  <2>2. /\ record.at = "fail" /\ record.result = route[r].result /\ record.all = route[r].all
        /\ record.test = route[r].test
        /\ record.left = route[r].left /\ record.request = route[r].request
    BY <1>4
  <2> HIDE DEF record
  <2> QED
    BY <1>2, <1>5, <2>1, <2>2
<1>9. CASE BookAnswer(r)
  <2>1. route[r].at = "book" /\ ~route[r].test
    BY <1>1, <1>9 DEF BookAnswer, RouteAt
  <2>2. CASE /\ usage' = usage \cup {<<r, route[r].request, Tried(r), "success">>}
             /\ Proceeds(r, [route[r] EXCEPT !.at = "ended", !.result = "answer"])
    <3> DEFINE record == [route[r] EXCEPT !.at = "ended", !.result = "answer"]
    <3>1. /\ record.at = "ended" /\ record.result = "answer" /\ record.all = route[r].all
          /\ record.left = route[r].left /\ record.request = route[r].request
      BY <1>3
    <3>2. Proceeds(r, record)
      BY <2>2
    <3> HIDE DEF record
    <3>3. Booked(usage', r, record)
      BY <1>1, <2>1, <2>2, <3>1, SuccessBooked DEF Tried
    <3> QED
      BY <2>2, <3>1, <3>2, <3>3, OthersBook
  <2>3. CASE UNCHANGED usage /\ Proceeds(r, [route[r] EXCEPT !.at = "fail"])
    <3> DEFINE record == [route[r] EXCEPT !.at = "fail"]
    <3>1. Proceeds(r, record)
      BY <2>3
    <3>2. /\ record.at = "fail" /\ record.result = "none" /\ record.all = route[r].all
          /\ record.test = route[r].test
          /\ record.left = route[r].left /\ record.request = route[r].request
      BY <1>2, <1>4, <2>1
    <3> HIDE DEF record
    <3> QED
      BY <1>5, <2>1, <2>3, <3>1, <3>2
  <2> QED
    BY <1>9, <2>2, <2>3 DEF BookAnswer
<1>10. CASE CountFailures(r)
  <2>1. PICK count : count = IF Tried(r).provider \in Rows
                             THEN providers[Tried(r).provider].failures + 1 ELSE 1
    OBVIOUS
  <2> DEFINE record == [route[r] EXCEPT !.at = "mark", !.count = count]
  <2>2. UNCHANGED usage /\ route[r].at = "fail" /\ Proceeds(r, record)
    BY <1>10, <2>1 DEF CountFailures, RouteAt, tableVars
  <2>3. /\ record.at = "mark" /\ record.result = route[r].result /\ record.all = route[r].all
        /\ record.test = route[r].test
        /\ record.left = route[r].left /\ record.request = route[r].request
    BY <1>1 DEF RouteRecord
  <2> HIDE DEF record
  <2> QED
    BY <1>2, <1>5, <2>2, <2>3
<1>11. CASE MarkFailure(r)
  <2>1. UNCHANGED usage /\ route[r].at = "mark"
    BY <1>11 DEF MarkFailure, RouteAt
  <2>2. CASE route[r].test
    <3> DEFINE record == [route[r] EXCEPT !.at = "ended", !.result = "failed"]
    <3>1. Proceeds(r, record)
      BY <1>11, <2>2 DEF MarkFailure
    <3>2. /\ record.at = "ended" /\ record.all = route[r].all
          /\ record.test = route[r].test
          /\ record.left = route[r].left /\ record.request = route[r].request
      BY <1>3
    <3> HIDE DEF record
    <3> QED
      BY <1>5, <2>1, <2>2, <3>1, <3>2
  <2>3. CASE ~route[r].test
    <3> DEFINE record == [route[r] EXCEPT !.at = "note"]
    <3>1. Proceeds(r, record)
      BY <1>1, <1>11, <2>3 DEF MarkFailure, RouteRecord
    <3>2. /\ record.at = "note" /\ record.result = "none" /\ record.all = route[r].all
          /\ record.test = route[r].test
          /\ record.left = route[r].left /\ record.request = route[r].request
      BY <1>2, <1>4, <2>1, <2>3
    <3> HIDE DEF record
    <3> QED
      BY <1>5, <2>1, <2>3, <3>1, <3>2
  <2> QED
    BY <2>2, <2>3
<1>12. CASE NoteFailure(r)
  <2> DEFINE record == [route[r] EXCEPT !.at = "next", !.left = Tail(@)]
  <2>1. /\ usage' = usage \cup {<<r, route[r].request, Tried(r), "failed">>}
        /\ route[r].at = "note" /\ ~route[r].test /\ Proceeds(r, record)
    BY <1>1, <1>12 DEF NoteFailure, RouteAt
  <2>2. /\ record.at = "next" /\ record.result = route[r].result /\ record.all = route[r].all
        /\ record.test = route[r].test
        /\ record.left = Tail(route[r].left) /\ record.request = route[r].request
    BY <1>1 DEF RouteRecord
  <2> HIDE DEF record
  <2>3. Booked(usage', r, record)
    BY <1>1, <2>1, <2>2, FailureBooked DEF Tried
  <2> QED
    BY <2>1, <2>2, <2>3, OthersBook
<1>13. CASE HandlerRaises(r)
  <2> DEFINE record == [route[r] EXCEPT !.at = "ended", !.result = "raised"]
  <2>1. UNCHANGED usage /\ route[r].at \in {"fail", "mark", "note"} /\ Proceeds(r, record)
    BY <1>13 DEF HandlerRaises, tableVars
  <2>2. /\ record.at = "ended" /\ record.result = "raised" /\ record.all = route[r].all
        /\ record.test = route[r].test
        /\ record.left = route[r].left /\ record.request = route[r].request
    BY <1>3
  <2> HIDE DEF record
  <2> QED
    BY <1>5, <2>1, <2>2
<1> QED
  BY <1>6, <1>7, <1>8, <1>9, <1>10, <1>11, <1>12, <1>13 DEF RouteStep

LEMMA StepLedger ==
  ProvidersTypeOK /\ LedgerInv /\ [ProvidersNext]_providersVars => LedgerInv'
<1> SUFFICES ASSUME ProvidersTypeOK, LedgerInv, [ProvidersNext]_providersVars PROVE LedgerInv'
  OBVIOUS
<1>1. ASSUME UNCHANGED <<route, usage>> PROVE LedgerInv'
  BY <1>1 DEF LedgerInv, Booked, NotedOf
<1>2. ASSUME NEW r \in Routing, EndRoute(r) PROVE LedgerInv'
  <2>1. UNCHANGED usage /\ Proceeds(r, NoRoute) /\ NoRoute.at = "idle"
    BY <1>2, RowFacts DEF EndRoute, tableVars
  <2> QED
    BY <2>1, OthersBook
<1>3. ASSUME NEW r \in Routing, RouteStep(r) PROVE LedgerInv'
  BY <1>3, RouteStepLedger
<1>4. ASSUME NEW r \in Routing, NEW manual \in ModelName \cup {"none"}, BeginRoute(r, manual)
      PROVE  LedgerInv'
  BY <1>4, BeginRouteLedger
<1>5. ASSUME NEW r \in Routing, NEW m \in models, BeginTest(r, m) PROVE LedgerInv'
  BY <1>5, BeginTestLedger
<1>6. ASSUME \/ SetRule
             \/ \E p \in ProviderId :
                  DeleteProvider(p) \/ \E on \in BOOLEAN, url \in Addresses : EditProvider(p, on, url)
             \/ \E kind \in Kind, url \in Addresses \cup {"none"}, on \in BOOLEAN :
                  AddProvider(kind, url, on)
             \/ \E c \in Connecting :
                  \/ \E kind \in Kind, url \in Addresses \cup {"none"} : LookUp(c, kind, url)
                  \/ LinkStep(c)
      PROVE  LedgerInv'
  BY <1>1, <1>6 DEF SetRule, DeleteProvider, EditProvider, AddProvider, LookUp, LinkStep, UpsertProvider,
                    Discover, UpsertModel, tableVars
<1>7. CASE UNCHANGED providersVars
  BY <1>1, <1>7 DEF providersVars
<1> QED
  BY <1>2, <1>3, <1>4, <1>5, <1>6, <1>7 DEF ProvidersNext

\* For every number of routes, tests, edits and connections, in any order and
\* with any failures of the store: a route that has ended is told by the usage
\* table as it went.
THEOREM RoutesAreAccounted == ProvidersSpec => []RouteIsAccounted
<1>1. ProvidersInit => LedgerInv
  BY RowFacts DEF ProvidersInit, LedgerInv
<1>2. LedgerInv => RouteIsAccounted
  <2> SUFFICES ASSUME LedgerInv, NEW r \in Routing, route[r].at = "ended", ~route[r].test
               PROVE  LET noted(status) == {m \in ToSet(route[r].all) :
                                              <<r, route[r].request, m, status>> \in usage}
                          before == ToSet(route[r].all) \ ToSet(route[r].left)
                      IN /\ route[r].result = "answer" =>
                              noted("success") = {Tried(r)} /\ noted("failed") = before
                         /\ route[r].result # "answer" => noted("success") = {}
                         /\ route[r].result = "exhausted" => noted("failed") = ToSet(route[r].all)
    BY DEF RouteIsAccounted
  <2>1. Booked(usage, r, route[r])
    BY DEF LedgerInv
  <2>2. ToSet(<<>>) = {}
    BY DEF ToSet
  <2> QED
    BY <2>1, <2>2 DEF Booked, NotedOf, Tried
<1> QED
  BY <1>1, <1>2, ProvidersInitType, ProvidersStepType, StepLedger, PTL DEF ProvidersSpec
=============================================================================
