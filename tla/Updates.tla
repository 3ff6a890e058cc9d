------------------------------- MODULE Updates ------------------------------
(***************************************************************************)
(* Native updates (updates/manager.py) from a published manifest to the    *)
(* sources that the launcher starts (aiba_launcher.py).                    *)
(*                                                                         *)
(* Threads of the server and commands of other processes check and stage;  *)
(* all of them write one state file and, for one release, one archive.     *)
(* The launcher applies what is staged before it starts the server, and    *)
(* the service manager starts the launcher again whenever it has ended.    *)
(***************************************************************************)
EXTENDS Naturals, FiniteSets

CONSTANTS
  Release,        \* versions, ordered as numbers
  Stager, Commands,           \* who checks and stages; those outside the server
  Item, Files,    \* files of the source directory; those that a release has
  MaxStops, MaxOps            \* bounds: ends of the server, operations begun

EveryReleaseHasItsVersion == \A r \in Release : Files[r] \subseteq Item /\ "VERSION" \in Files[r]

ASSUME UpdatesAssumption ==
  /\ Release \subseteq Nat \ {0} /\ Release # {} /\ Commands \subseteq Stager
  /\ EveryReleaseHasItsVersion
  /\ {MaxStops, MaxOps} \subseteq Nat

VARIABLES
  manifest,       \* the release that the manifest on the web names
  note,           \* the state file
  archive,        \* chunks that the archive of a release has, or Missing
  stager,         \* what each stager does
  source,         \* the release that each file of the source comes from, or None
  kept,           \* update-backups: the same of each directory in it
  launch,         \* what the launcher does
  serving, stops, ops,
  meddled         \* (observation) a stager worked while an apply was unfinished

updatesVars == <<manifest, note, archive, stager, source, kept, launch, serving,
                 stops, ops, meddled>>

None == 0                                   \* no release
Missing == {0}
Chunks == {1, 2}
Whole(r) == archive[r] = Chunks
BlankNote == [latest |-> None, manifest |-> None, staged |-> None]
AtRest == [at |-> "idle", release |-> None, wants |-> "check", sent |-> 0]
NoApply == [at |-> "down", release |-> None, old |-> None, todo |-> {}]
CurrentVersion == source["VERSION"]

UpdatesInit ==
  /\ manifest = CHOOSE r \in Release : \A s \in Release : r <= s
  /\ note = BlankNote
  /\ archive = [r \in Release |-> Missing]
  /\ stager = [s \in Stager |-> AtRest]
  /\ source = [i \in Item |-> IF i \in Files[manifest] THEN manifest ELSE None]
  /\ kept = [r \in Release |-> [i \in Item |-> None]]
  /\ launch = NoApply
  /\ serving = FALSE /\ stops = 0 /\ ops = 0 /\ meddled = FALSE

Announce(r) ==
  /\ r > manifest /\ manifest' = r
  /\ UNCHANGED <<note, archive, stager, source, kept, launch, serving, stops,
                 ops, meddled>>

-----------------------------------------------------------------------------
(* check and stage.                                                        *)

Takes(s, at) == stager' = [stager EXCEPT ![s].at = at]

\* What the version has comes from it.  What it no longer has is left over from
\* an older one: an apply merges directories and takes nothing away.
OneRelease ==
  \A i \in Item : IF i \in Files[CurrentVersion] THEN source[i] = CurrentVersion
                 ELSE source[i] < CurrentVersion
Unfinished == ~OneRelease \/ launch.at \in {"keep", "copy"}

\* An operation begins and has the manifest that is published now.
FetchManifest(s) ==
  /\ stager[s].at = "idle" /\ ops < MaxOps /\ (s \in Commands \/ serving)
  /\ \E wants \in {"check", "stage"} :
       stager' = [stager EXCEPT ![s] =
                    [at |-> "fetched", release |-> manifest, wants |-> wants, sent |-> 0]]
  /\ ops' = ops + 1 /\ meddled' = (meddled \/ Unfinished)
  /\ UNCHANGED <<manifest, note, archive, source, kept, launch, serving, stops>>

\* The state file is written anew; an automatic update goes on to stage.
RecordCheck(s) ==
  LET r == stager[s].release
      available == r > CurrentVersion
  IN /\ stager[s].at = "fetched"
     /\ note' = [latest |-> r, manifest |-> IF available THEN r ELSE None,
                 staged |-> None]
     /\ Takes(s, IF available /\ stager[s].wants = "stage" THEN "open" ELSE "idle")
     /\ UNCHANGED <<manifest, archive, source, kept, launch, serving, stops, ops,
                    meddled>>

\* An install button stages the manifest of the last check without a new one.
StageKnown(s) ==
  /\ stager[s].at = "idle" /\ ops < MaxOps /\ s \notin Commands /\ serving
  /\ note.manifest # None
  /\ stager' = [stager EXCEPT ![s] =
                  [at |-> "open", release |-> note.manifest, wants |-> "stage", sent |-> 0]]
  /\ ops' = ops + 1 /\ meddled' = (meddled \/ Unfinished)
  /\ UNCHANGED <<manifest, note, archive, source, kept, launch, serving, stops>>

OpenTarget(s) ==
  /\ stager[s].at = "open"
  /\ archive' = [archive EXCEPT ![stager[s].release] = {}]
  /\ Takes(s, "download")
  /\ UNCHANGED <<manifest, note, source, kept, launch, serving, stops, ops, meddled>>

\* A chunk goes to the archive unless its name has been taken away meanwhile.  If
\* the name was given to a new file since, the chunk is lost in the code and goes
\* there in this model; either way an archive that is not whole is not applied.
ReadChunk(s) ==
  LET r == stager[s].release
      next == stager[s].sent + 1
  IN /\ stager[s].at = "download" /\ next \in Chunks
     /\ archive' = [archive EXCEPT ![r] = IF @ = Missing THEN @ ELSE @ \cup {next}]
     /\ stager' = [stager EXCEPT ![s].sent = next]
     /\ UNCHANGED <<manifest, note, source, kept, launch, serving, stops, ops,
                    meddled>>

\* The transfer breaks off, or what arrived has another digest than was promised.
DownloadFails(s) ==
  /\ stager[s].at = "download"
  /\ archive' = [archive EXCEPT ![stager[s].release] = Missing]
  /\ Takes(s, "idle")
  /\ UNCHANGED <<manifest, note, source, kept, launch, serving, stops, ops, meddled>>

\* What arrived has the promised digest; the file is looked at once more.
CheckDigest(s) ==
  /\ stager[s].at = "download" /\ stager[s].sent = Cardinality(Chunks)
  /\ Takes(s, IF Whole(stager[s].release) THEN "record" ELSE "idle")
  /\ UNCHANGED <<manifest, note, archive, source, kept, launch, serving, stops,
                 ops, meddled>>

RecordStaged(s) ==
  LET r == stager[s].release
  IN /\ stager[s].at = "record"
     /\ note' = [latest |-> r, manifest |-> None, staged |-> r]
     /\ Takes(s, "idle")
     /\ UNCHANGED <<manifest, archive, source, kept, launch, serving, stops, ops,
                    meddled>>

\* A stager dies with its process; a write of the state file may be cut off.
Torn(s) == IF stager[s].at \in {"fetched", "record"} THEN {note, BlankNote} ELSE {note}
CommandDies(s) ==
  /\ s \in Commands /\ stager[s].at # "idle"
  /\ stager' = [stager EXCEPT ![s] = AtRest] /\ note' \in Torn(s)
  /\ UNCHANGED <<manifest, archive, source, kept, launch, serving, stops, ops,
                 meddled>>

ServerStops ==
  /\ serving /\ stops < MaxStops /\ stops' = stops + 1 /\ serving' = FALSE
  /\ stager' = [s \in Stager |-> IF s \in Commands THEN stager[s] ELSE AtRest]
  /\ note' \in {note} \cup UNION {Torn(s) : s \in Stager \ Commands}
  /\ UNCHANGED <<manifest, archive, source, kept, launch, ops, meddled>>

-----------------------------------------------------------------------------
(* apply_staged, by the launcher.                                          *)

HasStaged == note.staged # None /\ archive[note.staged] # Missing
Present == {i \in Item : source[i] # None}
Applies == [at |-> "keep", release |-> note.staged, old |-> CurrentVersion,
            todo |-> Present]
Busy == \E s \in Stager : stager[s].at # "idle"

\* The archive is unlinked as soon as it has been unpacked.
BeginApply_Consumes ==
  /\ launch.at = "down" /\ ~serving /\ HasStaged /\ Whole(note.staged)
  /\ launch' = Applies /\ meddled' = (meddled \/ Busy)
  /\ archive' = [archive EXCEPT ![note.staged] = Missing]
  /\ UNCHANGED <<manifest, note, stager, source, kept, serving, stops, ops>>

\* The archive is valid and is unpacked elsewhere.  One that is not raises, and
\* the launcher ends: nothing changes, and it is started again.
BeginApply ==
  /\ launch.at = "down" /\ ~serving /\ HasStaged /\ Whole(note.staged)
  /\ launch' = Applies /\ meddled' = (meddled \/ Busy)
  /\ UNCHANGED <<manifest, note, archive, stager, source, kept, serving, stops, ops>>

\* The files as they are go to the directory of the version that is read there.
KeepItem(i) ==
  /\ launch.at = "keep" /\ i \in launch.todo
  /\ kept' = [kept EXCEPT ![launch.old][i] = source[i]]
  /\ launch' = IF launch.todo = {i}
               THEN [launch EXCEPT !.at = "copy", !.todo = Files[launch.release]]
               ELSE [launch EXCEPT !.todo = @ \ {i}]
  /\ UNCHANGED <<manifest, note, archive, stager, source, serving, stops, ops, meddled>>

\* What the archive has takes the place of what is there.
CopyItem(i) ==
  /\ launch.at = "copy" /\ i \in launch.todo
  /\ source' = [source EXCEPT ![i] = launch.release]
  /\ launch' = IF launch.todo = {i} THEN [launch EXCEPT !.at = "unlink", !.todo = {}]
               ELSE [launch EXCEPT !.todo = @ \ {i}]
  /\ UNCHANGED <<manifest, note, archive, stager, kept, serving, stops, ops, meddled>>

\* A copy raises, or the machine goes down.
ApplyFails ==
  /\ launch.at # "down" /\ stops < MaxStops /\ stops' = stops + 1
  /\ launch' = NoApply
  /\ UNCHANGED <<manifest, note, archive, stager, source, kept, serving, ops, meddled>>

UnlinkStaged ==
  /\ launch.at = "unlink"
  /\ archive' = [archive EXCEPT ![launch.release] = Missing]
  /\ launch' = [launch EXCEPT !.at = "note"]
  /\ UNCHANGED <<manifest, note, stager, source, kept, serving, stops, ops, meddled>>

\* The state file is written and the server takes the launcher's place.
FinishApply ==
  /\ launch.at = "note" /\ note' = BlankNote
  /\ launch' = NoApply /\ serving' = TRUE
  /\ UNCHANGED <<manifest, archive, stager, source, kept, stops, ops, meddled>>

StartServer ==
  /\ launch.at = "down" /\ ~serving /\ ~HasStaged /\ serving' = TRUE
  /\ UNCHANGED <<manifest, note, archive, stager, source, kept, launch, stops, ops,
                 meddled>>

-----------------------------------------------------------------------------
StagerStep(s) ==
  \/ RecordCheck(s) \/ OpenTarget(s) \/ ReadChunk(s) \/ DownloadFails(s)
  \/ CheckDigest(s) \/ RecordStaged(s)
Launcher ==
  \/ BeginApply \/ (\E i \in Item : KeepItem(i) \/ CopyItem(i))
  \/ UnlinkStaged \/ FinishApply \/ StartServer

UpdatesNext ==
  \/ \E r \in Release : Announce(r)
  \/ \E s \in Stager : FetchManifest(s) \/ StageKnown(s) \/ StagerStep(s) \/ CommandDies(s)
  \/ ServerStops \/ Launcher \/ ApplyFails

UpdatesSpec == UpdatesInit /\ [][UpdatesNext]_updatesVars

-----------------------------------------------------------------------------
(* Properties.                                                             *)

UpdatesTypeOK ==
  /\ manifest \in Release
  /\ note \in [latest : Release \cup {None}, manifest : Release \cup {None},
               staged : Release \cup {None}]
  /\ archive \in [Release -> (SUBSET Chunks) \cup {Missing}]
  /\ stager \in [Stager -> [at : {"idle", "fetched", "open", "download", "record"},
                            release : Release \cup {None}, wants : {"check", "stage"},
                            sent : {0} \cup Chunks]]
  /\ \A s \in Stager : stager[s].at # "idle" => stager[s].release \in Release
  /\ source \in [Item -> Release \cup {None}] /\ source["VERSION"] \in Release
  /\ kept \in [Release -> [Item -> Release \cup {None}]]
  /\ launch \in [at : {"down", "keep", "copy", "unlink", "note"}, release : Release \cup {None},
                 old : Release \cup {None}, todo : SUBSET Item]
  /\ launch.at # "down" => launch.release \in Release /\ launch.old \in Release
  /\ ops \in 0 .. MaxOps /\ stops \in 0 .. MaxStops

\* Every file of the version the server runs on comes from that version, and what
\* is left over comes from older ones, never from a newer one that was given up:
\* an apply that raised or died half way is taken up again before anything is
\* started, unless a check or a stage has taken away what it was applying.
\* (apply_staged, aiba_launcher.main)
ServedIsOneRelease == serving => OneRelease \/ meddled

\* UPDATES.md:13 of what an apply replaces: the directory of a release under
\* update-backups holds that release, leftovers aside.  (apply_staged)
KeptIsPrevious ==
  \A r \in Release : \A i \in Files[r] : kept[r][i] \in {None, r}
=============================================================================
