------------------------------ MODULE Databases -----------------------------
(***************************************************************************)
(* What happens to the database files as a whole: migrations at the start  *)
(* of every process (operations/migrations.py), backups and restores       *)
(* (operations/backup.py).                                                 *)
(*                                                                         *)
(* Every command builds an agent, so it migrates first and its own worker  *)
(* writes while it backs up or restores.  One file is handled after the    *)
(* other; a process may die in between.                                    *)
(***************************************************************************)
EXTENDS Naturals, Sequences, FiniteSets

CONSTANTS
  Host,           \* processes
  Database,       \* <<name of the first database, ...>>
  Target,         \* how many migrations each of them has
  MaxWrites, MaxBackups, MaxStarts    \* bounds

ASSUME DatabasesAssumption ==
  /\ Database \in Seq(STRING) /\ Database # <<>>
  /\ \A i, j \in DOMAIN Database : Database[i] = Database[j] => i = j
  /\ Target \in [{Database[i] : i \in DOMAIN Database} -> Nat \ {0}]
  /\ {MaxWrites, MaxBackups, MaxStarts} \subseteq Nat

VARIABLES
  rows,           \* versions that schema_migrations of a database lists
  content,        \* what a database holds: the number of the last write
  writes, starts,
  backups,        \* finished backups
  host,           \* what each process does
  outdated,       \* (observation) processes that run on files since replaced
  lost            \* (observation) contents that no backup holds any more

databasesVars == <<rows, content, writes, starts, backups, host, outdated, lost>>

Names == {Database[i] : i \in DOMAIN Database}
Down == [at |-> "down", place |-> 0, seen |-> {}, files |-> <<>>, from |-> <<>>,
         late |-> {}]
FileOf(d) == [rows |-> rows[d], content |-> content[d]]

DatabasesInit ==
  /\ rows \in [Names -> {{}, {1}}] /\ content = [d \in Names |-> 0]
  /\ writes = 0 /\ starts = 0 /\ backups = {}
  /\ host = [h \in Host |-> Down] /\ outdated = {} /\ lost = {}

Does(h, record) == host' = [host EXCEPT ![h] = record]
Current(h) == Database[host[h].place]
AtLast(h) == host[h].place = Len(Database)
Running(h) == host[h].at \notin {"down", "read", "migrate"}

-----------------------------------------------------------------------------
(* MigrationManager.apply, in the constructor of the agent.                *)

StartHost(h) ==
  /\ host[h].at = "down" /\ starts < MaxStarts /\ starts' = starts + 1
  /\ Does(h, [Down EXCEPT !.at = "read", !.place = 1])
  /\ outdated' = outdated \ {h}
  /\ UNCHANGED <<rows, content, writes, backups, lost>>

ReadApplied(h) ==
  /\ host[h].at = "read"
  /\ Does(h, [host[h] EXCEPT !.at = "migrate", !.seen = rows[Current(h)]])
  /\ UNCHANGED <<rows, content, writes, starts, backups, outdated, lost>>

Unapplied(h) == 1 .. Target[Current(h)] \ host[h].seen
Lowest(set) == CHOOSE v \in set : \A w \in set : v <= w

\* An insert that another process was faster with is passed over.
Migrate_Lenient(h) ==
  /\ host[h].at = "migrate" /\ Unapplied(h) # {}
  /\ LET v == Lowest(Unapplied(h)) IN
       IF v \in rows[Current(h)]
       THEN Does(h, [host[h] EXCEPT !.seen = 1 .. Target[Current(h)]]) /\ UNCHANGED rows
       ELSE /\ rows' = [rows EXCEPT ![Current(h)] = @ \cup {v}]
            /\ Does(h, [host[h] EXCEPT !.seen = @ \cup {v}])
  /\ UNCHANGED <<content, writes, starts, backups, outdated, lost>>

\* One transaction per version.  If another process was faster its row is in
\* the way, and the agent is not built.
Migrate(h) ==
  /\ host[h].at = "migrate" /\ Unapplied(h) # {}
  /\ LET v == Lowest(Unapplied(h)) IN
       IF v \in rows[Current(h)] THEN Does(h, Down) /\ UNCHANGED rows
       ELSE /\ rows' = [rows EXCEPT ![Current(h)] = @ \cup {v}]
            /\ Does(h, [host[h] EXCEPT !.seen = @ \cup {v}])
  /\ UNCHANGED <<content, writes, starts, backups, outdated, lost>>

NextDatabase(h) ==
  /\ host[h].at = "migrate" /\ Unapplied(h) = {}
  /\ Does(h, IF AtLast(h) THEN [Down EXCEPT !.at = "up"]
             ELSE [host[h] EXCEPT !.at = "read", !.place = @ + 1, !.seen = {}])
  /\ UNCHANGED <<rows, content, writes, starts, backups, outdated, lost>>

\* Any part of the agent writes; a copy that was made before is late then.
Write(h, d) ==
  /\ Running(h) /\ writes < MaxWrites /\ writes' = writes + 1
  /\ content' = [content EXCEPT ![d] = writes + 1]
  /\ host' = [k \in Host |-> [host[k] EXCEPT !.late = @ \cup {d}]]
  /\ UNCHANGED <<rows, starts, backups, outdated, lost>>

-----------------------------------------------------------------------------
(* BackupManager: create, restore.                                         *)

BeginCreate(h) ==
  /\ host[h].at = "up" /\ Cardinality(backups) < MaxBackups
  /\ Does(h, [Down EXCEPT !.at = "create", !.place = 1])
  /\ UNCHANGED <<rows, content, writes, starts, backups, outdated, lost>>

\* Replacing begins at once.
BeginRestore_Bold(h, b) ==
  /\ host[h].at = "up" /\ b \in backups /\ Cardinality(backups) < MaxBackups
  /\ Does(h, [Down EXCEPT !.at = "replace", !.place = 1, !.from = b])
  /\ UNCHANGED <<rows, content, writes, starts, backups, outdated, lost>>

\* The backup is verified, and a safety backup begins.
BeginRestore(h, b) ==
  /\ host[h].at = "up" /\ b \in backups /\ Cardinality(backups) < MaxBackups
  /\ Does(h, [Down EXCEPT !.at = "create", !.place = 1, !.from = b])
  /\ UNCHANGED <<rows, content, writes, starts, backups, outdated, lost>>

\* One database is copied into a directory of its own, which gets its name
\* when all are there.
CopyDatabase(h) ==
  LET d == Current(h)
      files == Append(host[h].files, FileOf(d))
  IN /\ host[h].at = "create"
     /\ Does(h, IF ~AtLast(h)
                THEN [host[h] EXCEPT !.place = @ + 1, !.files = files, !.late = @ \ {d}]
                ELSE IF host[h].from = <<>> THEN [Down EXCEPT !.at = "up"]
                ELSE [host[h] EXCEPT !.at = "replace", !.place = 1, !.late = @ \ {d}])
     /\ backups' = IF AtLast(h) THEN backups \cup {files} ELSE backups
     /\ UNCHANGED <<rows, content, writes, starts, outdated, lost>>

Held(d, value) ==
  \E b \in backups, i \in 1 .. Len(Database) : Database[i] = d /\ b[i].content = value

ReplaceDatabase(h) ==
  LET d == Current(h)
      file == host[h].from[host[h].place]
  IN /\ host[h].at = "replace"
     /\ rows' = [rows EXCEPT ![d] = file.rows]
     /\ content' = [content EXCEPT ![d] = file.content]
     /\ lost' = IF Held(d, content[d]) \/ d \in host[h].late THEN lost ELSE lost \cup {d}
     /\ outdated' = outdated \cup {k \in Host : host[k].at # "down"}
     /\ Does(h, IF AtLast(h) THEN Down ELSE [host[h] EXCEPT !.place = @ + 1])
     /\ UNCHANGED <<writes, starts, backups>>

HostEnds(h) ==
  /\ host[h].at # "down" /\ Does(h, Down)
  /\ UNCHANGED <<rows, content, writes, starts, backups, outdated, lost>>

DatabasesNext ==
  \E h \in Host :
    \/ StartHost(h) \/ ReadApplied(h) \/ Migrate(h) \/ NextDatabase(h)
    \/ \E d \in Names : Write(h, d)
    \/ BeginCreate(h) \/ (\E b \in backups : BeginRestore(h, b))
    \/ CopyDatabase(h) \/ ReplaceDatabase(h) \/ HostEnds(h)

DatabasesSpec == DatabasesInit /\ [][DatabasesNext]_databasesVars

-----------------------------------------------------------------------------
(* Properties.                                                             *)

FileRecord == [rows : SUBSET Nat, content : Nat]
HostRecord(kept) ==
  [at : {"down", "read", "migrate", "up", "create", "replace"}, place : 0 .. Len(Database),
   seen : SUBSET Nat, files : Seq(FileRecord), from : {<<>>} \cup kept, late : SUBSET Names]

\* Files copied so far, from the first database on, when n was the last write.
FilesFit(files, n) ==
  /\ files \in Seq(FileRecord) /\ Len(files) <= Len(Database)
  /\ \A i \in 1 .. Len(files) :
       files[i].rows \subseteq 1 .. Target[Database[i]] /\ files[i].content <= n

HostFits(record, kept, n) ==
  /\ record \in HostRecord(kept)
  /\ record.at \in {"read", "migrate", "create", "replace"} => record.place > 0
  /\ record.at = "replace" => record.from # <<>>
  /\ record.at = "create" =>
       FilesFit(record.files, n) /\ Len(record.files) = record.place - 1

DatabasesTypeOK ==
  /\ rows \in [Names -> SUBSET Nat] /\ content \in [Names -> Nat]
  /\ \A d \in Names : rows[d] \subseteq 1 .. Target[d] /\ content[d] <= writes
  /\ \A b \in backups : FilesFit(b, writes) /\ Len(b) = Len(Database)
  /\ host \in [Host -> HostRecord(backups)]
  /\ \A h \in Host : HostFits(host[h], backups, writes)
  /\ outdated \subseteq Host /\ lost \subseteq Names
  /\ writes \in 0 .. MaxWrites /\ starts \in 0 .. MaxStarts

\* A process that serves has every database at its target version, although
\* processes migrate at the same time, die between two migrations, and restores
\* bring old versions back; unless its files were replaced under it.
\* (MigrationManager.apply, restore)
ServedIsMigrated ==
  \A h \in Host \ outdated : Running(h) => \A d \in Names : rows[d] = 1 .. Target[d]

\* What a restore replaces is in some backup, though the restore, or one before
\* it, stopped half way; only what is written after the safety backup has copied
\* the database is not.  (restore)
RestoreCanBeUndone == lost = {}

\* Whatever is migrated, backed up and restored beside each other, what is
\* served has its schema and what is replaced has a copy.
DatabasesAreKept == ServedIsMigrated /\ RestoreCanBeUndone
=============================================================================
