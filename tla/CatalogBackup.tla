---------------------------- MODULE CatalogBackup ----------------------------
(***************************************************************************)
(* catalog:backup, run by several processes beside writers of the          *)
(* catalogue, on a file system that loses what was not flushed when the    *)
(* power goes: the entries of the backup directory and the contents of its *)
(* files are flushed separately.                                           *)
(***************************************************************************)
EXTENDS Integers, FiniteSets

CONSTANTS Backup,           \* the processes that make a backup, each in its file
          Final,            \* the names of backups
          Requests,         \* the file names that operators ask for
          None,
          MaxRevision       \* bound: changes of the catalogue during the backups

(* How a backup ends without one.                                          *)
Failures == {"SOURCE_NOT_FOUND", "INVALID_FILE_NAME", "DESTINATION_EXISTS", "COPY",
             "INTEGRITY_FAILED", "DURABILITY_FAILED", "EEXIST", "ROLLBACK_FAILED"}

BackupAssumption ==
  /\ None \notin Backup \cup Final \cup Failures \cup {"backed_up"}
  /\ MaxRevision \in Nat

VARIABLES revision,    \* the content of the catalogue
          catalogue,   \* whether it is there, and its verification finds an issue
          data,        \* the content of each temporary file
          flushed,     \* the files whose content is on the disk
          entries,     \* the backup directory: final name -> file
          onDisk,      \* what a power loss leaves of it
          temporary,   \* the suffixes there are of each temporary name
          step, name, failure,
          answers      \* what each process has told its operator

backupVars == <<revision, catalogue, data, flushed, entries, onDisk, temporary, step, name,
                failure, answers>>

files == <<data, flushed, entries, onDisk, temporary>>

(* The database, and what SQLite has beside it while it writes.            *)
Suffix == {"database", "journal"}
Whole == {[revision |-> r] : r \in 0..MaxRevision}
Partial == [revision |-> -1]
Lost == [revision |-> -2]

BackupInit ==
  /\ revision = 0
  /\ catalogue \in {"sound", "damaged", "missing"}
  /\ data = [b \in Backup |-> Partial]
  /\ flushed = {}
  /\ entries = [f \in Final |-> None]
  /\ onDisk = entries
  /\ temporary = [b \in Backup |-> {}]
  /\ step = [b \in Backup |-> "idle"]
  /\ name = [b \in Backup |-> None]
  /\ failure = [b \in Backup |-> None]
  /\ answers = [b \in Backup |-> None]

(* A base name of letters, digits, dots and dashes that ends in .db.       *)
IsValidName(request) == request \in Final

Answer(b, told) ==
  /\ step' = [step EXCEPT ![b] = "done"]
  /\ answers' = [answers EXCEPT ![b] = told]

Refusal(request) ==
  IF catalogue = "missing" THEN "SOURCE_NOT_FOUND"
  ELSE IF ~IsValidName(request) THEN "INVALID_FILE_NAME"
  ELSE IF entries[request] # None THEN "DESTINATION_EXISTS"
  ELSE None

(* The name is checked and not taken yet, and the copy begins.             *)
Run(b) ==
  /\ step[b] = "idle"
  /\ \E request \in Requests :
       \/ /\ Refusal(request) = None
          /\ name' = [name EXCEPT ![b] = request]
          /\ temporary' = [temporary EXCEPT ![b] = Suffix]
          /\ step' = [step EXCEPT ![b] = "copy"]
          /\ UNCHANGED answers
       \/ /\ Refusal(request) # None
          /\ Answer(b, Refusal(request))
          /\ UNCHANGED <<name, temporary>>
  /\ UNCHANGED <<revision, catalogue, data, flushed, entries, onDisk, failure>>

(* The finally of run: whatever happened, the temporary files are removed. *)
Fail(b, why) ==
  /\ failure' = [failure EXCEPT ![b] = why]
  /\ step' = [step EXCEPT ![b] = "cleanup"]
  /\ UNCHANGED <<revision, catalogue, name, answers>>

Goes(b, to) ==
  /\ step' = [step EXCEPT ![b] = to]
  /\ UNCHANGED <<revision, catalogue, name, failure, answers>>

(* SQLite copies pages and starts again when another process writes: what  *)
(* it has at the end is the catalogue of that moment.                      *)
Copy(b) ==
  /\ step[b] = "copy"
  /\ \/ /\ data' = [data EXCEPT ![b] = [revision |-> revision]]
        /\ temporary' = [temporary EXCEPT ![b] = {"database"}]
        /\ Goes(b, "verify")
     \/ /\ Fail(b, "COPY")
        /\ UNCHANGED <<data, temporary>>
  /\ UNCHANGED <<flushed, entries, onDisk>>

VerifySnapshot(b) ==
  /\ step[b] = "verify"
  /\ \/ catalogue = "sound" /\ Goes(b, "sync")
     \/ catalogue = "damaged" /\ Fail(b, "INTEGRITY_FAILED")
  /\ UNCHANGED files

Synced(b, to) ==
  /\ flushed' = flushed \cup {b}
  /\ Goes(b, to)
  /\ UNCHANGED <<data, entries, onDisk, temporary>>

(* The content is flushed before the file gets its public name.            *)
SyncFile(b) ==
  /\ step[b] = "sync"
  /\ \/ Synced(b, "link")
     \/ Fail(b, "DURABILITY_FAILED") /\ UNCHANGED files

(* The hard link is atomic, and fails when the name was taken meanwhile.   *)
Link(b) ==
  /\ step[b] = "link"
  /\ \/ /\ entries[name[b]] = None
        /\ entries' = [entries EXCEPT ![name[b]] = b]
        /\ Goes(b, "syncFinal")
        /\ UNCHANGED <<data, flushed, onDisk, temporary>>
     \/ /\ entries[name[b]] # None
        /\ Fail(b, "EEXIST")
        /\ UNCHANGED files

SyncFinal(b) ==
  /\ step[b] = "syncFinal"
  /\ \/ Synced(b, "syncDirectory")
     \/ Goes(b, "rollback") /\ UNCHANGED files

(* The hard link is taken for the commit.                                  *)
SyncNoDirectory(b) ==
  /\ step[b] = "syncDirectory"
  /\ Goes(b, "cleanup")
  /\ UNCHANGED files

(* A flush of the directory puts all its entries on the disk.              *)
SyncDirectory(b) ==
  /\ step[b] = "syncDirectory"
  /\ \/ /\ onDisk' = entries
        /\ Goes(b, "cleanup")
        /\ UNCHANGED <<data, flushed, entries, temporary>>
     \/ Goes(b, "rollback") /\ UNCHANGED files

(* The public name is withdrawn, and the withdrawal flushed.               *)
RollbackPublication(b) ==
  /\ step[b] = "rollback"
  /\ \/ /\ entries' = [entries EXCEPT ![name[b]] = None]
        /\ Goes(b, "syncRollback")
        /\ UNCHANGED <<data, flushed, onDisk, temporary>>
     \/ Fail(b, "ROLLBACK_FAILED") /\ UNCHANGED files

SyncRollback(b) ==
  /\ step[b] = "syncRollback"
  /\ \/ /\ onDisk' = entries
        /\ Fail(b, "DURABILITY_FAILED")
        /\ UNCHANGED <<data, flushed, entries, temporary>>
     \/ Fail(b, "ROLLBACK_FAILED") /\ UNCHANGED files

(* Each file of the temporary family is removed, or given up after so many *)
(* attempts, which changes nothing of the answer.                          *)
CleanupTemporaryFamily(b) ==
  /\ step[b] = "cleanup"
  /\ \E left \in SUBSET temporary[b] : temporary' = [temporary EXCEPT ![b] = left]
  /\ Answer(b, IF failure[b] = None THEN "backed_up" ELSE failure[b])
  /\ UNCHANGED <<revision, catalogue, data, flushed, entries, onDisk, name, failure>>

(* The process ends: its temporary files stay.                             *)
Crash(b) ==
  /\ step[b] \notin {"idle", "done"}
  /\ step' = [step EXCEPT ![b] = "done"]
  /\ UNCHANGED <<revision, catalogue, files, name, failure, answers>>

(* Of what was not flushed, any part is left.                              *)
PowerLoss ==
  /\ step' = [b \in Backup |-> "done"]
  /\ \E kept \in [Final -> BOOLEAN] :
       entries' = [f \in Final |-> IF kept[f] THEN entries[f] ELSE onDisk[f]]
  /\ onDisk' = entries'
  /\ \E survivors \in SUBSET (Backup \ flushed) :
       data' = [b \in Backup |-> IF b \in flushed \cup survivors THEN data[b] ELSE Lost]
  /\ flushed' = Backup
  /\ UNCHANGED <<revision, catalogue, temporary, name, failure, answers>>

(* Another process writes the catalogue.                                   *)
Write ==
  /\ revision < MaxRevision
  /\ revision' = revision + 1
  /\ UNCHANGED <<catalogue, files, step, name, failure, answers>>

BackupNext ==
  \/ \E b \in Backup :
       \/ Run(b) \/ Copy(b) \/ VerifySnapshot(b) \/ SyncFile(b) \/ Link(b)
       \/ SyncFinal(b) \/ SyncDirectory(b) \/ RollbackPublication(b) \/ SyncRollback(b)
       \/ CleanupTemporaryFamily(b) \/ Crash(b)
  \/ PowerLoss
  \/ Write

-----------------------------------------------------------------------------
(* What has the name of a backup is a whole and verified snapshot, at      *)
(* every moment and after a power loss at any moment.                      *)
BackupsAreWhole ==
  \A f \in Final : entries[f] # None => data[entries[f]] \in Whole /\ catalogue = "sound"

(* A backup that was reported survives every failure that follows, and one *)
(* that was reported as failed has no public name, unless it was reported  *)
(* that its withdrawal could not be certified.                             *)
AnswersAreKept ==
  \A b \in Backup :
    /\ answers[b] = "backed_up" => entries[name[b]] = b
    /\ answers[b] \notin {None, "backed_up", "ROLLBACK_FAILED"} =>
         \A f \in Final : entries[f] # b
=============================================================================
